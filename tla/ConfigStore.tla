------------------------------ MODULE ConfigStore ------------------------------
(***************************************************************************)
(* The ConfigManager of src/core/config.rs: layers loaded from files, text *)
(* and the environment, values set and removed, watchers, validators, save *)
(* and reload.  A configuration is a JSON value: here a function from the  *)
(* paths that exist in it to what is there, a scalar or Obj, an object;    *)
(* <<>> is the whole.  No lock is held from one action to the next.        *)
(***************************************************************************)
EXTENDS Naturals, Sequences, SequencesExt, FiniteSets

CONSTANTS Words, Scalars, \* what paths are made of, and what is at their ends
          ConfigTasks,    \* callers of the manager
          MaxConfigCalls, \* bound: calls, and files damaged, in all
          Obj, Null,      \* an object; JSON's null, and what a missing value reads as
          InitialDisk,    \* what each file holds: a configuration, Missing or Garbled
          Missing, Garbled,
          Texts,          \* texts for load_from_str
          SourceArgs,     \* pairs of a file and a source for load_from_file_with_source
          PathArgs,       \* lists of files for load_from_paths
          LayerArgs,      \* defaults, system file and user file for load_layered
          Variables,      \* the environment: pairs of a name, as its words, and a scalar
          Settings,       \* pairs of a path and a scalar for set()
          Removals,       \* paths for remove()
          WatchOf,        \* the path of each watcher
          Refused         \* what the validator of each path refuses

Watchers == DOMAIN WatchOf
ConfigFiles == DOMAIN InitialDisk
Sources == {"Default", "System", "User", "Environment"}

\* A key that is split at its dots has one word at least.
Keys == Seq(Words) \ {<<>>}

\* What is below a value is below an object.
IsTree(tree) ==
    \A q \in DOMAIN tree :
        /\ q \in Seq(Words) /\ tree[q] \in Scalars \cup {Obj}
        /\ \A p \in Prefixes(q) : p \in DOMAIN tree /\ (p # q => tree[p] = Obj)

ASSUME ConfigStoreAssumption ==
    /\ \A f \in ConfigFiles : InitialDisk[f] \in {Missing, Garbled} \/ IsTree(InitialDisk[f])
    /\ \A x \in Texts : x = Garbled \/ IsTree(x)
    /\ SourceArgs \subseteq ConfigFiles \X Sources /\ PathArgs \subseteq Seq(ConfigFiles)
    /\ \A x \in LayerArgs : IsTree(x[1]) /\ x[2] \in ConfigFiles /\ x[3] \in ConfigFiles
    /\ IsFiniteSet(Variables)
    /\ \A x \in Variables \cup Settings : x[1] \in Keys /\ x[2] \in Scalars
    /\ Removals \subseteq Keys /\ DOMAIN Refused \subseteq Keys
    /\ \A w \in Watchers : WatchOf[w] \in Keys

VARIABLES config, sourcePaths, savePath, disk,
          watching,   \* watchers that are registered
          known,      \* what each was told last, or saw when it registered
          validators, \* paths that have a validator
          hotReload,
          call,       \* what each task is doing
          configCalls,
          hushed,     \* watchers whose value a reload took away without telling them
          unchecked   \* validated paths that were changed past their validator

configVars == <<config, sourcePaths, savePath, disk, watching, known, validators,
                hotReload, call, configCalls, hushed, unchecked>>
watchVars == <<watching, known, hushed>>
checkVars == <<validators, unchecked>>
fileVars == <<sourcePaths, savePath, disk>>

--------------------------------------------------------------------------------
(* Configurations.                                                         *)
Scalar(v) == [p \in {<<>>} |-> v]
EmptyConfig == Scalar(Obj)

Below(tree, p) == {q \in DOMAIN tree : IsPrefix(p, q)}
Lookup(tree, p) ==
    IF p \notin DOMAIN tree THEN Scalar(Null)
    ELSE [s \in {SubSeq(q, Len(p) + 1, Len(q)) : q \in Below(tree, p)} |-> tree[p \o s]]

\* Objects are merged key by key; anything else replaces what was there.
DeepMerge(target, source) ==
    [q \in DOMAIN source \cup
           {q \in DOMAIN target :
               \A p \in DOMAIN source : IsPrefix(p, q) => source[p] = Obj}
       |-> IF q \in DOMAIN source THEN source[q] ELSE target[q]]

\* Objects are made on the way; where a scalar stands in the way nothing is set.
SetNested(tree, p, v) ==
    IF \E q \in DOMAIN tree : IsStrictPrefix(q, p) /\ tree[q] # Obj THEN tree
    ELSE [q \in (DOMAIN tree \ Below(tree, p)) \cup Prefixes(p)
            |-> IF q = p THEN v ELSE IF q \in DOMAIN tree THEN tree[q] ELSE Obj]

RemoveKey(tree, p) == [q \in DOMAIN tree \ Below(tree, p) |-> tree[q]]

\* Every underscore in a variable's name becomes a dot.
EnvPath(words) == words

\* The variables come in any order.
EnvTree(order) ==
    FoldLeft(LAMBDA tree, x : SetNested(tree, EnvPath(x[1]), x[2]), EmptyConfig, order)
EnvTrees == {EnvTree(order) : order \in SetToSeqs(Variables)}

--------------------------------------------------------------------------------
(* Calls.  A call that loads goes through its steps one by one.            *)
FileStep(f, s, optional) == [kind |-> "file", file |-> f, source |-> s, optional |-> optional]
TextStep(x) == [kind |-> "text", text |-> x]
DefaultStep(x) == [kind |-> "default", text |-> x]
EnvStep == [kind |-> "env"]

NoCall == [place |-> "idle", steps |-> <<>>, content |-> EmptyConfig, old |-> EmptyConfig,
           changed |-> <<>>, alone |-> TRUE, copied |-> <<>>]

ConfigInit ==
    /\ config = EmptyConfig /\ sourcePaths = <<>> /\ savePath = Missing
    /\ disk = InitialDisk
    /\ watching = {} /\ hushed = {}
    /\ known = [w \in Watchers |-> Scalar(Null)]
    /\ validators = {} /\ unchecked = {}
    /\ hotReload = FALSE
    /\ call = [t \in ConfigTasks |-> NoCall]
    /\ configCalls = 0

OneMore == configCalls < MaxConfigCalls /\ configCalls' = configCalls + 1

\* A new call of an idle task.
Calls(t, c) ==
    /\ call[t].place = "idle" /\ OneMore
    /\ call' = [call EXCEPT ![t] = c]

\* t goes on as c, and the others are not alone any more.
Meddles(t, c) ==
    call' = [u \in ConfigTasks |-> IF u = t THEN c ELSE [call[u] EXCEPT !.alone = FALSE]]

Loads(t, steps) ==
    /\ Calls(t, [NoCall EXCEPT !.place = "next", !.steps = steps])
    /\ UNCHANGED <<config, fileVars, watchVars, checkVars, hotReload>>

LoadFromFile(t) ==
    \E x \in SourceArgs : Loads(t, <<FileStep(x[1], x[2], FALSE)>>)
LoadFromPaths(t) ==
    \E fs \in PathArgs :
        Loads(t, [i \in DOMAIN fs |-> FileStep(fs[i], "User", TRUE)])
LoadFromStr(t) == \E x \in Texts : Loads(t, <<TextStep(x)>>)
LoadFromEnvironment(t) == Loads(t, <<EnvStep>>)
LoadLayered(t) ==
    \E x \in LayerArgs :
        Loads(t, <<DefaultStep(x[1]), FileStep(x[2], "System", TRUE),
                   FileStep(x[3], "User", TRUE), EnvStep>>)

\* A value set to a path reaches as far as the path is comparable.
Reached(c) == {p \in validators : IsPrefix(p, c) \/ IsPrefix(c, p)}

Changes(t, p, tree) ==
    /\ call[t].place = "idle" /\ OneMore
    /\ config' = tree
    /\ unchecked' = unchecked \cup Reached(p)
    /\ Meddles(t, [NoCall EXCEPT !.place = "notify", !.old = config, !.changed = p])
    /\ UNCHANGED <<fileVars, watchVars, validators, hotReload>>

\* SetValue and RemoveValue give the configuration back before they notify.
SetValue(t) == \E x \in Settings : Changes(t, x[1], SetNested(config, x[1], x[2]))
RemoveValue(t) == \E p \in Removals : Changes(t, p, RemoveKey(config, p))

Reload(t) ==
    /\ Calls(t, [NoCall EXCEPT
                   !.place = "clear", !.copied = sourcePaths,
                   !.steps = [i \in DOMAIN sourcePaths |->
                                 FileStep(sourcePaths[i][1], sourcePaths[i][2], TRUE)]
                             \o <<EnvStep>>])
    /\ UNCHANGED <<config, fileVars, watchVars, checkVars, hotReload>>

\* Nobody is told.
Clear(t) ==
    /\ call[t].place = "clear"
    /\ config' = EmptyConfig
    /\ hushed' = hushed \cup {w \in watching : Lookup(config, WatchOf[w]) #
                                               Lookup(EmptyConfig, WatchOf[w])}
    /\ Meddles(t, [call[t] EXCEPT !.place = "next"])
    /\ UNCHANGED <<fileVars, watching, known, checkVars, hotReload, configCalls>>

--------------------------------------------------------------------------------
(* The steps of a call that loads.                                         *)
Step(t) == Head(call[t].steps)
HasStep(t, kind) ==
    call[t].place = "next" /\ call[t].steps # <<>> /\ Step(t).kind = kind

Moves(t, c) ==
    /\ call' = [call EXCEPT ![t] = c]
    /\ UNCHANGED <<config, fileVars, watchVars, checkVars, hotReload, configCalls>>

Fails(t) == Moves(t, NoCall)
StepDone(c) == [NoCall EXCEPT !.place = "next", !.steps = Tail(c.steps),
                              !.alone = c.alone, !.copied = c.copied]

ReadFile(t) ==
    /\ HasStep(t, "file")
    /\ LET content == disk[Step(t).file] IN
       \/ content = Missing /\ Step(t).optional /\ Moves(t, StepDone(call[t]))
       \* It was there when the caller asked whether it exists, or is not asked for.
       \/ content = Missing /\ (Step(t).optional => ~call[t].alone) /\ Fails(t)
       \/ content = Garbled /\ Fails(t)
       \/ /\ content \notin {Missing, Garbled}
          /\ Moves(t, [call[t] EXCEPT !.place = "validate", !.content = content])

ReadText(t) ==
    /\ HasStep(t, "text")
    /\ \/ Step(t).text = Garbled /\ Fails(t)
       \/ /\ Step(t).text # Garbled
          /\ Moves(t, [call[t] EXCEPT !.place = "validate", !.content = Step(t).text])

\* Neither the defaults nor the environment are validated.
ReadDefault(t) ==
    /\ HasStep(t, "default")
    /\ Moves(t, [call[t] EXCEPT !.place = "merge", !.content = Step(t).text])

ReadEnvironment(t) ==
    /\ HasStep(t, "env")
    /\ \E env \in EnvTrees :
          IF env = EmptyConfig THEN Moves(t, StepDone(call[t]))
          ELSE Moves(t, [call[t] EXCEPT !.place = "merge", !.content = env])

Rejected(p, tree) == p \in DOMAIN tree /\ Lookup(tree, p) \in Refused[p]

\* Mutant: the validators see the configuration as it was before.
ValidateStore(t) ==
    /\ call[t].place = "validate"
    /\ IF \E p \in validators : Rejected(p, config) THEN Fails(t)
       ELSE Moves(t, [call[t] EXCEPT !.place = "merge"])

\* The validators see what is loaded, not what it will be merged into.
Validate(t) ==
    /\ call[t].place = "validate"
    /\ IF \E p \in validators : Rejected(p, call[t].content) THEN Fails(t)
       ELSE Moves(t, [call[t] EXCEPT !.place = "merge"])

PastValidator(t, p) ==
    /\ p \in DOMAIN call[t].content
    /\ \/ Step(t).kind \in {"default", "env"}
       \/ Lookup(DeepMerge(config, call[t].content), p) # Lookup(call[t].content, p)

MergeConfig(t) ==
    /\ call[t].place = "merge"
    /\ config' = DeepMerge(config, call[t].content)
    /\ unchecked' = unchecked \cup {p \in validators : PastValidator(t, p)}
    /\ Meddles(t, [call[t] EXCEPT !.place = "notify", !.content = EmptyConfig, !.old = config])
    /\ UNCHANGED <<fileVars, watchVars, validators, hotReload, configCalls>>

\* Mutant: only watchers of what is above the change.
WatchesAbove(w, p) == IsPrefix(WatchOf[w], p)

Watches(w, p) == IsPrefix(WatchOf[w], p) \/ IsPrefix(p, WatchOf[w])

\* The new value is the one that is there by now, whoever set it.
Told(t) ==
    {w \in watching : /\ Watches(w, call[t].changed)
                      /\ Lookup(call[t].old, WatchOf[w]) # Lookup(config, WatchOf[w])}

NotifyChanges(t) ==
    /\ call[t].place = "notify"
    /\ known' = [w \in Watchers |->
                    IF w \in Told(t) THEN Lookup(config, WatchOf[w]) ELSE known[w]]
    /\ hushed' = hushed \ Told(t)
    /\ call' = [call EXCEPT ![t] =
                   IF call[t].steps = <<>> THEN NoCall
                   ELSE IF Step(t).kind = "file" THEN [call[t] EXCEPT !.place = "record"]
                   ELSE StepDone(call[t])]
    /\ UNCHANGED <<config, fileVars, watching, checkVars, hotReload, configCalls>>

RecordPath(t) ==
    /\ call[t].place = "record"
    /\ sourcePaths' = Append(sourcePaths, <<Step(t).file, Step(t).source>>)
    /\ savePath' = IF Step(t).source = "User" THEN Step(t).file ELSE savePath
    /\ Meddles(t, StepDone(call[t]))
    /\ UNCHANGED <<config, disk, watchVars, checkVars, hotReload, configCalls>>

Return(t) ==
    /\ call[t].place = "next" /\ call[t].steps = <<>>
    /\ Moves(t, NoCall)

--------------------------------------------------------------------------------
(* The rest of the interface.                                              *)
Save(t) ==
    /\ call[t].place = "idle" /\ OneMore
    /\ \E f \in ConfigFiles \cup {Missing} :
          LET to == IF f = Missing THEN savePath ELSE f IN
          /\ to # Missing
          /\ \/ disk' = [disk EXCEPT ![to] = config]
             \/ disk' = [disk EXCEPT ![to] = Garbled]
    /\ Meddles(t, NoCall)
    /\ UNCHANGED <<config, sourcePaths, savePath, watchVars, checkVars, hotReload>>

OnChange(w) ==
    /\ w \notin watching /\ OneMore
    /\ watching' = watching \cup {w}
    /\ known' = [known EXCEPT ![w] = Lookup(config, WatchOf[w])]
    /\ UNCHANGED <<config, fileVars, hushed, checkVars, hotReload, call>>

StopsWatching(ws) ==
    /\ OneMore
    /\ watching' = watching \ ws /\ hushed' = hushed \ ws
    /\ UNCHANGED <<config, fileVars, known, checkVars, hotReload, call>>

OffChange(w) == w \in watching /\ StopsWatching({w})
OffChangeAll(p) ==
    /\ \E w \in watching : WatchOf[w] = p
    /\ StopsWatching({w \in watching : WatchOf[w] = p})

\* What was loaded before is not looked at, nor what has passed the others already.
AddValidator(p) ==
    /\ p \notin validators /\ OneMore
    /\ validators' = validators \cup {p}
    /\ unchecked' = IF \/ Rejected(p, config)
                       \/ \E t \in ConfigTasks :
                             call[t].place = "merge" /\ p \in DOMAIN call[t].content
                    THEN unchecked \cup {p} ELSE unchecked
    /\ UNCHANGED <<config, fileVars, watchVars, hotReload, call>>

RemoveValidator(p) ==
    /\ p \in validators /\ OneMore
    /\ validators' = validators \ {p} /\ unchecked' = unchecked \ {p}
    /\ UNCHANGED <<config, fileVars, watchVars, hotReload, call>>

\* The flag of a skeleton: nothing reads it.
ToggleHotReload ==
    /\ OneMore /\ hotReload' = ~hotReload
    /\ UNCHANGED <<config, fileVars, watchVars, checkVars, call>>

\* Somebody removes a file or spoils it.
Damage(f) ==
    /\ disk[f] \notin {Missing, Garbled} /\ OneMore
    /\ \E x \in {Missing, Garbled} : disk' = [disk EXCEPT ![f] = x]
    /\ call' = [t \in ConfigTasks |-> [call[t] EXCEPT !.alone = FALSE]]
    /\ UNCHANGED <<config, sourcePaths, savePath, watchVars, checkVars, hotReload>>

ConfigCall(t) ==
    \/ LoadFromFile(t) \/ LoadFromPaths(t) \/ LoadFromStr(t) \/ LoadFromEnvironment(t)
    \/ LoadLayered(t) \/ SetValue(t) \/ RemoveValue(t) \/ Reload(t) \/ Save(t)
ConfigStep(t) ==
    \/ Clear(t) \/ ReadFile(t) \/ ReadText(t) \/ ReadDefault(t) \/ ReadEnvironment(t)
    \/ Validate(t) \/ MergeConfig(t) \/ NotifyChanges(t) \/ RecordPath(t) \/ Return(t)

ConfigNext ==
    \/ \E t \in ConfigTasks : ConfigCall(t) \/ ConfigStep(t)
    \/ \E w \in Watchers : OnChange(w) \/ OffChange(w) \/ OffChangeAll(WatchOf[w])
    \/ \E p \in DOMAIN Refused : AddValidator(p) \/ RemoveValidator(p)
    \/ ToggleHotReload
    \/ \E f \in ConfigFiles : Damage(f)

ConfigSpec == ConfigInit /\ [][ConfigNext]_configVars

--------------------------------------------------------------------------------
\* The configuration is a tree, and so is each that is on its way into it.
ConfigTypeOK ==
    /\ IsTree(config) /\ \A t \in ConfigTasks : IsTree(call[t].content)
    /\ watching \subseteq Watchers /\ hushed \subseteq watching
    /\ validators \subseteq DOMAIN Refused /\ unchecked \subseteq validators
    /\ savePath \in ConfigFiles \cup {Missing}
    /\ \A t \in ConfigTasks :
          call[t].place \in {"idle", "clear", "next", "validate", "merge", "notify", "record"}

\* Whenever no call is between its change and its notifications, each watcher was told last
\* what it would read now: of two changes at once, both tell what is there.  Only a reload
\* takes values away without telling anybody.
WatchersUpToDate ==
    (\A t \in ConfigTasks : call[t].place # "notify") =>
        \A w \in watching \ hushed : known[w] = Lookup(config, WatchOf[w])

\* What a validator would refuse is not there, unless it came past it: by set(), remove(),
\* the defaults or the environment, or as parts of which each was accepted by itself, or
\* with a load that had been validated before the validator came.
ValidatorsHold ==
    \A p \in validators \ unchecked : ~Rejected(p, config)

Source(x) == disk[x[1]]

\* What the first k of the files that are still there make, one over the other, and the
\* list of files once they have been loaded again.
Rebuilt(xs) ==
    LET f[k \in 0..Len(xs)] ==
          IF k = 0 THEN EmptyConfig
          ELSE IF Source(xs[k]) = Missing THEN f[k - 1]
          ELSE DeepMerge(f[k - 1], Source(xs[k]))
    IN  f
Recorded(xs) ==
    LET f[k \in 0..Len(xs)] ==
          IF k = 0 THEN xs
          ELSE IF Source(xs[k]) = Missing THEN f[k - 1]
          ELSE Append(f[k - 1], xs[k])
    IN  f

\* A reload that nobody meddled with leaves exactly the files that are still there, one over
\* the other in the order of their first loads, and the environment over them: what had
\* been set, given as text or as a default is gone.  It has doubled the list of files.
ReloadRebuilds ==
    \A t \in ConfigTasks :
        (call[t].place = "next" /\ call[t].steps = <<>> /\ call[t].copied # <<>> /\ call[t].alone) =>
            LET files == Rebuilt(call[t].copied)[Len(call[t].copied)]
            IN /\ \E env \in EnvTrees :
                      config = IF env = EmptyConfig THEN files ELSE DeepMerge(files, env)
               /\ sourcePaths = Recorded(call[t].copied)[Len(call[t].copied)]

\* What loads and reloads leave behind, with the types.
LoadsHold == ConfigTypeOK /\ ValidatorsHold /\ ReloadRebuilds
================================================================================
