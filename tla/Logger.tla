--------------------------------- MODULE Logger --------------------------------
(***************************************************************************)
(* src/utils/logger.rs: Logger::init by tasks of one process.  It looks at *)
(* LOGGER_INITIALIZED, starts a writer for each layer, tries to install    *)
(* the subscriber of the process, and only then sets LOGGER_INITIALIZED:   *)
(* between the look and the set any other call, and the init_logging of    *)
(* src/main.rs, may install its own.  A writer lives as long as its guard. *)
(***************************************************************************)
EXTENDS FiniteSets, Sequences, SequencesExt

CONSTANTS Initializers,       \* the tasks that call init
          ConfiguredLevels,
          DirectiveLists,   \* sequences of <<target, level>> or Unreadable
          Environment,        \* the level that RUST_LOG asks for, or Unset
          Levels, Targets,
          Unset, Everything, Unreadable

\* What directives and filters speak of; a directive is read as a target and a level.
Scopes == Targets \cup {Everything}
Directives == Scopes \X Levels

ASSUME LoggerAssumption ==
    /\ {"nobody", "foreign"} \cap Initializers = {}
    /\ ConfiguredLevels \subseteq Levels /\ Unset \notin Levels
    /\ Environment \in Levels \cup {Unset}
    /\ DirectiveLists \subseteq Seq(Directives \cup {Unreadable})

VARIABLES marked,        \* LOGGER_INITIALIZED
          subscriber,    \* of the process: who installed it, its layers and filter
          initializing,  \* what each task's call of init has come to
          held,          \* the writers whose guards each task holds
          answered       \* what each task's last call returned

loggerVars == <<marked, subscriber, initializing, held, answered>>

\* What a builder makes of the default, one field at a time; those that lay out a
\* line are left out.
LoggerConfigs == [console : BOOLEAN, file : BOOLEAN, level : ConfiguredLevels,
                  directives : DirectiveLists]

Nobody == [by |-> "nobody", layers |-> {}, filter |-> [scope \in Scopes |-> Unset]]
Foreign == [Nobody EXCEPT !.by = "foreign"]

Rests == [at |-> "idle", config |-> Unset]

\* The kinds of the variables; only a call that is under way has a configuration.
LoggerTypeOK ==
    /\ marked \in BOOLEAN
    /\ subscriber \in [by : Initializers \cup {"nobody", "foreign"},
                       layers : SUBSET {"console", "file"},
                       filter : [Scopes -> Levels \cup {Unset}]]
    /\ initializing \in [Initializers ->
            [at : {"idle", "build", "install", "mark", "panicked"},
             config : LoggerConfigs \cup {Unset}]]
    /\ \A t \in Initializers : initializing[t].at = "idle" <=> initializing[t] = Rests
    /\ held \in [Initializers -> SUBSET {"console", "file"}]
    /\ answered \in [Initializers -> {"nothing", "ok", "err"}]

LoggerInit ==
    /\ marked = FALSE
    /\ subscriber \in {Nobody, Foreign}
    /\ initializing = [t \in Initializers |-> Rests]
    /\ held = [t \in Initializers |-> {}]
    /\ answered = [t \in Initializers |-> "nothing"]

Goes(t, place) == initializing' = [initializing EXCEPT ![t].at = place]

Answers(t, result) ==
    /\ initializing' = [initializing EXCEPT ![t] = Rests]
    /\ answered' = [answered EXCEPT ![t] = result]

InitCalled(t, config) ==
    /\ initializing[t] = Rests /\ ~marked
    /\ initializing' = [initializing EXCEPT ![t] = [at |-> "build", config |-> config]]
    /\ answered' = [answered EXCEPT ![t] = "nothing"]
    /\ UNCHANGED <<marked, subscriber, held>>

InitRefused(t) ==
    /\ initializing[t] = Rests /\ marked
    /\ Answers(t, "err")
    /\ UNCHANGED <<marked, subscriber, held>>

LayersOf(config) ==
    {layer \in {"console", "file"} : IF layer = "file" THEN config.file ELSE config.console}

\* One writer, with a thread of its own, to each layer.
StartWriters(t) ==
    /\ initializing[t].at = "build"
    /\ held' = [held EXCEPT ![t] = LayersOf(initializing[t].config)]
    /\ Goes(t, "install")
    /\ UNCHANGED <<marked, subscriber, answered>>

\* RollingFileAppender::new panics when it cannot open the file; what the task
\* had started goes with it.
AppenderPanics(t) ==
    /\ initializing[t].at = "build" /\ initializing[t].config.file
    /\ Goes(t, "panicked")
    /\ held' = [held EXCEPT ![t] = {}]
    /\ UNCHANGED <<marked, subscriber, answered>>

BaseFilter(config) ==
    [scope \in Scopes |->
        IF scope # Everything THEN Unset
        ELSE IF Environment = Unset THEN config.level ELSE Environment]

\* A directive takes the place of one for the same target.
Applies(filter, d, level) ==
    IF d = Unreadable THEN [filter EXCEPT ![Everything] = level]
    ELSE [filter EXCEPT ![d[1]] = d[2]]

\* create_env_filter: one directive after the other, an unreadable one taken for
\* the configured level of everything.
FilterOf(config) ==
    FoldLeft(LAMBDA filter, d : Applies(filter, d, config.level),
             BaseFilter(config), config.directives)

\* Of the directives that a target meets, the one that names it counts.
LevelOf(filter, target) ==
    IF filter[target] # Unset THEN filter[target] ELSE filter[Everything]

Installed(t) ==
    [by |-> t, layers |-> LayersOf(initializing[t].config),
     filter |-> FilterOf(initializing[t].config)]

Install(t) ==
    /\ initializing[t].at = "install" /\ subscriber = Nobody
    /\ subscriber' = Installed(t)
    /\ Goes(t, "mark")
    /\ UNCHANGED <<marked, held, answered>>

\* Mutant: the guards of what could not be installed are kept.
InstallRefusedKeeping(t) ==
    /\ initializing[t].at = "install" /\ subscriber # Nobody
    /\ Answers(t, "err")
    /\ UNCHANGED <<marked, subscriber, held>>

\* The guards that this call made are dropped; if an earlier call of the task
\* had been the one to install, this one would have been refused.
InstallRefused(t) ==
    /\ initializing[t].at = "install" /\ subscriber # Nobody
    /\ held' = [held EXCEPT ![t] = {}]
    /\ Answers(t, "err")
    /\ UNCHANGED <<marked, subscriber>>

Mark(t) ==
    /\ initializing[t].at = "mark"
    /\ marked' = TRUE
    /\ Answers(t, "ok")
    /\ UNCHANGED <<subscriber, held>>

\* The caller drops its LogGuard: the writers end, the subscriber stays.
DropGuard(t) ==
    /\ initializing[t] = Rests /\ held[t] # {}
    /\ held' = [held EXCEPT ![t] = {}]
    /\ answered' = [answered EXCEPT ![t] = "nothing"]
    /\ UNCHANGED <<marked, subscriber, initializing>>

LoggerNext ==
    \E t \in Initializers :
        \/ \E config \in LoggerConfigs : InitCalled(t, config)
        \/ InitRefused(t) \/ StartWriters(t) \/ AppenderPanics(t)
        \/ Install(t) \/ InstallRefused(t) \/ Mark(t) \/ DropGuard(t)

LoggerSpec == LoggerInit /\ [][LoggerNext]_loggerVars

--------------------------------------------------------------------------------
\* LOGGER_INITIALIZED is never set by a process whose subscriber is not the one
\* of a Logger::init that succeeded: a failed or a panicked call leaves the way
\* open, although every call is refused once the flag is up.
MarkMeansInstalled == marked => subscriber.by \in Initializers

\* Of all the calls that saw the flag down, one is told Ok, the one whose
\* subscriber the process has, and it holds a writer for every layer of it.
OkHoldsTheLog ==
    \A t \in Initializers :
        answered[t] = "ok" => subscriber.by = t /\ held[t] = subscriber.layers

\* A call that lost leaves no writer behind: one that runs belongs to a call that
\* is under way or to the subscriber of the process.
NoWriterLeft ==
    \A t \in Initializers :
        held[t] # {} => \/ initializing[t].at = "install"
                        \/ subscriber.by = t /\ held[t] = subscriber.layers

\* What RUST_LOG asks for is what a target gets, unless a directive names that
\* target or everything, or cannot be read.
EnvironmentRules ==
    \A t \in Initializers : initializing[t].at = "mark" /\ Environment # Unset =>
        \A target \in Targets :
            \/ LevelOf(subscriber.filter, target) = Environment
            \/ \E d \in ToSet(initializing[t].config.directives) :
                  d = Unreadable \/ d[1] \in {target, Everything}

\* The process has one log, which its flag, its guards and its filter tell of.
OneLog == LoggerTypeOK /\ MarkMeansInstalled /\ OkHoldsTheLog /\ NoWriterLeft /\ EnvironmentRules
================================================================================
