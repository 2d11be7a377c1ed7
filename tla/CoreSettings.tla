------------------------------ MODULE CoreSettings -----------------------------
(***************************************************************************)
(* The typed configuration of src/core/config.rs: built by a builder, read *)
(* from a file or the default, and merged layer over layer.  merge takes   *)
(* from the other what differs from the default, so that a layer cannot    *)
(* say the default; some fields it never takes.                            *)
(***************************************************************************)
EXTENDS Integers, Sequences, SequencesExt

CONSTANTS DefaultOf,       \* the default of each field but the module directories
          ValuesOf,        \* what else the builder is given for the fields it sets
          Dirs,            \* module directories
          FileSettings,    \* what files say
          NoDir,           \* None
          MaxLayers, MaxSets   \* bounds: configurations merged, and calls of a builder

VARIABLES settings,   \* the configuration in use
          layers,     \* the configurations it was merged from, oldest first
          draft,      \* one that is being built
          setsLeft

settingsVars == <<settings, layers, draft, setsLeft>>

\* What merge compares with the default, or with None or false, which are theirs.
Overridable == {"worker_count", "max_concurrent", "level", "file_output", "dev_mode", "data_dir"}
\* What it passes over.
Kept == {"queue_size", "default_timeout_ms", "json_format", "rotation", "max_files",
         "hot_reload", "health_check_interval_secs", "auto_load", "config_path"}
Fields == Overridable \cup Kept \cup {"log_dir", "module_dirs"}

ASSUME CoreSettingsAssumption ==
    /\ DOMAIN DefaultOf = Overridable \cup Kept \cup {"log_dir"}
    /\ DefaultOf["file_output"] = FALSE /\ DefaultOf["log_dir"] = NoDir
    /\ DOMAIN ValuesOf \subseteq (Overridable \cup Kept) \ {"file_output"}
    /\ \A file \in FileSettings :
          /\ "file_output" \in DOMAIN file => file["file_output"] \in BOOLEAN
          /\ "module_dirs" \in DOMAIN file => file["module_dirs"] \in Seq(Dirs)
    /\ MaxLayers \in Nat

Default == [f \in Fields |-> IF f = "module_dirs" THEN <<>> ELSE DefaultOf[f]]

SettingsInit ==
    /\ settings = Default /\ layers = <<Default>>
    /\ draft = Default
    /\ setsLeft = MaxSets

\* Mutant: what the other says is taken, be it the default or not.
MergeAll(a, b) ==
    [f \in Fields |->
        CASE f \in Overridable -> b[f]
          [] f = "log_dir" -> IF b["file_output"] THEN b[f] ELSE a[f]
          [] f = "module_dirs" -> a[f] \o b[f]
          [] OTHER -> a[f]]

Merge(a, b) ==
    [f \in Fields |->
        CASE f \in Overridable -> IF b[f] # DefaultOf[f] THEN b[f] ELSE a[f]
          [] f = "log_dir" -> IF b["file_output"] THEN b[f] ELSE a[f]
          [] f = "module_dirs" -> a[f] \o b[f]
          [] OTHER -> a[f]]

--------------------------------------------------------------------------------
BuilderCall == setsLeft > 0 /\ setsLeft' = setsLeft - 1 /\ UNCHANGED <<settings, layers>>

SetField ==
    /\ BuilderCall
    /\ \E f \in DOMAIN ValuesOf : \E v \in ValuesOf[f] : draft' = [draft EXCEPT ![f] = v]

FileLogging ==
    /\ BuilderCall
    /\ \E dir \in Dirs : draft' = [draft EXCEPT !["file_output"] = TRUE, !["log_dir"] = dir]

ModuleDir ==
    /\ BuilderCall
    /\ \E dir \in Dirs : draft' = [draft EXCEPT !["module_dirs"] = Append(@, dir)]

\* from_file: a field that the file does not have is the default.
FromFile ==
    /\ BuilderCall
    /\ \E file \in FileSettings :
          draft' = [f \in Fields |-> IF f \in DOMAIN file THEN file[f] ELSE Default[f]]

\* load_config of the command line: a configuration of its own, and --dev on top.
UseAsBase ==
    /\ \E dev \in BOOLEAN : settings' = IF dev THEN [draft EXCEPT !["dev_mode"] = TRUE] ELSE draft
    /\ layers' = <<settings'>>
    /\ draft' = Default
    /\ UNCHANGED setsLeft

MergeDraft ==
    /\ Len(layers) < MaxLayers
    /\ settings' = Merge(settings, draft)
    /\ layers' = Append(layers, draft)
    /\ draft' = Default
    /\ UNCHANGED setsLeft

SettingsNext == SetField \/ FileLogging \/ ModuleDir \/ FromFile \/ UseAsBase \/ MergeDraft

SettingsSpec == SettingsInit /\ [][SettingsNext]_settingsVars

--------------------------------------------------------------------------------
\* LoggerConfig::from_log_config: the file layer.
LogFile(c) == IF c["file_output"] THEN c["log_dir"] ELSE NoDir

\* The last layer over the first of which that holds, or the first of all.
IsLast(i, Says(_)) ==
    /\ i \in DOMAIN layers
    /\ i = 1 \/ Says(i)
    /\ \A j \in DOMAIN layers : j > i => ~Says(j)

\* A field that can be overridden has the value of the last layer that says other
\* than the default, and a field that cannot has the first layer's.
LastWordHolds ==
    /\ \A f \in Overridable : \E i \in DOMAIN layers :
          /\ settings[f] = layers[i][f]
          /\ IsLast(i, LAMBDA j : layers[j][f] # DefaultOf[f])
    /\ \A f \in Kept : settings[f] = layers[1][f]

\* Logs go to the directory that the last layer to ask for a file names, even if
\* that is none and an earlier one named one, and to no file if none asked.
LogsGoWhereTold ==
    IF \A i \in DOMAIN layers : ~layers[i]["file_output"]
    THEN LogFile(settings) = NoDir
    ELSE \E i \in DOMAIN layers :
            /\ layers[i]["file_output"] /\ \A j \in DOMAIN layers : j > i => ~layers[j]["file_output"]
            /\ LogFile(settings) = layers[i]["log_dir"]

\* Modules are looked for in every layer's directories, the oldest layer's first.
AllDirsInOrder ==
    settings["module_dirs"] = FlattenSeq([i \in DOMAIN layers |-> layers[i]["module_dirs"]])

\* What the layers say, field by field.
LayersAddUp == LastWordHolds /\ LogsGoWhereTold /\ AllDirsInOrder
================================================================================
