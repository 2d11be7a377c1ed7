------------------------------- MODULE MCServices ------------------------------
(***************************************************************************)
(* Small instances, for TLC, of the services that the rest of the core     *)
(* builds on: the configuration store, the typed configuration, the        *)
(* counters, the resource monitor, the logger and the validators.  They    *)
(* share no state: a behaviour exercises one of them and leaves the others *)
(* as they began, so that their states add up instead of multiplying.      *)
(***************************************************************************)
EXTENDS ConfigStore, CoreSettings, LatencyStats, ResourceMonitor, Logger, Validation, TLC

\* The store: two files that differ in one key, and texts with a scalar where
\* those have an object, with nothing, and with an error.
SomeScalars == {1, 2, 3, Null}
Root == <<"r">>
RootX == <<"r", "x">>
RootY == <<"r", "y">>
FileA == <<>> :> Obj @@ Root :> Obj @@ RootX :> 1
FileB == <<>> :> Obj @@ Root :> Obj @@ RootY :> 2
FlatFile == <<>> :> Obj @@ Root :> 3
TwoFiles == "a" :> FileA @@ "b" :> FileB
OtherTexts == {FlatFile, <<>> :> Null, Garbled}
OneSource == {<<"a", "User">>}
OnePathList == {<<"b", "a">>}
OneLayering == {<<FlatFile, "a", "b">>}
OneVariable == {<<RootY, 1>>}
TwoSettings == {<<RootX, 2>>, <<Root, 3>>}
OneRemoval == {RootX}
TwoWatches == "w" :> RootX @@ "u" :> Root
TwoRefused == Root :> {<<>> :> 3, <<>> :> Obj @@ <<"x">> :> 1 @@ <<"y">> :> 2}

\* The typed configuration: of each kind of field, one that is ever set.
Defaults ==
    [f \in Overridable \cup Kept \cup {"log_dir"} |->
        IF f \in {"file_output", "dev_mode", "json_format"} THEN FALSE
        ELSE IF f \in {"log_dir", "data_dir", "config_path"} THEN NoDir ELSE 7]
BuilderValues == "worker_count" :> {7, 8} @@ "dev_mode" :> {TRUE} @@ "json_format" :> {TRUE}
OneDir == {"d"}
TwoFileSettings == {"file_output" :> TRUE, "level" :> 8 @@ "log_dir" :> "e"}

\* The counters: a window of two samples, empty or full.
Quick == [ok |-> TRUE, timeout |-> FALSE, latency |-> 1]
TimedOut == [ok |-> FALSE, timeout |-> TRUE, latency |-> 2]
TwoResults == {Quick, TimedOut}
EmptyOrFull == {<<>>, <<TimedOut, Quick>>}
FourRanks == {<<0, 1>>, <<1, 2>>, <<19, 20>>, <<1, 1>>}

AllMonitors == [memory : 0..1, threads : 0..1, alerts : BOOLEAN]
FirstMonitor == [memory |-> 1, threads |-> 0, alerts |-> TRUE]

FourLists ==
    {<<>>, <<Unreadable>>, <<<<"router", "trace">>>>,
     <<<<"all", "trace">>, <<"router", "info">>>>}

\* Names: one of each way to be right or wrong that the grammars tell apart.
SomeNames ==
    {<<>>, <<"a">>, <<"A", "-", "1">>, <<"a", ".", "b">>, <<"a", ".", "-">>,
     <<"a", "-", ".", "b">>, <<"a", ".", "*">>, <<"_", "b", "1", "b", "a">>}
SomeRequired == {<<>>, <<"p", "q", "p">>}
SomeOwned == {{}, {"p"}, {"p", "q"}}
SomePatterns ==
    {<<"*">>, <<".", "*">>, <<"a", ".", "*">>, <<"a", "b", ".", "*">>, <<"a", ".", "b">>}
SomeAges == {-3, -2, 0, 4, 5}

\* Of the states that a component may begin in, the one it is in while others move.
LatencyRests == LatencyInit /\ begun = <<>>
LoggerRests == LoggerInit /\ subscriber = Nobody

MCInit ==
    ConfigInit /\ SettingsInit /\ LatencyInit /\ MonitorInit /\ LoggerInit /\ ValidationInit

MCNext ==
    \/ /\ SettingsInit /\ LatencyRests /\ MonitorInit /\ LoggerRests /\ ValidationInit
       /\ ConfigNext
       /\ UNCHANGED <<settingsVars, latencyVars, monitorVars, loggerVars, validationVars>>
    \/ /\ ConfigInit /\ LatencyRests /\ MonitorInit /\ LoggerRests /\ ValidationInit
       /\ SettingsNext
       /\ UNCHANGED <<configVars, latencyVars, monitorVars, loggerVars, validationVars>>
    \/ /\ ConfigInit /\ SettingsInit /\ MonitorInit /\ LoggerRests /\ ValidationInit
       /\ LatencyNext
       /\ UNCHANGED <<configVars, settingsVars, monitorVars, loggerVars, validationVars>>
    \/ /\ ConfigInit /\ SettingsInit /\ LatencyRests /\ LoggerRests /\ ValidationInit
       /\ MonitorNext
       /\ UNCHANGED <<configVars, settingsVars, latencyVars, loggerVars, validationVars>>
    \/ /\ ConfigInit /\ SettingsInit /\ LatencyRests /\ MonitorInit /\ ValidationInit
       /\ LoggerNext
       /\ UNCHANGED <<configVars, settingsVars, latencyVars, monitorVars, validationVars>>
    \/ /\ ConfigInit /\ SettingsInit /\ LatencyRests /\ MonitorInit /\ LoggerRests
       /\ ValidationNext
       /\ UNCHANGED <<configVars, settingsVars, latencyVars, monitorVars, loggerVars>>

MCSpec ==
    MCInit /\ [][MCNext]_<<configVars, settingsVars, latencyVars, monitorVars, loggerVars,
                           validationVars>>
================================================================================
