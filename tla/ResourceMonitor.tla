---------------------------- MODULE ResourceMonitor ----------------------------
(***************************************************************************)
(* ResourceMonitor of src/utils/metrics.rs: checks of the memory and of    *)
(* the threads, by several callers at once, while others change the        *)
(* thresholds or reset the count of alerts.  Each access to the shared     *)
(* configuration, count and last status is a step of its own.              *)
(***************************************************************************)
EXTENDS Integers, FiniteSets

CONSTANTS Checkers,         \* the callers of check_resources
          MonitorConfigs,   \* the configurations that are ever set
          InitialMonitor,   \* one of them
          Usages,           \* what a measurement can be
          MaxChecks, MaxChanges   \* bounds: checks, and changes and resets

\* ResourceMonitorConfig: two limits, and whether the alerts are on.
Limits == [memory : Nat, threads : Nat, alerts : BOOLEAN]

ASSUME ResourceMonitorAssumption ==
    /\ IsFiniteSet(Checkers)
    /\ InitialMonitor \in Limits /\ MonitorConfigs \subseteq Limits
    /\ Usages \subseteq Nat

VARIABLES monitorConfig,
          lastStatus,      \* {} or the one that was stored last
          alertCount,
          check,           \* what each caller has of its check
          inForce,         \* the configurations there were since its check began
          owed,            \* the alerts of the checks that are done, since the last reset
          resetMet,        \* a reset met a check
          checksLeft, changesLeft

monitorVars == <<monitorConfig, lastStatus, alertCount, check, inForce, owed, resetMet,
                 checksLeft, changesLeft>>

NoCheck == [at |-> "idle", config |-> InitialMonitor, memory |-> 0, threads |-> 0]

MonitorInit ==
    /\ monitorConfig = InitialMonitor
    /\ lastStatus = {} /\ alertCount = 0
    /\ check = [t \in Checkers |-> NoCheck]
    /\ inForce = [t \in Checkers |-> {}]
    /\ owed = 0 /\ resetMet = FALSE
    /\ checksLeft = MaxChecks /\ changesLeft = MaxChanges

\* check_resources copies the configuration.
CheckBegins(t) ==
    /\ check[t].at = "idle" /\ checksLeft > 0
    /\ check' = [check EXCEPT ![t].at = "memory", ![t].config = monitorConfig]
    /\ inForce' = [inForce EXCEPT ![t] = {monitorConfig}]
    /\ checksLeft' = checksLeft - 1
    /\ UNCHANGED <<monitorConfig, lastStatus, alertCount, owed, resetMet, changesLeft>>

MemoryWarns(status) == status.memory > status.config.memory
ThreadsWarn(status) == status.threads > status.config.threads

Alerts(status, warns) == IF status.config.alerts /\ warns THEN 1 ELSE 0

AlertMemory(t) ==
    /\ check[t].at = "memory"
    /\ \E use \in Usages :
          /\ check' = [check EXCEPT ![t].at = "threads", ![t].memory = use]
          /\ alertCount' = alertCount + Alerts(check'[t], MemoryWarns(check'[t]))
    /\ UNCHANGED <<monitorConfig, lastStatus, inForce, owed, resetMet, checksLeft, changesLeft>>

\* Mutant: the limit of the threads is looked up again.
AlertThreadsLive(t) ==
    /\ check[t].at = "threads"
    /\ \E use \in Usages :
          /\ check' = [check EXCEPT ![t].at = "store", ![t].threads = use,
                                    ![t].config.threads = monitorConfig.threads]
          /\ alertCount' = alertCount + Alerts(check'[t], ThreadsWarn(check'[t]))
    /\ UNCHANGED <<monitorConfig, lastStatus, inForce, owed, resetMet, checksLeft, changesLeft>>

AlertThreads(t) ==
    /\ check[t].at = "threads"
    /\ \E use \in Usages :
          /\ check' = [check EXCEPT ![t].at = "store", ![t].threads = use]
          /\ alertCount' = alertCount + Alerts(check'[t], ThreadsWarn(check'[t]))
    /\ UNCHANGED <<monitorConfig, lastStatus, inForce, owed, resetMet, checksLeft, changesLeft>>

StatusOf(t) ==
    [memory |-> check[t].memory, memoryWarning |-> MemoryWarns(check[t]),
     threads |-> check[t].threads, threadWarning |-> ThreadsWarn(check[t]),
     between |-> inForce[t]]

StoreStatus(t) ==
    /\ check[t].at = "store"
    /\ lastStatus' = {StatusOf(t)}
    /\ check' = [check EXCEPT ![t] = NoCheck]
    /\ inForce' = [inForce EXCEPT ![t] = {}]
    /\ owed' = owed + Alerts(check[t], MemoryWarns(check[t]))
                    + Alerts(check[t], ThreadsWarn(check[t]))
    /\ UNCHANGED <<monitorConfig, alertCount, resetMet, checksLeft, changesLeft>>

MayChange == changesLeft > 0 /\ changesLeft' = changesLeft - 1

\* update_config and the three setters, under one write lock.
Configure ==
    /\ MayChange
    /\ \E new \in MonitorConfigs :
          /\ \/ monitorConfig' = new
             \/ monitorConfig' = [monitorConfig EXCEPT !.memory = new.memory]
             \/ monitorConfig' = [monitorConfig EXCEPT !.threads = new.threads]
             \/ monitorConfig' = [monitorConfig EXCEPT !.alerts = new.alerts]
          /\ inForce' = [t \in Checkers |->
                IF check[t].at = "idle" THEN {} ELSE inForce[t] \cup {monitorConfig'}]
    /\ UNCHANGED <<lastStatus, alertCount, check, owed, resetMet, checksLeft>>

\* reset_alert_count, also as MonitoringSystem::reset; the last status stays.
ResetAlertCount ==
    /\ MayChange
    /\ alertCount' = 0 /\ owed' = 0
    /\ resetMet' = (\E t \in Checkers : check[t].at # "idle")
    /\ UNCHANGED <<monitorConfig, lastStatus, check, inForce, checksLeft>>

MonitorNext ==
    \/ \E t \in Checkers : CheckBegins(t) \/ AlertMemory(t) \/ AlertThreads(t) \/ StoreStatus(t)
    \/ Configure \/ ResetAlertCount

MonitorSpec == MonitorInit /\ [][MonitorNext]_monitorVars

--------------------------------------------------------------------------------
\* What a status warns of is what one configuration finds wrong, and that one was
\* in force while the check went on: limits set together are applied together.
JudgedByOneConfig ==
    \A status \in lastStatus :
        \E config \in status.between :
            /\ status.memoryWarning <=> status.memory > config.memory
            /\ status.threadWarning <=> status.threads > config.threads

\* Once no check is under way, the count of alerts is the number of warnings that
\* checks with the alerts on have answered with since the last reset, unless that
\* reset met a check.
AlertsAccounted ==
    (\A t \in Checkers : check[t].at = "idle") /\ ~resetMet => alertCount = owed

\* What the monitor warns of, and how often it says that it did.
AlertsHold == JudgedByOneConfig /\ AlertsAccounted
================================================================================
