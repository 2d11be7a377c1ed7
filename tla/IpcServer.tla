------------------------------- MODULE IpcServer -------------------------------
(***************************************************************************)
(* The server of src/api/ipc.rs up to a connection's requests: start() and *)
(* stop(), the accept loop that each start spawns, the limit on            *)
(* connections and their count.  It is written for a Unix socket, whose    *)
(* file a loop removes when it ends; without that step it is the TCP       *)
(* server.  Several tasks may start and stop it.                           *)
(***************************************************************************)
EXTENDS Naturals, FiniteSets

CONSTANTS Peers,          \* connections that clients try to open
          Admins,         \* tasks that start and stop the server
          MaxConnections,
          MaxLoops        \* bound: starts that get as far as a loop

ASSUME IpcServerAssumption ==
    /\ IsFiniteSet(Peers) /\ IsFiniteSet(Admins)
    /\ MaxConnections \in Nat /\ MaxLoops \in Nat

VARIABLES running,    \* the flag
          apc,        \* where each start() or stop() is
          loop,       \* each accept loop, by the number of its start
          serving,    \* the connection it deals with
          told,       \* loops that have a shutdown message waiting
          socketFile, \* the loop whose listener the path names, 0 if there is none
          peer,       \* each connection
          listener,   \* the loop in whose backlog it waits
          active,     \* active_connections
          stats,      \* total_connections and active_connections of the statistics
          spoiled  \* starts, stops and loops of an earlier start have met

ipcServerVars == <<running, apc, loop, serving, told, socketFile, peer, listener,
                   active, stats, spoiled>>

Loops == 1..MaxLoops
NoPeer == "none"

IpcServerInit ==
    /\ running = FALSE
    /\ apc = [k \in Admins |-> "idle"]
    /\ loop = [g \in Loops |-> "none"]
    /\ serving = [g \in Loops |-> NoPeer]
    /\ told = {}
    /\ socketFile = 0
    /\ peer = [p \in Peers |-> "none"]
    /\ listener = [p \in Peers |-> 0]
    /\ active = 0
    /\ stats = [total |-> 0, active |-> 0]
    /\ spoiled = FALSE

peerVars == <<peer, listener, active, stats>>
loopVars == <<loop, serving, told, socketFile>>

Alive(g) == loop[g] \notin {"none", "ended"}
Admin(k, place) == apc' = [apc EXCEPT ![k] = place]
Others(k) == Admins \ {k}
Interferes(k) == \E j \in Others(k) : apc[j] # "idle"

--------------------------------------------------------------------------------
\* start() and stop().
StartRefused(k) ==
    /\ apc[k] = "idle" /\ running
    /\ UNCHANGED ipcServerVars

Start(k) ==
    /\ apc[k] = "idle" /\ ~running
    /\ running' = TRUE
    /\ Admin(k, "bind")
    /\ spoiled' = (spoiled \/ Interferes(k) \/ \E g \in Loops : Alive(g))
    /\ UNCHANGED <<loopVars, peerVars>>

\* An error leaves the flag set, and start() refuses from then on.
BindFails(k) ==
    /\ apc[k] = "bind"
    /\ Admin(k, "idle")
    /\ spoiled' = TRUE
    /\ UNCHANGED <<running, loopVars, peerVars>>

\* Mutant: the old file is removed after the new listener has been bound.
BindThenRemove(k) ==
    /\ apc[k] = "bind"
    /\ \E g \in Loops :
          /\ loop[g] = "none" /\ \A h \in Loops : h < g => loop[h] # "none"
          /\ loop' = [loop EXCEPT ![g] = "listening"]
          /\ socketFile' = 0
    /\ Admin(k, "idle")
    /\ UNCHANGED <<running, serving, told, peerVars, spoiled>>

\* The old file is removed, the listener bound, the loop spawned with its receiver.
Bind(k) ==
    /\ apc[k] = "bind"
    /\ \E g \in Loops :
          /\ loop[g] = "none" /\ \A h \in Loops : h < g => loop[h] # "none"
          /\ loop' = [loop EXCEPT ![g] = "listening"]
          /\ socketFile' = g
    /\ Admin(k, "idle")
    /\ UNCHANGED <<running, serving, told, peerVars, spoiled>>

StopIdle(k) ==
    /\ apc[k] = "idle" /\ ~running
    /\ UNCHANGED ipcServerVars

Stop(k) ==
    /\ apc[k] = "idle" /\ running
    /\ running' = FALSE
    /\ Admin(k, "send")
    /\ spoiled' = (spoiled \/ Interferes(k))
    /\ UNCHANGED <<loopVars, peerVars>>

\* The broadcast reaches every loop that has subscribed by now.
Send(k) ==
    /\ apc[k] = "send"
    /\ told' = told \cup {g \in Loops : Alive(g)}
    /\ Admin(k, "idle")
    /\ UNCHANGED <<running, loop, serving, socketFile, peerVars, spoiled>>

--------------------------------------------------------------------------------
\* The accept loop.
Connect(p) ==
    /\ peer[p] = "none" /\ socketFile # 0 /\ Alive(socketFile)
    /\ peer' = [peer EXCEPT ![p] = "waiting"]
    /\ listener' = [listener EXCEPT ![p] = socketFile]
    /\ UNCHANGED <<running, apc, loopVars, active, stats, spoiled>>

Accept(g, p) ==
    /\ loop[g] = "listening" /\ peer[p] = "waiting" /\ listener[p] = g
    /\ peer' = [peer EXCEPT ![p] = "accepted"]
    /\ serving' = [serving EXCEPT ![g] = p]
    /\ loop' = [loop EXCEPT ![g] = "accepted"]
    /\ UNCHANGED <<running, apc, told, socketFile, listener, active, stats, spoiled>>

\* Mutant: one connection more.
LimitPassed == active > MaxConnections

LimitReached == active >= MaxConnections

\* `continue` goes past the look at the flag.
Turn(g) ==
    /\ loop[g] = "accepted" /\ LimitReached
    /\ peer' = [peer EXCEPT ![serving[g]] = "closed"]
    /\ serving' = [serving EXCEPT ![g] = NoPeer]
    /\ loop' = [loop EXCEPT ![g] = "listening"]
    /\ UNCHANGED <<running, apc, told, socketFile, listener, active, stats, spoiled>>

Admit(g) ==
    /\ loop[g] = "accepted" /\ ~LimitReached
    /\ loop' = [loop EXCEPT ![g] = "admitted"]
    /\ UNCHANGED <<running, apc, serving, told, socketFile, peerVars, spoiled>>

AddActive(g) ==
    /\ loop[g] = "admitted"
    /\ active' = active + 1
    /\ peer' = [peer EXCEPT ![serving[g]] = "counted"]
    /\ loop' = [loop EXCEPT ![g] = "record"]
    /\ UNCHANGED <<running, apc, serving, told, socketFile, listener, stats, spoiled>>

\* The statistics take the count as it is when their lock is held.
Spawn(g) ==
    /\ loop[g] = "record"
    /\ stats' = [total |-> stats.total + 1, active |-> active]
    /\ peer' = [peer EXCEPT ![serving[g]] = "served"]
    /\ serving' = [serving EXCEPT ![g] = NoPeer]
    /\ loop' = [loop EXCEPT ![g] = "look"]
    /\ UNCHANGED <<running, apc, told, socketFile, listener, active, spoiled>>

AcceptFails(g) ==
    /\ loop[g] = "listening"
    /\ loop' = [loop EXCEPT ![g] = "look"]
    /\ UNCHANGED <<running, apc, serving, told, socketFile, peerVars, spoiled>>

LookAtFlag(g) ==
    /\ loop[g] = "look"
    /\ loop' = [loop EXCEPT ![g] = IF running THEN "listening" ELSE "cleanup"]
    /\ UNCHANGED <<running, apc, serving, told, socketFile, peerVars, spoiled>>

\* Mutant: a loop that finds the flag set again goes on.
ReceiveIfStopped(g) ==
    /\ loop[g] = "listening" /\ g \in told
    /\ loop' = [loop EXCEPT ![g] = IF running THEN "listening" ELSE "cleanup"]
    /\ told' = told \ {g}
    /\ UNCHANGED <<running, apc, serving, socketFile, peerVars, spoiled>>

ReceiveShutdown(g) ==
    /\ loop[g] = "listening" /\ g \in told
    /\ loop' = [loop EXCEPT ![g] = "cleanup"]
    /\ UNCHANGED <<running, apc, serving, told, socketFile, peerVars, spoiled>>

\* The path is removed whoever's listener it names by now; the backlog goes with the
\* listener, connections that are served stay.
EndLoop(g) ==
    /\ loop[g] = "cleanup"
    /\ socketFile' = 0
    /\ loop' = [loop EXCEPT ![g] = "ended"]
    /\ told' = told \ {g}
    /\ peer' = [p \in Peers |->
                   IF peer[p] = "waiting" /\ listener[p] = g THEN "closed" ELSE peer[p]]
    /\ UNCHANGED <<running, apc, serving, listener, active, stats, spoiled>>

--------------------------------------------------------------------------------
\* A connection's task: its session (IpcSession) ends, and it is counted out.
SessionEnds(p) ==
    /\ peer[p] = "served"
    /\ active' = active - 1
    /\ peer' = [peer EXCEPT ![p] = "uncounted"]
    /\ UNCHANGED <<running, apc, loopVars, listener, stats, spoiled>>

RecordEnd(p) ==
    /\ peer[p] = "uncounted"
    /\ stats' = [stats EXCEPT !.active = active]
    /\ peer' = [peer EXCEPT ![p] = "closed"]
    /\ UNCHANGED <<running, apc, loopVars, listener, active, spoiled>>

AdminStep(k) == Bind(k) \/ BindFails(k) \/ Send(k)
LoopStep(g) ==
    \/ Turn(g) \/ Admit(g) \/ AddActive(g) \/ Spawn(g) \/ LookAtFlag(g) \/ EndLoop(g)

IpcServerNext ==
    \/ \E k \in Admins : \/ StartRefused(k) \/ Start(k) \/ StopIdle(k) \/ Stop(k)
                         \/ AdminStep(k)
    \/ \E g \in Loops : \/ LoopStep(g) \/ AcceptFails(g) \/ ReceiveShutdown(g)
                        \/ \E p \in Peers : Accept(g, p)
    \/ \E p \in Peers : Connect(p) \/ SessionEnds(p) \/ RecordEnd(p)

IpcServerSpec == IpcServerInit /\ [][IpcServerNext]_ipcServerVars

\* select! chooses among its ready branches at random: the shutdown that is ready again and
\* again is received at last, however many clients connect.
IpcServerFairness ==
    \A g \in Loops : WF_ipcServerVars(LoopStep(g)) /\ SF_ipcServerVars(ReceiveShutdown(g))

--------------------------------------------------------------------------------
IpcServerTypeOK ==
    /\ running \in BOOLEAN /\ spoiled \in BOOLEAN
    /\ apc \in [Admins -> {"idle", "bind", "send"}]
    /\ loop \in [Loops -> {"none", "listening", "accepted", "admitted", "record", "look",
                           "cleanup", "ended"}]
    /\ serving \in [Loops -> Peers \cup {NoPeer}]
    /\ told \subseteq {g \in Loops : Alive(g)}
    /\ socketFile \in {0} \cup Loops
    /\ peer \in [Peers -> {"none", "waiting", "accepted", "counted", "served", "uncounted",
                           "closed"}]
    /\ listener \in [Peers -> {0} \cup Loops]
    /\ active \in Nat
    /\ stats \in [total : Nat, active : Nat]
    /\ \A g \in Loops : loop[g] \in {"accepted", "admitted", "record"} => serving[g] \in Peers

\* max_connections holds, but for one connection for each further loop: the check and the
\* count are two steps, and after a restart the loop before it may not have ended.
ConnectionsBounded ==
    active <= MaxConnections + (IF Cardinality({g \in Loops : loop[g] # "none"}) > 1
                                THEN Cardinality({g \in Loops : loop[g] # "none"}) - 1 ELSE 0)

\* The statistics agree with the counter, and the counter with the connections, whenever no
\* loop and no connection is between the counter and the statistics.
StatsSettle ==
    /\ active = Cardinality({p \in Peers : peer[p] \in {"counted", "served"}})
    /\ (/\ \A g \in Loops : loop[g] # "record"
        /\ \A p \in Peers : peer[p] # "uncounted") => stats.active = active

\* Unless a bind failed, or starts, stops and the loop of an earlier start met: a server
\* that was started is reached under its path, and one that was stopped has told every loop
\* to end.
FlagTellsTheTruth ==
    (~spoiled /\ \A k \in Admins : apc[k] = "idle") =>
        /\ running => socketFile # 0 /\ Alive(socketFile) /\ socketFile \notin told
        /\ ~running => \A g \in Loops : Alive(g) => (g \in told \/ loop[g] = "cleanup")

\* A loop that has been told to end does, however many clients connect.
ToldLoopEnds == \A g \in Loops : (g \in told) ~> (loop[g] = "ended")

\* The limit and the numbers of the connections, with the types.
ConnectionsCounted == IpcServerTypeOK /\ ConnectionsBounded /\ StatsSettle
===============================================================================
