--------------------------------- MODULE MCHost --------------------------------
(***************************************************************************)
(* Small instances, for TLC, of the core, of the server it shares itself   *)
(* with, and of one connection to that.  The three share no state: a       *)
(* behaviour exercises one of them and leaves the others as they began, so *)
(* that their states add up instead of multiplying.  The session's four    *)
(* requests are one of each way to be handled: by the core, on the spot,   *)
(* refused for a field that lacks, and the disconnect.                     *)
(***************************************************************************)
EXTENDS IpcServer, IpcSession, Core, TLC

Kind4 == 1 :> "route" @@ 2 :> "heartbeat" @@ 3 :> "publish" @@ 4 :> "disconnect"

\* Of the programs that the core may begin in, the one it is in while others move.
CoreRests == CoreInit /\ main = "library"

MCInit == IpcServerInit /\ IpcSessionInit /\ CoreInit

MCNext ==
    \/ IpcSessionInit /\ CoreRests /\ IpcServerNext /\ UNCHANGED <<ipcSessionVars, coreVars>>
    \/ IpcServerInit /\ CoreRests /\ IpcSessionNext /\ UNCHANGED <<ipcServerVars, coreVars>>
    \/ IpcServerInit /\ IpcSessionInit /\ CoreNext /\ UNCHANGED <<ipcServerVars, ipcSessionVars>>

MCSpec ==
    /\ MCInit /\ [][MCNext]_<<ipcServerVars, ipcSessionVars, coreVars>>
    /\ IpcServerFairness /\ IpcSessionFairness /\ CoreFairness

\* Whatever was told to end does: the server's loops, a connection's task, the command.
ToldEnds == ToldLoopEnds /\ SessionCloses /\ RouteCommandEnds
===============================================================================
