------------------------------ MODULE IpcSession ------------------------------
(***************************************************************************)
(* One connection of src/api/ipc.rs: the client's send_request and the     *)
(* server's handle_connection_inner, each with a timer on its read_line.   *)
(* A message is a line in two parts, of which the second ends it: the      *)
(* network delivers them one at a time.  A timer drops what it has of a    *)
(* line, and the rest arrives later.                                       *)
(***************************************************************************)
EXTENDS Naturals, Sequences, SequencesExt, FiniteSets

CONSTANTS RequestNumbers,    \* 1..n, sent in this order
          KindOf,      \* the IpcMessageType of each
          WellFormed   \* those whose payload has the fields that their kind needs

Kinds == {"route", "publish", "subscribe", "unsubscribe", "heartbeat", "ack",
          "configGet", "configSet", "status", "disconnect"}

ASSUME IpcSessionAssumption ==
    /\ IsFiniteSet(RequestNumbers) /\ RequestNumbers = 1..Cardinality(RequestNumbers)
    /\ KindOf \in [RequestNumbers -> Kinds]
    /\ WellFormed \subseteq RequestNumbers

VARIABLES sent,       \* requests that the client has sent
          waiting,    \* it waits for a response
          answer,     \* what send_request returned, for each request
          clientLine, \* what the client has read of a line
          connected,  \* the client's end of the socket
          toServer, toClient, \* parts under way
          serverLine, \* what the server has read of a line
          server,     \* where its task is
          handled,    \* how often each request has been handled
          counts,     \* total, successful and failed requests in the statistics
          cut         \* times that a server's timer dropped the beginning of a line

ipcSessionVars == <<sent, waiting, answer, clientLine, connected, toServer, toClient,
                    serverLine, server, handled, counts, cut>>

clientVars == <<sent, waiting, answer, clientLine, connected>>
serverVars == <<serverLine, server, handled, counts, cut>>

\* A line about x, and the places of the server's task.
Line(x) == <<<<x, "begin">>, <<x, "end">>>>
Ends(line) == line # <<>> /\ Last(line)[2] = "end"
Parses(line) == Len(line) = 2 /\ line[1][2] = "begin"
AtPlace(place, x) == [place |-> place, about |-> x]
Unknown == 0

\* What send_request returned.
Outcome(x) == [kind |-> x, about |-> Unknown]
Answered(r) == [kind |-> "answered", about |-> r]

IpcSessionInit ==
    /\ sent = 0
    /\ waiting = FALSE
    /\ answer = [r \in RequestNumbers |-> Outcome("none")]
    /\ clientLine = <<>>
    /\ connected = TRUE
    /\ toServer = <<>> /\ toClient = <<>>
    /\ serverLine = <<>>
    /\ server = AtPlace("reading", Unknown)
    /\ handled = [r \in RequestNumbers |-> 0]
    /\ counts = [total |-> 0, ok |-> 0, failed |-> 0]
    /\ cut = 0

ServerOpen == server.place # "closed"

--------------------------------------------------------------------------------
\* The client.
SendRequest ==
    /\ connected /\ ~waiting /\ sent + 1 \in RequestNumbers
    /\ sent' = sent + 1
    /\ \/ ServerOpen /\ toServer' = toServer \o Line(sent + 1)
       \/ ~ServerOpen /\ UNCHANGED toServer
    /\ waiting' = TRUE
    /\ UNCHANGED <<answer, clientLine, connected, toClient, serverVars>>

\* disconnect() sends its request like any other and forgets what came of it.
Returns(x) ==
    /\ waiting' = FALSE
    /\ answer' = [answer EXCEPT ![sent] = x]
    /\ clientLine' = <<>>
    /\ connected' = (KindOf[sent] # "disconnect")

\* The ids are not compared.
ClientReads ==
    /\ waiting /\ toClient # <<>>
    /\ toClient' = Tail(toClient)
    /\ LET line == Append(clientLine, Head(toClient)) IN
       \/ /\ ~Ends(line)
          /\ clientLine' = line /\ UNCHANGED <<waiting, answer, connected>>
       \/ Ends(line) /\ Parses(line) /\ Returns(Answered(line[1][1]))
       \/ Ends(line) /\ ~Parses(line) /\ Returns(Outcome("garbled"))
    /\ UNCHANGED <<sent, toServer, serverVars>>

ClientTimer ==
    /\ waiting
    /\ Returns(Outcome("timeout"))
    /\ UNCHANGED <<sent, toServer, toClient, serverVars>>

\* The end of the stream reads as an empty line, which does not parse.
ClientFindsEnd ==
    /\ waiting /\ toClient = <<>> /\ ~ServerOpen
    /\ Returns(Outcome("ended"))
    /\ UNCHANGED <<sent, toServer, toClient, serverVars>>

\* The client is dropped.
Hangup ==
    /\ connected /\ ~waiting
    /\ connected' = FALSE
    /\ UNCHANGED <<sent, waiting, answer, clientLine, toServer, toClient, serverVars>>

--------------------------------------------------------------------------------
\* The server's task.
ServerReads ==
    /\ server.place = "reading" /\ toServer # <<>>
    /\ toServer' = Tail(toServer)
    /\ serverLine' = Append(serverLine, Head(toServer))
    /\ server' = IF Ends(serverLine') THEN AtPlace("line", Unknown) ELSE server
    /\ UNCHANGED <<clientVars, toClient, handled, counts, cut>>

\* The loop goes round and clears what the read that was dropped had put into the line.
ServerTimer ==
    /\ server.place = "reading" /\ serverLine # <<>>
    /\ serverLine' = <<>>
    /\ cut' = cut + 1
    /\ UNCHANGED <<clientVars, toServer, toClient, server, handled, counts>>

ServerFindsEnd ==
    /\ server.place = "reading" /\ toServer = <<>> /\ ~connected
    /\ server' = IF serverLine = <<>> THEN AtPlace("closed", Unknown) ELSE AtPlace("line", Unknown)
    /\ UNCHANGED <<clientVars, toServer, toClient, serverLine, handled, counts, cut>>

ParseRequest ==
    /\ server.place = "line"
    /\ serverLine' = <<>>
    /\ \/ /\ Parses(serverLine)
          /\ server' = AtPlace("handling", serverLine[1][1])
          /\ counts' = [counts EXCEPT !.total = @ + 1]
       \/ /\ ~Parses(serverLine)
          /\ server' = AtPlace("writing", Unknown)
          /\ UNCHANGED counts
    /\ UNCHANGED <<clientVars, toServer, toClient, handled, cut>>

\* What each handler can answer: without its fields, no call reaches the core.
CoreResults(r) ==
    IF r \notin WellFormed THEN {FALSE} ELSE BOOLEAN
LocalResults(r) ==
    IF KindOf[r] \in {"configGet", "configSet"} THEN CoreResults(r) ELSE {TRUE}
Results(r) ==
    IF KindOf[r] \in {"route", "publish", "subscribe", "unsubscribe"}
    THEN CoreResults(r) ELSE LocalResults(r)

HandleRequest(success) ==
    /\ server.place = "handling" /\ success \in Results(server.about)
    /\ handled' = [handled EXCEPT ![server.about] = @ + 1]
    /\ counts' = IF success THEN [counts EXCEPT !.ok = @ + 1]
                 ELSE [counts EXCEPT !.failed = @ + 1]
    /\ server' = AtPlace("writing", server.about)
    /\ UNCHANGED <<clientVars, toServer, toClient, serverLine, cut>>

\* Mutant: a line that does not parse is not answered.
WriteKnownResponse ==
    /\ server.place = "writing"
    /\ toClient' = IF server.about # Unknown THEN toClient \o Line(server.about) ELSE toClient
    /\ server' = AtPlace("reading", Unknown)
    /\ UNCHANGED <<clientVars, toServer, serverLine, handled, counts, cut>>

\* Writing to a client that has gone may fail, and ends the loop after a request that parsed.
Write(goesOn) ==
    /\ server.place = "writing"
    /\ toClient' = IF connected THEN toClient \o Line(server.about) ELSE toClient
    /\ server' = IF goesOn THEN AtPlace("reading", Unknown) ELSE AtPlace("closed", Unknown)
    /\ UNCHANGED <<clientVars, toServer, serverLine, handled, counts, cut>>

WriteResponse ==
    \/ Write(server.about = Unknown \/ KindOf[server.about] # "disconnect")
    \/ ~connected /\ server.about # Unknown /\ Write(FALSE)

ServerStep ==
    \/ ServerReads \/ ServerFindsEnd \/ ParseRequest \/ WriteResponse
    \/ \E s \in BOOLEAN : HandleRequest(s)

IpcSessionNext ==
    \/ SendRequest \/ ClientReads \/ ClientTimer \/ ClientFindsEnd \/ Hangup
    \/ ServerTimer \/ ServerStep

IpcSessionSpec == IpcSessionInit /\ [][IpcSessionNext]_ipcSessionVars

\* Timers fire; the server's task is polled again.
IpcSessionFairness == WF_ipcSessionVars(ServerStep) /\ WF_ipcSessionVars(ClientTimer)

--------------------------------------------------------------------------------
Outcomes == [kind : {"none", "timeout", "garbled", "ended", "answered"},
             about : {Unknown} \cup RequestNumbers]
Parts == ({Unknown} \cup RequestNumbers) \X {"begin", "end"}

IpcSessionTypeOK ==
    /\ sent \in {0} \cup RequestNumbers
    /\ waiting \in BOOLEAN /\ connected \in BOOLEAN
    /\ waiting => connected
    /\ answer \in [RequestNumbers -> Outcomes]
    /\ clientLine \in Seq(Parts) /\ Len(clientLine) <= 1
    /\ serverLine \in Seq(Parts) /\ Len(serverLine) <= 2
    /\ toServer \in Seq(Parts) /\ toClient \in Seq(Parts)
    /\ server \in [place : {"reading", "line", "handling", "writing", "closed"},
                   about : {Unknown} \cup RequestNumbers]
    /\ handled \in [RequestNumbers -> Nat]
    /\ counts \in [total : Nat, ok : Nat, failed : Nat]
    /\ cut \in Nat

TimeoutsBefore(r) == Cardinality({q \in RequestNumbers : q < r /\ answer[q].kind = "timeout"})

\* A response answers the request that is as many requests back as the client's timer had
\* fired before: its own as long as none did, and never again its own after one has.  Only a
\* line that a timer cut in two is answered as unknown, or read as garbled.
AnswersLagByTimeouts ==
    \A r \in RequestNumbers :
        /\ answer[r].about \in RequestNumbers => answer[r].about = r - TimeoutsBefore(r)
        /\ answer[r] = Answered(Unknown) => cut > 0
        /\ answer[r].kind = "garbled" => TimeoutsBefore(r) > 0

\* No request is handled twice, and whoever gets the response to a request may rely on its
\* having been handled.
HandledOnce ==
    \A r \in RequestNumbers :
        /\ handled[r] <= 1
        /\ answer[r].about \in RequestNumbers => handled[answer[r].about] = 1

\* Each request that was counted is counted as a success or a failure, but for the one that
\* is being handled.
CountsAddUp ==
    counts.total = counts.ok + counts.failed + (IF server.place = "handling" THEN 1 ELSE 0)

\* The server's task ends after the client has hung up, whatever was under way.
SessionCloses == ~connected ~> ~ServerOpen

\* Requests, their answers and the counts of them, with the types.
AnswersInStep == IpcSessionTypeOK /\ AnswersLagByTimeouts /\ HandledOnce /\ CountsAddUp
===============================================================================
