------------------------------ MODULE Handshake ------------------------------
(***************************************************************************)
(* rdmacm01: the connection handshake.  A server takes one connection      *)
(* request, accepts it, waits until it is established and ends; a client   *)
(* resolves, connects and ends.  Both take whatever event their channel    *)
(* has next for the one they wait for, and die if it is another            *)
(* (check_cm_event).  Several clients may come to one server; its channel  *)
(* carries the events of its listener and of the connection it accepted.   *)
(***************************************************************************)
EXTENDS Naturals, Sequences

CONSTANTS
    Clients,    \* the clients that are started
    NoClient,   \* nobody is accepted yet
    Mishaps     \* what may go wrong

\* unresolved: an address or a route is not resolved.  rep_lost: the answer
\* of rdma_accept, and every repeat of it, is lost.  rtu_lost: the message
\* that tells the server that the connection is established is lost.
\* killed: a client is killed, or one of its calls fails.  accept_fails: so
\* does one of the server's with which it accepts.  stray_wr: the receive
\* request of setup_connection, whose next pointer is never set, leads
\* ibv_post_recv into memory that is no request.
ASSUME MishapsAssumption ==
    Mishaps \subseteq
        {"unresolved", "rep_lost", "rtu_lost", "killed", "accept_fails", "stray_wr"}
ASSUME ClientsAssumption == NoClient \notin Clients

VARIABLES
    cpc,    \* where each client is
    resp,   \* the response to its connection request that it has not got
    rtu,    \* what became of the message that it is established
    spc,    \* where the server is
    cur,    \* client_id: the client whose request the server got
    evq     \* the events in the server's channel, in order

vars == <<cpc, resp, rtu, spc, cur, evq>>

Events == {"CONNECT_REQUEST", "ESTABLISHED", "DISCONNECTED", "OTHER"} \X Clients

\* A program dies of an event it does not expect; it crashes in a call.
Ended == {"done", "died", "crashed"}

\* Where a client is that has sent no connection request, or ended before.
NotAsked == {"resolve_addr", "resolve_route", "setup", "crashed"}

TypeOK ==
    /\ cpc \in [Clients -> NotAsked \union {"connecting", "established", "killed"}
                            \union Ended]
    /\ resp \in [Clients -> {"none", "REP", "REJECTED"}]
    /\ rtu \in [Clients -> {"none", "lost", "late", "failed"}]
    /\ spc \in {"start", "listen", "accept", "wait_established", "cleanup"} \union Ended
    /\ cur \in Clients \/ (cur = NoClient /\ spc \in {"start", "listen"})
    /\ evq \in Seq(Events)

Init ==
    /\ cpc = [c \in Clients |-> "resolve_addr"]
    /\ resp = [c \in Clients |-> "none"]
    /\ rtu = [c \in Clients |-> "none"]
    /\ spc = "start" /\ cur = NoClient /\ evq = <<>>

\* Is there a listener for a request to reach?
Listening == spc \in {"listen", "accept", "wait_established", "cleanup"}

\* Does the server's end of c's connection exist, so that events reach it?
Accepted(c) == cur = c /\ spc \in {"wait_established", "cleanup"}

(***************************************************************************)
(* The clients.                                                            *)
(***************************************************************************)

\* rdma_resolve_addr and its event, rdma_resolve_route and its event.
ClientResolve(c, pc, next) ==
    /\ cpc[c] = pc
    /\ \/ cpc' = [cpc EXCEPT ![c] = next]
       \/ "unresolved" \in Mishaps /\ cpc' = [cpc EXCEPT ![c] = "crashed"]
    /\ UNCHANGED <<resp, rtu, spc, cur, evq>>

\* setup_connection fails over its receive request.
ClientSetupCrashes(c) ==
    /\ "stray_wr" \in Mishaps
    /\ cpc[c] = "setup"
    /\ cpc' = [cpc EXCEPT ![c] = "crashed"]
    /\ UNCHANGED <<resp, rtu, spc, cur, evq>>

\* setup_connection and rdma_connect; a request that finds no listener is
\* rejected.
ClientConnect(c) ==
    /\ cpc[c] = "setup"
    /\ cpc' = [cpc EXCEPT ![c] = "connecting"]
    /\ IF Listening
         THEN evq' = Append(evq, <<"CONNECT_REQUEST", c>>) /\ UNCHANGED resp
         ELSE resp' = [resp EXCEPT ![c] = "REJECTED"] /\ UNCHANGED evq
    /\ UNCHANGED <<rtu, spc, cur>>

\* Mutation: any response counts as ESTABLISHED.
ClientGetResponseUnchecked(c) ==
    /\ cpc[c] = "connecting" /\ resp[c] # "none"
    /\ resp' = [resp EXCEPT ![c] = "none"]
    /\ cpc' = [cpc EXCEPT ![c] = "established"]
    /\ evq' = IF Accepted(c) THEN Append(evq, <<"ESTABLISHED", c>>) ELSE evq
    /\ UNCHANGED <<rtu, spc, cur>>

\* The event after rdma_connect: ESTABLISHED, which the server hears of
\* unless the message is lost, or a rejection, which ends the client.
ClientGetResponse(c) ==
    /\ cpc[c] = "connecting" /\ resp[c] # "none"
    /\ resp' = [resp EXCEPT ![c] = "none"]
    /\ IF resp[c] = "REP"
         THEN /\ cpc' = [cpc EXCEPT ![c] = "established"]
              /\ \/ /\ evq' = IF Accepted(c) THEN Append(evq, <<"ESTABLISHED", c>>) ELSE evq
                    /\ UNCHANGED rtu
                 \/ /\ "rtu_lost" \in Mishaps
                    /\ rtu' = [rtu EXCEPT ![c] = "lost"] /\ UNCHANGED evq
         ELSE /\ cpc' = [cpc EXCEPT ![c] = "died"]
              /\ UNCHANGED <<rtu, evq>>
    /\ UNCHANGED <<spc, cur>>

\* rdma_disconnect, rdma_destroy_id and the end of the program.
ClientCleanup(c) ==
    /\ cpc[c] = "established"
    /\ cpc' = [cpc EXCEPT ![c] = "done"]
    /\ evq' = IF Accepted(c) THEN Append(evq, <<"DISCONNECTED", c>>) ELSE evq
    /\ UNCHANGED <<resp, rtu, spc, cur>>

\* The process ends where it is.  A connection the server has accepted and
\* not seen established fails there.
ClientKilled(c) ==
    /\ "killed" \in Mishaps
    /\ cpc[c] \notin Ended \union {"killed"}
    /\ cpc' = [cpc EXCEPT ![c] = IF @ \in NotAsked THEN "crashed" ELSE "killed"]
    /\ resp' = [resp EXCEPT ![c] = "none"]
    /\ evq' = IF Accepted(c)
                THEN Append(evq, <<IF cpc[c] = "established" THEN "DISCONNECTED"
                                                             ELSE "OTHER", c>>)
                ELSE evq
    /\ UNCHANGED <<rtu, spc, cur>>

Client(c) ==
    \/ ClientResolve(c, "resolve_addr", "resolve_route")
    \/ ClientResolve(c, "resolve_route", "setup")
    \/ ClientSetupCrashes(c) \/ ClientConnect(c) \/ ClientGetResponse(c) \/ ClientCleanup(c)

(***************************************************************************)
(* The server.                                                             *)
(***************************************************************************)

\* The listener is gone: every request without an answer is rejected.
RejectPending ==
    resp' = [c \in Clients |->
                IF cpc[c] = "connecting" /\ resp[c] = "none" THEN "REJECTED" ELSE resp[c]]

ServerListen ==
    /\ spc = "start"
    /\ spc' = "listen"
    /\ UNCHANGED <<cpc, resp, rtu, cur, evq>>

\* Mutation: the id of the listener is taken for that of the request.
ServerGetRequestListener ==
    /\ spc = "listen" /\ evq # <<>>
    /\ evq' = Tail(evq)
    /\ IF Head(evq)[1] = "CONNECT_REQUEST"
         THEN spc' = "accept" /\ UNCHANGED <<cur, resp>>
         ELSE spc' = "died" /\ RejectPending /\ UNCHANGED cur
    /\ UNCHANGED <<cpc, rtu>>

ServerGetRequest ==
    /\ spc = "listen" /\ evq # <<>>
    /\ evq' = Tail(evq)
    /\ IF Head(evq)[1] = "CONNECT_REQUEST"
         THEN spc' = "accept" /\ cur' = Head(evq)[2] /\ UNCHANGED resp
         ELSE spc' = "died" /\ RejectPending /\ UNCHANGED cur
    /\ UNCHANGED <<cpc, rtu>>

ServerSetupCrashes ==
    /\ "stray_wr" \in Mishaps
    /\ spc = "accept"
    /\ spc' = "crashed"
    /\ RejectPending
    /\ UNCHANGED <<cpc, rtu, cur, evq>>

\* setup_connection and rdma_accept.  If the client is gone rdma_accept
\* fails, or the connection fails later; either call may fail anyway.
ServerAccept ==
    /\ spc = "accept"
    /\ \/ /\ cpc[cur] = "connecting"
          /\ resp' = [resp EXCEPT ![cur] = "REP"]
          /\ spc' = "wait_established"
          /\ UNCHANGED evq
       \/ /\ cpc[cur] # "connecting"
          /\ spc' = "wait_established"
          /\ evq' = Append(evq, <<"OTHER", cur>>)
          /\ UNCHANGED resp
       \/ /\ cpc[cur] # "connecting" \/ "accept_fails" \in Mishaps
          /\ spc' = "crashed"
          /\ RejectPending
          /\ UNCHANGED evq
    /\ UNCHANGED <<cpc, rtu, cur>>

\* Mutation: the event is not checked.
ServerGetEstablishedUnchecked ==
    /\ spc = "wait_established" /\ evq # <<>>
    /\ evq' = Tail(evq)
    /\ spc' = "cleanup"
    /\ UNCHANGED <<cpc, resp, rtu, cur>>

\* Mutation: the event is checked against the one before.
ServerGetEstablishedOther ==
    /\ spc = "wait_established" /\ evq # <<>>
    /\ evq' = Tail(evq)
    /\ IF Head(evq)[1] = "CONNECT_REQUEST"
         THEN spc' = "cleanup" /\ UNCHANGED resp
         ELSE spc' = "died" /\ RejectPending
    /\ UNCHANGED <<cpc, rtu, cur>>

ServerGetEstablished ==
    /\ spc = "wait_established" /\ evq # <<>>
    /\ evq' = Tail(evq)
    /\ IF Head(evq)[1] = "ESTABLISHED"
         THEN spc' = "cleanup" /\ UNCHANGED resp
         ELSE spc' = "died" /\ RejectPending
    /\ UNCHANGED <<cpc, rtu, cur>>

\* Mutation: the listener is kept open and nothing answers.
ServerCleanupKeepsListener ==
    /\ spc = "cleanup"
    /\ spc' = "done"
    /\ evq' = <<>>
    /\ UNCHANGED <<cpc, resp, rtu, cur>>

\* rdma_disconnect, both rdma_destroy_id and the end of the program.
ServerCleanup ==
    /\ spc = "cleanup"
    /\ spc' = "done"
    /\ evq' = <<>>
    /\ RejectPending
    /\ UNCHANGED <<cpc, rtu, cur>>

Server ==
    \/ ServerListen \/ ServerGetRequest \/ ServerSetupCrashes \/ ServerAccept
    \/ ServerGetEstablished \/ ServerCleanup

(***************************************************************************)
(* The system.                                                             *)
(***************************************************************************)

\* The connection manager has repeated the answer in vain: it gives the
\* connection up at both ends.
AnswerLost(c) ==
    /\ "rep_lost" \in Mishaps
    /\ resp[c] = "REP"
    /\ resp' = [resp EXCEPT ![c] = "REJECTED"]
    /\ evq' = IF Accepted(c) THEN Append(evq, <<"OTHER", c>>) ELSE evq
    /\ UNCHANGED <<cpc, rtu, spc, cur>>

\* After a lost message the connection manager repeats it while the client
\* is there, or the server's end fails in the end.
LateEvent(c) ==
    /\ rtu[c] = "lost"
    /\ \/ /\ cpc[c] = "established"
          /\ rtu' = [rtu EXCEPT ![c] = "late"]
          /\ evq' = IF Accepted(c) THEN Append(evq, <<"ESTABLISHED", c>>) ELSE evq
       \/ /\ rtu' = [rtu EXCEPT ![c] = "failed"]
          /\ evq' = IF Accepted(c) THEN Append(evq, <<"OTHER", c>>) ELSE evq
    /\ UNCHANGED <<cpc, resp, spc, cur>>

\* Every client has ended; a server nobody came to waits on.
Quiet ==
    /\ \A c \in Clients : cpc[c] \in Ended \union {"killed"}
    /\ spc \in Ended \/ (spc = "listen" /\ evq = <<>>)
    /\ UNCHANGED vars

Next ==
    \/ Server \/ Quiet
    \/ \E c \in Clients : Client(c) \/ ClientKilled(c) \/ AnswerLost(c) \/ LateEvent(c)

Spec == Init /\ [][Next]_vars

\* Programs run on, and the connection manager goes on with a connection.
Fairness ==
    /\ WF_vars(Server)
    /\ \A c \in Clients : WF_vars(Client(c)) /\ WF_vars(LateEvent(c))

FairSpec == Spec /\ Fairness

(***************************************************************************)
(* Properties.                                                             *)
(***************************************************************************)

\* A client that was told it is connected is the one the server accepted:
\* of several clients at most one is (client.c:44-51, server.c:28, 38).
OneClientServed ==
    \A c \in Clients : cpc[c] \in {"established", "done"} => c = cur

\* A server that has ended well was connected to a client that knew it,
\* unless that one was killed (server.c:41-46).
ServerAgrees ==
    spc \in {"cleanup", "done"} => cpc[cur] \in {"established", "done", "killed"}

\* c is told that it is not connected, or will be.
Refused(c) == resp[c] = "REJECTED" \/ cpc[c] = "died"

\* The server dies of an unexpected event only if another client came, its
\* client was killed, or one of the last two messages of the handshake was
\* lost (common.c:61-67).
OnlyDisturbedDies ==
    spc = "died" =>
        \/ \E c \in Clients \ {cur} : cpc[c] \notin NotAsked
        \/ cpc[cur] = "killed"
        \/ Refused(cur)
        \/ rtu[cur] \in {"lost", "failed"}

\* No client waits for ever for the answer to its request, and the server
\* not for ever for a connection to be established: there is always an
\* event, if not the expected one (client.c:49, server.c:41).
HandshakeEnds ==
    /\ \A c \in Clients : cpc[c] = "connecting" ~> cpc[c] # "connecting"
    /\ spc = "wait_established" ~> spc \in Ended
=============================================================================
