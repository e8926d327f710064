------------------------------ MODULE PingPong ------------------------------
(***************************************************************************)
(* rdmacm03: one client and one server over one established connection.    *)
(* The client sends Count numbered messages, waiting each time for the     *)
(* completion of the send and then for the echo (client.c:61-102); the     *)
(* server copies every message it receives into its send buffer and sends  *)
(* it back until Count of its sends completed (server.c:53-81).            *)
(*                                                                         *)
(* A step of a program is the code up to and including one call the        *)
(* adapter can see (a poll that returns a completion, a post, the          *)
(* teardown); the adapters' steps, in RcChannel, interleave freely.  The   *)
(* spinning polls that return 0 change nothing and are stuttering.         *)
(***************************************************************************)
EXTENDS RcChannel, FiniteSets

CONSTANTS
    Count,      \* the literal 10 of both loops
    QueueDepth  \* max_send_wr and the depth of the completion queue, both 10

ASSUME CountAssumption == Count \in Nat \ {0}
\* The client's queue takes a send and an echo at once, the server's takes
\* what Count messages leave.
ASSUME QueueAssumption == QueueDepth \in Nat /\ Count <= QueueDepth /\ 2 <= QueueDepth
ASSUME SwitchAssumption == AcksLost \in BOOLEAN /\ Faults \in BOOLEAN

VARIABLES
    cpc,        \* where the client is
    i,          \* the client's loop counter
    spc,        \* where the server is
    n,          \* the server's loop counter i: completed sends
    send_buff,  \* nc->send_buff of each end: the message number it holds
    recv_buff,  \* nc->recv_buff of each end
    slog,       \* what the server printed as received
    clog        \* what the client printed as received

clientVars == <<cpc, i, clog>>
serverVars == <<spc, n, slog>>
vars == <<rcVars, clientVars, serverVars, send_buff, recv_buff>>

ClientPcs == {"send", "wait_send", "wait_recv", "repost",
              "cleanup", "done", "died"}
ServerPcs == {"accept", "poll", "repost", "reply", "cleanup", "done", "died"}

\* A buffer that holds no message yet.
Blank == Count

TypeOK ==
    /\ RcTypeOK
    /\ cpc \in ClientPcs /\ spc \in ServerPcs
    /\ i \in Nat /\ n \in Nat
    /\ send_buff \in [Ends -> Nat] /\ recv_buff \in [Ends -> Nat]
    /\ slog \in Seq(Nat) /\ clog \in Seq(Nat)

(***************************************************************************)
(* setup_connection has posted one receive at each end; the client has     *)
(* seen ESTABLISHED, the server has accepted and may not have.             *)
(***************************************************************************)
Init ==
    /\ qp = [e \in Ends |-> "RTS"]
    /\ posted = [e \in Ends |-> 0]
    /\ unacked = [e \in Ends |-> 0]
    /\ rq = [e \in Ends |-> 1]
    /\ cq = [e \in Ends |-> <<>>]
    /\ cpc = "send" /\ i = 0
    /\ spc = "accept" /\ n = 0
    /\ send_buff = [e \in Ends |-> Blank]
    /\ recv_buff = [e \in Ends |-> Blank]
    /\ slog = <<>> /\ clog = <<>>

\* Where the code goes on after "ret = ibv_req_notify_cq(...); if (ret) break".
AfterNotify(pc) == {pc} \union (IF Faults THEN {"cleanup"} ELSE {})

(***************************************************************************)
(* The client.                                                             *)
(***************************************************************************)
\* Mutation: the client does not wait for its send to complete.
ClientSendUnwaited ==
    /\ cpc = "send"
    /\ send_buff' = [send_buff EXCEPT !["client"] = i]
    /\ PostSend("client")
    /\ cpc' = "wait_recv"
    /\ UNCHANGED <<i, clog, serverVars, recv_buff>>

ClientSend ==
    /\ cpc = "send"
    /\ send_buff' = [send_buff EXCEPT !["client"] = i]
    /\ PostSend("client")
    /\ cpc' = "wait_send"
    /\ UNCHANGED <<i, clog, serverVars, recv_buff>>

\* die() and exit(): the kernel destroys the queue pair.
ClientExit ==
    /\ cpc' = "died"
    /\ Flush("client")
    /\ UNCHANGED <<i, clog, serverVars, send_buff, recv_buff>>

\* die("Unexpected opcode"): the completion is not the one waited for.
ClientUnexpectedOpcode ==
    /\ \/ cpc = "wait_send" /\ cq["client"] # <<>> /\ Head(cq["client"]) = "RECV"
       \/ cpc = "wait_recv" /\ cq["client"] # <<>> /\ Head(cq["client"]) = "SEND"
    /\ ClientExit

\* A call failed (IF_NZERO_DIE, die("ibv_poll_cq")), or the process is killed.
ClientDie ==
    /\ Faults
    /\ cpc \in {"send", "wait_send", "wait_recv", "repost"}
    /\ ClientExit

\* Mutation: the client counts the completed send as the whole exchange.
ClientPollSendOnly ==
    /\ cpc = "wait_send"
    /\ \/ /\ PollCq("client", "SEND")
          /\ cpc' = IF i + 1 < Count THEN "send" ELSE "cleanup"
          /\ i' = i + 1
       \/ PollCq("client", "ERR") /\ cpc' = "cleanup" /\ UNCHANGED i
    /\ UNCHANGED <<clog, serverVars, send_buff, recv_buff>>

ClientPollSend ==
    /\ cpc = "wait_send"
    /\ \/ PollCq("client", "SEND") /\ cpc' \in AfterNotify("wait_recv")
       \/ PollCq("client", "ERR") /\ cpc' = "cleanup"
    /\ UNCHANGED <<i, clog, serverVars, send_buff, recv_buff>>

ClientPollRecv ==
    /\ cpc = "wait_recv"
    /\ \/ /\ PollCq("client", "RECV")
          /\ clog' = Append(clog, recv_buff["client"])
          /\ cpc' = "repost"
       \/ PollCq("client", "ERR") /\ cpc' = "cleanup" /\ UNCHANGED clog
    /\ UNCHANGED <<i, serverVars, send_buff, recv_buff>>

\* Mutation: the loop runs once too often.
ClientRepostOneMore ==
    /\ cpc = "repost"
    /\ PostRecv("client")
    /\ i' = i + 1
    /\ cpc' \in AfterNotify(IF i < Count THEN "send" ELSE "cleanup")
    /\ UNCHANGED <<clog, serverVars, send_buff, recv_buff>>

ClientRepost ==
    /\ cpc = "repost"
    /\ PostRecv("client")
    /\ i' = i + 1
    /\ cpc' \in AfterNotify(IF i + 1 < Count THEN "send" ELSE "cleanup")
    /\ UNCHANGED <<clog, serverVars, send_buff, recv_buff>>

ClientCleanup ==
    /\ cpc = "cleanup"
    /\ Flush("client")
    /\ cpc' = "done"
    /\ UNCHANGED <<i, clog, serverVars, send_buff, recv_buff>>

Client ==
    \/ ClientSend \/ ClientPollSend \/ ClientPollRecv \/ ClientRepost
    \/ ClientCleanup \/ ClientUnexpectedOpcode

(***************************************************************************)
(* The server.                                                             *)
(***************************************************************************)
ServerEstablished ==
    /\ spc = "accept"
    /\ spc' = "poll"
    /\ UNCHANGED <<rcVars, clientVars, n, slog, send_buff, recv_buff>>

\* Mutation: the copy is forgotten.
ServerPollRecvNoCopy ==
    /\ spc = "poll"
    /\ PollCq("server", "RECV")
    /\ slog' = Append(slog, recv_buff["server"])
    /\ spc' = "repost"
    /\ UNCHANGED <<clientVars, n, recv_buff, send_buff>>

\* A received message is copied at once: strcpy(send_buff, recv_buff).
ServerPollRecv ==
    /\ spc = "poll"
    /\ PollCq("server", "RECV")
    /\ slog' = Append(slog, recv_buff["server"])
    /\ send_buff' = [send_buff EXCEPT !["server"] = recv_buff["server"]]
    /\ spc' = "repost"
    /\ UNCHANGED <<clientVars, n, recv_buff>>

\* Mutation: the server counts its sends down.
ServerPollSendDown ==
    /\ spc = "poll"
    /\ \/ /\ PollCq("server", "SEND")
          /\ n' = n - 1
          /\ spc' \in AfterNotify(IF n - 1 < Count THEN "poll" ELSE "cleanup")
       \/ PollCq("server", "ERR") /\ spc' = "cleanup" /\ UNCHANGED n
    /\ UNCHANGED <<clientVars, slog, send_buff, recv_buff>>

ServerPollSend ==
    /\ spc = "poll"
    /\ \/ /\ PollCq("server", "SEND")
          /\ n' = n + 1
          /\ spc' \in AfterNotify(IF n + 1 < Count THEN "poll" ELSE "cleanup")
       \/ PollCq("server", "ERR") /\ spc' = "cleanup" /\ UNCHANGED n
    /\ UNCHANGED <<clientVars, slog, send_buff, recv_buff>>

\* Mutation: the receive request is not posted again.
ServerRepostForgotten ==
    /\ spc = "repost"
    /\ spc' = "reply"
    /\ UNCHANGED <<rcVars, clientVars, n, slog, send_buff, recv_buff>>

ServerRepost ==
    /\ spc = "repost"
    /\ PostRecv("server")
    /\ spc' = "reply"
    /\ UNCHANGED <<clientVars, n, slog, send_buff, recv_buff>>

ServerReply ==
    /\ spc = "reply"
    /\ PostSend("server")
    /\ spc' \in AfterNotify("poll")
    /\ UNCHANGED <<clientVars, n, slog, send_buff, recv_buff>>

ServerCleanup ==
    /\ spc = "cleanup"
    /\ Flush("server")
    /\ spc' = "done"
    /\ UNCHANGED <<clientVars, n, slog, send_buff, recv_buff>>

\* A call failed, or the event waited for was not ESTABLISHED.
ServerDie ==
    /\ Faults
    /\ spc \in {"accept", "poll", "repost", "reply"}
    /\ Flush("server")
    /\ spc' = "died"
    /\ UNCHANGED <<clientVars, n, slog, send_buff, recv_buff>>

Server ==
    \/ ServerEstablished \/ ServerPollRecv \/ ServerPollSend \/ ServerRepost
    \/ ServerReply \/ ServerCleanup

(***************************************************************************)
(* The adapters.                                                           *)
(***************************************************************************)
DeliverMessage(e) ==
    /\ Deliver(e)
    /\ recv_buff' = [recv_buff EXCEPT ![Peer(e)] = send_buff[e]]
    /\ UNCHANGED <<clientVars, serverVars, send_buff>>

AcknowledgeMessage(e) ==
    /\ Acknowledge(e)
    /\ UNCHANGED <<clientVars, serverVars, send_buff, recv_buff>>

LoseConnection(e) ==
    /\ RetryExceeded(e)
    /\ UNCHANGED <<clientVars, serverVars, send_buff, recv_buff>>

\* Both programs have ended.
Terminated ==
    /\ cpc \in {"done", "died"} /\ spc \in {"done", "died"}
    /\ UNCHANGED vars

Next ==
    \/ Client \/ ClientDie
    \/ Server \/ ServerDie
    \/ \E e \in Ends :
          DeliverMessage(e) \/ AcknowledgeMessage(e) \/ LoseConnection(e)
    \/ Terminated

\* The programs are never descheduled for ever, and an adapter goes on with
\* a message or an acknowledgement it has pending, and in the end gives up on
\* a peer that is gone.
Fairness ==
    /\ WF_vars(Client) /\ WF_vars(Server)
    /\ \A e \in Ends :
          /\ WF_vars(DeliverMessage(e)) /\ WF_vars(AcknowledgeMessage(e))
          /\ WF_vars(qp[Peer(e)] = "ERR" /\ LoseConnection(e))

Spec == Init /\ [][Next]_vars

FairSpec == Spec /\ Fairness

(***************************************************************************)
(* Properties.                                                             *)
(***************************************************************************)

Echo == INSTANCE EchoSpec WITH requests <- slog, replies <- clog

\* The two logs are those of an echo channel: each message once, in order,
\* with the payload the client sent, whatever is lost or fails
\* (server.c:66-72, client.c:93-94).
ImplementsEcho == Echo!Spec

\* Does a completion queue hold a RECV completion, and at most one?
HasRecv(q) == \E k \in 1..Len(q) : q[k] = "RECV"
OneRecv(q) == \A k, l \in 1..Len(q) : q[k] = "RECV" /\ q[l] = "RECV" => k = l

\* A message has arrived at e and e has not polled its completion.
Arrived(e) == HasRecv(cq[e])

\* Between polling a RECV completion and posting the receive again.
Reposting(e) == IF e = "client" THEN cpc = "repost" ELSE spc = "repost"

\* The one receive request of setup_connection is at any time either posted,
\* completed and unpolled, or with the program: so a message never waits for
\* a receiver that will not post, and recv_buff is never overwritten under
\* a reader (server.c:66-70, client.c:93-96).
ReceiveCredit ==
    \A e \in Ends :
        /\ rq[e] <= 1
        /\ rq[e] = 1 => ~Arrived(e) /\ ~Reposting(e)
        /\ Arrived(e) => ~Reposting(e)
        /\ qp[e] = "RTS" => rq[e] = 1 \/ Arrived(e) \/ Reposting(e)
        /\ OneRecv(cq[e])

\* A send buffer is not written while a send from it is outstanding.  When
\* acknowledgements may be lost the server only knows that the message has
\* been delivered, which is why the sprintf and the strcpy are still safe
\* (client.c:62, server.c:68).
SendBufferOwned ==
    [][\A e \in Ends :
          send_buff'[e] # send_buff[e] =>
              posted[e] = 0 /\ (AcksLost \/ unacked[e] = 0)]_vars

\* The successful completions of sends in a queue; sends of e that still
\* occupy its send queue: outstanding, or completed and not polled.
Sends(q) == {k \in 1..Len(q) : q[k] = "SEND"}
SendsHeld(e) == posted[e] + unacked[e] + Cardinality(Sends(cq[e]))

\* Neither the send queue nor the completion queue of a working queue pair
\* outgrows the ten entries setup_connection asks for, however late the
\* acknowledgements are: the ten echoes and one message just fit
\* (common.c:76, common.c:85).
QueuesFit ==
    \A e \in Ends :
        qp[e] = "RTS" => Len(cq[e]) <= QueueDepth /\ SendsHeld(e) <= QueueDepth

\* The client polls the completion of its send before the echo and so never
\* reaches die("Unexpected opcode") (client.c:75-79, 93-99).
CompletionsInOrder == cpc # "died"

Ended(e) == IF e = "client" THEN cpc \in {"done", "died"} ELSE spc \in {"done", "died"}

\* e polls a completion queue that will stay empty: its peer is gone, and e
\* has nothing outstanding that could fail.
Stranded(e) ==
    /\ IF e = "client" THEN cpc = "wait_recv" ELSE spc = "poll"
    /\ qp[e] = "RTS" /\ cq[e] = <<>> /\ posted[e] + unacked[e] = 0
    /\ Ended(Peer(e))

\* Whatever is lost and whatever fails, a program ends unless the other one
\* left it stranded: nobody waits for ever for a peer that still runs, and
\* never both (server.c:53-57, client.c:65-87).
EndsOrStranded == \A e \in Ends : <>[](Ended(e) \/ Stranded(e))

\* Both programs run to their end with all Count messages echoed
\* (client.c:61-109, server.c:53-89).
AllEchoed ==
    <>(/\ cpc = "done" /\ spc = "done"
       /\ Len(clog) = Count /\ n = Count)
=============================================================================
