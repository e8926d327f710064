----------------------------- MODULE QpExchange -----------------------------
(***************************************************************************)
(* example03: a client and a server that connect their queue pairs         *)
(* themselves.  They exchange the addresses of the queue pairs over TCP,   *)
(* the server writing first (server.c:36-53) and the client reading first  *)
(* (client.c:41-56), take the queue pairs from RESET to RTS                *)
(* (rdma_common.c:59-107) and then echo messages for ever.  Each program   *)
(* has one buffer, which it sends from and receives into.                  *)
(*                                                                         *)
(* Nothing tells a program that its peer is ready: a message that arrives  *)
(* before the peer's queue pair can receive is dropped and sent again.     *)
(***************************************************************************)
EXTENDS Naturals, Sequences, SequencesExt

CONSTANTS
    Messages,       \* bound on the client's msg_count
    LittleEndian,   \* the ends whose hosts are little-endian
    Mishaps         \* what may go wrong

Ends == {"client", "server"}

\* short: a read or a write of the socket fails or is short.  timeout: the
\* eight tries of a message are used up.  ack_lost: an acknowledgement is
\* lost.  killed: a program is killed, or a verbs call fails.
ASSUME MishapsAssumption ==
    Mishaps \subseteq {"short", "timeout", "ack_lost", "killed"}
ASSUME BoundsAssumption == Messages \in Nat /\ LittleEndian \subseteq Ends

VARIABLES
    cpc, msg_count, completions,    \* the client
    spc,                            \* the server
    connected,  \* has the client's connect reached the server's socket?
    wire,       \* what each end has written to the socket, unread
    remote,     \* remote_info of each end
    qp,         \* state of its queue pair
    buf,        \* res.buf: the number of the message it holds
    rq, posted, unacked, cq,        \* as in RcChannel
    slog, clog  \* what the programs have printed as received

clientVars == <<cpc, msg_count, completions>>
pcVars == <<clientVars, spc>>
tcpVars == <<connected, wire, remote>>
rcVars == <<qp, rq, posted, unacked, cq>>
logVars == <<slog, clog>>
vars == <<pcVars, tcpVars, rcVars, buf, logVars>>

Peer(e) == IF e = "client" THEN "server" ELSE "client"

(***************************************************************************)
(* Addresses.  A number is the sequence of its bytes, highest first; a     *)
(* little-endian host keeps it in memory the other way round.              *)
(***************************************************************************)
Address(e) ==
    IF e = "client"
      THEN [qp_num |-> <<0, 1, 2, 3>>, lid |-> <<4, 5>>, gid |-> "client"]
      ELSE [qp_num |-> <<0, 6, 7, 8>>, lid |-> <<9, 10>>, gid |-> "server"]

NoInfo == [qp_num |-> <<>>, lid |-> <<>>, gid |-> "none"]

InMemory(e, num) == IF e \in LittleEndian THEN Reverse(num) ELSE num

\* htonl, htons, ntohl and ntohs: the number whose bytes in the memory of e
\* are those of num, highest first.
NetOrder(e, num) == InMemory(e, num)

\* The bytes of local_info, as e writes them.
Encoded(e) ==
    [qp_num |-> InMemory(e, NetOrder(e, Address(e).qp_num)),
     lid    |-> InMemory(e, NetOrder(e, Address(e).lid)),
     gid    |-> Address(e).gid]

\* Mutation: the numbers are used as they were read.
DecodedRaw(e, bytes) ==
    [qp_num |-> InMemory(e, bytes.qp_num),
     lid    |-> InMemory(e, bytes.lid),
     gid    |-> bytes.gid]

\* remote_info after it is read and its numbers are converted.
Decoded(e, bytes) ==
    [qp_num |-> NetOrder(e, InMemory(e, bytes.qp_num)),
     lid    |-> NetOrder(e, InMemory(e, bytes.lid)),
     gid    |-> bytes.gid]

Blank == Messages

QpStates == {"RESET", "INIT", "RTR", "RTS", "ERR", "gone"}

TypeOK ==
    /\ cpc \in {"connect", "read_info", "write_info", "setup", "prepare",
                "send", "wait", "died"}
    /\ spc \in {"listen", "accept", "write_info", "read_info", "setup",
                "post_receive", "wait_recv", "wait_send", "died"}
    /\ msg_count \in 0..Messages /\ completions \in 0..2
    /\ connected \in BOOLEAN
    /\ wire \in [Ends -> {<<>>} \union {<<Encoded(e)>> : e \in Ends}]
    /\ \A e \in Ends : remote[e].gid \in Ends \union {"none"}
    /\ qp \in [Ends -> QpStates]
    /\ buf \in [Ends -> 0..Messages]
    /\ rq \in [Ends -> 0..1] /\ posted \in [Ends -> 0..1]
    /\ unacked \in [Ends -> 0..1]
    /\ cq \in [Ends -> Seq({"SEND", "RECV", "ERR"})]
    /\ slog \in Seq(0..Messages) /\ clog \in Seq(0..Messages)

Init ==
    /\ cpc = "connect" /\ msg_count = 0 /\ completions = 0 /\ spc = "listen"
    /\ connected = FALSE
    /\ wire = [e \in Ends |-> <<>>] /\ remote = [e \in Ends |-> NoInfo]
    /\ qp = [e \in Ends |-> "RESET"]
    /\ buf = [e \in Ends |-> Blank]
    /\ rq = [e \in Ends |-> 0] /\ posted = [e \in Ends |-> 0]
    /\ unacked = [e \in Ends |-> 0] /\ cq = [e \in Ends |-> <<>>]
    /\ slog = <<>> /\ clog = <<>>

\* Nothing e has posted is outstanding any more.
Withdraw(e) ==
    /\ rq' = [rq EXCEPT ![e] = 0]
    /\ posted' = [posted EXCEPT ![e] = 0]
    /\ unacked' = [unacked EXCEPT ![e] = 0]

\* The process of e ends and the kernel destroys its queue pair.
Exit(e) ==
    /\ qp' = [qp EXCEPT ![e] = "gone"]
    /\ Withdraw(e)
    /\ UNCHANGED <<cq, tcpVars, buf>>

Gone(e) == qp[e] = "gone"

(***************************************************************************)
(* Shared functions.                                                       *)
(***************************************************************************)

\* write of local_info, at end e.
WriteInfo(e) ==
    /\ wire' = [wire EXCEPT ![e] = <<Encoded(e)>>]
    /\ UNCHANGED <<connected, remote, rcVars, buf>>

\* read into remote_info, at end e.
ReadInfo(e) ==
    /\ wire[Peer(e)] # <<>>
    /\ remote' = [remote EXCEPT ![e] = Decoded(e, Head(wire[Peer(e)]))]
    /\ wire' = [wire EXCEPT ![Peer(e)] = <<>>]
    /\ UNCHANGED <<connected, rcVars, buf>>

\* The read returns 0 bytes after the peer is gone, or too few of those that
\* have come; until then it waits.  The write fails.
ReadFails(e) ==
    IF wire[Peer(e)] = <<>> THEN Gone(Peer(e)) ELSE "short" \in Mishaps
WriteFails(e) == Gone(Peer(e)) \/ "short" \in Mishaps

\* One ibv_modify_qp of setup_qp_state.
NextState == [RESET |-> "INIT", INIT |-> "RTR", RTR |-> "RTS"]

ModifyQp(e) ==
    /\ qp[e] \in {"RESET", "INIT", "RTR"}
    /\ qp' = [qp EXCEPT ![e] = NextState[@]]
    /\ UNCHANGED <<tcpVars, rq, posted, unacked, cq, buf>>

\* post_receive and post_send: there is nothing outstanding whose failure
\* could have put the queue pair into the error state.
PostReceive(e) ==
    /\ rq' = [rq EXCEPT ![e] = @ + 1]
    /\ UNCHANGED <<tcpVars, qp, posted, unacked, cq>>

PostSend(e) ==
    /\ posted' = [posted EXCEPT ![e] = @ + 1]
    /\ UNCHANGED <<tcpVars, qp, rq, unacked, cq, buf>>

(***************************************************************************)
(* The client.                                                             *)
(***************************************************************************)
ClientExit ==
    /\ cpc' = "died" /\ Exit("client")
    /\ UNCHANGED <<msg_count, completions, spc, logVars>>

\* connect: refused unless the server listens.
ClientConnect ==
    /\ cpc = "connect"
    /\ IF spc \in {"listen", "died"}
         THEN ClientExit
         ELSE /\ cpc' = "read_info" /\ connected' = TRUE
              /\ UNCHANGED <<msg_count, completions, spc, wire, remote, rcVars, buf,
                             logVars>>

ClientReadInfo ==
    /\ cpc = "read_info"
    /\ \/ ReadInfo("client") /\ cpc' = "write_info"
          /\ UNCHANGED <<msg_count, completions, spc, logVars>>
       \/ ReadFails("client") /\ ClientExit

ClientWriteInfo ==
    /\ cpc = "write_info"
    /\ \/ WriteInfo("client") /\ cpc' = "setup"
          /\ UNCHANGED <<msg_count, completions, spc, logVars>>
       \/ WriteFails("client") /\ ClientExit

ClientSetup ==
    /\ cpc = "setup"
    /\ ModifyQp("client")
    /\ cpc' = IF qp["client"] = "RTR" THEN "prepare" ELSE "setup"
    /\ UNCHANGED <<msg_count, completions, spc, logVars>>

\* Mutation: the receive for the echo is not posted.
PostEchoReceiveForgotten == UNCHANGED <<tcpVars, rcVars>>
PostEchoReceive == PostReceive("client")

\* snprintf into the buffer, and post_receive for the echo.
ClientPrepare ==
    /\ cpc = "prepare" /\ msg_count < Messages
    /\ buf' = [buf EXCEPT !["client"] = msg_count]
    /\ PostEchoReceive
    /\ cpc' = "send"
    /\ UNCHANGED <<msg_count, completions, spc, logVars>>

\* Mutation: the completions are counted on from the last round.
FirstCountOn == completions
FirstCount == 0

ClientSend ==
    /\ cpc = "send"
    /\ PostSend("client")
    /\ completions' = FirstCount
    /\ cpc' = "wait"
    /\ UNCHANGED <<msg_count, spc, logVars>>

\* The completions one ibv_poll_cq(res.cq, 2, wc) returns.
Polled == SubSeq(cq["client"], 1, IF Len(cq["client"]) < 2 THEN Len(cq["client"]) ELSE 2)

\* Is there a receive among wcs, before any failed completion?
Received(wcs) ==
    \E k \in 1..Len(wcs) : wcs[k] = "RECV" /\ \A j \in 1..k : wcs[j] # "ERR"

\* Mutation: one completion is enough.
RoundOverAtOne(k) == k >= 1
RoundOver(k) == k >= 2

\* The loop until two requests have completed, of whichever kind.
ClientPoll ==
    /\ cpc = "wait" /\ cq["client"] # <<>>
    /\ clog' = IF Received(Polled) THEN Append(clog, buf["client"]) ELSE clog
    /\ IF Contains(Polled, "ERR")
         THEN /\ cpc' = "died" /\ Exit("client")
              /\ UNCHANGED <<msg_count, completions>>
         ELSE /\ cq' = [cq EXCEPT !["client"] = SubSeq(@, Len(Polled) + 1, Len(@))]
              /\ completions' = completions + Len(Polled)
              /\ IF RoundOver(completions + Len(Polled))
                   THEN cpc' = "prepare" /\ msg_count' = msg_count + 1
                   ELSE UNCHANGED <<cpc, msg_count>>
              /\ UNCHANGED <<tcpVars, qp, rq, posted, unacked, buf>>
    /\ UNCHANGED <<spc, slog>>

Client ==
    \/ ClientConnect \/ ClientReadInfo \/ ClientWriteInfo \/ ClientSetup
    \/ ClientPrepare \/ ClientSend \/ ClientPoll

(***************************************************************************)
(* The server.                                                             *)
(***************************************************************************)
ServerExit ==
    /\ spc' = "died" /\ Exit("server")
    /\ UNCHANGED <<clientVars, logVars>>

\* bind and listen.
ServerListen ==
    /\ spc = "listen"
    /\ spc' = "accept"
    /\ UNCHANGED <<clientVars, tcpVars, rcVars, buf, logVars>>

\* Mutation: the server reads before it writes.
ServerAcceptReadsFirst ==
    /\ spc = "accept"
    /\ connected
    /\ spc' = "read_info"
    /\ UNCHANGED <<clientVars, tcpVars, rcVars, buf, logVars>>

ServerAccept ==
    /\ spc = "accept"
    /\ connected
    /\ spc' = "write_info"
    /\ UNCHANGED <<clientVars, tcpVars, rcVars, buf, logVars>>

ServerWriteInfo ==
    /\ spc = "write_info"
    /\ \/ WriteInfo("server") /\ spc' = "read_info"
          /\ UNCHANGED <<clientVars, logVars>>
       \/ WriteFails("server") /\ ServerExit

ServerReadInfo ==
    /\ spc = "read_info"
    /\ \/ ReadInfo("server") /\ spc' = "setup"
          /\ UNCHANGED <<clientVars, logVars>>
       \/ ReadFails("server") /\ ServerExit

ServerSetup ==
    /\ spc = "setup"
    /\ ModifyQp("server")
    /\ spc' = IF qp["server"] = "RTR" THEN "post_receive" ELSE "setup"
    /\ UNCHANGED <<clientVars, logVars>>

ServerPostReceive ==
    /\ spc = "post_receive"
    /\ PostReceive("server")
    /\ spc' = "wait_recv"
    /\ UNCHANGED <<clientVars, buf, logVars>>

\* The server takes its next completion, which has not failed.
Take ==
    /\ cq["server"] # <<>> /\ Head(cq["server"]) # "ERR"
    /\ cq' = [cq EXCEPT !["server"] = Tail(@)]
    /\ UNCHANGED <<clientVars, tcpVars, qp, rq, unacked, buf, clog>>

\* A message is received and sent back from where it lies; a completion
\* that is not a receive goes back to post_receive.
ServerPollRecv ==
    /\ spc = "wait_recv" /\ Take
    /\ IF Head(cq["server"]) = "RECV"
         THEN /\ slog' = Append(slog, buf["server"])
              /\ posted' = [posted EXCEPT !["server"] = @ + 1]
              /\ spc' = "wait_send"
         ELSE spc' = "post_receive" /\ UNCHANGED <<posted, slog>>

\* The echo has completed.
ServerPollSend ==
    /\ spc = "wait_send" /\ Take
    /\ spc' = "post_receive"
    /\ UNCHANGED <<posted, slog>>

\* A failed completion ends the server.
ServerPollError ==
    /\ spc \in {"wait_recv", "wait_send"}
    /\ cq["server"] # <<>> /\ Head(cq["server"]) = "ERR"
    /\ ServerExit

Server ==
    \/ ServerListen \/ ServerAccept \/ ServerWriteInfo \/ ServerReadInfo
    \/ ServerSetup \/ ServerPostReceive \/ ServerPollRecv \/ ServerPollSend
    \/ ServerPollError

(***************************************************************************)
(* The adapters, and the end of a program.                                 *)
(***************************************************************************)

\* Can the queue pair of e take messages from its peer?
CanReceive(e) == qp[e] \in {"RTR", "RTS"} /\ remote[e] = Address(Peer(e))

Deliver(e) ==
    /\ qp[e] = "RTS" /\ posted[e] > 0
    /\ remote[e] = Address(Peer(e)) /\ CanReceive(Peer(e)) /\ rq[Peer(e)] > 0
    /\ "ack_lost" \in Mishaps \/ unacked[Peer(e)] = 0
    /\ posted' = [posted EXCEPT ![e] = @ - 1]
    /\ unacked' = [unacked EXCEPT ![e] = @ + 1]
    /\ rq' = [rq EXCEPT ![Peer(e)] = @ - 1]
    /\ buf' = [buf EXCEPT ![Peer(e)] = buf[e]]
    /\ cq' = [cq EXCEPT ![Peer(e)] = Append(@, "RECV")]
    /\ UNCHANGED <<pcVars, tcpVars, qp, logVars>>

Acknowledge(e) ==
    /\ qp[e] = "RTS" /\ unacked[e] > 0
    /\ unacked' = [unacked EXCEPT ![e] = @ - 1]
    /\ cq' = [cq EXCEPT ![e] = Append(@, "SEND")]
    /\ UNCHANGED <<pcVars, tcpVars, qp, rq, posted, buf, logVars>>

\* The peer is gone, or has not been ready for retry_cnt tries.
RetryExceeded(e) ==
    /\ qp[e] = "RTS"
    /\ Gone(Peer(e)) \/ "timeout" \in Mishaps
    /\ posted[e] > 0 \/ (unacked[e] > 0 /\ "ack_lost" \in Mishaps)
    /\ qp' = [qp EXCEPT ![e] = "ERR"]
    /\ cq' = [cq EXCEPT ![e] =
                 @ \o [k \in 1..(posted[e] + unacked[e] + rq[e]) |-> "ERR"]]
    /\ Withdraw(e)
    /\ UNCHANGED <<pcVars, tcpVars, buf, logVars>>

Killed ==
    /\ "killed" \in Mishaps
    /\ \/ cpc # "died" /\ ClientExit
       \/ spc # "died" /\ ServerExit

\* Where a program runs on, or the model ends: a loop that polls an empty
\* queue, a server that waits for another client, a client at its bound.
Idle ==
    /\ \/ cpc = "wait" /\ cq["client"] = <<>>
       \/ spc \in {"wait_recv", "wait_send"} /\ cq["server"] = <<>>
       \/ cpc = "died" /\ spc = "died"
       \/ cpc = "died" /\ spc = "accept" /\ ~connected
       \/ cpc = "prepare" /\ msg_count = Messages
    /\ UNCHANGED vars

Next ==
    \/ Client \/ Server \/ Killed \/ Idle
    \/ \E e \in Ends : Deliver(e) \/ Acknowledge(e) \/ RetryExceeded(e)

Spec == Init /\ [][Next]_vars

\* Neither program is descheduled for ever; an adapter goes on with what it
\* has pending.
Fairness ==
    /\ WF_vars(Client) /\ WF_vars(Server)
    /\ \A e \in Ends : WF_vars(Deliver(e)) /\ WF_vars(Acknowledge(e))

FairSpec == Spec /\ Fairness

(***************************************************************************)
(* Properties.                                                             *)
(***************************************************************************)

\* The queue pair that can carry messages is connected to the peer's,
\* whatever the byte orders of the two hosts (client.c:45-51,
\* server.c:36-38, 50-51).
ConnectedToPeer ==
    \A e \in Ends :
        qp[e] \in {"RTR", "RTS"} => remote[e] = Address(Peer(e))

\* Each message is printed once at each end, in order and unchanged,
\* although the echo lands in the buffer it was sent from.
Echo == INSTANCE EchoSpec WITH requests <- slog, replies <- clog, Count <- Messages
ImplementsEcho == Echo!Spec

\* While a message may still be sent, or sent again, the buffer it is sent
\* from does not change: the server receives nothing until its echo is
\* acknowledged, and the echo the client receives is the message itself
\* (client.c:75-80, server.c:69-96).
BufferStable ==
    [][\A e \in Ends : posted[e] + unacked[e] > 0 => buf'[e] = buf[e]]_vars

\* An echo on its way finds the receive request posted for it (the comment
\* at client.c:74).
EchoExpected == posted["server"] > 0 /\ qp["client"] = "RTS" => rq["client"] = 1

\* Two completions, of whichever kind, are the two of this round: nothing
\* of it is left for the next (client.c:84-101).
RoundClosed ==
    cpc = "prepare" =>
        /\ rq["client"] = 0 /\ posted["client"] = 0 /\ unacked["client"] = 0
        /\ cq["client"] = <<>>
        /\ Len(clog) = msg_count

\* The two programs do not wait for each other on the socket: one of them
\* writes first, and the end of one is seen by the other (client.c:41,
\* server.c:42-47).
ExchangeEnds ==
    /\ cpc = "read_info" ~> cpc # "read_info"
    /\ spc = "read_info" ~> spc # "read_info"

\* A client that waits gets its echo unless one of the programs dies, even
\* if its message was sent before the server could receive it.
EchoOrDeath == cpc = "wait" ~> cpc # "wait" \/ spc = "died"
=============================================================================
