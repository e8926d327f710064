---------------------------- MODULE EpollServer ----------------------------
(***************************************************************************)
(* rdmacm05: one thread serves every connection from an epoll loop.  The   *)
(* loop waits for the event channel of the connection manager and for the  *)
(* completion channel of every connection, and handles what is readable    *)
(* batch by batch (server.c).  Its clients (client.c) send Count messages, *)
(* each after the echo of the last one, and disconnect.                    *)
(*                                                                         *)
(* The server's steps end where an adapter or a client can tell the        *)
(* difference: epoll_wait, ibv_get_cq_event, ibv_req_notify_cq,            *)
(* ibv_poll_cq and the posts are each a step of their own, because the     *)
(* adapter adds completions and raises events between them.                *)
(***************************************************************************)
EXTENDS Integers, Sequences, FiniteSets, Verbs

CONSTANTS
    Conns,      \* the connections clients will ask for
    ec,         \* the event channel, as epoll data
    Count,      \* messages of each client (its argv[2])
    MaxEvents,  \* MAX_EVENTS: events in one epoll_wait, 16
    PollBatch,  \* completions in one ibv_poll_cq, 16
    MaxSendWr,  \* max_send_wr, 10
    LogBound,   \* messages the model keeps of each slog
    Mishaps     \* what may go wrong: see below

\* ack_lost: an acknowledgement is lost, and is not sent again if its sender
\* is gone.  leave: an established client goes away before it is finished.
\* give_up: a client goes away while it connects.  no_memory: malloc fails.
\* verbs_fail: a call of the loop fails (epoll_wait, rdma_get_cm_event, the
\* calls of handle_new_request and handle_cq_event).
ASSUME MishapsAssumption ==
    Mishaps \subseteq {"ack_lost", "leave", "give_up", "no_memory", "verbs_fail"}
ASSUME BoundsAssumption ==
    /\ Count \in [Conns -> Nat] /\ MaxSendWr \in Nat \ {0}
    /\ LogBound \in Nat
    /\ MaxEvents \in Nat \ {0} /\ PollBatch \in Nat \ {0}
ASSUME ChannelAssumption == ec \notin Conns /\ IsFiniteSet(Conns)

VARIABLES
    keep_running,   \* cleared by SIGINT
    mpc,            \* where the server is
    batch,          \* what epoll_wait returned and the loop has not reached
    cur,            \* the connection whose completions are being handled
    wcs,            \* completions polled for it and not handled
    failed,         \* connections whose last handle_cq_event broke off
    cmq,            \* connection manager events not yet handled, in order
    state,          \* cctx->state of each connection, or none, or freed
    res,            \* what setup_connection created for it and is still there
    wr_id,          \* the connection its work requests name, or ec: not set up
    qp,             \* the server's queue pair of each connection
    rq,             \* its posted receives
    posted,         \* its sends not yet delivered
    unacked,        \* its sends delivered and not acknowledged
    cq,             \* its completion queue
    armed,          \* has a notification been requested?
    chan,           \* events in its completion channel
    recv_buff, send_buff,   \* its buffers: a message number, at first none
    peer,           \* where the client of each connection is
    sent,           \* messages it has sent
    slog, clog      \* what server and client have printed as received

drainVars == <<cur, wcs, failed>>
loopVars == <<keep_running, mpc, batch, drainVars>>
connVars == <<state, res, wr_id>>
rcVars == <<qp, rq, posted, unacked, cq, armed, chan>>
buffVars == <<recv_buff, send_buff, slog>>
peerVars == <<peer, sent, clog>>
outsideVars == <<cmq, connVars, rcVars, buffVars, peerVars>>
vars == <<loopVars, outsideVars>>

CmEvents == {"CONNECT_REQUEST", "ESTABLISHED", "DISCONNECTED", "OTHER"}

\* A completion: the opcode of its request, and whether it succeeded.
Completions == {"SEND", "RECV", "SEND_ERR", "RECV_ERR"}

Stopped == {"exited", "died", "die_post", "crashed"}
Pcs == {"check", "wait", "batch", "notify", "poll", "wc", "reply"} \union Stopped

ConnStates == {"none", "ACCEPTING", "ESTABLISHED", "freed"}
PeerStates == {"new", "connecting", "idle", "waiting", "gone", "gave_up"}

TypeOK ==
    /\ keep_running \in BOOLEAN
    /\ mpc \in Pcs
    /\ batch \subseteq Conns \union {ec}
    /\ cur \in Conns \union {ec}
    /\ wcs \in Seq(Completions) /\ failed \subseteq Conns
    /\ cmq \in Seq(CmEvents \X Conns)
    /\ state \in [Conns -> ConnStates]
    /\ res \in [Conns -> SUBSET Resources]
    /\ wr_id \in [Conns -> Conns \union {ec}]
    /\ qp \in [Conns -> {"none", "RTS", "ERR"}]
    /\ rq \in [Conns -> Nat] /\ posted \in [Conns -> Nat]
    /\ unacked \in [Conns -> Nat] /\ chan \in [Conns -> Nat]
    /\ cq \in [Conns -> Seq(Completions)]
    /\ armed \in [Conns -> BOOLEAN]
    /\ recv_buff \in [Conns -> Nat] /\ send_buff \in [Conns -> Nat]
    /\ peer \in [Conns -> PeerStates]
    /\ sent \in [Conns -> Nat]
    /\ slog \in [Conns -> Seq(Nat)] /\ clog \in [Conns -> Seq(Nat)]

Init ==
    /\ keep_running = TRUE /\ mpc = "check"
    /\ batch = {} /\ cur = ec /\ wcs = <<>> /\ failed = {} /\ cmq = <<>>
    /\ state = [c \in Conns |-> "none"] /\ res = [c \in Conns |-> {}]
    /\ wr_id = [c \in Conns |-> ec]
    /\ qp = [c \in Conns |-> "none"]
    /\ rq = [c \in Conns |-> 0] /\ posted = [c \in Conns |-> 0]
    /\ unacked = [c \in Conns |-> 0] /\ chan = [c \in Conns |-> 0]
    /\ cq = [c \in Conns |-> <<>>] /\ armed = [c \in Conns |-> FALSE]
    /\ recv_buff = Count /\ send_buff = Count
    /\ peer = [c \in Conns |-> "new"] /\ sent = [c \in Conns |-> 0]
    /\ slog = [c \in Conns |-> <<>>] /\ clog = [c \in Conns |-> <<>>]

Repeat(n, x) == [k \in 1..n |-> x]

\* A log that keeps its first LogBound messages.
Logged(log, m) == IF Len(log) < LogBound THEN Append(log, m) ELSE log

\* The completion channels that epoll watches.
Registered == {c \in Conns : state[c] \in {"ACCEPTING", "ESTABLISHED"}}

(***************************************************************************)
(* The adapter.                                                            *)
(***************************************************************************)

Gone(c) == peer[c] \in {"gone", "gave_up"}

\* Completions ws are added to c's queue; a requested notification becomes
\* an event in the channel, once.
Complete(c, ws) ==
    /\ cq' = [cq EXCEPT ![c] = @ \o ws]
    /\ IF armed[c] /\ ws # <<>>
         THEN /\ armed' = [armed EXCEPT ![c] = FALSE]
              /\ chan' = [chan EXCEPT ![c] = @ + 1]
         ELSE UNCHANGED <<armed, chan>>

\* Send requests that occupy the send queue until their completion is polled.
SendsHeld(c) ==
    posted[c] + unacked[c]
      + Cardinality({k \in 1..Len(cq[c]) : cq[c][k] \in {"SEND", "SEND_ERR"}})

\* The client's next message lands in the receive buffer, behind the
\* acknowledgement of the last echo unless that one is lost.
Arrive(c) ==
    /\ peer[c] = "idle" /\ sent[c] < Count[c]
    /\ qp[c] = "RTS" /\ rq[c] > 0
    /\ unacked[c] = 0 \/ "ack_lost" \in Mishaps
    /\ peer' = [peer EXCEPT ![c] = "waiting"]
    /\ sent' = [sent EXCEPT ![c] = @ + 1]
    /\ recv_buff' = [recv_buff EXCEPT ![c] = sent[c]]
    /\ rq' = [rq EXCEPT ![c] = @ - 1]
    /\ Complete(c, <<"RECV">>)
    /\ UNCHANGED <<loopVars, cmq, connVars, qp, posted, unacked, send_buff,
                   slog, clog>>

\* The echo lands at the client, which goes on to its next message.
EchoArrives(c) ==
    /\ peer[c] = "waiting" /\ qp[c] = "RTS" /\ posted[c] > 0
    /\ posted' = [posted EXCEPT ![c] = @ - 1]
    /\ unacked' = [unacked EXCEPT ![c] = @ + 1]
    /\ clog' = [clog EXCEPT ![c] = Append(@, send_buff[c])]
    /\ peer' = [peer EXCEPT ![c] = "idle"]
    /\ UNCHANGED <<loopVars, cmq, connVars, qp, rq, cq, armed, chan, buffVars, sent>>

\* Its acknowledgement comes back, even if the client has gone since.
AckArrives(c) ==
    /\ qp[c] = "RTS" /\ unacked[c] > 0
    /\ unacked' = [unacked EXCEPT ![c] = @ - 1]
    /\ Complete(c, <<"SEND">>)
    /\ UNCHANGED <<loopVars, cmq, connVars, qp, rq, posted, buffVars, peerVars>>

\* The client is gone and the retries are exhausted: the queue pair goes to
\* the error state and its requests are flushed.
RetryExceeded(c) ==
    /\ qp[c] = "RTS" /\ Gone(c)
    /\ posted[c] > 0 \/ (unacked[c] > 0 /\ "ack_lost" \in Mishaps)
    /\ qp' = [qp EXCEPT ![c] = "ERR"]
    /\ Complete(c, Repeat(posted[c] + unacked[c], "SEND_ERR")
                     \o Repeat(rq[c], "RECV_ERR"))
    /\ rq' = [rq EXCEPT ![c] = 0]
    /\ posted' = [posted EXCEPT ![c] = 0]
    /\ unacked' = [unacked EXCEPT ![c] = 0]
    /\ UNCHANGED <<loopVars, cmq, connVars, buffVars, peerVars>>

(***************************************************************************)
(* The clients (client.c).                                                 *)
(***************************************************************************)
PeerConnect(c) ==
    /\ peer[c] = "new"
    /\ peer' = [peer EXCEPT ![c] = "connecting"]
    /\ cmq' = Append(cmq, <<"CONNECT_REQUEST", c>>)
    /\ UNCHANGED <<loopVars, connVars, rcVars, buffVars, sent, clog>>

\* The client learns that it is accepted; the server hears of it at once or,
\* if that message is lost, not at all.
PeerEstablished(c) ==
    /\ peer[c] = "connecting" /\ state[c] = "ACCEPTING"
    /\ peer' = [peer EXCEPT ![c] = "idle"]
    /\ \/ cmq' = Append(cmq, <<"ESTABLISHED", c>>)
       \/ "ack_lost" \in Mishaps /\ UNCHANGED cmq
    /\ UNCHANGED <<loopVars, connVars, rcVars, buffVars, sent, clog>>

\* rdma_disconnect at the end of the client, or its exit at any time.
PeerLeaves(c) ==
    /\ \/ peer[c] = "idle" /\ (sent[c] = Count[c] \/ "leave" \in Mishaps)
       \/ peer[c] = "waiting" /\ "leave" \in Mishaps
    /\ peer' = [peer EXCEPT ![c] = "gone"]
    /\ cmq' = IF state[c] = "freed" THEN cmq
                ELSE Append(cmq, <<"DISCONNECTED", c>>)
    /\ UNCHANGED <<loopVars, connVars, rcVars, buffVars, sent, clog>>

\* A client goes away before it is established.  If it was accepted the
\* server gets an event that handle_cm_event only prints.
PeerGivesUp(c) ==
    /\ "give_up" \in Mishaps
    /\ peer[c] = "connecting"
    /\ peer' = [peer EXCEPT ![c] = "gave_up"]
    /\ cmq' = IF state[c] = "ACCEPTING" THEN Append(cmq, <<"OTHER", c>>) ELSE cmq
    /\ UNCHANGED <<loopVars, connVars, rcVars, buffVars, sent, clog>>

(***************************************************************************)
(* main: the loop.                                                         *)
(***************************************************************************)
Sigint ==
    /\ keep_running
    /\ mpc \notin Stopped
    /\ keep_running' = FALSE
    /\ UNCHANGED <<mpc, batch, drainVars, outsideVars>>

\* Mutation: the loop does not look at the flag.
GoesOnAlways == TRUE
GoesOn == keep_running

CheckRunning ==
    /\ mpc = "check"
    /\ mpc' = IF GoesOn THEN "wait" ELSE "exited"
    /\ UNCHANGED <<keep_running, batch, drainVars, outsideVars>>

Readable ==
    {c \in Registered : chan[c] > 0} \union (IF cmq = <<>> THEN {} ELSE {ec})

\* epoll_wait returns some of what is readable, in an order of its own.
EpollWait ==
    /\ mpc = "wait"
    /\ \E B \in SUBSET Readable :
          /\ Cardinality(B) = IF Cardinality(Readable) < MaxEvents
                                THEN Cardinality(Readable) ELSE MaxEvents
          /\ batch' = B
    /\ mpc' = IF Readable = {} THEN "check" ELSE "batch"
    /\ UNCHANGED <<keep_running, drainVars, outsideVars>>

\* epoll_wait fails other than by a signal: the loop ends.
WaitFails ==
    /\ "verbs_fail" \in Mishaps
    /\ mpc = "wait" /\ mpc' = "exited"
    /\ UNCHANGED <<keep_running, batch, drainVars, outsideVars>>

\* The for loop over events[] ends.
BatchDone ==
    /\ mpc = "batch" /\ batch = {}
    /\ mpc' = "check"
    /\ UNCHANGED <<keep_running, batch, drainVars, outsideVars>>

(***************************************************************************)
(* handle_cm_event.                                                        *)
(***************************************************************************)

\* rdma_get_cm_event returned event e of connection c.
GetCmEvent(e, c) ==
    /\ mpc = "batch" /\ ec \in batch
    /\ cmq # <<>> /\ Head(cmq) = <<e, c>>
    /\ batch' = batch \ {ec}

\* It fails: the event stays where it is.
GetCmEventFails ==
    /\ "verbs_fail" \in Mishaps
    /\ mpc = "batch" /\ ec \in batch
    /\ batch' = batch \ {ec}
    /\ UNCHANGED <<keep_running, mpc, drainVars, outsideVars>>

\* Mutation: the requests of every connection name the same one.
WrIdShared(c) == IF Registered = {} THEN c ELSE CHOOSE r \in Registered : TRUE
WrId(c) == c

\* setup_connection creates the objects of the connection, names it in its
\* two work requests, arms its queue and posts a receive; any failure ends
\* the server.
SetupConnection(c) ==
    /\ wr_id' = [wr_id EXCEPT ![c] = WrId(c)]
    /\ res' = [res EXCEPT ![c] = CreateAll(<<"pd", "cc", "cq", "qp", "mr">>)]
    /\ qp' = [qp EXCEPT ![c] = "RTS"]
    /\ rq' = [rq EXCEPT ![c] = 1]
    /\ armed' = [armed EXCEPT ![c] = TRUE]

\* handle_new_request: after the set-up the channel is registered, and
\* rdma_accept answers.  If the client has given up, rdma_accept fails and
\* ends the server, or the connection fails later with an event of its own.
HandleNewRequest(c) ==
    /\ GetCmEvent("CONNECT_REQUEST", c)
    /\ \/ /\ Gone(c) \/ "verbs_fail" \in Mishaps
          /\ mpc' = "died" /\ cmq' = Tail(cmq)
          /\ UNCHANGED <<connVars, qp, rq, armed>>
       \/ /\ state' = [state EXCEPT ![c] = "ACCEPTING"]
          /\ SetupConnection(c)
          /\ cmq' = Tail(cmq) \o (IF Gone(c) THEN <<<<"OTHER", c>>>> ELSE <<>>)
          /\ UNCHANGED mpc
    /\ UNCHANGED <<keep_running, drainVars, posted, unacked, cq, chan, buffVars, peerVars>>

\* No memory for the conn_context: the request is rejected.
RejectRequest(c) ==
    /\ "no_memory" \in Mishaps
    /\ GetCmEvent("CONNECT_REQUEST", c)
    /\ cmq' = Tail(cmq)
    /\ peer' = [peer EXCEPT ![c] = "gone"]
    /\ UNCHANGED <<keep_running, mpc, drainVars, connVars, rcVars, buffVars, sent, clog>>

HandleEstablished(c) ==
    /\ GetCmEvent("ESTABLISHED", c)
    /\ cmq' = Tail(cmq)
    /\ state' = [state EXCEPT ![c] = "ESTABLISHED"]
    /\ UNCHANGED <<keep_running, mpc, drainVars, res, wr_id, rcVars, buffVars, peerVars>>

\* An event that is only printed.
PrintEvent(e, c) ==
    /\ GetCmEvent(e, c)
    /\ cmq' = Tail(cmq)
    /\ UNCHANGED <<keep_running, mpc, drainVars, connVars, rcVars, buffVars, peerVars>>

\* Mutation: the channel is destroyed first, as in rdmacm04.
TeardownOrderChannelFirst == <<"cc", "qp", "cq", "mr", "pd">>
TeardownOrder == <<"qp", "cq", "mr", "cc", "pd">>

\* Mutation: the disconnect is only printed.
HandleDisconnectedPrint(c) == PrintEvent("DISCONNECTED", c)

\* Everything of the connection is unregistered, destroyed and freed.  No
\* event of its id is left to be dropped: this one comes last.
HandleDisconnected(c) ==
    /\ GetCmEvent("DISCONNECTED", c)
    /\ cmq' = Tail(cmq)
    /\ state' = [state EXCEPT ![c] = "freed"]
    /\ res' = [res EXCEPT ![c] = DestroyAll(TeardownOrder, @)]
    /\ wr_id' = [wr_id EXCEPT ![c] = ec]
    /\ qp' = [qp EXCEPT ![c] = "none"] /\ rq' = [rq EXCEPT ![c] = 0]
    /\ posted' = [posted EXCEPT ![c] = 0] /\ unacked' = [unacked EXCEPT ![c] = 0]
    /\ cq' = [cq EXCEPT ![c] = <<>>] /\ armed' = [armed EXCEPT ![c] = FALSE]
    /\ chan' = [chan EXCEPT ![c] = 0]
    /\ failed' = failed \ {c}
    /\ UNCHANGED <<keep_running, mpc, cur, wcs, buffVars, peerVars>>

HandleOther(c) == PrintEvent("OTHER", c)

HandleCmEvent(c) ==
    \/ HandleNewRequest(c) \/ RejectRequest(c) \/ HandleEstablished(c)
    \/ HandleDisconnected(c) \/ HandleOther(c)

(***************************************************************************)
(* handle_cq_event.                                                        *)
(***************************************************************************)

\* Mutation: two events are taken for one that came.
OneLessTwice(k) == k - 2
OneLess(k) == k - 1

\* ibv_get_cq_event and ibv_ack_cq_events.
GetCqEvent(c) ==
    /\ mpc = "batch" /\ c \in batch /\ c \in Registered
    /\ chan[c] > 0
    /\ batch' = batch \ {c} /\ chan' = [chan EXCEPT ![c] = OneLess(@)]
    /\ cur' = c /\ mpc' = "notify"
    /\ UNCHANGED <<keep_running, failed, wcs, cmq, connVars, qp, rq, posted, unacked, cq,
                   armed, buffVars, peerVars>>

\* The channel was freed by an earlier event of the batch: the read of its
\* descriptor fails, or the freed memory brings the process down.
GetStaleEvent(c) ==
    /\ mpc = "batch" /\ c \in batch /\ c \notin Registered
    /\ batch' = batch \ {c}
    /\ mpc' \in {"batch", "crashed"}
    /\ UNCHANGED <<keep_running, drainVars, outsideVars>>

\* Mutation: the queue is not armed again.
ArmedNot(queues, c) == queues
Armed(queues, c) == [queues EXCEPT ![c] = TRUE]

ReqNotify ==
    /\ mpc = "notify" /\ mpc' = "poll"
    /\ armed' = Armed(armed, cur)
    /\ UNCHANGED <<keep_running, batch, drainVars, cmq, connVars, qp, rq, posted,
                   unacked, cq, chan, buffVars, peerVars>>

\* ibv_poll_cq, until it returns none.
PollCq ==
    /\ mpc = "poll"
    /\ LET ne == IF Len(cq[cur]) < PollBatch THEN Len(cq[cur]) ELSE PollBatch
       IN  /\ wcs' = SubSeq(cq[cur], 1, ne)
           /\ cq' = [cq EXCEPT ![cur] = SubSeq(@, ne + 1, Len(@))]
           /\ mpc' = IF ne = 0 THEN "batch" ELSE "wc"
           /\ cur' = IF ne = 0 THEN ec ELSE cur
           /\ failed' = IF ne = 0 THEN failed \ {cur} ELSE failed
    /\ UNCHANGED <<keep_running, batch, cmq, connVars, qp, rq, posted, unacked, armed,
                   chan, buffVars, peerVars>>

\* Either call fails: handle_cq_event gives up, the completions stay.
CqCallFails ==
    /\ "verbs_fail" \in Mishaps
    /\ mpc \in {"notify", "poll"}
    /\ failed' = failed \union {cur}
    /\ mpc' = "batch" /\ cur' = ec
    /\ UNCHANGED <<keep_running, batch, wcs, outsideVars>>

\* Where the loop goes after a completion.
NextWc(rest) == IF rest = <<>> THEN "poll" ELSE "wc"

\* The opcode the switch sees: that of a failed completion is not defined.
Opcode(wc) ==
    IF wc \in {"SEND", "RECV"} THEN {wc} ELSE {"SEND", "RECV", "OTHER"}

\* Mutation: the break is forgotten and a completed send is answered too.
AfterSendFallsThrough(rest) == "reply"
AfterSend(rest) == NextWc(rest)

\* A completed send, or an opcode that is only printed.
HandleSendWc ==
    /\ Opcode(Head(wcs)) # {"RECV"}
    /\ wcs' = Tail(wcs)
    /\ mpc' = AfterSend(Tail(wcs))
    /\ UNCHANGED <<keep_running, failed, batch, cur, outsideVars>>

\* Mutation: the receive is not posted again.
PostRecvForgotten(nc) == UNCHANGED <<rq, cq, armed, chan>>

\* ibv_post_recv: on a queue pair in error the request completes at once.
PostRecv(nc) ==
    IF qp[nc] = "RTS"
      THEN rq' = [rq EXCEPT ![nc] = @ + 1] /\ UNCHANGED <<cq, armed, chan>>
      ELSE Complete(nc, <<"RECV_ERR">>) /\ UNCHANGED rq

\* A received message of nc: printed, copied, and the receive posted again;
\* if that fails the server ends.
HandleRecvWc(nc) ==
    /\ "RECV" \in Opcode(Head(wcs))
    /\ slog' = [slog EXCEPT ![nc] = Logged(@, recv_buff[nc])]
    /\ send_buff' = [send_buff EXCEPT ![nc] = recv_buff[nc]]
    /\ \/ mpc' = "reply" /\ PostRecv(nc)
       \/ "verbs_fail" \in Mishaps /\ mpc' = "died" /\ UNCHANGED <<rq, cq, armed, chan>>
    /\ wcs' = Tail(wcs)
    /\ UNCHANGED <<keep_running, failed, batch, cur, cmq, connVars, qp, posted, unacked,
                   recv_buff, peerVars>>

\* A completion is that of the connection its wr_id names.
HandleWc ==
    /\ mpc = "wc"
    /\ IF wr_id[cur] = ec
         THEN mpc' = "died" /\ UNCHANGED <<keep_running, batch, drainVars, outsideVars>>
         ELSE HandleSendWc \/ HandleRecvWc(wr_id[cur])

\* ibv_post_send of nc's reply; a full send queue, or any other failure,
\* ends the server.
PostReply(nc) ==
    /\ mpc = "reply"
    /\ \/ /\ SendsHeld(nc) >= MaxSendWr
          /\ mpc' = "die_post" /\ UNCHANGED <<posted, cq, armed, chan>>
       \/ /\ "verbs_fail" \in Mishaps
          /\ mpc' = "died" /\ UNCHANGED <<posted, cq, armed, chan>>
       \/ /\ SendsHeld(nc) < MaxSendWr
          /\ mpc' = NextWc(wcs)
          /\ IF qp[nc] = "RTS"
               THEN posted' = [posted EXCEPT ![nc] = @ + 1] /\ UNCHANGED <<cq, armed, chan>>
               ELSE Complete(nc, <<"SEND_ERR">>) /\ UNCHANGED posted
    /\ UNCHANGED <<keep_running, batch, drainVars, cmq, connVars, qp, rq, unacked, buffVars,
                   peerVars>>

HandleCqEvent ==
    \/ \E c \in Conns : GetCqEvent(c) \/ GetStaleEvent(c)
    \/ ReqNotify \/ PollCq \/ CqCallFails \/ HandleWc \/ PostReply(wr_id[cur])

(***************************************************************************)
(* The system.                                                             *)
(***************************************************************************)
Server ==
    \/ CheckRunning \/ EpollWait \/ WaitFails \/ BatchDone \/ GetCmEventFails
    \/ \E c \in Conns : HandleCmEvent(c)
    \/ HandleCqEvent

\* The process has ended and the kernel takes its connections down.
ServerStopped == mpc \in Stopped /\ UNCHANGED vars

Network(c) == Arrive(c) \/ EchoArrives(c) \/ AckArrives(c) \/ RetryExceeded(c)

Next ==
    \/ Server \/ Sigint \/ ServerStopped
    \/ \E c \in Conns :
          \/ mpc \notin Stopped /\ Network(c)
          \/ /\ mpc \notin Stopped
             /\ PeerConnect(c) \/ PeerEstablished(c) \/ PeerLeaves(c) \/ PeerGivesUp(c)

Spec == Init /\ [][Next]_vars

\* The server thread is never descheduled for ever; the adapters go on with
\* what is on its way.  Nothing is assumed of the clients.
Fairness ==
    /\ WF_vars(Server)
    /\ \A c \in Conns :
          /\ WF_vars(mpc \notin Stopped /\ EchoArrives(c))
          /\ WF_vars(mpc \notin Stopped /\ AckArrives(c))
          /\ WF_vars(mpc \notin Stopped /\ RetryExceeded(c))

FairSpec == Spec /\ Fairness

(***************************************************************************)
(* Properties.                                                             *)
(***************************************************************************)

\* A completion never waits unseen: its queue is armed and empty, or an
\* event is in the channel, or the loop is at the queue and will poll it
\* again.  The order get, acknowledge, arm, poll until empty (server.c:132-
\* 186) is what makes this so; only a failing call breaks it.
NoLostWakeup ==
    \A c \in Registered \ failed :
        \/ chan[c] > 0
        \/ cur = c /\ mpc = "notify"
        \/ armed[c] /\ (cq[c] = <<>> \/ cur = c)

\* The completions of c that are not handled yet, oldest first.
Pending(c) == (IF cur = c THEN wcs ELSE <<>>) \o cq[c]

\* Is there a RECV completion in q, and at most one?
HasRecv(q) == \E k \in 1..Len(q) : q[k] = "RECV"
OneRecv(q) == \A k, l \in 1..Len(q) : q[k] = "RECV" /\ q[l] = "RECV" => k = l

\* The one receive request of a working connection is either posted or
\* completed and about to be handled: the server can always take a message,
\* and none overwrites recv_buff before it is copied (server.c:167-178), but
\* for a connection whose failing call has ended the server.
ReceiveCredit ==
    \A c \in Registered :
        qp[c] = "RTS" /\ ~(cur = c /\ mpc = "died") =>
            /\ rq[c] = IF HasRecv(Pending(c)) THEN 0 ELSE 1
            /\ OneRecv(Pending(c))

\* Each connection is an echo channel as long as its queue pair works,
\* however the loop interleaves them (server.c:155-185).
Echo(c) == INSTANCE EchoSpec WITH
               Count <- Count[c], requests <- slog[c], replies <- clog[c]
EchoPerConnection ==
    /\ \A c \in Conns : Echo(c)!Init
    /\ [][\A c \in Conns : qp[c] = "RTS" => [Echo(c)!Next]_(Echo(c)!vars)]_vars

\* On a working queue pair the send completion of the last echo is always
\* polled before the next post: the send queue does not fill up, for any
\* Count (server.c:179).
PostNeverFails == mpc = "die_post" => qp[cur] = "ERR"

\* What is freed is freed whole: each object is destroyed after those that
\* use it (server.c:104-112).
NothingLeaks == \A c \in Conns : state[c] = "freed" => res[c] = {}

\* Failed completions that are taken for received messages are posted again,
\* fail at once, and can keep the loop at their queue (server.c:146-186).
DrainsForEver == \E c \in Conns : <>[](cur = c /\ qp[c] = "ERR")

\* A client that waits for its echo gets it, unless it is kept from it by
\* that (server.c:126-189).
EchoReturns ==
    \A c \in Conns :
        (peer[c] = "waiting" ~> peer[c] # "waiting" \/ mpc \in Stopped) \/ DrainsForEver

\* What was set up for a client is freed when the client has disconnected,
\* whatever became of others.  Only what was set up for a client that gave
\* up before it was established stays (server.c:89-121).
Reclaimed ==
    \A c \in Conns :
        (peer[c] = "gone" /\ c \in Registered ~> c \notin Registered \/ mpc \in Stopped)
            \/ DrainsForEver

\* SIGINT ends the loop, whatever clients do, but for that
\* (server.c:12-15, 228).
SigintExits == (~keep_running ~> mpc \in Stopped) \/ DrainsForEver

\* What the loop still has to handle is registered: a channel is handled no
\* more once it has been unregistered (the comment at server.c:99).
BatchRegistered == batch \subseteq Registered \union {ec}

\* What is printed as received, and answered, was received (the comment at
\* server.c:176).
OnlyReceived == \A c \in Conns : Len(slog[c]) <= sent[c]
=============================================================================
