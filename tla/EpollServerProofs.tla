------------------------- MODULE EpollServerProofs -------------------------
(***************************************************************************)
(* Proofs about EpollServer for every number of connections, messages and  *)
(* queue entries, and for every mishap: the inductive invariant, whose     *)
(* parts every step keeps, one after another, and what follows from it.    *)
(***************************************************************************)
EXTENDS EpollServer, SequenceTheorems, TLAPS

(***************************************************************************)
(* The inductive invariant.                                                *)
(***************************************************************************)

Is(k, e) == cmq[k][1] = e
Owner(k) == cmq[k][2]

\* A request in the event channel is the only one of its client, for whom
\* nothing has been set up.
Requests ==
    \A k \in 1..Len(cmq) :
        Is(k, "CONNECT_REQUEST") =>
            /\ state[Owner(k)] = "none"
            /\ peer[Owner(k)] \in {"connecting", "gave_up"}
            /\ \A l \in 1..Len(cmq) : cmq[l] = cmq[k] => l = k

\* So is an ESTABLISHED, for a connection that is accepted.
Announcements ==
    \A k \in 1..Len(cmq) :
        Is(k, "ESTABLISHED") =>
            /\ state[Owner(k)] = "ACCEPTING"
            /\ peer[Owner(k)] \in {"idle", "waiting", "gone"}
            /\ \A l \in 1..Len(cmq) : cmq[l] = cmq[k] => l = k

\* A disconnect is the last event of a connection that is set up.
Farewells ==
    \A k \in 1..Len(cmq) :
        Is(k, "DISCONNECTED") =>
            /\ Owner(k) \in Registered
            /\ peer[Owner(k)] = "gone"
            /\ \A l \in (k + 1)..Len(cmq) : Owner(l) # Owner(k)

\* Where a client is says what the server has set up for it.
Peers ==
    \A c \in Conns :
        /\ peer[c] = "new" => state[c] = "none"
        /\ peer[c] \in {"idle", "waiting"} => c \in Registered

Events == Requests /\ Announcements /\ Farewells /\ Peers

\* A connection that is not set up has no queue pair and no completions.
Queues ==
    \A c \in Conns :
        /\ c \in Registered <=> qp[c] # "none"
        /\ c \notin Registered => cq[c] = <<>>

\* The server is at a connection only while it handles its completions.
Position ==
    /\ mpc \in {"check", "wait", "batch"} => cur = ec
    /\ mpc \in {"notify", "poll", "wc", "reply"} => cur \in Registered
    /\ mpc \in {"check", "wait", "batch", "notify", "poll"} => wcs = <<>>
    /\ mpc = "wc" => wcs # <<>>

\* Once it has armed the queue it is at, a completion raises an event.
Rearmed ==
    cur \in Conns /\ mpc # "notify" => chan[cur] > 0 \/ armed[cur]

\* The pending completions of a working queue pair are those of sends that
\* succeeded, and of the one receive request unless it is posted.
Credit(c) ==
    /\ rq[c] = IF HasRecv(Pending(c)) THEN 0 ELSE 1
    /\ OneRecv(Pending(c))
    /\ \A k \in 1..Len(Pending(c)) : Pending(c)[k] \in {"SEND", "RECV"}
Credits == \A c \in Conns : qp[c] = "RTS" => Credit(c)

\* The server that dies of a failing call leaves one connection without.
LivingCredits ==
    \A c \in Conns : qp[c] = "RTS" /\ ~(cur = c /\ mpc = "died") => Credit(c)

\* The requests of a connection that is set up name that connection.
Routed == \A c \in Registered : wr_id[c] = c

IInv ==
    /\ TypeOK
    /\ Events /\ Queues /\ Position /\ Routed
    /\ Rearmed /\ NoLostWakeup
    /\ LivingCredits

(***************************************************************************)
(* Completions.                                                            *)
(***************************************************************************)
SendWc == mpc = "wc" /\ HandleSendWc
RecvWc == mpc = "wc" /\ HandleRecvWc(cur)
Reply == PostReply(cur)

\* What is polled from the queue of a connection is handled with that
\* connection's buffers and queue pair.
LEMMA OwnCompletions ==
    ASSUME Position, Routed, HandleWc \/ PostReply(wr_id[cur])
    PROVE  SendWc \/ RecvWc \/ Reply
<1>1. cur \in Registered /\ cur \in Conns
  BY DEF HandleWc, PostReply, Position, Registered
<1>2. wr_id[cur] = cur /\ cur # ec
  BY <1>1, ChannelAssumption DEF Routed
<1>3. QED
  BY <1>2 DEF HandleWc, SendWc, RecvWc, Reply

(***************************************************************************)
(* Types.                                                                  *)
(***************************************************************************)

\* What the types and the wake-ups need to know of completions that come in.
LEMMA CompleteFacts ==
    ASSUME TypeOK, NEW c \in Conns, NEW ws \in Seq(Completions), Complete(c, ws)
    PROVE  /\ cq' \in [Conns -> Seq(Completions)]
           /\ armed' \in [Conns -> BOOLEAN]
           /\ chan' \in [Conns -> Nat]
           /\ cq'[c] = cq[c] \o ws
           /\ \A d \in Conns :
                 /\ d # c => cq'[d] = cq[d] /\ armed'[d] = armed[d]
                 /\ chan'[d] >= chan[d]
                 /\ armed[d] => chan'[d] > 0 \/ (armed'[d] /\ cq'[d] = cq[d])
<1>0. armed \in [Conns -> BOOLEAN] /\ chan \in [Conns -> Nat]
  BY DEF TypeOK
<1>1. cq[c] \in Seq(Completions) /\ cq[c] \o ws \in Seq(Completions)
  BY DEF TypeOK
<1>2. cq' = [cq EXCEPT ![c] = cq[c] \o ws] /\ cq \in [Conns -> Seq(Completions)]
  BY DEF Complete, TypeOK
<1>3. cq' \in [Conns -> Seq(Completions)] /\ cq'[c] = cq[c] \o ws
  BY <1>1, <1>2
<1>4. \A d \in Conns : d # c => cq'[d] = cq[d]
  BY <1>2
<1>5. CASE armed[c] /\ ws # <<>>
  <2>1. armed' = [armed EXCEPT ![c] = FALSE] /\ chan' = [chan EXCEPT ![c] = chan[c] + 1]
    BY <1>5 DEF Complete
  <2>2. chan'[c] = chan[c] + 1 /\ chan[c] \in Nat
    BY <1>0, <2>1
  <2>3. /\ armed' \in [Conns -> BOOLEAN] /\ chan' \in [Conns -> Nat]
        /\ \A d \in Conns : d # c => armed'[d] = armed[d] /\ chan'[d] = chan[d] /\ chan[d] \in Nat
    BY <1>0, <2>1, <2>2
  <2>4. QED
    BY <1>3, <1>4, <2>2, <2>3
<1>6. CASE ~(armed[c] /\ ws # <<>>)
  <2>1. armed' = armed /\ chan' = chan
    BY <1>6 DEF Complete
  <2>2. ws = <<>> => cq'[c] = cq[c]
    BY <1>1, <1>3
  <2>3. \A d \in Conns : chan[d] \in Nat
    BY DEF TypeOK
  <2>4. \A d \in Conns : armed[d] => armed'[d] /\ cq'[d] = cq[d]
    BY <1>4, <1>6, <2>1, <2>2
  <2>5. armed' \in [Conns -> BOOLEAN] /\ chan' \in [Conns -> Nat]
    BY <2>1 DEF TypeOK
  <2>6. QED
    BY <1>3, <1>4, <2>1, <2>3, <2>4, <2>5
<1>7. QED
  BY <1>5, <1>6

(***************************************************************************)
(* The verbs objects.                                                      *)
(***************************************************************************)

\* The set-up creates all of them: each after what it needs.
LEMMA CreatesAll ==
    CreateAll(<<"pd", "cc", "cq", "qp", "mr">>) = Resources
<1>1. Create("pd", {}) = {"pd"}
  BY DEF Create, Needs
<1>2. Create("cc", {"pd"}) = {"pd", "cc"}
  BY DEF Create, Needs
<1>3. Create("cq", {"pd", "cc"}) = {"pd", "cc", "cq"}
  BY DEF Create, Needs
<1>4. Create("qp", {"pd", "cc", "cq"}) = {"pd", "cc", "cq", "qp"}
  BY DEF Create, Needs
<1>5. Create("mr", {"pd", "cc", "cq", "qp"}) = Resources
  BY DEF Create, Needs, Resources
<1>6. QED
  BY <1>1, <1>2, <1>3, <1>4, <1>5 DEF CreateAll

\* The teardown destroys all there is: each after those that use it.
LEMMA DestroysAll ==
    ASSUME NEW S \in SUBSET Resources
    PROVE  DestroyAll(TeardownOrder, S) = {}
<1>1. Destroy("qp", S) = S \ {"qp"}
  BY DEF Destroy, Needs, Resources
<1> DEFINE S1 == S \ {"qp"}
<1>2. Destroy("cq", S1) = S1 \ {"cq"}
  BY DEF Destroy, Needs, Resources
<1> DEFINE S2 == S1 \ {"cq"}
<1>3. Destroy("mr", S2) = S2 \ {"mr"}
  BY DEF Destroy, Needs, Resources
<1> DEFINE S3 == S2 \ {"mr"}
<1>4. Destroy("cc", S3) = S3 \ {"cc"}
  BY DEF Destroy, Needs, Resources
<1> DEFINE S4 == S3 \ {"cc"}
<1>5. Destroy("pd", S4) = {}
  BY DEF Destroy, Needs, Resources
<1>6. QED
  BY <1>1, <1>2, <1>3, <1>4, <1>5 DEF DestroyAll, TeardownOrder

(***************************************************************************)
(* Events in the channel.                                                  *)
(***************************************************************************)
LEMMA GetEventFacts ==
    ASSUME TypeOK, NEW e, NEW c, GetCmEvent(e, c)
    PROVE  /\ mpc = "batch" /\ batch' \in SUBSET (Conns \union {ec})
           /\ Tail(cmq) \in Seq(CmEvents \X Conns)
           /\ Len(cmq) \in Nat /\ Len(cmq) > 0 /\ Len(Tail(cmq)) = Len(cmq) - 1
           /\ \A k \in 1..Len(Tail(cmq)) : Tail(cmq)[k] = cmq[k + 1]
           /\ cmq[1] = <<e, c>> /\ Is(1, e) /\ Owner(1) = c
<1>1. cmq \in Seq(CmEvents \X Conns) /\ batch \in SUBSET (Conns \union {ec})
  BY DEF TypeOK
<1>2. mpc = "batch" /\ cmq # <<>> /\ Head(cmq) = <<e, c>> /\ batch' = batch \ {ec}
  BY DEF GetCmEvent
<1>3. QED
  BY <1>1, <1>2 DEF Is, Owner

LEMMA RaiseFacts ==
    ASSUME TypeOK, NEW e \in CmEvents, NEW c \in Conns
    PROVE  /\ Append(cmq, <<e, c>>) \in Seq(CmEvents \X Conns)
           /\ Len(cmq) \in Nat /\ Len(Append(cmq, <<e, c>>)) = Len(cmq) + 1
           /\ \A k \in 1..Len(cmq) : Append(cmq, <<e, c>>)[k] = cmq[k]
           /\ Append(cmq, <<e, c>>)[Len(cmq) + 1] = <<e, c>>
<1>1. cmq \in Seq(CmEvents \X Conns) /\ <<e, c>> \in CmEvents \X Conns
  BY DEF TypeOK
<1>2. QED
  BY <1>1

(***************************************************************************)
(* Every step is type correct.                                             *)
(***************************************************************************)
LEMMA RepeatType ==
    ASSUME NEW n \in Nat, NEW x \in Completions
    PROVE  Repeat(n, x) \in Seq(Completions)
BY DEF Repeat

\* Polling takes the first n completions of a queue.
LEMMA PollFacts ==
    ASSUME NEW q \in Seq(Completions), NEW n \in 0..Len(q)
    PROVE  /\ SubSeq(q, 1, n) \in Seq(Completions) /\ Len(SubSeq(q, 1, n)) = n
           /\ SubSeq(q, n + 1, Len(q)) \in Seq(Completions)
           /\ SubSeq(q, 1, n) \o SubSeq(q, n + 1, Len(q)) = q
<1>1. Len(q) \in Nat /\ n \in Nat /\ n <= Len(q)
  OBVIOUS
<1>2. SubSeq(q, 1, n) \in Seq(Completions) /\ Len(SubSeq(q, 1, n)) = n
  BY <1>1
<1>3. SubSeq(q, n + 1, Len(q)) \in Seq(Completions)
  BY <1>1
<1>4. 1 \in 1..(Len(q) + 1) /\ n \in (1 - 1)..Len(q) /\ Len(q) \in n..Len(q)
  BY <1>1
<1>5. SubSeq(q, 1, n) \o SubSeq(q, n + 1, Len(q)) = SubSeq(q, 1, Len(q))
  BY <1>4, ConcatAdjacentSubSeq
<1>6. QED
  BY <1>2, <1>3, <1>5, SubSeqFull

LEMMA TypeStep == TypeOK /\ Position /\ Routed /\ [Next]_vars => TypeOK'
<1> SUFFICES ASSUME TypeOK, Position, Routed, [Next]_vars PROVE TypeOK'
  OBVIOUS
<1> USE DEF PeerStates, ConnStates, Pcs, Stopped
<1>1. CASE CheckRunning
  <2>1. UNCHANGED <<keep_running, batch, cur, wcs, failed, cmq, state, res, wr_id, qp,
                    rq, posted, unacked, chan, cq, armed,
                    recv_buff, send_buff, peer, sent, slog,
                    clog>>
    BY <1>1 DEF CheckRunning,
              loopVars, drainVars, connVars, rcVars, buffVars, peerVars, outsideVars
  <2>2. /\ mpc \in Pcs
    BY DEF TypeOK
  <2>3. /\ mpc' \in Pcs
    BY <1>1, <2>2 DEF CheckRunning
  <2>4. QED
    BY <2>1, <2>3 DEF TypeOK
<1>2. CASE EpollWait
  <2>1. UNCHANGED <<keep_running, cur, wcs, failed, cmq, state, res, wr_id, qp, rq,
                    posted, unacked, chan, cq, armed,
                    recv_buff, send_buff, peer, sent, slog,
                    clog>>
    BY <1>2 DEF EpollWait, Readable, Registered,
              loopVars, drainVars, connVars, rcVars, buffVars, peerVars, outsideVars
  <2>2. /\ mpc \in Pcs
        /\ batch \in SUBSET (Conns \union {ec})
    BY DEF TypeOK
  <2>3. /\ mpc' \in Pcs
        /\ batch' \in SUBSET (Conns \union {ec})
    BY <1>2, <2>2 DEF EpollWait, Readable, Registered
  <2>4. QED
    BY <2>1, <2>3 DEF TypeOK
<1>3. CASE BatchDone \/ WaitFails
  <2>1. UNCHANGED <<keep_running, batch, cur, wcs, failed, cmq, state, res, wr_id, qp,
                    rq, posted, unacked, chan, cq, armed,
                    recv_buff, send_buff, peer, sent, slog,
                    clog>>
    BY <1>3 DEF BatchDone, WaitFails,
              loopVars, drainVars, connVars, rcVars, buffVars, peerVars, outsideVars
  <2>2. /\ mpc \in Pcs
    BY DEF TypeOK
  <2>3. /\ mpc' \in Pcs
    BY <1>3, <2>2 DEF BatchDone, WaitFails
  <2>4. QED
    BY <2>1, <2>3 DEF TypeOK
<1>4. CASE Sigint
  <2>1. UNCHANGED <<mpc, batch, cur, wcs, failed, cmq, state, res, wr_id, qp, rq,
                    posted, unacked, chan, cq, armed,
                    recv_buff, send_buff, peer, sent, slog,
                    clog>>
    BY <1>4 DEF Sigint,
              loopVars, drainVars, connVars, rcVars, buffVars, peerVars, outsideVars
  <2>2. /\ keep_running \in BOOLEAN
    BY DEF TypeOK
  <2>3. /\ keep_running' \in BOOLEAN
    BY <1>4, <2>2 DEF Sigint
  <2>4. QED
    BY <2>1, <2>3 DEF TypeOK
<1>5. ASSUME NEW c \in Conns, HandleNewRequest(c)
      PROVE  TypeOK'
  <2>1. UNCHANGED <<keep_running, cur, wcs, failed, posted, unacked, chan, cq,
                    recv_buff, send_buff, peer, sent, slog,
                    clog>>
    BY <1>5 DEF HandleNewRequest, GetCmEvent,
              loopVars, drainVars, connVars, rcVars, buffVars, peerVars, outsideVars
  <2>2. /\ mpc \in Pcs /\ state \in [Conns -> ConnStates]
        /\ wr_id \in [Conns -> Conns \union {ec}]
        /\ res \in [Conns -> SUBSET Resources] /\ qp \in [Conns -> {"none", "RTS", "ERR"}]
        /\ rq \in [Conns -> Nat] /\ armed \in [Conns -> BOOLEAN]
    BY DEF TypeOK
  <2>3. batch' \in SUBSET (Conns \union {ec}) /\ Tail(cmq) \in Seq(CmEvents \X Conns)
    BY <1>5, GetEventFacts DEF HandleNewRequest
  <2>4. cmq' \in Seq(CmEvents \X Conns)
    <3> DEFINE Es == CmEvents \X Conns
    <3> SUFFICES cmq' \in Seq(Es)
      OBVIOUS
    <3>1. <<>> \in Seq(Es) /\ <<<<"OTHER", c>>>> \in Seq(Es) /\ Tail(cmq) \in Seq(Es)
      BY <2>3 DEF CmEvents
    <3>2. \/ cmq' = Tail(cmq)
          \/ cmq' = Tail(cmq) \o <<>>
          \/ cmq' = Tail(cmq) \o <<<<"OTHER", c>>>>
      BY <1>5 DEF HandleNewRequest
    <3> HIDE DEF Es
    <3>3. ASSUME NEW t \in Seq(Es) PROVE Tail(cmq) \o t \in Seq(Es)
      BY <3>1, ConcatProperties
    <3>4. QED
      BY <3>1, <3>2, <3>3
  <2>5. /\ mpc' \in Pcs /\ state' \in [Conns -> ConnStates]
        /\ wr_id' \in [Conns -> Conns \union {ec}]
        /\ res' \in [Conns -> SUBSET Resources] /\ qp' \in [Conns -> {"none", "RTS", "ERR"}]
        /\ rq' \in [Conns -> Nat] /\ armed' \in [Conns -> BOOLEAN]
    <3>1. CASE mpc' = "died" /\ UNCHANGED <<connVars, qp, rq, armed>>
      BY <2>2, <3>1 DEF connVars
    <3>2. CASE /\ mpc' = mpc /\ SetupConnection(c)
               /\ state' = [state EXCEPT ![c] = "ACCEPTING"]
      BY <2>2, <3>2, CreatesAll DEF SetupConnection, WrId
    <3>3. QED
      BY <1>5, <3>1, <3>2 DEF HandleNewRequest
  <2>6. QED
    BY <2>1, <2>3, <2>4, <2>5 DEF TypeOK
<1>6. ASSUME NEW c \in Conns, RejectRequest(c)
      PROVE  TypeOK'
  <2>1. UNCHANGED <<keep_running, mpc, cur, wcs, failed, state, res, wr_id, qp, rq,
                    posted, unacked, chan, cq, armed,
                    recv_buff, send_buff, sent, slog, clog>>
    BY <1>6 DEF RejectRequest,
              loopVars, drainVars, connVars, rcVars, buffVars, peerVars, outsideVars
  <2>2. /\ batch \in SUBSET (Conns \union {ec})
        /\ cmq \in Seq(CmEvents \X Conns)
        /\ peer \in [Conns -> PeerStates]
    BY DEF TypeOK
  <2>3. /\ batch' \in SUBSET (Conns \union {ec})
        /\ cmq' \in Seq(CmEvents \X Conns)
        /\ peer' \in [Conns -> PeerStates]
    BY <1>6, <2>2, GetEventFacts DEF RejectRequest
  <2>4. QED
    BY <2>1, <2>3 DEF TypeOK
<1>7. ASSUME NEW c \in Conns, HandleEstablished(c)
      PROVE  TypeOK'
  <2>1. UNCHANGED <<keep_running, mpc, cur, wcs, failed, res, wr_id, qp, rq, posted,
                    unacked, chan, cq, armed, recv_buff,
                    send_buff, peer, sent, slog, clog>>
    BY <1>7 DEF HandleEstablished,
              loopVars, drainVars, connVars, rcVars, buffVars, peerVars, outsideVars
  <2>2. /\ batch \in SUBSET (Conns \union {ec})
        /\ cmq \in Seq(CmEvents \X Conns)
        /\ state \in [Conns -> ConnStates]
    BY DEF TypeOK
  <2>3. /\ batch' \in SUBSET (Conns \union {ec})
        /\ cmq' \in Seq(CmEvents \X Conns)
        /\ state' \in [Conns -> ConnStates]
    BY <1>7, <2>2, GetEventFacts DEF HandleEstablished
  <2>4. QED
    BY <2>1, <2>3 DEF TypeOK
<1>8. ASSUME NEW c \in Conns, HandleDisconnected(c)
      PROVE  TypeOK'
  <2>1. UNCHANGED <<keep_running, mpc, cur, wcs, recv_buff, send_buff, peer,
                    sent, slog, clog>>
    BY <1>8 DEF HandleDisconnected, GetCmEvent,
              loopVars, drainVars, connVars, rcVars, buffVars, peerVars, outsideVars
  <2>2. /\ failed \in SUBSET Conns /\ state \in [Conns -> ConnStates]
        /\ wr_id \in [Conns -> Conns \union {ec}]
        /\ res \in [Conns -> SUBSET Resources] /\ qp \in [Conns -> {"none", "RTS", "ERR"}]
        /\ rq \in [Conns -> Nat] /\ posted \in [Conns -> Nat]
        /\ unacked \in [Conns -> Nat] /\ chan \in [Conns -> Nat]
        /\ cq \in [Conns -> Seq(Completions)] /\ armed \in [Conns -> BOOLEAN]
    BY DEF TypeOK
  <2>3. batch' \in SUBSET (Conns \union {ec}) /\ cmq' \in Seq(CmEvents \X Conns)
    BY <1>8, GetEventFacts DEF HandleDisconnected
  <2>4. res' \in [Conns -> SUBSET Resources]
    <3>1. res' = [res EXCEPT ![c] = DestroyAll(TeardownOrder, res[c])]
      BY <1>8 DEF HandleDisconnected
    <3>2. DestroyAll(TeardownOrder, res[c]) = {}
      BY <2>2, DestroysAll
    <3>3. QED
      BY <2>2, <3>1, <3>2
  <2>5. cq' \in [Conns -> Seq(Completions)]
    <3>1. cq' = [cq EXCEPT ![c] = <<>>] /\ <<>> \in Seq(Completions)
      BY <1>8 DEF HandleDisconnected
    <3>2. QED
      BY <2>2, <3>1
  <2>6. /\ failed' \in SUBSET Conns /\ state' \in [Conns -> ConnStates]
        /\ wr_id' \in [Conns -> Conns \union {ec}]
        /\ qp' \in [Conns -> {"none", "RTS", "ERR"}]
        /\ rq' \in [Conns -> Nat] /\ posted' \in [Conns -> Nat]
        /\ unacked' \in [Conns -> Nat] /\ chan' \in [Conns -> Nat]
        /\ armed' \in [Conns -> BOOLEAN]
    BY <1>8, <2>2 DEF HandleDisconnected
  <2>7. QED
    BY <2>1, <2>3, <2>4, <2>5, <2>6 DEF TypeOK
<1>9. ASSUME NEW c \in Conns, HandleOther(c)
      PROVE  TypeOK'
  <2>1. UNCHANGED <<keep_running, mpc, cur, wcs, failed, state, res, wr_id, qp, rq,
                    posted, unacked, chan, cq, armed,
                    recv_buff, send_buff, peer, sent, slog,
                    clog>>
    BY <1>9 DEF HandleOther, PrintEvent,
              loopVars, drainVars, connVars, rcVars, buffVars, peerVars, outsideVars
  <2>2. /\ batch \in SUBSET (Conns \union {ec})
        /\ cmq \in Seq(CmEvents \X Conns)
    BY DEF TypeOK
  <2>3. /\ batch' \in SUBSET (Conns \union {ec})
        /\ cmq' \in Seq(CmEvents \X Conns)
    BY <1>9, <2>2, GetEventFacts DEF HandleOther, PrintEvent
  <2>4. QED
    BY <2>1, <2>3 DEF TypeOK
<1>10. ASSUME NEW c \in Conns, GetCqEvent(c)
      PROVE  TypeOK'
  <2>1. UNCHANGED <<keep_running, wcs, failed, cmq, state, res, wr_id, qp, rq, posted,
                    unacked, cq, armed, recv_buff,
                    send_buff, peer, sent, slog, clog>>
    BY <1>10 DEF GetCqEvent, OneLess,
              loopVars, drainVars, connVars, rcVars, buffVars, peerVars, outsideVars
  <2>2. /\ mpc \in Pcs
        /\ batch \in SUBSET (Conns \union {ec})
        /\ cur \in Conns \union {ec}
        /\ chan \in [Conns -> Nat]
    BY DEF TypeOK
  <2>3. /\ mpc' \in Pcs
        /\ batch' \in SUBSET (Conns \union {ec})
        /\ cur' \in Conns \union {ec}
        /\ chan' \in [Conns -> Nat]
    BY <1>10, <2>2 DEF GetCqEvent, OneLess
  <2>4. QED
    BY <2>1, <2>3 DEF TypeOK
<1>11. ASSUME NEW c \in Conns, GetStaleEvent(c)
      PROVE  TypeOK'
  <2>1. UNCHANGED <<keep_running, cur, wcs, failed, cmq, state, res, wr_id, qp, rq,
                    posted, unacked, chan, cq, armed,
                    recv_buff, send_buff, peer, sent, slog,
                    clog>>
    BY <1>11 DEF GetStaleEvent,
              loopVars, drainVars, connVars, rcVars, buffVars, peerVars, outsideVars
  <2>2. /\ mpc \in Pcs
        /\ batch \in SUBSET (Conns \union {ec})
    BY DEF TypeOK
  <2>3. /\ mpc' \in Pcs
        /\ batch' \in SUBSET (Conns \union {ec})
    BY <1>11, <2>2 DEF GetStaleEvent
  <2>4. QED
    BY <2>1, <2>3 DEF TypeOK
<1>12. CASE ReqNotify
  <2>1. UNCHANGED <<keep_running, batch, cur, wcs, failed, cmq, state, res, wr_id, qp,
                    rq, posted, unacked, chan, cq,
                    recv_buff, send_buff, peer, sent, slog,
                    clog>>
    BY <1>12 DEF ReqNotify, Armed,
              loopVars, drainVars, connVars, rcVars, buffVars, peerVars, outsideVars
  <2>2. /\ mpc \in Pcs
        /\ armed \in [Conns -> BOOLEAN]
    BY DEF TypeOK
  <2>3. /\ mpc' \in Pcs
        /\ armed' \in [Conns -> BOOLEAN]
    BY <1>12, <2>2 DEF ReqNotify, Armed
  <2>4. QED
    BY <2>1, <2>3 DEF TypeOK
<1>13. CASE PollCq
  <2>1. UNCHANGED <<keep_running, batch, cmq, state, res, wr_id, qp, rq, posted,
                    unacked, chan, armed, recv_buff,
                    send_buff, peer, sent, slog, clog>>
    BY <1>13 DEF PollCq,
              loopVars, drainVars, connVars, rcVars, buffVars, peerVars, outsideVars
  <2>2. /\ cur \in Conns /\ failed \in SUBSET Conns
        /\ cq \in [Conns -> Seq(Completions)] /\ cq[cur] \in Seq(Completions)
    BY <1>13 DEF TypeOK, PollCq, Position, Registered
  <2>3. PICK n \in 0..Len(cq[cur]) :
           /\ wcs' = SubSeq(cq[cur], 1, n)
           /\ cq' = [cq EXCEPT ![cur] = SubSeq(cq[cur], n + 1, Len(cq[cur]))]
    <3> DEFINE q == cq[cur]
               ne == IF Len(q) < PollBatch THEN Len(q) ELSE PollBatch
    <3>1. Len(q) \in Nat /\ ne \in 0..Len(q)
      BY <2>2, BoundsAssumption
    <3>2. wcs' = SubSeq(q, 1, ne) /\ cq' = [cq EXCEPT ![cur] = SubSeq(q, ne + 1, Len(q))]
      BY <1>13 DEF PollCq
    <3>3. QED
      BY <3>1, <3>2
  <2>4. wcs' \in Seq(Completions) /\ cq' \in [Conns -> Seq(Completions)]
    BY <2>2, <2>3, PollFacts
  <2>5. mpc' \in Pcs /\ cur' \in Conns \union {ec} /\ failed' \in SUBSET Conns
    BY <1>13, <2>2 DEF PollCq
  <2>6. QED
    BY <2>1, <2>4, <2>5 DEF TypeOK
<1>14. CASE CqCallFails
  <2>1. UNCHANGED <<keep_running, batch, wcs, cmq, state, res, wr_id, qp, rq, posted,
                    unacked, chan, cq, armed, recv_buff,
                    send_buff, peer, sent, slog, clog>>
    BY <1>14 DEF CqCallFails, Position, Registered,
              loopVars, drainVars, connVars, rcVars, buffVars, peerVars, outsideVars
  <2>2. /\ mpc \in Pcs
        /\ cur \in Conns \union {ec}
        /\ failed \in SUBSET Conns
    BY DEF TypeOK
  <2>3. /\ mpc' \in Pcs
        /\ cur' \in Conns \union {ec}
        /\ failed' \in SUBSET Conns
    BY <1>14, <2>2 DEF CqCallFails, Position, Registered
  <2>4. QED
    BY <2>1, <2>3 DEF TypeOK
<1>15. CASE SendWc
  <2>1. UNCHANGED <<keep_running, batch, cur, failed, cmq, state, res, wr_id, qp, rq,
                    posted, unacked, chan, cq, armed,
                    recv_buff, send_buff, peer, sent, slog,
                    clog>>
    BY <1>15 DEF SendWc, HandleSendWc, AfterSend, NextWc, Position,
              loopVars, drainVars, connVars, rcVars, buffVars, peerVars, outsideVars
  <2>2. /\ mpc \in Pcs
        /\ wcs \in Seq(Completions)
    BY DEF TypeOK
  <2>3. /\ mpc' \in Pcs
        /\ wcs' \in Seq(Completions)
    BY <1>15, <2>2 DEF SendWc, HandleSendWc, AfterSend, NextWc, Position
  <2>4. QED
    BY <2>1, <2>3 DEF TypeOK
<1>16. CASE RecvWc
  <2>1. UNCHANGED <<keep_running, batch, cur, failed, cmq, state, res, wr_id, qp,
                    posted, unacked, recv_buff, peer, sent,
                    clog>>
    BY <1>16 DEF RecvWc, HandleRecvWc,
              loopVars, drainVars, connVars, rcVars, buffVars, peerVars, outsideVars
  <2>2. /\ cur \in Conns /\ wcs \in Seq(Completions) /\ wcs # <<>>
        /\ rq \in [Conns -> Nat] /\ recv_buff \in [Conns -> Nat]
        /\ send_buff \in [Conns -> Nat] /\ slog \in [Conns -> Seq(Nat)]
    BY <1>16 DEF TypeOK, RecvWc, HandleRecvWc, Position, Registered
  <2>3. /\ cq' \in [Conns -> Seq(Completions)] /\ armed' \in [Conns -> BOOLEAN]
        /\ chan' \in [Conns -> Nat] /\ rq' \in [Conns -> Nat]
    <3> USE <1>16 DEF RecvWc, HandleRecvWc, PostRecv
    <3>0. CASE UNCHANGED <<rq, cq, armed, chan>>
      BY <3>0 DEF TypeOK
    <3>1. CASE qp[cur] = "RTS" /\ PostRecv(cur)
      <4>1. rq' = [rq EXCEPT ![cur] = rq[cur] + 1] /\ UNCHANGED <<cq, armed, chan>>
        BY <3>1
      <4>2. rq' \in [Conns -> Nat]
        BY <2>2, <4>1
      <4>3. QED
        BY <4>1, <4>2 DEF TypeOK
    <3>2. CASE qp[cur] # "RTS" /\ PostRecv(cur)
      <4>1. Complete(cur, <<"RECV_ERR">>) /\ rq' = rq
        BY <3>2
      <4>2. <<"RECV_ERR">> \in Seq(Completions)
        BY DEF Completions
      <4>3. QED
        BY <2>2, <4>1, <4>2, CompleteFacts
    <3>3. QED
      BY <3>0, <3>1, <3>2
  <2>4. slog' \in [Conns -> Seq(Nat)] /\ send_buff' \in [Conns -> Nat]
    <3>1. Logged(slog[cur], recv_buff[cur]) \in Seq(Nat)
      BY <2>2 DEF Logged
    <3>2. /\ slog' = [slog EXCEPT ![cur] = Logged(slog[cur], recv_buff[cur])]
          /\ send_buff' = [send_buff EXCEPT ![cur] = recv_buff[cur]]
      BY <1>16 DEF RecvWc, HandleRecvWc
    <3>3. QED
      BY <2>2, <3>1, <3>2
  <2>5. wcs' \in Seq(Completions) /\ mpc' \in Pcs
    BY <1>16, <2>2 DEF RecvWc, HandleRecvWc
  <2>6. QED
    BY <2>1, <2>3, <2>4, <2>5 DEF TypeOK
<1>17. CASE Reply
  <2>1. UNCHANGED <<keep_running, batch, cur, wcs, failed, cmq, state, res, wr_id, qp,
                    rq, unacked, recv_buff, send_buff, peer,
                    sent, slog, clog>>
    BY <1>17 DEF Reply, PostReply, NextWc, Position, Registered,
              loopVars, drainVars, connVars, rcVars, buffVars, peerVars, outsideVars
  <2>2. /\ mpc \in Pcs
        /\ cur \in Conns \union {ec}
        /\ posted \in [Conns -> Nat] /\ chan \in [Conns -> Nat]
        /\ cq \in [Conns -> Seq(Completions)]
        /\ armed \in [Conns -> BOOLEAN]
    BY DEF TypeOK
  <2>3. cq' \in [Conns -> Seq(Completions)] /\ armed' \in [Conns -> BOOLEAN] /\ chan' \in [Conns -> Nat]
    <3>1. cur \in Conns /\ <<"SEND_ERR">> \in Seq(Completions)
      BY <1>17, <2>2 DEF Reply, PostReply, Position, Registered, Completions
    <3>2. Complete(cur, <<"SEND_ERR">>) \/ UNCHANGED <<cq, armed, chan>>
      BY <1>17 DEF Reply, PostReply
    <3>3. QED
      BY <2>2, <3>1, <3>2, CompleteFacts
  <2>4. /\ mpc' \in Pcs
        /\ posted' \in [Conns -> Nat]
    <3>1. mpc' \in {"die_post", "died", "poll", "wc"}
      BY <1>17 DEF Reply, PostReply, NextWc
    <3>2. posted' = posted \/ posted' = [posted EXCEPT ![cur] = posted[cur] + 1]
      BY <1>17 DEF Reply, PostReply
    <3>3. QED
      BY <2>2, <3>1, <3>2
  <2>5. QED
    BY <2>1, <2>3, <2>4 DEF TypeOK
<1>18. ASSUME NEW c \in Conns, Arrive(c)
      PROVE  TypeOK'
  <2>1. UNCHANGED <<keep_running, mpc, batch, cur, wcs, failed, cmq, state, res, wr_id,
                    qp, posted, unacked, send_buff, slog,
                    clog>>
    BY <1>18 DEF Arrive,
              loopVars, drainVars, connVars, rcVars, buffVars, peerVars, outsideVars
  <2>2. /\ rq \in [Conns -> Nat] /\ chan \in [Conns -> Nat]
        /\ recv_buff \in [Conns -> Nat] /\ sent \in [Conns -> Nat]
        /\ cq \in [Conns -> Seq(Completions)]
        /\ armed \in [Conns -> BOOLEAN]
        /\ peer \in [Conns -> PeerStates]
    BY DEF TypeOK
  <2>3. cq' \in [Conns -> Seq(Completions)] /\ armed' \in [Conns -> BOOLEAN] /\ chan' \in [Conns -> Nat]
    <3>1. <<"RECV">> \in Seq(Completions) /\ Complete(c, <<"RECV">>)
      BY <1>18, <2>2 DEF Arrive, Completions
    <3>2. QED
      BY <3>1, CompleteFacts
  <2>4. /\ rq' \in [Conns -> Nat] /\ recv_buff' \in [Conns -> Nat] /\ sent' \in [Conns -> Nat]
        /\ peer' \in [Conns -> PeerStates]
    BY <1>18, <2>2, <2>3 DEF Arrive
  <2>5. QED
    BY <2>1, <2>3, <2>4 DEF TypeOK
<1>19. ASSUME NEW c \in Conns, EchoArrives(c)
      PROVE  TypeOK'
  <2>1. UNCHANGED <<keep_running, mpc, batch, cur, wcs, failed, cmq, state, res, wr_id,
                    qp, rq, chan, cq, armed, recv_buff,
                    send_buff, sent, slog>>
    BY <1>19 DEF EchoArrives,
              loopVars, drainVars, connVars, rcVars, buffVars, peerVars, outsideVars
  <2>2. /\ posted \in [Conns -> Nat] /\ unacked \in [Conns -> Nat] /\ send_buff \in [Conns -> Nat]
        /\ peer \in [Conns -> PeerStates]
        /\ clog \in [Conns -> Seq(Nat)]
    BY DEF TypeOK
  <2>3. /\ posted' \in [Conns -> Nat] /\ unacked' \in [Conns -> Nat]
        /\ peer' \in [Conns -> PeerStates]
        /\ clog' \in [Conns -> Seq(Nat)]
    BY <1>19, <2>2 DEF EchoArrives
  <2>4. QED
    BY <2>1, <2>3 DEF TypeOK
<1>20. ASSUME NEW c \in Conns, AckArrives(c)
      PROVE  TypeOK'
  <2>1. UNCHANGED <<keep_running, mpc, batch, cur, wcs, failed, cmq, state, res, wr_id,
                    qp, rq, posted, recv_buff, send_buff,
                    peer, sent, slog, clog>>
    BY <1>20 DEF AckArrives,
              loopVars, drainVars, connVars, rcVars, buffVars, peerVars, outsideVars
  <2>2. /\ unacked \in [Conns -> Nat] /\ chan \in [Conns -> Nat]
        /\ cq \in [Conns -> Seq(Completions)]
        /\ armed \in [Conns -> BOOLEAN]
    BY DEF TypeOK
  <2>3. cq' \in [Conns -> Seq(Completions)] /\ armed' \in [Conns -> BOOLEAN] /\ chan' \in [Conns -> Nat]
    <3>1. <<"SEND">> \in Seq(Completions) /\ Complete(c, <<"SEND">>)
      BY <1>20, <2>2 DEF AckArrives, Completions
    <3>2. QED
      BY <3>1, CompleteFacts
  <2>4. /\ unacked' \in [Conns -> Nat]
    BY <1>20, <2>2, <2>3 DEF AckArrives
  <2>5. QED
    BY <2>1, <2>3, <2>4 DEF TypeOK
<1>21. ASSUME NEW c \in Conns, RetryExceeded(c)
      PROVE  TypeOK'
  <2>1. UNCHANGED <<keep_running, mpc, batch, cur, wcs, failed, cmq, state, res, wr_id,
                    recv_buff, send_buff, peer, sent, slog,
                    clog>>
    BY <1>21 DEF RetryExceeded,
              loopVars, drainVars, connVars, rcVars, buffVars, peerVars, outsideVars
  <2>2. /\ qp \in [Conns -> {"none", "RTS", "ERR"}]
        /\ rq \in [Conns -> Nat] /\ posted \in [Conns -> Nat]
        /\ unacked \in [Conns -> Nat] /\ chan \in [Conns -> Nat]
        /\ cq \in [Conns -> Seq(Completions)]
        /\ armed \in [Conns -> BOOLEAN]
    BY DEF TypeOK
  <2>3. cq' \in [Conns -> Seq(Completions)] /\ armed' \in [Conns -> BOOLEAN] /\ chan' \in [Conns -> Nat]
    <3>1. /\ Repeat(posted[c] + unacked[c], "SEND_ERR") \o Repeat(rq[c], "RECV_ERR") \in Seq(Completions)
          /\ Complete(c, Repeat(posted[c] + unacked[c], "SEND_ERR") \o Repeat(rq[c], "RECV_ERR"))
      BY <1>21, <2>2, RepeatType DEF RetryExceeded, Completions
    <3>2. QED
      BY <3>1, CompleteFacts
  <2>4. /\ qp' \in [Conns -> {"none", "RTS", "ERR"}]
        /\ rq' \in [Conns -> Nat] /\ posted' \in [Conns -> Nat] /\ unacked' \in [Conns -> Nat]
    BY <1>21, <2>2, <2>3 DEF RetryExceeded
  <2>5. QED
    BY <2>1, <2>3, <2>4 DEF TypeOK
<1>22. ASSUME NEW c \in Conns, PeerConnect(c)
      PROVE  TypeOK'
  <2>1. UNCHANGED <<keep_running, mpc, batch, cur, wcs, failed, state, res, wr_id, qp,
                    rq, posted, unacked, chan, cq, armed,
                    recv_buff, send_buff, sent, slog, clog>>
    BY <1>22 DEF PeerConnect, CmEvents,
              loopVars, drainVars, connVars, rcVars, buffVars, peerVars, outsideVars
  <2>2. /\ cmq \in Seq(CmEvents \X Conns)
        /\ peer \in [Conns -> PeerStates]
    BY DEF TypeOK
  <2>3. /\ cmq' \in Seq(CmEvents \X Conns)
        /\ peer' \in [Conns -> PeerStates]
    BY <1>22, <2>2, RaiseFacts DEF PeerConnect, CmEvents
  <2>4. QED
    BY <2>1, <2>3 DEF TypeOK
<1>23. ASSUME NEW c \in Conns, PeerEstablished(c)
      PROVE  TypeOK'
  <2>1. UNCHANGED <<keep_running, mpc, batch, cur, wcs, failed, state, res, wr_id, qp,
                    rq, posted, unacked, chan, cq, armed,
                    recv_buff, send_buff, sent, slog, clog>>
    BY <1>23 DEF PeerEstablished, CmEvents,
              loopVars, drainVars, connVars, rcVars, buffVars, peerVars, outsideVars
  <2>2. /\ cmq \in Seq(CmEvents \X Conns)
        /\ peer \in [Conns -> PeerStates]
    BY DEF TypeOK
  <2>3. /\ cmq' \in Seq(CmEvents \X Conns)
        /\ peer' \in [Conns -> PeerStates]
    BY <1>23, <2>2, RaiseFacts DEF PeerEstablished, CmEvents
  <2>4. QED
    BY <2>1, <2>3 DEF TypeOK
<1>24. ASSUME NEW c \in Conns, PeerLeaves(c)
      PROVE  TypeOK'
  <2>1. UNCHANGED <<keep_running, mpc, batch, cur, wcs, failed, state, res, wr_id, qp,
                    rq, posted, unacked, chan, cq, armed,
                    recv_buff, send_buff, sent, slog, clog>>
    BY <1>24 DEF PeerLeaves, CmEvents,
              loopVars, drainVars, connVars, rcVars, buffVars, peerVars, outsideVars
  <2>2. /\ cmq \in Seq(CmEvents \X Conns)
        /\ peer \in [Conns -> PeerStates]
    BY DEF TypeOK
  <2>3. /\ cmq' \in Seq(CmEvents \X Conns)
        /\ peer' \in [Conns -> PeerStates]
    BY <1>24, <2>2, RaiseFacts DEF PeerLeaves, CmEvents
  <2>4. QED
    BY <2>1, <2>3 DEF TypeOK
<1>25. ASSUME NEW c \in Conns, PeerGivesUp(c)
      PROVE  TypeOK'
  <2>1. UNCHANGED <<keep_running, mpc, batch, cur, wcs, failed, state, res, wr_id, qp,
                    rq, posted, unacked, chan, cq, armed,
                    recv_buff, send_buff, sent, slog, clog>>
    BY <1>25 DEF PeerGivesUp, CmEvents,
              loopVars, drainVars, connVars, rcVars, buffVars, peerVars, outsideVars
  <2>2. /\ cmq \in Seq(CmEvents \X Conns)
        /\ peer \in [Conns -> PeerStates]
    BY DEF TypeOK
  <2>3. /\ cmq' \in Seq(CmEvents \X Conns)
        /\ peer' \in [Conns -> PeerStates]
    BY <1>25, <2>2, RaiseFacts DEF PeerGivesUp, CmEvents
  <2>4. QED
    BY <2>1, <2>3 DEF TypeOK
<1>26. CASE GetCmEventFails
  <2>1. /\ UNCHANGED <<keep_running, mpc, cur, wcs, failed, cmq, state, res, wr_id, qp, rq, posted,
                       unacked, chan, cq, armed, recv_buff, send_buff, peer, sent, slog, clog>>
        /\ batch' = batch \ {ec} /\ batch \in SUBSET (Conns \union {ec})
    BY <1>26 DEF GetCmEventFails, TypeOK, drainVars, connVars, rcVars, buffVars, peerVars,
       outsideVars
  <2>2. QED
    BY <2>1 DEF TypeOK
<1>27. CASE UNCHANGED vars
  BY <1>27 DEF TypeOK, vars,
         loopVars, drainVars, connVars, rcVars, buffVars, peerVars, outsideVars
<1>. QED
  BY <1>1, <1>2, <1>3, <1>4, <1>5, <1>6, <1>7, <1>8, <1>9, <1>10, <1>11,
     <1>12, <1>13, <1>14, <1>15, <1>16, <1>17, <1>18, <1>19, <1>20, <1>21,
     <1>22, <1>23, <1>24, <1>25, <1>26, <1>27, OwnCompletions
  DEF Next, Server, HandleCmEvent, HandleCqEvent, Network, ServerStopped

(***************************************************************************)
(* The events in the channel, and the clients.                             *)
(***************************************************************************)

\* Steps that touch neither the channel nor a connection's state, and move
\* a client only while it is connected.
LEMMA EventsKept ==
    ASSUME TypeOK, Events, UNCHANGED <<cmq, state>>,
           \A c \in Conns : \/ peer'[c] = peer[c]
                            \/ {peer[c], peer'[c]} \subseteq {"idle", "waiting"}
    PROVE  Events'
<1>1. cmq \in Seq(CmEvents \X Conns) /\ Len(cmq) \in Nat
  BY DEF TypeOK
<1>2. \A k \in 1..Len(cmq) : Owner(k) \in Conns
  BY <1>1 DEF Owner
<1>3. Registered' = Registered
  BY DEF Registered
<1>4. Requests'
  BY <1>2 DEF Events, Requests, Is, Owner
<1>5. Announcements'
  BY <1>2 DEF Events, Announcements, Is, Owner
<1>6. Farewells'
  BY <1>2, <1>3 DEF Events, Farewells, Is, Owner
<1>7. Peers'
  BY <1>3 DEF Events, Peers
<1>8. QED
  BY <1>4, <1>5, <1>6, <1>7 DEF Events

\* When a client moves and raises an event, or fails to, its events so far
\* and the new one fit where it goes.
LEMMA EventsRaised ==
    ASSUME TypeOK, Events, NEW e \in CmEvents, NEW c \in Conns,
           cmq' = cmq \/ cmq' = Append(cmq, <<e, c>>), state' = state,
           \A d \in Conns \ {c} : peer'[d] = peer[d],
           \/ e = "CONNECT_REQUEST" /\ peer[c] = "new" /\ peer'[c] = "connecting"
           \/ e = "ESTABLISHED" /\ peer[c] = "connecting" /\ peer'[c] = "idle"
                 /\ state[c] = "ACCEPTING"
           \/ e = "DISCONNECTED" /\ peer[c] \in {"idle", "waiting"} /\ peer'[c] = "gone"
           \/ e = "OTHER" /\ peer[c] = "connecting" /\ peer'[c] = "gave_up"
    PROVE  Events'
<1>1. cmq \in Seq(CmEvents \X Conns) /\ Len(cmq) \in Nat
  BY DEF TypeOK
<1>2. Registered' = Registered
  BY DEF Registered
<1>3. \A k \in 1..Len(cmq) : cmq[k] \in CmEvents \X Conns /\ Owner(k) \in Conns
  BY <1>1 DEF Owner
<1>4. /\ Len(cmq') \in Nat
      /\ \A k \in 1..Len(cmq') :
            \/ k \in 1..Len(cmq) /\ cmq'[k] = cmq[k]
            \/ k = Len(cmq') /\ k = Len(cmq) + 1 /\ cmq'[k] = <<e, c>>
  BY <1>1, RaiseFacts
<1>5. Requests'
  <2>1. ASSUME NEW k \in 1..Len(cmq), Is(k, "CONNECT_REQUEST")
        PROVE  /\ state'[Owner(k)] = "none" /\ peer'[Owner(k)] \in {"connecting", "gave_up"}
               /\ cmq[k] = <<e, c>> => e # "CONNECT_REQUEST"
               /\ \A l \in 1..Len(cmq) : cmq[l] = cmq[k] => l = k
    BY <1>3, <2>1 DEF Events, Requests, Owner
  <2>2. e = "CONNECT_REQUEST" => state[c] = "none"
    BY DEF Events, Peers
  <2>3. QED
    BY <1>4, <2>1, <2>2 DEF Requests, Is, Owner
<1>6. Announcements'
  <2>1. ASSUME NEW k \in 1..Len(cmq), Is(k, "ESTABLISHED")
        PROVE  /\ state'[Owner(k)] = "ACCEPTING" /\ peer'[Owner(k)] \in {"idle", "waiting", "gone"}
               /\ cmq[k] = <<e, c>> => e # "ESTABLISHED"
               /\ \A l \in 1..Len(cmq) : cmq[l] = cmq[k] => l = k
    BY <1>3, <2>1 DEF Events, Announcements, Owner
  <2>2. QED
    BY <1>4, <2>1 DEF Announcements, Is, Owner
<1>7. Farewells'
  <2>1. ASSUME NEW k \in 1..Len(cmq), Is(k, "DISCONNECTED")
        PROVE  /\ Owner(k) \in Registered' /\ peer'[Owner(k)] = "gone" /\ Owner(k) # c
               /\ \A l \in (k + 1)..Len(cmq) : Owner(l) # Owner(k)
    BY <1>2, <1>3, <2>1 DEF Events, Farewells
  <2>2. e = "DISCONNECTED" => c \in Registered'
    BY <1>2 DEF Events, Peers
  <2>3. QED
    BY <1>1, <1>4, <2>1, <2>2 DEF Farewells, Is, Owner
<1>8. Peers'
  BY <1>2 DEF Events, Peers, Registered
<1>9. QED
  BY <1>5, <1>6, <1>7, <1>8 DEF Events

\* When the server takes an event of c, what is left of c's events fits what
\* becomes of c.
LEMMA EventsTaken ==
    ASSUME TypeOK, Events, NEW e, NEW c \in Conns, GetCmEvent(e, c),
           Len(cmq') \in Nat,
           \A k \in 1..Len(cmq') :
               \/ k + 1 \in 1..Len(cmq) /\ cmq'[k] = cmq[k + 1]
               \/ e = "CONNECT_REQUEST" /\ cmq'[k] = <<"OTHER", c>>,
           \A d \in Conns \ {c} : state'[d] = state[d] /\ peer'[d] = peer[d],
           \/ e = "CONNECT_REQUEST" /\ peer'[c] \notin {"new", "idle", "waiting"}
           \/ e = "ESTABLISHED" /\ peer'[c] = peer[c] /\ state'[c] = "ESTABLISHED"
           \/ e = "DISCONNECTED" /\ peer'[c] = peer[c]
           \/ e = "OTHER" /\ peer'[c] = peer[c] /\ state'[c] = state[c]
    PROVE  Events'
<1>1. cmq \in Seq(CmEvents \X Conns) /\ Len(cmq) \in Nat
  BY DEF TypeOK
<1>2. \A k \in 1..Len(cmq) : cmq[k] \in CmEvents \X Conns /\ Owner(k) \in Conns
  BY <1>1 DEF Owner
<1>3. 1 \in 1..Len(cmq) /\ cmq[1] = <<e, c>> /\ Is(1, e) /\ Owner(1) = c
  BY GetEventFacts
<1>4. ASSUME NEW k \in 1..Len(cmq'), cmq'[k][1] # "OTHER"
      PROVE  /\ k \in Nat /\ k + 1 \in 1..Len(cmq) /\ cmq'[k] = cmq[k + 1]
             /\ k + 1 \in (1 + 1)..Len(cmq)
             /\ k + 1 # 1 /\ Owner(k + 1) \in Conns
  BY <1>2, <1>4
<1>5. Requests'
  <2>1. ASSUME NEW k \in 1..Len(cmq'), cmq'[k][1] = "CONNECT_REQUEST"
        PROVE  /\ state'[Owner(k + 1)] = state[Owner(k + 1)]
               /\ peer'[Owner(k + 1)] = peer[Owner(k + 1)]
    <3>1. /\ k + 1 \in 1..Len(cmq) /\ Is(k + 1, "CONNECT_REQUEST")
          /\ cmq[k + 1] = <<"CONNECT_REQUEST", Owner(k + 1)>>
      BY <1>2, <1>4, <2>1 DEF Is, Owner
    <3>2. CASE Owner(k + 1) = c
      <4>1. ASSUME e = "CONNECT_REQUEST" PROVE FALSE
        <5>1. Is(1, "CONNECT_REQUEST") /\ cmq[k + 1] = cmq[1]
          BY <1>3, <3>1, <3>2, <4>1
        <5>2. k + 1 = 1
          BY <1>3, <3>1, <5>1 DEF Events, Requests
        <5>3. QED
          BY <1>4, <2>1, <5>2
      <4>2. state[c] = "none"
        BY <3>1, <3>2 DEF Events, Requests
      <4>3. e # "ESTABLISHED"
        BY <1>3, <4>2 DEF Events, Announcements
      <4>4. e # "DISCONNECTED"
        BY <1>3, <4>2 DEF Events, Farewells, Registered
      <4>5. QED
        BY <3>2, <4>1, <4>3, <4>4
    <3>3. QED
      BY <1>4, <2>1, <3>2
  <2>2. QED
    BY <1>4, <2>1 DEF Events, Requests, Is, Owner
<1>6. Announcements'
  <2>1. ASSUME NEW k \in 1..Len(cmq'), cmq'[k][1] = "ESTABLISHED"
        PROVE  /\ state'[Owner(k + 1)] = state[Owner(k + 1)]
               /\ peer'[Owner(k + 1)] = peer[Owner(k + 1)]
    <3>1. /\ k + 1 \in 1..Len(cmq) /\ Is(k + 1, "ESTABLISHED")
          /\ cmq[k + 1] = <<"ESTABLISHED", Owner(k + 1)>>
      BY <1>2, <1>4, <2>1 DEF Is, Owner
    <3>2. CASE Owner(k + 1) = c
      <4>1. ASSUME e = "ESTABLISHED" PROVE FALSE
        <5>1. Is(1, "ESTABLISHED") /\ cmq[k + 1] = cmq[1]
          BY <1>3, <3>1, <3>2, <4>1
        <5>2. k + 1 = 1
          BY <1>3, <3>1, <5>1 DEF Events, Announcements
        <5>3. QED
          BY <1>4, <2>1, <5>2
      <4>2. state[c] = "ACCEPTING"
        BY <3>1, <3>2 DEF Events, Announcements
      <4>3. e # "CONNECT_REQUEST"
        BY <1>3, <4>2 DEF Events, Requests
      <4>4. e # "DISCONNECTED"
        <5>1. k + 1 \in (1 + 1)..Len(cmq)
          BY <1>4, <2>1
        <5>2. QED
          BY <1>3, <3>2, <5>1 DEF Events, Farewells
      <4>5. QED
        BY <3>2, <4>1, <4>3, <4>4
    <3>3. QED
      BY <1>4, <2>1, <3>2
  <2>2. QED
    BY <1>4, <2>1 DEF Events, Announcements, Is, Owner
<1>7. Farewells'
  <2>1. ASSUME NEW k \in 1..Len(cmq'), cmq'[k][1] = "DISCONNECTED"
        PROVE  /\ Owner(k + 1) \in Registered' /\ peer'[Owner(k + 1)] = "gone"
               /\ \A l \in (k + 1)..Len(cmq') : cmq'[l][2] # Owner(k + 1)
    <3>1. /\ k + 1 \in 1..Len(cmq) /\ Is(k + 1, "DISCONNECTED")
          /\ cmq[k + 1] = <<"DISCONNECTED", Owner(k + 1)>>
      BY <1>2, <1>4, <2>1 DEF Is, Owner
    <3>2. /\ Owner(k + 1) \in Registered /\ peer[Owner(k + 1)] = "gone"
          /\ \A l \in (k + 2)..Len(cmq) : Owner(l) # Owner(k + 1)
      BY <1>4, <2>1, <3>1 DEF Events, Farewells
    <3>3. ASSUME NEW l \in (k + 1)..Len(cmq'), e # "CONNECT_REQUEST" \/ Owner(k + 1) # c
          PROVE  cmq'[l][2] # Owner(k + 1)
      <4>1. l \in 1..Len(cmq') /\ (l + 1 \in 1..Len(cmq) => l + 1 \in (k + 2)..Len(cmq))
        BY <1>1, <1>4, <2>1
      <4>2. QED
        BY <3>2, <3>3, <4>1 DEF Owner
    <3>4. CASE Owner(k + 1) = c
      <4>1. e # "CONNECT_REQUEST"
        BY <1>3, <3>2, <3>4 DEF Events, Requests, Registered
      <4>2. e # "DISCONNECTED"
        <5>1. k + 1 \in (1 + 1)..Len(cmq)
          BY <1>4, <2>1
        <5>2. QED
          BY <1>3, <3>4, <5>1 DEF Events, Farewells
      <4>3. Owner(k + 1) \in Registered' /\ peer'[Owner(k + 1)] = "gone"
        BY <3>2, <3>4, <4>1, <4>2 DEF Registered
      <4>4. QED
        BY <3>4, <3>3, <4>1, <4>3
    <3>5. QED
      BY <1>4, <2>1, <3>2, <3>3, <3>4 DEF Registered
  <2>2. QED
    BY <1>4, <2>1 DEF Farewells, Is, Owner
<1>8. Peers'
  <2>1. Peers
    BY DEF Events
  <2>2. c \in Conns /\ \A d \in Conns : d # c => (d \in Registered' <=> d \in Registered)
    BY DEF Registered
  <2>3. e = "ESTABLISHED" => peer[c] # "new" /\ c \in Registered'
    BY <1>3 DEF Events, Announcements, Registered
  <2>4. e = "DISCONNECTED" => peer[c] = "gone"
    BY <1>3 DEF Events, Farewells
  <2>5. e = "OTHER" => (c \in Registered' <=> c \in Registered)
    BY DEF Registered
  <2>6. QED
    BY <2>1, <2>2, <2>3, <2>4, <2>5 DEF Peers
<1>9. QED
  BY <1>5, <1>6, <1>7, <1>8 DEF Events

LEMMA EventsStep ==
    TypeOK /\ Events /\ Position /\ Routed /\ [Next]_vars => Events'
<1> SUFFICES ASSUME TypeOK, Events, Position, Routed, [Next]_vars PROVE Events'
  OBVIOUS
<1> USE DEF connVars
<1>1. peer \in [Conns -> PeerStates] /\ state \in [Conns -> ConnStates]
  BY DEF TypeOK
<1>2. CASE UNCHANGED <<cmq, state, peer>>
  BY <1>2, EventsKept
<1>3. ASSUME NEW c \in Conns, Arrive(c) \/ EchoArrives(c)
      PROVE  Events'
  <2>1. UNCHANGED <<cmq, state>> /\ peer[c] \in {"idle", "waiting"} /\ peer'[c] \in {"idle", "waiting"}
    BY <1>1, <1>3 DEF Arrive, EchoArrives
  <2>2. \A d \in Conns : d # c => peer'[d] = peer[d]
    BY <1>1, <1>3 DEF Arrive, EchoArrives
  <2>3. QED
    BY <2>1, <2>2, EventsKept
<1>4. ASSUME NEW c \in Conns, PeerConnect(c)
      PROVE  Events'
  <2>1. /\ cmq' = Append(cmq, <<"CONNECT_REQUEST", c>>) /\ state' = state
        /\ \A d \in Conns \ {c} : peer'[d] = peer[d]
        /\ peer[c] = "new" /\ peer'[c] = "connecting"
    BY <1>1, <1>4 DEF PeerConnect
  <2>2. QED
    BY <2>1, EventsRaised DEF CmEvents
<1>5. ASSUME NEW c \in Conns, PeerEstablished(c)
      PROVE  Events'
  <2>1. /\ cmq' = cmq \/ cmq' = Append(cmq, <<"ESTABLISHED", c>>)
        /\ state' = state /\ state[c] = "ACCEPTING"
        /\ \A d \in Conns \ {c} : peer'[d] = peer[d]
        /\ peer[c] = "connecting" /\ peer'[c] = "idle"
    BY <1>1, <1>5 DEF PeerEstablished
  <2>2. QED
    BY <2>1, EventsRaised DEF CmEvents
<1>6. ASSUME NEW c \in Conns, PeerLeaves(c)
      PROVE  Events'
  <2>1. /\ cmq' = cmq \/ cmq' = Append(cmq, <<"DISCONNECTED", c>>)
        /\ state' = state
        /\ \A d \in Conns \ {c} : peer'[d] = peer[d]
        /\ peer[c] \in {"idle", "waiting"} /\ peer'[c] = "gone"
    BY <1>1, <1>6 DEF PeerLeaves
  <2>2. QED
    BY <2>1, EventsRaised DEF CmEvents
<1>7. ASSUME NEW c \in Conns, PeerGivesUp(c)
      PROVE  Events'
  <2>1. /\ cmq' = cmq \/ cmq' = Append(cmq, <<"OTHER", c>>)
        /\ state' = state
        /\ \A d \in Conns \ {c} : peer'[d] = peer[d]
        /\ peer[c] = "connecting" /\ peer'[c] = "gave_up"
    BY <1>1, <1>7 DEF PeerGivesUp
  <2>2. QED
    BY <2>1, EventsRaised DEF CmEvents
<1>8. ASSUME NEW c \in Conns, HandleNewRequest(c)
      PROVE  Events'
  <2>1. GetCmEvent("CONNECT_REQUEST", c) /\ peer' = peer
    BY <1>8 DEF HandleNewRequest, peerVars
  <2>2. /\ Len(cmq') \in Nat
        /\ \A k \in 1..Len(cmq') :
              \/ k + 1 \in 1..Len(cmq) /\ cmq'[k] = cmq[k + 1]
              \/ cmq'[k] = <<"OTHER", c>>
    <3>1. CASE cmq' = Tail(cmq) \/ cmq' = Tail(cmq) \o <<>>
      BY <2>1, <3>1, GetEventFacts, ConcatEmptySeq
    <3>2. CASE cmq' = Tail(cmq) \o <<<<"OTHER", c>>>>
      <4> DEFINE Es == CmEvents \X Conns
      <4>1. /\ Tail(cmq) \in Seq(Es) /\ <<<<"OTHER", c>>>> \in Seq(Es)
            /\ Len(<<<<"OTHER", c>>>>) = 1 /\ <<<<"OTHER", c>>>>[1] = <<"OTHER", c>>
        BY <2>1, GetEventFacts DEF CmEvents
      <4> HIDE DEF Es
      <4>2. QED
        BY <2>1, <3>2, <4>1, GetEventFacts, ConcatProperties
    <3>3. QED
      BY <1>8, <3>1, <3>2 DEF HandleNewRequest
  <2>3. \A d \in Conns \ {c} : state'[d] = state[d]
    BY <1>1, <1>8 DEF HandleNewRequest
  <2>4. peer[c] \notin {"new", "idle", "waiting"}
    BY <2>1, GetEventFacts DEF Events, Requests
  <2>5. QED
    BY <2>1, <2>2, <2>3, <2>4, EventsTaken
<1>9. ASSUME NEW e, NEW c \in Conns, GetCmEvent(e, c), cmq' = Tail(cmq)
      PROVE  /\ Len(cmq') \in Nat
             /\ \A k \in 1..Len(cmq') : k + 1 \in 1..Len(cmq) /\ cmq'[k] = cmq[k + 1]
  BY <1>9, GetEventFacts
<1>10. ASSUME NEW c \in Conns, RejectRequest(c)
       PROVE  Events'
  <2>1. GetCmEvent("CONNECT_REQUEST", c) /\ cmq' = Tail(cmq) /\ state' = state
    BY <1>10 DEF RejectRequest
  <2>2. peer'[c] = "gone" /\ \A d \in Conns \ {c} : peer'[d] = peer[d]
    BY <1>1, <1>10 DEF RejectRequest
  <2>3. QED
    BY <1>9, <2>1, <2>2, EventsTaken
<1>11. ASSUME NEW c \in Conns, HandleEstablished(c)
       PROVE  Events'
  <2>1. GetCmEvent("ESTABLISHED", c) /\ cmq' = Tail(cmq) /\ peer' = peer
    BY <1>11 DEF HandleEstablished, peerVars
  <2>2. state'[c] = "ESTABLISHED" /\ \A d \in Conns \ {c} : state'[d] = state[d]
    BY <1>1, <1>11 DEF HandleEstablished
  <2>3. QED
    BY <1>9, <2>1, <2>2, EventsTaken
<1>12. ASSUME NEW c \in Conns, HandleDisconnected(c)
       PROVE  Events'
  <2>1. GetCmEvent("DISCONNECTED", c) /\ cmq' = Tail(cmq) /\ peer' = peer
    BY <1>12 DEF HandleDisconnected, peerVars
  <2>2. \A d \in Conns \ {c} : state'[d] = state[d]
    BY <1>1, <1>12 DEF HandleDisconnected
  <2>3. QED
    BY <1>9, <2>1, <2>2, EventsTaken
<1>13. ASSUME NEW c \in Conns, HandleOther(c)
       PROVE  Events'
  <2>1. GetCmEvent("OTHER", c) /\ cmq' = Tail(cmq) /\ peer' = peer /\ state' = state
    BY <1>13 DEF HandleOther, PrintEvent, peerVars
  <2>2. QED
    BY <1>9, <2>1, EventsTaken
<1>14. CASE \/ CheckRunning \/ EpollWait \/ BatchDone \/ WaitFails \/ GetCmEventFails
            \/ Sigint \/ UNCHANGED vars
            \/ HandleCqEvent
  BY <1>2, <1>14, OwnCompletions
  DEF CheckRunning, EpollWait, BatchDone, WaitFails, GetCmEventFails, Sigint, HandleCqEvent,
      GetCqEvent, GetStaleEvent,
      ReqNotify, PollCq, CqCallFails, SendWc, HandleSendWc, RecvWc, HandleRecvWc, Reply, PostReply,
      vars, outsideVars, peerVars
<1>15. ASSUME NEW c \in Conns, AckArrives(c) \/ RetryExceeded(c)
       PROVE  Events'
  BY <1>2, <1>15 DEF AckArrives, RetryExceeded, peerVars
<1>16. QED
  BY <1>3, <1>4, <1>5, <1>6, <1>7, <1>8, <1>10, <1>11, <1>12, <1>13, <1>14, <1>15
  DEF Next, Server, HandleCmEvent, Network, ServerStopped

(***************************************************************************)
(* The queues, and where the server is.                                    *)
(***************************************************************************)

\* Steps that touch the completions of one connection, which is set up.
LEMMA QueuesKept ==
    ASSUME Queues, state' = state, NEW c \in Registered, qp'[c] # "none",
           \A d \in Conns : d # c => qp'[d] = qp[d] /\ cq'[d] = cq[d]
    PROVE  Queues'
BY DEF Queues, Registered

LEMMA QueuesStep ==
    TypeOK /\ Events /\ Queues /\ Position /\ Routed /\ [Next]_vars => Queues'
<1> SUFFICES ASSUME TypeOK, Events, Queues, Position, Routed, [Next]_vars PROVE Queues'
  OBVIOUS
<1> USE DEF rcVars, connVars
<1>1. qp \in [Conns -> {"none", "RTS", "ERR"}] /\ state \in [Conns -> ConnStates]
  BY DEF TypeOK
<1>2. cq \in [Conns -> Seq(Completions)]
  BY DEF TypeOK
<1>3. CASE UNCHANGED <<state, qp, cq>>
  BY <1>3 DEF Queues, Registered
<1>4. ASSUME NEW c \in Conns, HandleNewRequest(c)
      PROVE  Queues'
  <2>1. cq' = cq /\ state[c] = "none"
    BY <1>4, GetEventFacts DEF HandleNewRequest, Events, Requests
  <2>2. CASE UNCHANGED <<state, qp>>
    BY <1>3, <2>1, <2>2
  <2>3. CASE SetupConnection(c) /\ state' = [state EXCEPT ![c] = "ACCEPTING"]
    BY <1>1, <2>1, <2>3 DEF Queues, Registered, SetupConnection
  <2>4. QED
    BY <1>4, <2>2, <2>3 DEF HandleNewRequest
<1>5. ASSUME NEW c \in Conns, HandleEstablished(c)
      PROVE  Queues'
  <2>1. UNCHANGED <<cq, qp>> /\ state[c] = "ACCEPTING"
    BY <1>5, GetEventFacts DEF HandleEstablished, Events, Announcements
  <2>2. state' = [state EXCEPT ![c] = "ESTABLISHED"]
    BY <1>5 DEF HandleEstablished
  <2>3. QED
    BY <1>1, <2>1, <2>2 DEF Queues, Registered
<1>6. ASSUME NEW c \in Conns, HandleDisconnected(c)
      PROVE  Queues'
  BY <1>1, <1>2, <1>6 DEF HandleDisconnected, Queues, Registered
<1>7. CASE PollCq
  <2>1. cur \in Registered /\ UNCHANGED <<state, qp>>
    BY <1>7 DEF PollCq, Position
  <2>2. cur \in Conns /\ qp'[cur] # "none" /\ \A d \in Conns : d # cur => cq'[d] = cq[d]
    BY <1>2, <1>7, <2>1 DEF PollCq, Queues, Registered
  <2>3. QED
    BY <2>1, <2>2, QueuesKept
<1>8. CASE RecvWc \/ Reply
  <2>1. cur \in Registered /\ UNCHANGED <<state, qp>>
    BY <1>8 DEF RecvWc, HandleRecvWc, Reply, PostReply, Position
  <2>2. cq' = cq \/ Complete(cur, <<"RECV_ERR">>) \/ Complete(cur, <<"SEND_ERR">>)
    BY <1>8 DEF RecvWc, HandleRecvWc, Reply, PostReply, PostRecv
  <2>3. cur \in Conns /\ qp'[cur] # "none" /\ \A d \in Conns : d # cur => cq'[d] = cq[d]
    BY <1>2, <2>1, <2>2 DEF Complete, Queues, Registered
  <2>4. QED
    BY <2>1, <2>3, QueuesKept
<1>9. ASSUME NEW c \in Conns, Arrive(c) \/ AckArrives(c) \/ RetryExceeded(c)
      PROVE  Queues'
  <2>1. qp[c] = "RTS" /\ state' = state /\ \E ws : Complete(c, ws)
    BY <1>9 DEF Arrive, AckArrives, RetryExceeded
  <2>2. qp'[c] # "none" /\ \A d \in Conns : d # c => qp'[d] = qp[d]
    BY <1>1, <1>9, <2>1 DEF Arrive, AckArrives, RetryExceeded
  <2>3. c \in Registered /\ \A d \in Conns : d # c => cq'[d] = cq[d]
    BY <1>2, <2>1 DEF Complete, Queues
  <2>4. QED
    BY <2>1, <2>2, <2>3, QueuesKept
<1>10. ASSUME NEW c \in Conns,
              RejectRequest(c) \/ HandleOther(c) \/ GetCqEvent(c) \/ GetStaleEvent(c)
       PROVE  Queues'
  BY <1>3, <1>10 DEF RejectRequest, HandleOther, PrintEvent, GetCqEvent, GetStaleEvent, outsideVars
<1>11. ASSUME NEW c \in Conns, \/ EchoArrives(c) \/ PeerConnect(c) \/ PeerEstablished(c)
                               \/ PeerLeaves(c) \/ PeerGivesUp(c)
       PROVE  Queues'
  BY <1>3, <1>11 DEF EchoArrives, PeerConnect, PeerEstablished, PeerLeaves, PeerGivesUp
<1>12. CASE \/ CheckRunning \/ EpollWait \/ BatchDone \/ WaitFails \/ GetCmEventFails
            \/ Sigint \/ UNCHANGED vars
            \/ ReqNotify \/ CqCallFails \/ SendWc
  BY <1>3, <1>12
  DEF CheckRunning, EpollWait, BatchDone, WaitFails, GetCmEventFails, Sigint, ReqNotify,
      CqCallFails, SendWc, HandleSendWc,
      vars, outsideVars
<1>13. QED
  BY <1>4, <1>5, <1>6, <1>7, <1>8, <1>9, <1>10, <1>11, <1>12, OwnCompletions
  DEF Next, Server, HandleCmEvent, HandleCqEvent, Network, ServerStopped

LEMMA PositionStep ==
    TypeOK /\ Position /\ Routed /\ [Next]_vars => Position'
<1> SUFFICES ASSUME TypeOK, Position, Routed, [Next]_vars PROVE Position'
  OBVIOUS
<1> USE DEF drainVars, loopVars, connVars
<1>1. wcs \in Seq(Completions) /\ cq \in [Conns -> Seq(Completions)]
  BY DEF TypeOK
<1>2. CASE UNCHANGED <<mpc, cur, wcs, state>>
  BY <1>2 DEF Position, Registered
<1>3. CASE CheckRunning \/ EpollWait \/ BatchDone \/ WaitFails
  BY <1>3 DEF CheckRunning, EpollWait, BatchDone, WaitFails, Position
<1>4. ASSUME NEW c \in Conns, HandleCmEvent(c)
      PROVE  Position'
  <2>1. mpc = "batch" /\ UNCHANGED <<cur, wcs>> /\ mpc' \in {"batch", "died"}
    BY <1>4 DEF HandleCmEvent, HandleNewRequest, RejectRequest, HandleEstablished,
                HandleDisconnected, HandleOther, PrintEvent, GetCmEvent
  <2>2. QED
    BY <2>1 DEF Position
<1>5. ASSUME NEW c \in Conns, GetCqEvent(c) \/ GetStaleEvent(c)
      PROVE  Position'
  BY <1>5 DEF GetCqEvent, GetStaleEvent, Position, Registered
<1>6. CASE ReqNotify \/ CqCallFails
  BY <1>6 DEF ReqNotify, CqCallFails, outsideVars, Position, Registered
<1>7. CASE PollCq
  <2>1. cur \in Registered /\ cur \in Conns /\ state' = state
    BY <1>7 DEF PollCq, Position, Registered
  <2> DEFINE n == IF Len(cq[cur]) < PollBatch THEN Len(cq[cur]) ELSE PollBatch
  <2>2. n \in 0..Len(cq[cur]) /\ cq[cur] \in Seq(Completions)
    BY <1>1, <2>1, BoundsAssumption
  <2>3. wcs' \in Seq(Completions) /\ Len(wcs') = n
    BY <1>7, <2>2, PollFacts DEF PollCq
  <2>4. /\ mpc' = IF n = 0 THEN "batch" ELSE "wc"
        /\ cur' = IF n = 0 THEN ec ELSE cur
    BY <1>7 DEF PollCq
  <2> HIDE DEF n
  <2>5. QED
    BY <2>1, <2>2, <2>3, <2>4, EmptySeq DEF Position, Registered
<1>8. CASE SendWc \/ RecvWc
  <2>1. wcs # <<>> /\ cur \in Registered /\ wcs' = Tail(wcs) /\ cur' = cur /\ state' = state
    BY <1>8 DEF SendWc, HandleSendWc, RecvWc, HandleRecvWc, Position, outsideVars
  <2>2. mpc' \in {"reply", "died"} \/ mpc' = IF wcs' = <<>> THEN "poll" ELSE "wc"
    BY <1>8, <2>1 DEF SendWc, HandleSendWc, RecvWc, HandleRecvWc, AfterSend, NextWc
  <2>3. QED
    BY <2>1, <2>2 DEF Position, Registered
<1>9. CASE Reply
  <2>1. mpc' \in {"die_post", "died"} \/ mpc' = IF wcs = <<>> THEN "poll" ELSE "wc"
    BY <1>9 DEF Reply, PostReply, NextWc
  <2>2. UNCHANGED <<cur, wcs, state>> /\ cur \in Registered
    BY <1>9 DEF Reply, PostReply, Position
  <2>3. QED
    BY <2>1, <2>2 DEF Position, Registered
<1>10. CASE Sigint \/ GetCmEventFails \/ UNCHANGED vars
  BY <1>2, <1>10 DEF Sigint, GetCmEventFails, vars, outsideVars
<1>11. ASSUME NEW c \in Conns, Network(c)
       PROVE  Position'
  BY <1>2, <1>11 DEF Network, Arrive, EchoArrives, AckArrives, RetryExceeded
<1>12. ASSUME NEW c \in Conns,
              PeerConnect(c) \/ PeerEstablished(c) \/ PeerLeaves(c) \/ PeerGivesUp(c)
       PROVE  Position'
  BY <1>2, <1>12 DEF PeerConnect, PeerEstablished, PeerLeaves, PeerGivesUp
<1>13. QED
  BY <1>3, <1>4, <1>5, <1>6, <1>7, <1>8, <1>9, <1>10, <1>11, <1>12, OwnCompletions
  DEF Next, Server, HandleCqEvent, ServerStopped

\* The requests name their connection from its set-up until it is freed.
LEMMA RoutedStep ==
    TypeOK /\ Events /\ Position /\ Routed /\ [Next]_vars => Routed'
<1> SUFFICES ASSUME TypeOK, Events, Position, Routed, [Next]_vars PROVE Routed'
  OBVIOUS
<1> USE DEF connVars
<1>1. state \in [Conns -> ConnStates] /\ wr_id \in [Conns -> Conns \union {ec}]
  BY DEF TypeOK
<1>2. CASE UNCHANGED <<state, wr_id>>
  BY <1>2 DEF Routed, Registered
<1>3. ASSUME NEW c \in Conns, HandleNewRequest(c)
      PROVE  Routed'
  <2>1. CASE /\ state' = [state EXCEPT ![c] = "ACCEPTING"]
             /\ wr_id' = [wr_id EXCEPT ![c] = c]
    BY <1>1, <2>1 DEF Routed, Registered
  <2>2. QED
    BY <1>2, <1>3, <2>1 DEF HandleNewRequest, SetupConnection, WrId
<1>4. ASSUME NEW c \in Conns, HandleEstablished(c)
      PROVE  Routed'
  <2>1. state[c] = "ACCEPTING" /\ wr_id' = wr_id
    BY <1>4, GetEventFacts DEF HandleEstablished, Events, Announcements
  <2>2. Registered' = Registered
    BY <1>1, <1>4, <2>1 DEF HandleEstablished, Registered
  <2>3. QED
    BY <2>1, <2>2 DEF Routed
<1>5. ASSUME NEW c \in Conns, HandleDisconnected(c)
      PROVE  Routed'
  BY <1>1, <1>5 DEF HandleDisconnected, Routed, Registered
<1>6. ASSUME NEW c \in Conns, \/ RejectRequest(c) \/ HandleOther(c)
                              \/ GetCqEvent(c) \/ GetStaleEvent(c)
      PROVE  Routed'
  BY <1>2, <1>6 DEF RejectRequest, HandleOther, PrintEvent, GetCqEvent, GetStaleEvent, outsideVars
<1>7. CASE \/ CheckRunning \/ EpollWait \/ BatchDone \/ WaitFails \/ GetCmEventFails \/ Sigint
           \/ UNCHANGED vars \/ ReqNotify \/ PollCq \/ CqCallFails \/ SendWc \/ RecvWc \/ Reply
  BY <1>2, <1>7
  DEF CheckRunning, EpollWait, BatchDone, WaitFails, GetCmEventFails, Sigint, ReqNotify, PollCq,
      CqCallFails, SendWc, HandleSendWc, RecvWc, HandleRecvWc, Reply, PostReply, vars, outsideVars
<1>8. ASSUME NEW c \in Conns, Network(c)
      PROVE  Routed'
  BY <1>2, <1>8 DEF Network, Arrive, EchoArrives, AckArrives, RetryExceeded
<1>9. ASSUME NEW c \in Conns,
             PeerConnect(c) \/ PeerEstablished(c) \/ PeerLeaves(c) \/ PeerGivesUp(c)
      PROVE  Routed'
  BY <1>2, <1>9 DEF PeerConnect, PeerEstablished, PeerLeaves, PeerGivesUp
<1>10. QED
  BY <1>3, <1>4, <1>5, <1>6, <1>7, <1>8, <1>9, OwnCompletions
  DEF Next, Server, HandleCmEvent, HandleCqEvent, ServerStopped

(***************************************************************************)
(* The wake-ups.                                                           *)
(***************************************************************************)

\* Completions that come in are not lost: they raise an event if the queue
\* is armed, and the loop is at the queue if it is not.
LEMMA WakeupsKept ==
    ASSUME TypeOK, Rearmed, NoLostWakeup, UNCHANGED <<cur, state, failed>>,
           mpc = "notify" <=> mpc' = "notify",
           NEW c \in Conns, NEW ws \in Seq(Completions), Complete(c, ws)
    PROVE  Rearmed' /\ NoLostWakeup'
<1>1. \A d \in Conns : chan[d] \in Nat /\ chan'[d] \in Nat /\ chan'[d] >= chan[d]
  BY CompleteFacts DEF TypeOK
<1>2. \A d \in Conns : armed[d] => chan'[d] > 0 \/ (armed'[d] /\ cq'[d] = cq[d])
  BY CompleteFacts
<1>3. \A d \in Conns : chan[d] > 0 => chan'[d] > 0
  BY <1>1
<1>4. QED
  BY <1>2, <1>3 DEF Rearmed, NoLostWakeup, Registered

LEMMA WakeupsStep ==
    TypeOK /\ Events /\ Queues /\ Position /\ Routed /\ Rearmed /\ NoLostWakeup /\ [Next]_vars
        => Rearmed' /\ NoLostWakeup'
<1> SUFFICES ASSUME TypeOK, Events, Queues, Position, Routed, Rearmed, NoLostWakeup, [Next]_vars
             PROVE  Rearmed' /\ NoLostWakeup'
  OBVIOUS
<1> USE DEF drainVars, loopVars, connVars, rcVars
<1>1. /\ state \in [Conns -> ConnStates] /\ failed \subseteq Conns
      /\ armed \in [Conns -> BOOLEAN] /\ chan \in [Conns -> Nat]
  BY DEF TypeOK
<1>2. cq \in [Conns -> Seq(Completions)]
  BY DEF TypeOK
<1>3. CASE UNCHANGED <<cur, state, failed, chan, armed, cq>> /\ (mpc = "notify" <=> mpc' = "notify")
  BY <1>3 DEF Rearmed, NoLostWakeup, Registered
<1>4. ASSUME NEW c \in Conns, HandleNewRequest(c)
      PROVE  Rearmed' /\ NoLostWakeup'
  <2>1. UNCHANGED <<cur, failed, chan, cq>> /\ mpc = "batch" /\ mpc' # "notify"
    BY <1>4 DEF HandleNewRequest, GetCmEvent
  <2>2. state[c] = "none" /\ cq[c] = <<>>
    BY <1>4, GetEventFacts DEF HandleNewRequest, Events, Requests, Queues, Registered
  <2>3. CASE UNCHANGED <<state, armed>>
    BY <1>3, <2>1, <2>3
  <2>4. CASE SetupConnection(c) /\ state' = [state EXCEPT ![c] = "ACCEPTING"]
    <3>1. armed'[c] = TRUE /\ \A d \in Conns : d # c => armed'[d] = armed[d] /\ state'[d] = state[d]
      BY <1>1, <2>4 DEF SetupConnection
    <3>2. QED
      BY <2>1, <2>2, <3>1 DEF Rearmed, NoLostWakeup, Registered
  <2>5. QED
    BY <1>4, <2>3, <2>4 DEF HandleNewRequest
<1>5. ASSUME NEW c \in Conns, HandleEstablished(c)
      PROVE  Rearmed' /\ NoLostWakeup'
  <2>1. UNCHANGED <<mpc, cur, failed, chan, armed, cq>> /\ state[c] = "ACCEPTING"
    BY <1>5, GetEventFacts DEF HandleEstablished, Events, Announcements
  <2>2. \A d \in Conns : d # c => state'[d] = state[d]
    BY <1>1, <1>5 DEF HandleEstablished
  <2>3. QED
    BY <2>1, <2>2 DEF Rearmed, NoLostWakeup, Registered
<1>6. ASSUME NEW c \in Conns, HandleDisconnected(c)
      PROVE  Rearmed' /\ NoLostWakeup'
  <2>1. /\ UNCHANGED <<mpc, cur>> /\ cur = ec /\ cur \notin Conns /\ failed' = failed \ {c}
        /\ state'[c] = "freed"
    BY <1>1, <1>6, ChannelAssumption DEF HandleDisconnected, GetCmEvent, Position
  <2>2. \A d \in Conns : d # c => /\ state'[d] = state[d] /\ chan'[d] = chan[d]
                                /\ armed'[d] = armed[d] /\ cq'[d] = cq[d]
    BY <1>1, <1>2, <1>6 DEF HandleDisconnected
  <2>3. QED
    BY <2>1, <2>2 DEF Rearmed, NoLostWakeup, Registered
<1>7. ASSUME NEW c \in Conns, GetCqEvent(c)
      PROVE  Rearmed' /\ NoLostWakeup'
  <2>1. /\ UNCHANGED <<state, failed, armed, cq>> /\ cur = ec /\ cur \notin Conns
        /\ cur' = c /\ mpc = "batch" /\ mpc' = "notify"
    BY <1>7, ChannelAssumption DEF GetCqEvent, Position
  <2>2. \A d \in Conns : d # c => chan'[d] = chan[d]
    BY <1>1, <1>7 DEF GetCqEvent
  <2>3. QED
    BY <2>1, <2>2 DEF Rearmed, NoLostWakeup, Registered
<1>8. CASE ReqNotify
  <2>1. /\ UNCHANGED <<state, failed, chan, cur, cq>> /\ cur \in Conns
        /\ armed' = [armed EXCEPT ![cur] = TRUE] /\ mpc' = "poll"
    BY <1>8 DEF ReqNotify, Armed, Position, Registered
  <2>2. armed'[cur] = TRUE /\ \A d \in Conns : d # cur => armed'[d] = armed[d]
    BY <1>1, <2>1
  <2>3. QED
    BY <2>1, <2>2 DEF Rearmed, NoLostWakeup, Registered
<1>9. CASE PollCq
  <2>1. /\ UNCHANGED <<state, chan, armed>> /\ cur \in Registered /\ cur \in Conns
        /\ mpc = "poll" /\ mpc' # "notify"
    BY <1>9 DEF PollCq, Position, Registered
  <2>2. chan[cur] > 0 \/ armed[cur]
    BY <2>1 DEF Rearmed
  <2>3. \A d \in Conns : d # cur => cq'[d] = cq[d]
    BY <1>2, <1>9 DEF PollCq
  <2> DEFINE n == IF Len(cq[cur]) < PollBatch THEN Len(cq[cur]) ELSE PollBatch
  <2>4. /\ cq'[cur] = SubSeq(cq[cur], n + 1, Len(cq[cur]))
        /\ cur' = IF n = 0 THEN ec ELSE cur
        /\ failed' = IF n = 0 THEN failed \ {cur} ELSE failed
    BY <1>2, <1>9, <2>1 DEF PollCq
  <2>5. n \in 0..Len(cq[cur]) /\ (n = 0 => Len(cq[cur]) = 0) /\ cq[cur] \in Seq(Completions)
    BY <1>2, <2>1, BoundsAssumption
  <2> HIDE DEF n
  <2>6. CASE n = 0
    <3>1. cq'[cur] = <<>> /\ cur' = ec /\ failed' = failed \ {cur}
      BY <2>4, <2>5, <2>6
    <3>2. QED
      BY <2>1, <2>2, <2>3, <3>1, ChannelAssumption DEF Rearmed, NoLostWakeup, Registered
  <2>7. CASE n # 0
    <3>1. cur' = cur /\ failed' = failed
      BY <2>4, <2>7
    <3>2. QED
      BY <2>1, <2>2, <2>3, <3>1 DEF Rearmed, NoLostWakeup, Registered
  <2>8. QED
    BY <2>6, <2>7
<1>10. CASE CqCallFails
  BY <1>10, ChannelAssumption
  DEF CqCallFails, outsideVars, Position, Rearmed, NoLostWakeup, Registered
<1>11. CASE RecvWc \/ Reply
  <2>1. /\ UNCHANGED <<cur, state, failed>> /\ mpc # "notify" /\ mpc' # "notify" /\ cur \in Conns
    BY <1>11 DEF RecvWc, HandleRecvWc, Reply, PostReply, NextWc, Position, Registered
  <2>2. \/ UNCHANGED <<cq, armed, chan>>
        \/ Complete(cur, <<"RECV_ERR">>) \/ Complete(cur, <<"SEND_ERR">>)
    BY <1>11 DEF RecvWc, HandleRecvWc, Reply, PostReply, PostRecv
  <2>3. <<"RECV_ERR">> \in Seq(Completions) /\ <<"SEND_ERR">> \in Seq(Completions)
    BY DEF Completions
  <2>4. QED
    BY <1>3, <2>1, <2>2, <2>3, WakeupsKept
<1>12. ASSUME NEW c \in Conns, Arrive(c) \/ AckArrives(c) \/ RetryExceeded(c)
       PROVE  Rearmed' /\ NoLostWakeup'
  <2> DEFINE flushed == Repeat(posted[c] + unacked[c], "SEND_ERR") \o Repeat(rq[c], "RECV_ERR")
  <2>1. UNCHANGED <<mpc, cur, state, failed>>
    BY <1>12 DEF Arrive, AckArrives, RetryExceeded
  <2>2. Complete(c, <<"RECV">>) \/ Complete(c, <<"SEND">>) \/ Complete(c, flushed)
    BY <1>12 DEF Arrive, AckArrives, RetryExceeded
  <2>3. <<"RECV">> \in Seq(Completions) /\ <<"SEND">> \in Seq(Completions)
    BY DEF Completions
  <2>4. flushed \in Seq(Completions)
    <3>0. posted[c] \in Nat /\ unacked[c] \in Nat /\ rq[c] \in Nat
      BY DEF TypeOK
    <3>1. posted[c] + unacked[c] \in Nat /\ rq[c] \in Nat
      BY <3>0
    <3>2. "SEND_ERR" \in Completions /\ "RECV_ERR" \in Completions
      BY DEF Completions
    <3>3. QED
      BY <3>1, <3>2, RepeatType, ConcatProperties
  <2>5. QED
    BY <2>1, <2>2, <2>3, <2>4, WakeupsKept
<1>13. ASSUME NEW c \in Conns, RejectRequest(c) \/ HandleOther(c) \/ GetStaleEvent(c)
       PROVE  Rearmed' /\ NoLostWakeup'
  BY <1>3, <1>13 DEF RejectRequest, HandleOther, PrintEvent, GetCmEvent, GetStaleEvent, outsideVars
<1>14. ASSUME NEW c \in Conns, \/ EchoArrives(c) \/ PeerConnect(c) \/ PeerEstablished(c)
                               \/ PeerLeaves(c) \/ PeerGivesUp(c)
       PROVE  Rearmed' /\ NoLostWakeup'
  BY <1>3, <1>14 DEF EchoArrives, PeerConnect, PeerEstablished, PeerLeaves, PeerGivesUp
<1>15. CASE \/ CheckRunning \/ EpollWait \/ BatchDone \/ WaitFails \/ GetCmEventFails
            \/ Sigint \/ UNCHANGED vars \/ SendWc
  BY <1>3, <1>15
  DEF CheckRunning, EpollWait, BatchDone, WaitFails, GetCmEventFails, Sigint, SendWc,
      HandleSendWc, AfterSend, NextWc, vars, outsideVars
<1>16. QED
  BY <1>4, <1>5, <1>6, <1>7, <1>8, <1>9, <1>10, <1>11, <1>12, <1>13, <1>14, <1>15, OwnCompletions
  DEF Next, Server, HandleCmEvent, HandleCqEvent, Network, ServerStopped

(***************************************************************************)
(* The receive credit.                                                     *)
(***************************************************************************)
LEMMA PendingType ==
    ASSUME TypeOK, NEW c \in Conns
    PROVE  Pending(c) \in Seq(Completions)
<1>1. wcs \in Seq(Completions) /\ cq[c] \in Seq(Completions) /\ <<>> \in Seq(Completions)
  BY DEF TypeOK
<1>2. QED
  BY <1>1, ConcatProperties DEF Pending

\* One more completion, or one fewer, in a queue.
LEMMA OneMore ==
    ASSUME NEW q \in Seq(Completions), NEW x \in Completions
    PROVE  /\ HasRecv(q \o <<x>>) <=> HasRecv(q) \/ x = "RECV"
           /\ OneRecv(q) /\ ~(HasRecv(q) /\ x = "RECV") => OneRecv(q \o <<x>>)
           /\ (\A k \in 1..Len(q) : q[k] \in {"SEND", "RECV"}) /\ x \in {"SEND", "RECV"} =>
                 \A k \in 1..Len(q \o <<x>>) : (q \o <<x>>)[k] \in {"SEND", "RECV"}
<1> DEFINE r == q \o <<x>>
<1>1. /\ Len(q) \in Nat /\ Len(r) = Len(q) + 1 /\ r[Len(q) + 1] = x
      /\ \A k \in 1..Len(q) : r[k] = q[k]
  OBVIOUS
<1> HIDE DEF r
<1>2. \A k \in 1..Len(r) : k \in 1..Len(q) \/ k = Len(q) + 1
  BY <1>1
<1>3. HasRecv(r) <=> HasRecv(q) \/ x = "RECV"
  BY <1>1, <1>2 DEF HasRecv
<1>4. OneRecv(q) /\ ~(HasRecv(q) /\ x = "RECV") => OneRecv(r)
  BY <1>1, <1>2 DEF HasRecv, OneRecv
<1>5. QED
  BY <1>1, <1>2, <1>3, <1>4 DEF r

LEMMA OneLessFacts ==
    ASSUME NEW q \in Seq(Completions), q # <<>>
    PROVE  /\ q[1] # "RECV" => (HasRecv(Tail(q)) <=> HasRecv(q))
           /\ q[1] = "RECV" /\ OneRecv(q) => ~HasRecv(Tail(q))
           /\ OneRecv(q) => OneRecv(Tail(q))
           /\ (\A k \in 1..Len(q) : q[k] \in {"SEND", "RECV"}) =>
                 \A k \in 1..Len(Tail(q)) : Tail(q)[k] \in {"SEND", "RECV"}
<1> DEFINE t == Tail(q)
<1>1. /\ Len(q) \in Nat /\ Len(t) \in Nat /\ Len(q) = Len(t) + 1
      /\ \A k \in 1..Len(t) : t[k] = q[k + 1]
  OBVIOUS
<1> HIDE DEF t
<1>2. \A k \in 1..Len(t) : k + 1 \in 1..Len(q) /\ k + 1 # 1
  BY <1>1
<1>3. \A k \in 1..Len(q) : k = 1 \/ (k - 1 \in 1..Len(t) /\ t[k - 1] = q[k])
  BY <1>1
<1>4. 1 \in 1..Len(q)
  BY <1>1
<1>5. q[1] # "RECV" => (HasRecv(t) <=> HasRecv(q))
  BY <1>1, <1>2, <1>3 DEF HasRecv
<1>6. q[1] = "RECV" /\ OneRecv(q) => ~HasRecv(t)
  BY <1>1, <1>2, <1>4 DEF HasRecv, OneRecv
<1>7. OneRecv(q) => OneRecv(t)
  BY <1>1, <1>2 DEF OneRecv
<1>8. QED
  BY <1>1, <1>2, <1>5, <1>6, <1>7 DEF t

LEMMA TailOfConcat ==
    ASSUME NEW s \in Seq(Completions), NEW t \in Seq(Completions), s # <<>>
    PROVE  /\ s \o t # <<>> /\ Len(s \o t) > 0 /\ (s \o t)[1] = Head(s)
           /\ Tail(s \o t) = Tail(s) \o t
<1> DEFINE h == Head(s)
           r == Tail(s)
<1>1. h \in Completions /\ r \in Seq(Completions) /\ s = <<h>> \o r
  OBVIOUS
<1>2. <<h>> \in Seq(Completions)
  BY <1>1
<1> HIDE DEF h, r
<1>3. r \o t \in Seq(Completions) /\ s \o t = <<h>> \o (r \o t)
  BY <1>1, <1>2, ConcatAssociative, ConcatProperties
<1>4. ASSUME NEW q \in Seq(Completions)
      PROVE  <<h>> \o q # <<>> /\ Len(<<h>> \o q) > 0 /\ (<<h>> \o q)[1] = h /\ Tail(<<h>> \o q) = q
  BY <1>1, <1>2
<1>5. QED
  BY <1>3, <1>4 DEF h, r

LEMMA PendingComplete ==
    ASSUME TypeOK, UNCHANGED <<cur, wcs>>,
           NEW c \in Conns, NEW ws \in Seq(Completions), Complete(c, ws)
    PROVE  /\ Pending(c)' = Pending(c) \o ws
           /\ \A d \in Conns : d # c => Pending(d)' = Pending(d)
<1>1. wcs \in Seq(Completions) /\ cq[c] \in Seq(Completions) /\ <<>> \in Seq(Completions)
  BY DEF TypeOK
<1>2. cq'[c] = cq[c] \o ws /\ \A d \in Conns : d # c => cq'[d] = cq[d]
  BY CompleteFacts
<1> DEFINE first == IF cur = c THEN wcs ELSE <<>>
<1>3. /\ Pending(c) = first \o cq[c] /\ Pending(c)' = first \o (cq[c] \o ws)
      /\ \A d \in Conns : d # c => Pending(d)' = Pending(d)
  BY <1>2 DEF Pending
<1>4. first \in Seq(Completions)
  BY <1>1
<1> HIDE DEF first
<1>5. (first \o cq[c]) \o ws = first \o (cq[c] \o ws)
  <2>1. ASSUME NEW q \in Seq(Completions)
        PROVE  (first \o q) \o ws = first \o (q \o ws)
    BY <1>4, ConcatAssociative
  <2>2. QED
    BY <1>1, <2>1
<1>6. QED
  BY <1>3, <1>5

\* Polling moves completions from the queue to the server.
LEMMA PollKeepsPending ==
    ASSUME TypeOK, Position, PollCq
    PROVE  \A d \in Conns : Pending(d)' = Pending(d)
<1>1. cq \in [Conns -> Seq(Completions)] /\ cur \in Conns /\ wcs = <<>>
  BY DEF PollCq, Position, Registered, TypeOK
<1> DEFINE n == IF Len(cq[cur]) < PollBatch THEN Len(cq[cur]) ELSE PollBatch
<1>2. n \in 0..Len(cq[cur]) /\ cq[cur] \in Seq(Completions)
  BY <1>1, BoundsAssumption
<1>3. /\ wcs' = SubSeq(cq[cur], 1, n)
      /\ cq'[cur] = SubSeq(cq[cur], n + 1, Len(cq[cur]))
      /\ \A d \in Conns : d # cur => cq'[d] = cq[d]
      /\ cur' = IF n = 0 THEN ec ELSE cur
  BY <1>1 DEF PollCq
<1>4. wcs' \o cq'[cur] = cq[cur] /\ Len(wcs') = n /\ wcs' \in Seq(Completions)
  BY <1>2, <1>3, PollFacts
<1> HIDE DEF n
<1>5. n = 0 => wcs' = <<>>
  BY <1>4, EmptySeq
<1>6. <<>> \o cq[cur] = cq[cur]
  BY <1>2, ConcatEmptySeq
<1>7. Pending(cur) = cq[cur] /\ \A d \in Conns : d # cur => Pending(d) = <<>> \o cq[d]
  BY <1>1, <1>6 DEF Pending
<1>8. QED
  BY <1>1, <1>3, <1>4, <1>5, <1>7, ChannelAssumption DEF Pending

\* At most one connection's credit moves in a step.
LEMMA CreditsKept ==
    ASSUME Credits, NEW c, qp'[c] = "RTS" => Credit(c)',
           \A d \in Conns : d # c =>
               qp'[d] = qp[d] /\ rq'[d] = rq[d] /\ Pending(d)' = Pending(d)
    PROVE  Credits'
BY DEF Credits, Credit

LEMMA CreditIs ==
    ASSUME NEW c, NEW q, Pending(c)' = q, rq'[c] = IF HasRecv(q) THEN 0 ELSE 1, OneRecv(q),
           \A k \in 1..Len(q) : q[k] \in {"SEND", "RECV"}
    PROVE  Credit(c)'
BY DEF Credit, HasRecv, OneRecv

\* A server that has stopped does not go on.
LEMMA StoppedStays ==
    ASSUME [Next]_vars, mpc = "died"
    PROVE  UNCHANGED vars
BY DEF Next, Server, CheckRunning, EpollWait, WaitFails, BatchDone, GetCmEventFails, HandleCmEvent,
       HandleNewRequest, RejectRequest, HandleEstablished, HandleDisconnected, HandleOther,
       PrintEvent, GetCmEvent, HandleCqEvent, GetCqEvent, GetStaleEvent, ReqNotify, PollCq,
       CqCallFails, HandleWc, PostReply, Sigint, ServerStopped, Stopped

LEMMA CreditsStep ==
    TypeOK /\ Events /\ Queues /\ Position /\ Routed /\ LivingCredits /\ [Next]_vars
        => LivingCredits'
<1> SUFFICES ASSUME TypeOK, Events, Queues, Position, Routed, LivingCredits, [Next]_vars
             PROVE  LivingCredits'
  OBVIOUS
<1>0. CASE UNCHANGED vars
  BY <1>0 DEF vars, loopVars, drainVars, rcVars, outsideVars, LivingCredits, Credit, Pending
<1> SUFFICES ASSUME ~UNCHANGED vars PROVE LivingCredits'
  BY <1>0
<1>. mpc # "died"
  BY StoppedStays
<1>. Credits
  BY DEF LivingCredits, Credits
<1>. Credits' => LivingCredits'
  BY DEF LivingCredits, Credits
<1> USE DEF drainVars, loopVars, connVars, rcVars
<1>1. /\ qp \in [Conns -> {"none", "RTS", "ERR"}]
      /\ rq \in [Conns -> Nat]
  BY DEF TypeOK
<1>2. cq \in [Conns -> Seq(Completions)] /\ wcs \in Seq(Completions)
  BY DEF TypeOK
<1>3. ASSUME UNCHANGED <<cur, wcs, cq, qp, rq>>
      PROVE  Credits'
  BY <1>3 DEF Credits, Credit, Pending
<1>4. ASSUME NEW c \in Conns, Arrive(c)
      PROVE  Credits'
  <2>1. /\ UNCHANGED <<cur, wcs, qp>> /\ qp[c] = "RTS" /\ rq[c] > 0 /\ Complete(c, <<"RECV">>)
        /\ rq' = [rq EXCEPT ![c] = rq[c] - 1]
    BY <1>4 DEF Arrive
  <2>2. <<"RECV">> \in Seq(Completions) /\ "RECV" \in Completions
    BY DEF Completions
  <2>3. /\ Pending(c)' = Pending(c) \o <<"RECV">>
        /\ \A d \in Conns : d # c => Pending(d)' = Pending(d)
    BY <2>1, <2>2, PendingComplete
  <2>4. rq[c] = 1 /\ ~HasRecv(Pending(c)) /\ OneRecv(Pending(c))
    BY <1>1, <2>1 DEF Credits, Credit
  <2>5. rq'[c] = 0 /\ \A d \in Conns : d # c => rq'[d] = rq[d]
    BY <1>1, <2>1, <2>4
  <2>6. Pending(c) \in Seq(Completions)
    BY PendingType
  <2>7. \A k \in 1..Len(Pending(c)) : Pending(c)[k] \in {"SEND", "RECV"}
    BY <2>1 DEF Credits, Credit
  <2>8. /\ HasRecv(Pending(c) \o <<"RECV">>) /\ OneRecv(Pending(c) \o <<"RECV">>)
        /\ \A k \in 1..Len(Pending(c) \o <<"RECV">>) :
              (Pending(c) \o <<"RECV">>)[k] \in {"SEND", "RECV"}
    BY <2>2, <2>4, <2>6, <2>7, OneMore
  <2>9. Credit(c)'
    BY <2>3, <2>5, <2>8, CreditIs
  <2>10. QED
    BY <2>1, <2>3, <2>5, <2>9, CreditsKept
<1>5. ASSUME NEW c \in Conns, AckArrives(c)
      PROVE  Credits'
  <2>1. UNCHANGED <<cur, wcs, qp, rq>> /\ qp[c] = "RTS" /\ Complete(c, <<"SEND">>)
    BY <1>5 DEF AckArrives
  <2>2. <<"SEND">> \in Seq(Completions) /\ "SEND" \in Completions
    BY DEF Completions
  <2>3. /\ Pending(c)' = Pending(c) \o <<"SEND">>
        /\ \A d \in Conns : d # c => Pending(d)' = Pending(d)
    BY <2>1, <2>2, PendingComplete
  <2>4. Credit(c) /\ Pending(c) \in Seq(Completions)
    BY <2>1, PendingType DEF Credits
  <2>5. /\ rq[c] = IF HasRecv(Pending(c) \o <<"SEND">>) THEN 0 ELSE 1
        /\ OneRecv(Pending(c) \o <<"SEND">>)
        /\ \A k \in 1..Len(Pending(c) \o <<"SEND">>) :
              (Pending(c) \o <<"SEND">>)[k] \in {"SEND", "RECV"}
    BY <2>2, <2>4, OneMore DEF Credit
  <2>6. Credit(c)'
    BY <2>1, <2>3, <2>5, CreditIs
  <2>7. QED
    BY <2>1, <2>3, <2>6, CreditsKept
<1>6. ASSUME NEW c \in Conns, RetryExceeded(c)
      PROVE  Credits'
  <2> DEFINE flushed == Repeat(posted[c] + unacked[c], "SEND_ERR") \o Repeat(rq[c], "RECV_ERR")
  <2>1. UNCHANGED <<cur, wcs>> /\ Complete(c, flushed) /\ cq' = [cq EXCEPT ![c] = cq[c] \o flushed]
    BY <1>6 DEF RetryExceeded, Complete
  <2>2. /\ qp'[c] # "RTS"
        /\ \A d \in Conns : d # c => qp'[d] = qp[d] /\ rq'[d] = rq[d]
    BY <1>1, <1>6 DEF RetryExceeded
  <2> HIDE DEF flushed
  <2>3. \A d \in Conns : d # c => Pending(d)' = Pending(d)
    BY <1>2, <2>1 DEF Pending
  <2>4. QED
    BY <2>2, <2>3, CreditsKept
<1>7. ASSUME NEW c \in Conns, HandleNewRequest(c)
      PROVE  Credits'
  <2>1. UNCHANGED <<cur, wcs, cq>> /\ mpc = "batch"
    BY <1>7 DEF HandleNewRequest, GetCmEvent
  <2>2. cq[c] = <<>> /\ cur # c
    BY <1>7, <2>1, GetEventFacts, ChannelAssumption
    DEF HandleNewRequest, Events, Requests, Queues, Registered, Position
  <2>3. CASE UNCHANGED <<qp, rq>>
    BY <1>3, <2>1, <2>3
  <2>4. CASE SetupConnection(c)
    <3>1. Pending(c)' = <<>>
      BY <2>1, <2>2 DEF Pending
    <3>2. /\ rq'[c] = 1
          /\ \A d \in Conns : d # c => qp'[d] = qp[d] /\ rq'[d] = rq[d]
      BY <1>1, <2>4 DEF SetupConnection
    <3>3. ~HasRecv(<<>>) /\ OneRecv(<<>>) /\ \A k \in 1..Len(<<>>) : <<>>[k] \in {"SEND", "RECV"}
      BY DEF HasRecv, OneRecv
    <3>4. Credit(c)'
      BY <3>1, <3>2, <3>3, CreditIs
    <3>5. \A d \in Conns : Pending(d)' = Pending(d)
      BY <2>1 DEF Pending
    <3>6. QED
      BY <3>2, <3>4, <3>5, CreditsKept
  <2>5. QED
    BY <1>7, <2>3, <2>4 DEF HandleNewRequest
<1>8. ASSUME NEW c \in Conns, HandleDisconnected(c)
      PROVE  Credits'
  <2>1. UNCHANGED <<cur, wcs>>
    BY <1>8 DEF HandleDisconnected
  <2>2. /\ qp'[c] # "RTS"
        /\ \A d \in Conns : d # c => qp'[d] = qp[d] /\ rq'[d] = rq[d] /\ cq'[d] = cq[d]
    BY <1>1, <1>2, <1>8 DEF HandleDisconnected
  <2>3. \A d \in Conns : d # c => Pending(d)' = Pending(d)
    BY <2>1, <2>2 DEF Pending
  <2>4. QED
    BY <2>2, <2>3, CreditsKept
<1>9. ASSUME UNCHANGED <<wcs, cq, qp, rq>>, wcs = <<>>
      PROVE  Credits'
  BY <1>9 DEF Credits, Credit, Pending
<1>10. ASSUME NEW c \in Conns, GetCqEvent(c)
       PROVE  Credits'
  BY <1>9, <1>10 DEF GetCqEvent, Position
<1>11. CASE CqCallFails
  BY <1>9, <1>11 DEF CqCallFails, outsideVars, Position
<1>12. CASE PollCq
  <2>1. UNCHANGED <<qp, rq>> /\ \A d \in Conns : Pending(d)' = Pending(d)
    BY <1>12, PollKeepsPending DEF PollCq
  <2>2. QED
    BY <2>1 DEF Credits, Credit, HasRecv, OneRecv
<1>13. ASSUME NEW c \in Conns, c = cur, SendWc \/ RecvWc
       PROVE  LivingCredits'
  <2>1. wcs # <<>> /\ wcs' = Tail(wcs) /\ cur' = c
    BY <1>13 DEF SendWc, HandleSendWc, RecvWc, HandleRecvWc, Position, outsideVars
  <2>2. /\ qp' = qp /\ \A d \in Conns : d # c => rq'[d] = rq[d] /\ cq'[d] = cq[d]
        /\ qp[c] = "RTS" => cq' = cq
    BY <1>1, <1>2, <1>13
    DEF SendWc, HandleSendWc, RecvWc, HandleRecvWc, PostRecv, Complete, outsideVars
  <2>3. \A d \in Conns : d # c => Pending(d)' = Pending(d)
    BY <1>13, <2>1, <2>2 DEF Pending
  <2>4. CASE mpc' = "died"
    BY <1>13, <2>1, <2>2, <2>3, <2>4 DEF Credits, LivingCredits, Credit
  <2>5. ASSUME qp[c] = "RTS", mpc' # "died"
        PROVE  Credit(c)'
    <3> DEFINE q == Pending(c)
    <3>1. q \in Seq(Completions) /\ Credit(c)
      BY <2>5, PendingType DEF Credits
    <3>2. q = wcs \o cq[c] /\ Pending(c)' = Tail(wcs) \o cq[c]
      BY <1>13, <2>1, <2>2, <2>5 DEF Pending
    <3>3. q # <<>> /\ Pending(c)' = Tail(q) /\ Len(q) > 0 /\ q[1] = Head(wcs)
      BY <1>2, <2>1, <3>2, TailOfConcat
    <3>4. /\ rq[c] = IF HasRecv(q) THEN 0 ELSE 1
          /\ OneRecv(q) /\ \A k \in 1..Len(q) : q[k] \in {"SEND", "RECV"}
      BY <3>1 DEF Credit
    <3>5. q[1] \in {"SEND", "RECV"} /\ (q[1] = "RECV" => HasRecv(q))
      BY <3>1, <3>3, <3>4 DEF HasRecv
    <3> HIDE DEF q
    <3>6. /\ OneRecv(Tail(q)) /\ \A k \in 1..Len(Tail(q)) : Tail(q)[k] \in {"SEND", "RECV"}
          /\ HasRecv(Tail(q)) <=> HasRecv(q) /\ q[1] = "SEND"
      BY <3>1, <3>3, <3>4, <3>5, OneLessFacts
    <3>7. rq'[c] = IF HasRecv(Tail(q)) THEN 0 ELSE 1
      <4>1. CASE SendWc
        <5>1. q[1] = "SEND" /\ rq' = rq
          BY <3>3, <3>5, <4>1 DEF SendWc, HandleSendWc, Opcode, outsideVars
        <5>2. QED
          BY <3>4, <3>6, <5>1
      <4>2. CASE RecvWc
        <5>1. q[1] = "RECV" /\ rq' = [rq EXCEPT ![c] = rq[c] + 1]
          BY <1>13, <2>5, <3>3, <3>5, <4>2 DEF RecvWc, HandleRecvWc, PostRecv, Opcode
        <5>2. rq[c] = 0 /\ ~HasRecv(Tail(q))
          BY <3>4, <3>5, <3>6, <5>1
        <5>3. QED
          BY <1>1, <5>1, <5>2
      <4>3. QED
        BY <1>13, <4>1, <4>2
    <3>8. QED
      BY <3>3, <3>6, <3>7, CreditIs
  <2>6. QED
    BY <2>2, <2>3, <2>4, <2>5, CreditsKept
<1>14. CASE Reply
  <2>1. UNCHANGED <<cur, wcs, qp, rq>> /\ cur \in Conns
    BY <1>14 DEF Reply, PostReply, Position, Registered
  <2>2. qp[cur] = "RTS" => cq' = cq
    BY <1>14 DEF Reply, PostReply
  <2>3. \A d \in Conns : d # cur => cq'[d] = cq[d]
    BY <1>2, <1>14, <2>1 DEF Reply, PostReply, Complete
  <2>4. \A d \in Conns : d # cur \/ qp[d] = "RTS" => Pending(d)' = Pending(d)
    BY <2>1, <2>2, <2>3 DEF Pending
  <2>5. QED
    BY <2>1, <2>4 DEF Credits, Credit, HasRecv, OneRecv
<1>15. ASSUME NEW c \in Conns, \/ RejectRequest(c) \/ HandleEstablished(c) \/ HandleOther(c)
                               \/ GetStaleEvent(c)
       PROVE  Credits'
  BY <1>3, <1>15
  DEF RejectRequest, HandleEstablished, HandleOther, PrintEvent, GetStaleEvent, outsideVars
<1>16. ASSUME NEW c \in Conns, \/ EchoArrives(c) \/ PeerConnect(c) \/ PeerEstablished(c)
                               \/ PeerLeaves(c) \/ PeerGivesUp(c)
       PROVE  Credits'
  BY <1>3, <1>16 DEF EchoArrives, PeerConnect, PeerEstablished, PeerLeaves, PeerGivesUp
<1>17. CASE \/ CheckRunning \/ EpollWait \/ BatchDone \/ WaitFails \/ GetCmEventFails
            \/ Sigint \/ UNCHANGED vars \/ ReqNotify
  BY <1>3, <1>17
  DEF CheckRunning, EpollWait, BatchDone, WaitFails, GetCmEventFails, Sigint, ReqNotify, vars,
      outsideVars
<1>18. SendWc \/ RecvWc => cur \in Conns
  BY DEF SendWc, HandleSendWc, RecvWc, HandleRecvWc, Position, Registered
<1>19. QED
  BY <1>4, <1>5, <1>6, <1>7, <1>8, <1>10, <1>11, <1>12, <1>13, <1>14, <1>15, <1>16, <1>17, <1>18,
     OwnCompletions
  DEF Next, Server, HandleCmEvent, HandleCqEvent, Network, ServerStopped

(***************************************************************************)
(* The theorems.                                                           *)
(***************************************************************************)
LEMMA InitIInv == Init => IInv
<1> SUFFICES ASSUME Init PROVE IInv
  OBVIOUS
<1>1. TypeOK
  <2>1. /\ keep_running \in BOOLEAN /\ mpc \in Pcs /\ batch \subseteq Conns \union {ec}
        /\ cur \in Conns \union {ec} /\ failed \subseteq Conns
        /\ wcs \in Seq(Completions) /\ cmq \in Seq(CmEvents \X Conns)
    BY DEF Init, Pcs
  <2>2. /\ state \in [Conns -> ConnStates] /\ res \in [Conns -> SUBSET Resources]
        /\ wr_id \in [Conns -> Conns \union {ec}]
        /\ qp \in [Conns -> {"none", "RTS", "ERR"}] /\ peer \in [Conns -> PeerStates]
        /\ armed \in [Conns -> BOOLEAN]
    BY DEF Init, ConnStates, PeerStates
  <2>3. /\ rq \in [Conns -> Nat] /\ posted \in [Conns -> Nat] /\ unacked \in [Conns -> Nat]
        /\ chan \in [Conns -> Nat] /\ sent \in [Conns -> Nat]
        /\ recv_buff \in [Conns -> Nat] /\ send_buff \in [Conns -> Nat]
    BY BoundsAssumption DEF Init
  <2>4. /\ cq \in [Conns -> Seq(Completions)]
        /\ slog \in [Conns -> Seq(Nat)] /\ clog \in [Conns -> Seq(Nat)]
    <3>1. <<>> \in Seq(Completions) /\ <<>> \in Seq(Nat)
      OBVIOUS
    <3>2. QED
      BY <3>1 DEF Init
  <2>5. QED
    BY <2>1, <2>2, <2>3, <2>4 DEF TypeOK
<1>2. Events
  BY DEF Init, Events, Requests, Announcements, Farewells, Peers
<1>3. Queues /\ Position /\ Routed /\ Rearmed /\ NoLostWakeup
  BY ChannelAssumption DEF Init, Queues, Position, Routed, Rearmed, NoLostWakeup, Registered
<1>4. LivingCredits
  BY DEF Init, LivingCredits
<1>5. QED
  BY <1>1, <1>2, <1>3, <1>4 DEF IInv

\* The inductive invariant: whatever clients, adapters and failing calls do,
\* the server of rdmacm05 stays within it.
THEOREM Invariance == Spec => []IInv
<1>1. Init => IInv
  BY InitIInv
<1>2. IInv /\ [Next]_vars => IInv'
  BY TypeStep, EventsStep, QueuesStep, PositionStep, RoutedStep, WakeupsStep,
     CreditsStep
  DEF IInv
<1>3. QED
  BY <1>1, <1>2, PTL DEF Spec

\* Every variable keeps its type.
THEOREM TypeCorrect == Spec => []TypeOK
<1>1. IInv => TypeOK
  BY DEF IInv
<1>2. QED
  BY <1>1, Invariance, PTL

\* No completion waits unseen, for any number of connections and any batch
\* size: get, acknowledge, arm, poll until empty (server.c:132-186) loses no
\* wake-up.
THEOREM WakeupsSafe == Spec => []NoLostWakeup
<1>1. IInv => NoLostWakeup
  BY DEF IInv
<1>2. QED
  BY <1>1, Invariance, PTL

\* The one receive of a working connection is posted or about to be handled
\* (server.c:167-178), so no message finds the queue without a receive once
\* the echo of the last one is posted.
THEOREM CreditSafe == Spec => []ReceiveCredit
<1>1. IInv => ReceiveCredit
  BY DEF IInv, LivingCredits, Credit, ReceiveCredit, Registered
<1>2. QED
  BY <1>1, Invariance, PTL

\* The teardown of a connection destroys all that was created for it
\* (server.c:104-112), from whichever state it is in.
THEOREM TeardownComplete == Spec => []NothingLeaks
<1>1. Init => NothingLeaks
  BY DEF Init, NothingLeaks
<1>2. ASSUME IInv, NothingLeaks, [Next]_vars
      PROVE  NothingLeaks'
  <2> USE DEF connVars
  <2>1. /\ state \in [Conns -> ConnStates] /\ res \in [Conns -> SUBSET Resources]
    BY <1>2 DEF IInv, TypeOK
  <2>2. CASE UNCHANGED <<state, res>>
    BY <1>2, <2>2 DEF NothingLeaks
  <2>3. ASSUME NEW c \in Conns, HandleNewRequest(c)
        PROVE  NothingLeaks'
    <3>1. CASE state' = [state EXCEPT ![c] = "ACCEPTING"] /\ SetupConnection(c)
      <4>1. state'[c] # "freed" /\ \A d \in Conns : d # c => state'[d] = state[d] /\ res'[d] = res[d]
        BY <2>1, <3>1 DEF SetupConnection
      <4>2. QED
        BY <1>2, <4>1 DEF NothingLeaks
    <3>2. QED
      BY <2>2, <2>3, <3>1 DEF HandleNewRequest
  <2>4. ASSUME NEW c \in Conns, HandleEstablished(c)
        PROVE  NothingLeaks'
    BY <1>2, <2>1, <2>4 DEF HandleEstablished, NothingLeaks
  <2>5. ASSUME NEW c \in Conns, HandleDisconnected(c)
        PROVE  NothingLeaks'
    <3>1. res' = [res EXCEPT ![c] = DestroyAll(TeardownOrder, res[c])] /\ res[c] \in SUBSET Resources
      BY <2>1, <2>5 DEF HandleDisconnected
    <3>2. res'[c] = {}
      BY <2>1, <3>1, DestroysAll
    <3>3. \A d \in Conns : d # c => state'[d] = state[d] /\ res'[d] = res[d]
      BY <2>1, <2>5, <3>1 DEF HandleDisconnected
    <3>4. QED
      BY <1>2, <3>2, <3>3 DEF NothingLeaks
  <2>6. ASSUME NEW c \in Conns, \/ RejectRequest(c) \/ HandleOther(c)
                                \/ GetCqEvent(c) \/ GetStaleEvent(c)
        PROVE  NothingLeaks'
    BY <2>2, <2>6 DEF RejectRequest, HandleOther, PrintEvent, GetCqEvent, GetStaleEvent, outsideVars
  <2>7. CASE \/ CheckRunning \/ EpollWait \/ BatchDone \/ WaitFails \/ GetCmEventFails
             \/ Sigint \/ UNCHANGED vars
             \/ ReqNotify \/ PollCq \/ CqCallFails \/ SendWc \/ RecvWc \/ Reply
    BY <2>2, <2>7
    DEF CheckRunning, EpollWait, BatchDone, WaitFails, GetCmEventFails, Sigint, ReqNotify,
        PollCq, CqCallFails,
        SendWc, HandleSendWc, RecvWc, HandleRecvWc, Reply, PostReply, vars, outsideVars
  <2>8. ASSUME NEW c \in Conns, Network(c)
        PROVE  NothingLeaks'
    BY <2>2, <2>8 DEF Network, Arrive, EchoArrives, AckArrives, RetryExceeded
  <2>9. ASSUME NEW c \in Conns, \/ PeerConnect(c) \/ PeerEstablished(c)
                                \/ PeerLeaves(c) \/ PeerGivesUp(c)
        PROVE  NothingLeaks'
    BY <2>2, <2>9 DEF PeerConnect, PeerEstablished, PeerLeaves, PeerGivesUp
  <2>10. QED
    BY <1>2, <2>3, <2>4, <2>5, <2>6, <2>7, <2>8, <2>9, OwnCompletions
    DEF IInv, Next, Server, HandleCmEvent, HandleCqEvent, ServerStopped
<1>3. QED
  BY <1>1, <1>2, Invariance, PTL DEF Spec
=============================================================================
