-------------------------- MODULE EpollEchoProofs --------------------------
(***************************************************************************)
(* Each connection of EpollServer is an echo channel: where its message    *)
(* is, and why no post of the server fails.                                *)
(***************************************************************************)
EXTENDS EpollServerProofs, FiniteSetTheorems

(***************************************************************************)
(* The invariant, one connection at a time.  The message of a connection   *)
(* is with the client, received by the server, being answered, or on its   *)
(* way back.                                                               *)
(***************************************************************************)
Received(c) == HasRecv(Pending(c))
AtReply(c) == cur = c /\ mpc = "reply"

OnePlace(c) ==
    qp[c] = "RTS" =>
        /\ posted[c] \in {0, 1}
        /\ Received(c) => posted[c] = 0 /\ ~AtReply(c)
        /\ AtReply(c) => posted[c] = 0
        /\ Received(c) \/ AtReply(c) \/ posted[c] = 1 => peer[c] \in {"waiting", "gone"}

\* The model keeps the whole log of c.
Whole(c) == Count[c] <= LogBound

\* What the place says about the buffers and the logs.
Payloads(c) ==
    Whole(c) /\ qp[c] = "RTS" =>
        /\ Received(c) => /\ recv_buff[c] = Len(slog[c])
                          /\ Len(slog[c]) = Len(clog[c]) /\ Len(slog[c]) < Count[c]
                          /\ sent[c] = Len(slog[c]) + 1
        /\ AtReply(c) \/ posted[c] = 1 =>
              /\ send_buff[c] = Len(clog[c]) /\ Len(slog[c]) = Len(clog[c]) + 1
              /\ sent[c] = Len(slog[c])
        /\ \A k \in 1..Len(slog[c]) : slog[c][k] = k - 1

\* What the client says about them.
Stages(c) ==
    /\ qp[c] = "ERR" => Gone(c)
    /\ Whole(c) /\ peer[c] = "idle" => Len(slog[c]) = sent[c] /\ Len(clog[c]) = sent[c]
    /\ state[c] = "none" \/ peer[c] \in {"new", "connecting"} =>
          /\ sent[c] = 0 /\ posted[c] = 0 /\ unacked[c] = 0
          /\ slog[c] = <<>> /\ clog[c] = <<>>

HasSend(q) == \E k \in 1..Len(q) : q[k] = "SEND"

\* While no acknowledgement is lost, the send completion of an echo comes
\* before the next message.
Acks(c) ==
    "ack_lost" \notin Mishaps /\ qp[c] = "RTS" =>
        /\ unacked[c] > 0 => /\ unacked[c] = 1 /\ posted[c] = 0
                             /\ ~Received(c) /\ ~AtReply(c) /\ ~HasSend(Pending(c))
        /\ AtReply(c) \/ posted[c] = 1 => ~HasSend(Pending(c))
        /\ \A k, l \in 1..Len(Pending(c)) :
              Pending(c)[k] = "SEND" /\ Pending(c)[l] \in {"SEND", "RECV"} => k <= l

EchoOf(c) == OnePlace(c) /\ Payloads(c) /\ Stages(c) /\ Acks(c)

DiePost == "ack_lost" \notin Mishaps => PostNeverFails

Echoes == \A c \in Conns : EchoOf(c)

\* Nothing of d changes that the invariant is about.
Same(d) ==
    /\ qp'[d] = qp[d] /\ posted'[d] = posted[d] /\ unacked'[d] = unacked[d]
    /\ peer'[d] = peer[d] /\ sent'[d] = sent[d]
    /\ state'[d] = "none" => state[d] = "none"
    /\ recv_buff'[d] = recv_buff[d] /\ send_buff'[d] = send_buff[d]
    /\ slog'[d] = slog[d] /\ clog'[d] = clog[d]
    /\ Pending(d)' = Pending(d) /\ (AtReply(d)' <=> AtReply(d))

LEMMA SameKept ==
    ASSUME NEW d, EchoOf(d), Same(d)
    PROVE  EchoOf(d)'
<1>1. (Received(d)' <=> Received(d)) /\ (HasSend(Pending(d))' <=> HasSend(Pending(d)))
  BY DEF Same, Received, HasRecv, HasSend
<1>2. OnePlace(d)'
  BY <1>1 DEF EchoOf, Same, OnePlace
<1>3. Payloads(d)'
  BY <1>1 DEF EchoOf, Same, Payloads
<1>4. Stages(d)'
  BY <1>1 DEF EchoOf, Same, Stages, Gone
<1>5. Acks(d)'
  BY <1>1 DEF EchoOf, Same, Acks
<1>6. QED
  BY <1>2, <1>3, <1>4, <1>5 DEF EchoOf

LEMMA EchoesKept ==
    ASSUME Echoes, NEW c, EchoOf(c)', \A d \in Conns : d # c => Same(d)
    PROVE  Echoes'
BY SameKept DEF Echoes

\* The types it is about.
LEMMA LocalTypes ==
    ASSUME TypeOK
    PROVE  /\ posted \in [Conns -> Nat] /\ unacked \in [Conns -> Nat]
           /\ sent \in [Conns -> Nat]
           /\ recv_buff \in [Conns -> Nat] /\ send_buff \in [Conns -> Nat]
           /\ slog \in [Conns -> Seq(Nat)] /\ clog \in [Conns -> Seq(Nat)]
           /\ qp \in [Conns -> {"none", "RTS", "ERR"}]
           /\ peer \in [Conns -> PeerStates] /\ state \in [Conns -> ConnStates]
           /\ cq \in [Conns -> Seq(Completions)] /\ wcs \in Seq(Completions)
BY DEF TypeOK

\* One more completion and what it means for the order of acknowledgements.
LEMMA OneMoreSend ==
    ASSUME NEW q \in Seq(Completions), NEW x \in Completions
    PROVE  /\ HasSend(q \o <<x>>) <=> HasSend(q) \/ x = "SEND"
           /\ /\ x = "SEND" => ~HasSend(q) /\ ~HasRecv(q)
              /\ \A k, l \in 1..Len(q) : q[k] = "SEND" /\ q[l] \in {"SEND", "RECV"} => k <= l
              => LET r == q \o <<x>>
                 IN  \A k, l \in 1..Len(r) :
                         r[k] = "SEND" /\ r[l] \in {"SEND", "RECV"} => k <= l
<1> DEFINE r == q \o <<x>>
<1>1. /\ Len(q) \in Nat /\ Len(r) = Len(q) + 1 /\ r[Len(q) + 1] = x
      /\ \A k \in 1..Len(q) : r[k] = q[k]
  OBVIOUS
<1> HIDE DEF r
<1>2. \A k \in 1..Len(r) : k \in 1..Len(q) \/ k = Len(q) + 1
  BY <1>1
<1>3. HasSend(r) <=> HasSend(q) \/ x = "SEND"
  BY <1>1, <1>2 DEF HasSend
<1>4. ASSUME x = "SEND" => ~HasSend(q) /\ ~HasRecv(q),
             \A k, l \in 1..Len(q) : q[k] = "SEND" /\ q[l] \in {"SEND", "RECV"} => k <= l,
             NEW k \in 1..Len(r), NEW l \in 1..Len(r),
             r[k] = "SEND", r[l] \in {"SEND", "RECV"}
      PROVE  k <= l
  <2>1. CASE l = Len(q) + 1
    BY <1>1, <1>2, <2>1
  <2>2. CASE l \in 1..Len(q)
    <3>1. q[l] \in {"SEND", "RECV"} /\ (HasSend(q) \/ HasRecv(q))
      BY <1>1, <1>4, <2>2 DEF HasSend, HasRecv
    <3>2. k \in 1..Len(q)
      BY <1>1, <1>2, <1>4, <3>1
    <3>3. QED
      BY <1>1, <1>4, <2>2, <3>1, <3>2
  <2>3. QED
    BY <1>2, <2>1, <2>2
<1>5. QED
  BY <1>3, <1>4 DEF r

LEMMA OneLessSend ==
    ASSUME NEW q \in Seq(Completions), q # <<>>,
           \A k, l \in 1..Len(q) : q[k] = "SEND" /\ q[l] \in {"SEND", "RECV"} => k <= l
    PROVE  /\ HasSend(Tail(q)) => HasSend(q)
           /\ q[1] \in {"SEND", "RECV"} => ~HasSend(Tail(q))
           /\ \A k, l \in 1..Len(Tail(q)) :
                 Tail(q)[k] = "SEND" /\ Tail(q)[l] \in {"SEND", "RECV"} => k <= l
<1> DEFINE t == Tail(q)
<1>1. /\ Len(q) \in Nat /\ Len(t) \in Nat /\ Len(q) = Len(t) + 1
      /\ \A k \in 1..Len(t) : t[k] = q[k + 1]
  OBVIOUS
<1> HIDE DEF t
<1>2. \A k \in 1..Len(t) : k \in Nat /\ k >= 1 /\ k + 1 \in 1..Len(q)
  BY <1>1
<1>3. 1 \in 1..Len(q)
  BY <1>1
<1>4. HasSend(t) => HasSend(q)
  BY <1>1, <1>2 DEF HasSend
<1>5. ASSUME q[1] \in {"SEND", "RECV"}, NEW k \in 1..Len(t), t[k] = "SEND"
      PROVE  FALSE
  <2>1. q[k + 1] = "SEND"
    BY <1>1, <1>5
  <2>2. k + 1 <= 1
    BY <1>2, <1>3, <1>5, <2>1
  <2>3. QED
    BY <1>2, <2>2
<1>6. ASSUME NEW k \in 1..Len(t), NEW l \in 1..Len(t), t[k] = "SEND", t[l] \in {"SEND", "RECV"}
      PROVE  k <= l
  <2>1. k + 1 <= l + 1
    BY <1>1, <1>2, <1>6
  <2>2. QED
    BY <1>2, <2>1
<1>7. QED
  BY <1>4, <1>5, <1>6 DEF t, HasSend

(***************************************************************************)
(* The adapter's steps.                                                    *)
(***************************************************************************)
LEMMA EchoesArrive ==
    ASSUME TypeOK, Queues, Echoes, NEW c \in Conns, Arrive(c)
    PROVE  Echoes'
<1>1. /\ UNCHANGED <<cur, wcs, mpc, state, qp, posted, unacked, send_buff, slog, clog>>
      /\ Complete(c, <<"RECV">>)
  BY DEF Arrive, loopVars, drainVars, connVars
<1>2. <<"RECV">> \in Seq(Completions) /\ "RECV" \in Completions
  BY DEF Completions
<1>3. /\ Pending(c)' = Pending(c) \o <<"RECV">>
      /\ \A d \in Conns : d # c => Pending(d)' = Pending(d)
  BY <1>1, <1>2, PendingComplete
<1>4. /\ peer'[c] = "waiting" /\ recv_buff'[c] = sent[c] /\ sent'[c] = sent[c] + 1
      /\ \A d \in Conns : d # c =>
            peer'[d] = peer[d] /\ recv_buff'[d] = recv_buff[d] /\ sent'[d] = sent[d]
  BY LocalTypes DEF Arrive
<1>5. \A d \in Conns : d # c => Same(d)
  BY <1>1, <1>3, <1>4 DEF Same, AtReply
<1>6. /\ peer[c] = "idle" /\ sent[c] < Count[c] /\ qp[c] = "RTS"
      /\ "ack_lost" \notin Mishaps => unacked[c] = 0
      /\ EchoOf(c) /\ Pending(c) \in Seq(Completions)
  BY PendingType DEF Arrive, Echoes
<1>7. posted[c] = 0 /\ ~AtReply(c) /\ ~AtReply(c)'
  BY <1>1, <1>6 DEF EchoOf, OnePlace, AtReply
<1>8. OnePlace(c)'
  BY <1>1, <1>4, <1>7 DEF OnePlace
<1>9. Payloads(c)'
  BY <1>1, <1>4, <1>6, <1>7 DEF EchoOf, Stages, Payloads
<1>10. Stages(c)'
  BY <1>1, <1>4, <1>6 DEF Queues, Registered, Stages
<1>11. Acks(c)'
  <2>1. CASE "ack_lost" \in Mishaps
    BY <2>1 DEF Acks
  <2>2. CASE "ack_lost" \notin Mishaps
    <3>1. \A k, l \in 1..Len(Pending(c)) :
              Pending(c)[k] = "SEND" /\ Pending(c)[l] \in {"SEND", "RECV"} => k <= l
      BY <1>6, <2>2 DEF EchoOf, Acks
    <3> DEFINE r == Pending(c) \o <<"RECV">>
    <3>2. \A k, l \in 1..Len(r) : r[k] = "SEND" /\ r[l] \in {"SEND", "RECV"} => k <= l
      BY <1>2, <1>6, <3>1, OneMoreSend
    <3>3. unacked'[c] = 0 /\ posted'[c] = 0 /\ Pending(c)' = r
      BY <1>1, <1>3, <1>6, <1>7, <2>2
    <3> HIDE DEF r
    <3>4. QED
      BY <1>7, <3>2, <3>3 DEF Acks
  <2>3. QED
    BY <2>1, <2>2
<1>12. QED
  BY <1>5, <1>8, <1>9, <1>10, <1>11, EchoesKept DEF EchoOf

LEMMA EchoesEchoArrives ==
    ASSUME TypeOK, Echoes, NEW c \in Conns, EchoArrives(c)
    PROVE  Echoes'
<1>1. UNCHANGED <<cur, wcs, mpc, state, qp, cq, recv_buff, send_buff, slog, sent>>
  BY DEF EchoArrives, loopVars, drainVars, connVars, buffVars
<1>2. /\ peer[c] = "waiting" /\ qp[c] = "RTS" /\ posted[c] > 0 /\ EchoOf(c)
      /\ posted[c] \in Nat /\ unacked[c] \in Nat /\ clog[c] \in Seq(Nat)
  BY LocalTypes DEF EchoArrives, Echoes
<1>3. /\ peer'[c] = "idle" /\ posted'[c] = posted[c] - 1 /\ unacked'[c] = unacked[c] + 1
      /\ clog'[c] = Append(clog[c], send_buff[c])
      /\ \A d \in Conns : d # c => /\ peer'[d] = peer[d] /\ posted'[d] = posted[d]
                                 /\ unacked'[d] = unacked[d] /\ clog'[d] = clog[d]
  BY LocalTypes DEF EchoArrives
<1>4. \A d \in Conns : Pending(d)' = Pending(d) /\ (AtReply(d)' <=> AtReply(d))
  BY <1>1 DEF Pending, AtReply
<1>5. \A d \in Conns : d # c => Same(d)
  BY <1>1, <1>3, <1>4 DEF Same
<1>6. /\ posted[c] = 1 /\ posted'[c] = 0 /\ ~Received(c) /\ ~AtReply(c)
      /\ ~Received(c)' /\ ~AtReply(c)'
  BY <1>2, <1>3, <1>4 DEF EchoOf, OnePlace, Received, HasRecv
<1>7. OnePlace(c)'
  BY <1>6 DEF OnePlace
<1>8. Payloads(c)'
  BY <1>1, <1>2, <1>6 DEF EchoOf, Payloads
<1>9. Stages(c)'
  BY <1>1, <1>2, <1>3, <1>6 DEF EchoOf, Payloads, Stages, Gone
<1>10. Acks(c)'
  <2>1. ASSUME "ack_lost" \notin Mishaps
        PROVE  unacked'[c] = 1 /\ ~HasSend(Pending(c)) /\ ~HasSend(Pending(c))'
    BY <1>2, <1>3, <1>4, <1>6, <2>1 DEF EchoOf, Acks, HasSend
  <2>2. QED
    BY <1>1, <1>2, <1>4, <1>6, <2>1 DEF EchoOf, Acks
<1>11. QED
  BY <1>5, <1>7, <1>8, <1>9, <1>10, EchoesKept DEF EchoOf

LEMMA EchoesAck ==
    ASSUME TypeOK, Echoes, NEW c \in Conns, AckArrives(c)
    PROVE  Echoes'
<1>1. /\ UNCHANGED <<cur, wcs, mpc, state, qp, posted, recv_buff, send_buff, slog, clog, sent, peer>>
      /\ Complete(c, <<"SEND">>)
  BY DEF AckArrives, loopVars, drainVars, connVars, buffVars, peerVars
<1>2. <<"SEND">> \in Seq(Completions) /\ "SEND" \in Completions
  BY DEF Completions
<1>3. /\ Pending(c)' = Pending(c) \o <<"SEND">>
      /\ \A d \in Conns : d # c => Pending(d)' = Pending(d)
  BY <1>1, <1>2, PendingComplete
<1>4. /\ qp[c] = "RTS" /\ unacked[c] > 0 /\ unacked[c] \in Nat /\ unacked'[c] = unacked[c] - 1
      /\ \A d \in Conns : d # c => unacked'[d] = unacked[d]
  BY LocalTypes DEF AckArrives
<1>5. \A d \in Conns : AtReply(d)' <=> AtReply(d)
  BY <1>1 DEF AtReply
<1>6. \A d \in Conns : d # c => Same(d)
  BY <1>1, <1>3, <1>4, <1>5 DEF Same
<1>7. EchoOf(c) /\ Pending(c) \in Seq(Completions)
  BY PendingType DEF Echoes
<1>8. Received(c)' <=> Received(c)
  <2>1. HasRecv(Pending(c) \o <<"SEND">>) <=> HasRecv(Pending(c))
    BY <1>2, <1>7, OneMore
  <2>2. QED
    BY <1>3, <2>1 DEF Received, HasRecv
<1>9. OnePlace(c)' /\ Payloads(c)'
  BY <1>1, <1>5, <1>7, <1>8 DEF EchoOf, OnePlace, Payloads
<1>10. Stages(c)'
  BY <1>1, <1>4, <1>7 DEF EchoOf, Stages, Gone
<1>11. Acks(c)'
  <2>1. CASE "ack_lost" \in Mishaps
    BY <2>1 DEF Acks
  <2>2. CASE "ack_lost" \notin Mishaps
    <3>1. /\ unacked[c] = 1 /\ posted[c] = 0
          /\ ~HasRecv(Pending(c)) /\ ~AtReply(c) /\ ~HasSend(Pending(c))
          /\ \A k, l \in 1..Len(Pending(c)) :
                Pending(c)[k] = "SEND" /\ Pending(c)[l] \in {"SEND", "RECV"} => k <= l
      BY <1>4, <1>7, <2>2 DEF EchoOf, Acks, Received
    <3> DEFINE r == Pending(c) \o <<"SEND">>
    <3>2. \A k, l \in 1..Len(r) : r[k] = "SEND" /\ r[l] \in {"SEND", "RECV"} => k <= l
      BY <1>2, <1>7, <3>1, OneMoreSend
    <3>3. unacked'[c] = 0 /\ posted'[c] = 0 /\ Pending(c)' = r /\ ~AtReply(c)'
      BY <1>1, <1>3, <1>4, <1>5, <3>1
    <3> HIDE DEF r
    <3>4. QED
      BY <3>2, <3>3 DEF Acks
  <2>3. QED
    BY <2>1, <2>2
<1>12. QED
  BY <1>6, <1>9, <1>10, <1>11, EchoesKept DEF EchoOf

LEMMA EchoesRetry ==
    ASSUME TypeOK, Echoes, Queues, NEW c \in Conns, RetryExceeded(c)
    PROVE  Echoes'
<1> DEFINE flushed == Repeat(posted[c] + unacked[c], "SEND_ERR") \o Repeat(rq[c], "RECV_ERR")
<1>1. /\ UNCHANGED <<cur, wcs, mpc, state, recv_buff, send_buff, slog, clog, sent, peer>>
      /\ cq' = [cq EXCEPT ![c] = cq[c] \o flushed]
  BY DEF RetryExceeded, Complete, loopVars, drainVars, connVars, buffVars, peerVars
<1> HIDE DEF flushed
<1>2. /\ qp[c] = "RTS" /\ Gone(c) /\ qp'[c] = "ERR" /\ posted'[c] = 0 /\ unacked'[c] = 0
      /\ \A d \in Conns : d # c =>
            qp'[d] = qp[d] /\ posted'[d] = posted[d] /\ unacked'[d] = unacked[d]
  BY LocalTypes DEF RetryExceeded
<1>3. \A d \in Conns : d # c => cq'[d] = cq[d]
  BY <1>1, LocalTypes
<1>4. \A d \in Conns : d # c => Same(d)
  BY <1>1, <1>2, <1>3 DEF Same, AtReply, Pending
<1>5. state[c] # "none"
  BY <1>2 DEF Queues, Registered
<1>6. EchoOf(c)'
  BY <1>1, <1>2, <1>5 DEF EchoOf, OnePlace, Payloads, Stages, Acks, Gone
<1>7. QED
  BY <1>4, <1>6, EchoesKept

(***************************************************************************)
(* The clients' steps, and the events of the connection manager.           *)
(***************************************************************************)
LEMMA EchoesPeer ==
    ASSUME TypeOK, Events, Queues, Echoes, NEW c \in Conns,
           PeerConnect(c) \/ PeerEstablished(c) \/ PeerLeaves(c) \/ PeerGivesUp(c)
    PROVE  Echoes'
<1>1. /\ UNCHANGED <<cur, wcs, mpc, state, qp, posted, unacked, cq>>
      /\ UNCHANGED <<recv_buff, send_buff, slog, clog, sent>>
  BY DEF PeerConnect, PeerEstablished, PeerLeaves, PeerGivesUp,
         loopVars, drainVars, connVars, rcVars, buffVars
<1>2. /\ \/ peer[c] = "new" /\ peer'[c] = "connecting"
         \/ peer[c] = "connecting" /\ peer'[c] \in {"idle", "gave_up"}
         \/ peer[c] \in {"idle", "waiting"} /\ peer'[c] = "gone"
      /\ \A d \in Conns : d # c => peer'[d] = peer[d]
  BY LocalTypes DEF PeerConnect, PeerEstablished, PeerLeaves, PeerGivesUp
<1>3. \A d \in Conns : Pending(d)' = Pending(d) /\ (AtReply(d)' <=> AtReply(d))
  BY <1>1 DEF Pending, AtReply
<1>4. \A d \in Conns : d # c => Same(d)
  BY <1>1, <1>2, <1>3 DEF Same
<1>5. (Received(c)' <=> Received(c)) /\ EchoOf(c)
  BY <1>3 DEF Received, HasRecv, Echoes
<1>6. OnePlace(c)' /\ Payloads(c)' /\ Acks(c)'
  BY <1>1, <1>2, <1>3, <1>5 DEF EchoOf, OnePlace, Payloads, Acks, HasSend
<1>7. state[c] = "none" => peer[c] \in {"new", "connecting", "gave_up", "gone"}
  BY LocalTypes DEF Events, Peers, Registered, PeerStates
<1>8. Len(<<>>) = 0
  OBVIOUS
<1>9. Stages(c)'
  BY <1>1, <1>2, <1>5, <1>8 DEF EchoOf, Stages, Gone
<1>10. QED
  BY <1>4, <1>6, <1>9, EchoesKept DEF EchoOf

LEMMA EchoesSetup ==
    ASSUME TypeOK, Events, Queues, Position, Echoes, NEW c \in Conns, HandleNewRequest(c)
    PROVE  Echoes'
<1>1. /\ UNCHANGED <<cur, wcs, cq, posted, unacked, recv_buff, send_buff, slog, clog, sent, peer>>
      /\ mpc = "batch" /\ mpc' # "reply"
  BY DEF HandleNewRequest, GetCmEvent, drainVars, buffVars, peerVars
<1>2. /\ state[c] = "none" /\ cq[c] = <<>> /\ cur # c
      /\ peer[c] \in {"connecting", "gave_up"} /\ EchoOf(c)
  BY <1>1, GetEventFacts, ChannelAssumption
  DEF HandleNewRequest, Events, Requests, Queues, Registered, Position, Echoes
<1>3. \A d \in Conns : Pending(d)' = Pending(d) /\ ~AtReply(d) /\ ~AtReply(d)'
  BY <1>1 DEF Pending, AtReply
<1>4. CASE UNCHANGED <<state, qp>>
  BY <1>1, <1>3, <1>4, SameKept DEF Same, Echoes
<1>5. CASE SetupConnection(c) /\ state' = [state EXCEPT ![c] = "ACCEPTING"]
  <2>1. /\ qp'[c] = "RTS" /\ state'[c] = "ACCEPTING"
        /\ \A d \in Conns : d # c => qp'[d] = qp[d] /\ state'[d] = state[d]
    BY <1>5, LocalTypes DEF SetupConnection
  <2>2. \A d \in Conns : d # c => Same(d)
    BY <1>1, <1>3, <2>1 DEF Same
  <2>3. Pending(c)' = <<>> /\ posted[c] = 0 /\ unacked[c] = 0 /\ slog[c] = <<>>
    BY <1>1, <1>2 DEF Pending, EchoOf, Stages
  <2>4. ~Received(c)' /\ ~HasSend(Pending(c))'
    BY <2>3 DEF Received, HasRecv, HasSend
  <2>5. OnePlace(c)' /\ Payloads(c)' /\ Acks(c)'
    BY <1>1, <1>3, <2>3, <2>4 DEF OnePlace, Payloads, Acks
  <2>6. Stages(c)'
    BY <1>1, <1>2, <2>1 DEF EchoOf, Stages
  <2>7. QED
    BY <2>2, <2>5, <2>6, EchoesKept DEF EchoOf
<1>6. QED
  BY <1>4, <1>5 DEF HandleNewRequest, connVars

LEMMA EchoesCmEvent ==
    ASSUME TypeOK, Events, Queues, Position, Echoes, NEW c \in Conns, HandleCmEvent(c)
    PROVE  Echoes'
<1>1. CASE HandleNewRequest(c)
  BY <1>1, EchoesSetup
<1>2. CASE RejectRequest(c)
  <2>1. /\ UNCHANGED <<cur, wcs, mpc, state, qp, posted, unacked, cq>>
        /\ UNCHANGED <<recv_buff, send_buff, slog, clog, sent>>
        /\ peer'[c] = "gone" /\ \A d \in Conns : d # c => peer'[d] = peer[d]
    BY <1>2, LocalTypes DEF RejectRequest, drainVars, connVars, rcVars, buffVars
  <2>2. state[c] = "none" /\ qp[c] = "none" /\ EchoOf(c)
    BY <1>2, GetEventFacts DEF RejectRequest, Events, Requests, Queues, Registered, Echoes
  <2>3. \A d \in Conns : d # c => Same(d)
    BY <2>1 DEF Same, Pending, AtReply
  <2>4. EchoOf(c)'
    BY <2>1, <2>2 DEF EchoOf, OnePlace, Payloads, Stages, Acks
  <2>5. QED
    BY <2>3, <2>4, EchoesKept
<1>3. CASE HandleEstablished(c)
  <2>1. /\ UNCHANGED <<cur, wcs, mpc, qp, posted, unacked, cq>>
        /\ UNCHANGED <<recv_buff, send_buff, slog, clog, sent, peer>>
        /\ \A d \in Conns : state'[d] = "none" => state[d] = "none"
    BY <1>3, LocalTypes DEF HandleEstablished, drainVars, rcVars, buffVars, peerVars
  <2>2. \A d \in Conns : Same(d)
    BY <2>1 DEF Same, Pending, AtReply
  <2>3. QED
    BY <2>2, SameKept DEF Echoes
<1>4. CASE HandleDisconnected(c)
  <2>1. /\ UNCHANGED <<cur, wcs, mpc, recv_buff, send_buff, slog, clog, sent, peer>>
        /\ qp'[c] = "none" /\ state'[c] = "freed" /\ posted'[c] = 0 /\ unacked'[c] = 0
    BY <1>4, LocalTypes DEF HandleDisconnected, buffVars, peerVars
  <2>2. \A d \in Conns : d # c =>
            /\ qp'[d] = qp[d] /\ state'[d] = state[d] /\ cq'[d] = cq[d]
            /\ posted'[d] = posted[d] /\ unacked'[d] = unacked[d]
    BY <1>4, LocalTypes DEF HandleDisconnected
  <2>3. \A d \in Conns : d # c => Same(d)
    BY <2>1, <2>2 DEF Same, Pending, AtReply
  <2>4. peer[c] = "gone"
    BY <1>4, GetEventFacts DEF HandleDisconnected, Events, Farewells
  <2>5. EchoOf(c)'
    BY <2>1, <2>4 DEF EchoOf, OnePlace, Payloads, Stages, Acks
  <2>6. QED
    BY <2>3, <2>5, EchoesKept
<1>5. CASE HandleOther(c)
  <2>1. /\ UNCHANGED <<cur, wcs, mpc, state, qp, posted, unacked, cq>>
        /\ UNCHANGED <<recv_buff, send_buff, slog, clog, sent, peer>>
    BY <1>5 DEF HandleOther, PrintEvent, drainVars, connVars, rcVars, buffVars, peerVars
  <2>2. \A d \in Conns : Same(d)
    BY <2>1 DEF Same, Pending, AtReply
  <2>3. QED
    BY <2>2, SameKept DEF Echoes
<1>6. QED
  BY <1>1, <1>2, <1>3, <1>4, <1>5 DEF HandleCmEvent

(***************************************************************************)
(* The loop at a completion queue.                                         *)
(***************************************************************************)

\* Steps that only move the server, and completions from the queue to it.
LEMMA EchoesServer ==
    ASSUME TypeOK, Position, Echoes,
           \/ CheckRunning \/ EpollWait \/ BatchDone \/ WaitFails \/ GetCmEventFails \/ Sigint
           \/ \E c \in Conns : GetCqEvent(c) \/ GetStaleEvent(c)
           \/ ReqNotify \/ CqCallFails \/ PollCq
    PROVE  Echoes'
<1> USE DEF drainVars, loopVars, connVars, rcVars, buffVars, peerVars, outsideVars
<1>1. /\ UNCHANGED <<qp, state, posted, unacked, recv_buff, send_buff, slog, clog, sent, peer>>
      /\ mpc # "reply" => mpc' # "reply"
  BY DEF CheckRunning, EpollWait, BatchDone, WaitFails, GetCmEventFails, Sigint, GetCqEvent,
         GetStaleEvent, ReqNotify, CqCallFails, PollCq
<1>2. \A d \in Conns : AtReply(d)' <=> AtReply(d)
  BY <1>1
     DEF CheckRunning, EpollWait, BatchDone, WaitFails, GetCmEventFails, Sigint, GetCqEvent,
         GetStaleEvent, ReqNotify, CqCallFails, PollCq, AtReply
<1>3. \A d \in Conns : Pending(d)' = Pending(d)
  <2>1. CASE \/ CheckRunning \/ EpollWait \/ BatchDone \/ WaitFails \/ GetCmEventFails
             \/ Sigint \/ ReqNotify \/ \E c \in Conns : GetStaleEvent(c)
    BY <2>1
       DEF CheckRunning, EpollWait, BatchDone, WaitFails, GetCmEventFails, Sigint, GetStaleEvent,
           ReqNotify, Pending
  <2>2. CASE CqCallFails \/ \E c \in Conns : GetCqEvent(c)
    BY <2>2 DEF CqCallFails, GetCqEvent, Position, Pending
  <2>3. CASE PollCq
    BY <2>3, PollKeepsPending
  <2>4. QED
    BY <2>1, <2>2, <2>3
<1>4. \A d \in Conns : Same(d)
  BY <1>1, <1>2, <1>3 DEF Same
<1>5. QED
  BY <1>4, SameKept DEF Echoes

\* The server takes the oldest completion of c.
LEMMA TakeFacts ==
    ASSUME TypeOK, Position, NEW c \in Conns, c = cur, wcs # <<>>,
           wcs' = Tail(wcs), cur' = cur, cq' = cq
    PROVE  /\ Pending(c) \in Seq(Completions) /\ Pending(c) # <<>>
           /\ Pending(c)[1] = Head(wcs) /\ Pending(c)' = Tail(Pending(c))
           /\ Len(Pending(c)) \in Nat /\ Len(Pending(c)) > 0
<1>1. Pending(c) = wcs \o cq[c] /\ Pending(c)' = Tail(wcs) \o cq[c]
  BY DEF Pending
<1>2. wcs \in Seq(Completions) /\ cq[c] \in Seq(Completions)
  BY DEF TypeOK
<1>3. Pending(c) \in Seq(Completions)
  BY PendingType
<1>4. /\ wcs \o cq[c] # <<>> /\ Len(wcs \o cq[c]) > 0 /\ (wcs \o cq[c])[1] = Head(wcs)
      /\ Tail(wcs \o cq[c]) = Tail(wcs) \o cq[c]
  <2>1. ASSUME NEW t \in Seq(Completions)
        PROVE  /\ wcs \o t # <<>> /\ Len(wcs \o t) > 0 /\ (wcs \o t)[1] = Head(wcs)
               /\ Tail(wcs \o t) = Tail(wcs) \o t
    BY <1>2, TailOfConcat
  <2>2. QED
    BY <1>2, <2>1
<1>5. Len(Pending(c)) \in Nat
  BY <1>3
<1>6. QED
  BY <1>1, <1>3, <1>4, <1>5

LEMMA EchoesSendWc ==
    ASSUME TypeOK, Position, Credits, Echoes, NEW c \in Conns, c = cur, SendWc
    PROVE  Echoes'
<1>1. /\ UNCHANGED <<cur, cq, qp, state, posted, unacked>> /\ mpc = "wc" /\ mpc' # "reply"
      /\ UNCHANGED <<recv_buff, send_buff, slog, clog, sent, peer>>
      /\ wcs # <<>> /\ wcs' = Tail(wcs)
  BY DEF SendWc, HandleSendWc, AfterSend, NextWc, Position,
         outsideVars, connVars, rcVars, buffVars, peerVars
<1>2. \A d \in Conns : ~AtReply(d) /\ ~AtReply(d)'
  BY <1>1 DEF AtReply
<1>3. \A d \in Conns : d # c => Same(d)
  BY <1>1, <1>2 DEF Same, Pending
<1>4. EchoOf(c)
  BY DEF Echoes
<1> DEFINE q == Pending(c)
<1>5. /\ q \in Seq(Completions) /\ q # <<>> /\ q[1] = Head(wcs) /\ Pending(c)' = Tail(q)
      /\ Len(q) \in Nat /\ Len(q) > 0
  BY <1>1, TakeFacts
<1>6. CASE qp[c] = "RTS"
  <2>1. q[1] \in {"SEND", "RECV"}
    BY <1>5, <1>6 DEF Credits, Credit
  <2>2. q[1] = "SEND"
    BY <1>5, <2>1 DEF SendWc, HandleSendWc, Opcode
  <2> HIDE DEF q
  <2>3. HasRecv(Tail(q)) <=> HasRecv(q)
    BY <1>5, <2>2, OneLessFacts
  <2>4. Received(c)' <=> Received(c)
    BY <1>5, <2>3 DEF Received, HasRecv, q
  <2>5. OnePlace(c)' /\ Payloads(c)'
    BY <1>1, <1>2, <1>4, <2>4 DEF EchoOf, OnePlace, Payloads
  <2>6. Acks(c)'
    <3>1. CASE "ack_lost" \in Mishaps
      BY <3>1 DEF Acks
    <3>2. CASE "ack_lost" \notin Mishaps
      <4>1. /\ \A k, l \in 1..Len(q) : q[k] = "SEND" /\ q[l] \in {"SEND", "RECV"} => k <= l
            /\ HasSend(q) => unacked[c] \notin Nat \ {0} /\ ~AtReply(c) /\ posted[c] # 1
        BY <1>4, <1>6, <3>2 DEF EchoOf, Acks, q
      <4>2. HasSend(q)
        BY <1>5, <2>2 DEF HasSend
      <4>3. /\ ~HasSend(Tail(q))
            /\ \A k, l \in 1..Len(Tail(q)) :
                  Tail(q)[k] = "SEND" /\ Tail(q)[l] \in {"SEND", "RECV"} => k <= l
        BY <1>5, <2>1, <4>1, OneLessSend
      <4>4. unacked[c] = 0
        BY <4>1, <4>2, LocalTypes
      <4>5. QED
        BY <1>1, <1>2, <1>5, <4>1, <4>2, <4>3, <4>4 DEF Acks
    <3>3. QED
      BY <3>1, <3>2
  <2>7. Stages(c)'
    BY <1>1, <1>4 DEF EchoOf, Stages, Gone
  <2>8. QED
    BY <1>3, <2>5, <2>6, <2>7, EchoesKept DEF EchoOf
<1>7. CASE qp[c] # "RTS"
  <2>1. EchoOf(c)'
    BY <1>1, <1>4, <1>7 DEF EchoOf, OnePlace, Payloads, Acks, Stages, Gone
  <2>2. QED
    BY <1>3, <2>1, EchoesKept
<1>8. QED
  BY <1>6, <1>7

\* What the server does with a message it received.
LEMMA RecvWcFacts ==
    ASSUME TypeOK, Position, Credits, Echoes, NEW c \in Conns, c = cur, RecvWc,
           qp[c] = "RTS"
    PROVE  /\ Received(c) /\ ~HasRecv(Pending(c))'
           /\ "ack_lost" \notin Mishaps => ~HasSend(Pending(c))'
           /\ Pending(c)' = Tail(Pending(c)) /\ Pending(c) \in Seq(Completions)
<1>1. UNCHANGED <<cur, cq>> /\ wcs # <<>> /\ wcs' = Tail(wcs)
  BY DEF RecvWc, HandleRecvWc, PostRecv, Position
<1> DEFINE q == Pending(c)
<1>2. /\ q \in Seq(Completions) /\ q # <<>> /\ q[1] = Head(wcs) /\ Pending(c)' = Tail(q)
      /\ Len(q) \in Nat /\ Len(q) > 0
  BY <1>1, TakeFacts
<1>3. q[1] \in {"SEND", "RECV"} /\ OneRecv(q)
  BY <1>2 DEF Credits, Credit
<1>4. q[1] = "RECV"
  BY <1>2, <1>3 DEF RecvWc, HandleRecvWc, Opcode
<1>5. "ack_lost" \notin Mishaps =>
          \A k, l \in 1..Len(q) : q[k] = "SEND" /\ q[l] \in {"SEND", "RECV"} => k <= l
  BY DEF Echoes, EchoOf, Acks
<1> HIDE DEF q
<1>6. HasRecv(q) /\ ~HasRecv(Tail(q))
  BY <1>2, <1>3, <1>4, OneLessFacts DEF HasRecv
<1>7. "ack_lost" \notin Mishaps => ~HasSend(Tail(q))
  BY <1>2, <1>3, <1>5, OneLessSend
<1>8. QED
  BY <1>2, <1>6, <1>7 DEF q, Received, HasRecv, HasSend

LEMMA EchoesRecvWc ==
    ASSUME TypeOK, Position, Queues, Credits, Echoes, NEW c \in Conns, c = cur,
           RecvWc
    PROVE  Echoes'
<1>1. /\ UNCHANGED <<cur, qp, state, posted, unacked, recv_buff, clog, sent, peer>>
      /\ mpc = "wc" /\ mpc' \in {"reply", "died"}
      /\ slog' = [slog EXCEPT ![c] = Logged(slog[c], recv_buff[c])]
      /\ send_buff' = [send_buff EXCEPT ![c] = recv_buff[c]]
      /\ \A d \in Conns : d # c => cq'[d] = cq[d]
  BY LocalTypes DEF RecvWc, HandleRecvWc, PostRecv, Complete, connVars, peerVars
<1>2. \A d \in Conns : ~AtReply(d) /\ (d # c => ~AtReply(d)')
  BY <1>1 DEF AtReply
<1>3. \A d \in Conns : d # c => slog'[d] = slog[d] /\ send_buff'[d] = send_buff[d]
  BY <1>1, LocalTypes
<1>4. \A d \in Conns : d # c => Same(d)
  BY <1>1, <1>2, <1>3 DEF Same, Pending
<1>5. EchoOf(c) /\ state[c] # "none" /\ qp[c] \in {"RTS", "ERR"}
  <2>1. c \in Registered
    BY DEF RecvWc, HandleRecvWc, Position
  <2>2. QED
    BY <2>1, LocalTypes DEF Registered, Echoes, Queues
<1>6. CASE qp[c] = "RTS"
  <2>1. /\ Received(c) /\ ~Received(c)' /\ posted[c] = 0 /\ peer[c] \in {"waiting", "gone"}
        /\ "ack_lost" \notin Mishaps => ~HasSend(Pending(c))' /\ unacked[c] = 0
    <3>1. /\ Received(c) /\ ~Received(c)'
          /\ "ack_lost" \notin Mishaps => ~HasSend(Pending(c))'
      BY <1>6, RecvWcFacts DEF Received
    <3>2. posted[c] = 0 /\ peer[c] \in {"waiting", "gone"}
      BY <1>5, <1>6, <3>1 DEF EchoOf, OnePlace
    <3>3. unacked[c] \in Nat
      BY LocalTypes
    <3>4. "ack_lost" \notin Mishaps => ~(unacked[c] > 0)
      BY <1>5, <1>6, <3>1 DEF EchoOf, Acks
    <3>5. QED
      BY <3>1, <3>2, <3>3, <3>4
  <2>2. OnePlace(c)'
    BY <1>1, <2>1 DEF OnePlace
  <2>3. Payloads(c)'
    <3>1. SUFFICES ASSUME Whole(c)
                   PROVE  Payloads(c)'
      BY DEF Payloads, Whole
    <3>2. /\ recv_buff[c] = Len(slog[c]) /\ Len(slog[c]) = Len(clog[c]) /\ Len(slog[c]) < Count[c]
          /\ sent[c] = Len(slog[c]) + 1 /\ \A k \in 1..Len(slog[c]) : slog[c][k] = k - 1
      BY <1>5, <1>6, <2>1, <3>1 DEF EchoOf, Payloads
    <3>3. slog[c] \in Seq(Nat) /\ Len(slog[c]) \in Nat /\ Count[c] \in Nat /\ LogBound \in Nat
      BY LocalTypes, BoundsAssumption
    <3>4. slog'[c] = Append(slog[c], Len(slog[c])) /\ send_buff'[c] = Len(slog[c])
      BY <1>1, <3>1, <3>2, <3>3, LocalTypes DEF Logged, Whole
    <3>5. /\ Len(slog'[c]) = Len(slog[c]) + 1
          /\ \A k \in 1..Len(slog'[c]) : slog'[c][k] = k - 1
      BY <3>2, <3>3, <3>4
    <3>6. QED
      BY <1>1, <2>1, <3>2, <3>4, <3>5 DEF Payloads
  <2>4. Stages(c)'
    BY <1>1, <1>5, <1>6, <2>1 DEF Stages
  <2>5. Acks(c)'
    BY <1>1, <2>1 DEF Acks, HasSend
  <2>6. QED
    BY <1>4, <2>2, <2>3, <2>4, <2>5, EchoesKept DEF EchoOf
<1>7. CASE qp[c] = "ERR"
  <2>1. EchoOf(c)'
    BY <1>1, <1>5, <1>7 DEF EchoOf, OnePlace, Payloads, Acks, Stages, Gone
  <2>2. QED
    BY <1>4, <2>1, EchoesKept
<1>8. QED
  BY <1>5, <1>6, <1>7

\* A working queue pair holds no send requests when a reply is posted.
LEMMA NothingHeld ==
    ASSUME TypeOK, Position, Credits, Echoes, NEW c \in Conns, AtReply(c), qp[c] = "RTS",
           "ack_lost" \notin Mishaps
    PROVE  SendsHeld(c) = 0
<1>1. posted[c] = 0 /\ ~HasSend(Pending(c)) /\ unacked[c] = 0
  <2>1. unacked[c] \in Nat
    BY LocalTypes
  <2>2. EchoOf(c)
    BY DEF Echoes
  <2>3. QED
    BY <2>1, <2>2 DEF EchoOf, OnePlace, Acks
<1>2. \A k \in 1..Len(cq[c]) : cq[c][k] \notin {"SEND", "SEND_ERR"}
  <2>1. Pending(c) = wcs \o cq[c] /\ wcs \in Seq(Completions) /\ cq[c] \in Seq(Completions)
    BY LocalTypes DEF Pending, AtReply
  <2>2. ASSUME NEW t \in Seq(Completions), NEW k \in 1..Len(t)
        PROVE  /\ Len(wcs) + k \in 1..Len(wcs \o t)
               /\ (wcs \o t)[Len(wcs) + k] = t[k]
    BY <2>1
  <2>3. \A k \in 1..Len(Pending(c)) : Pending(c)[k] \in {"SEND", "RECV"}
    BY DEF Credits, Credit
  <2>4. ASSUME NEW k \in 1..Len(cq[c])
        PROVE  cq[c][k] \notin {"SEND", "SEND_ERR"}
    <3>1. /\ Len(wcs) + k \in 1..Len(Pending(c))
          /\ Pending(c)[Len(wcs) + k] = cq[c][k]
      BY <2>1, <2>2
    <3>2. QED
      BY <1>1, <2>3, <3>1 DEF HasSend
  <2>5. QED
    BY <2>4
<1>3. {k \in 1..Len(cq[c]) : cq[c][k] \in {"SEND", "SEND_ERR"}} = {}
  BY <1>2
<1>4. Cardinality({}) = 0
  BY FS_EmptySet
<1>5. SendsHeld(c) = posted[c] + unacked[c] + Cardinality({})
  BY <1>3, Zenon DEF SendsHeld
<1>6. QED
  BY <1>1, <1>4, <1>5

LEMMA EchoesReply ==
    ASSUME TypeOK, Position, Queues, Credits, Echoes, NEW c \in Conns, c = cur, Reply
    PROVE  Echoes'
<1>1. /\ UNCHANGED <<cur, wcs, qp, state, unacked, peer, sent>>
      /\ UNCHANGED <<recv_buff, send_buff, slog, clog>>
      /\ mpc = "reply" /\ mpc' # "reply"
      /\ \A d \in Conns : d # c => cq'[d] = cq[d] /\ posted'[d] = posted[d]
  <2>1. /\ UNCHANGED <<cur, wcs, qp, state, unacked, peer, sent>>
        /\ UNCHANGED <<recv_buff, send_buff, slog, clog>>
    BY DEF Reply, PostReply, drainVars, connVars, buffVars, peerVars
  <2>2. mpc = "reply" /\ mpc' \in {"die_post", "died", "poll", "wc"}
    BY DEF Reply, PostReply, NextWc
  <2>3. cq' = cq \/ \E ws : cq' = [cq EXCEPT ![c] = @ \o ws]
    BY DEF Reply, PostReply, Complete
  <2>4. posted' = posted \/ posted' = [posted EXCEPT ![c] = @ + 1]
    BY DEF Reply, PostReply
  <2>5. \A d \in Conns : d # c => cq'[d] = cq[d] /\ posted'[d] = posted[d]
    BY <2>3, <2>4, LocalTypes
  <2>6. QED
    BY <2>1, <2>2, <2>5
<1>2. /\ AtReply(c) /\ EchoOf(c)
      /\ \A d \in Conns : ~AtReply(d)' /\ (d # c => ~AtReply(d))
  BY <1>1 DEF AtReply, Echoes
<1>3. \A d \in Conns : d # c => Same(d)
  BY <1>1, <1>2 DEF Same, Pending
<1>4. state[c] # "none" /\ qp[c] \in {"RTS", "ERR"}
  <2>1. c \in Registered
    BY DEF Reply, PostReply, Position
  <2>2. QED
    BY <2>1, LocalTypes DEF Registered, Queues
<1>5. CASE qp[c] = "RTS"
  <2>1. Pending(c)' = Pending(c) /\ posted'[c] \in {posted[c], posted[c] + 1}
    BY <1>1, <1>5, LocalTypes DEF Reply, PostReply, Pending
  <2>2. /\ posted[c] = 0 /\ posted'[c] \in {0, 1} /\ ~Received(c) /\ ~Received(c)'
        /\ peer[c] \in {"waiting", "gone"}
    BY <1>2, <1>5, <2>1 DEF EchoOf, OnePlace, Received, HasRecv
  <2>3. OnePlace(c)' /\ Payloads(c)'
    BY <1>1, <1>2, <1>5, <2>2 DEF EchoOf, OnePlace, Payloads, Whole
  <2>4. Stages(c)'
    BY <1>1, <1>4, <1>5, <2>2 DEF Stages
  <2>5. Acks(c)'
    BY <1>1, <1>2, <1>5, <2>1, <2>2 DEF EchoOf, Acks, HasSend
  <2>6. QED
    BY <1>3, <2>3, <2>4, <2>5, EchoesKept DEF EchoOf
<1>6. CASE qp[c] = "ERR"
  <2>1. EchoOf(c)'
    BY <1>1, <1>2, <1>4, <1>6 DEF EchoOf, OnePlace, Payloads, Acks, Stages, Gone
  <2>2. QED
    BY <1>3, <2>1, EchoesKept
<1>7. QED
  BY <1>4, <1>5, <1>6

LEMMA LiveCredits == IInv /\ mpc # "died" => Credits
BY DEF IInv, LivingCredits, Credits

LEMMA EchoesStep == IInv /\ Echoes /\ [Next]_vars => Echoes'
<1> SUFFICES ASSUME IInv, Echoes, [Next]_vars PROVE Echoes'
  OBVIOUS
<1>1. /\ TypeOK /\ Events /\ Queues /\ Position /\ Routed
      /\ mpc # "died" => Credits
  BY LiveCredits DEF IInv
<1>2. ASSUME NEW c \in Conns, Network(c), mpc # "died"
      PROVE  Echoes'
  BY <1>1, <1>2, EchoesArrive, EchoesEchoArrives, EchoesAck, EchoesRetry DEF Network
<1>3. ASSUME NEW c \in Conns,
             PeerConnect(c) \/ PeerEstablished(c) \/ PeerLeaves(c) \/ PeerGivesUp(c)
      PROVE  Echoes'
  BY <1>1, <1>3, EchoesPeer
<1>4. ASSUME NEW c \in Conns, HandleCmEvent(c)
      PROVE  Echoes'
  BY <1>1, <1>4, EchoesCmEvent
<1>5. CASE SendWc \/ RecvWc \/ Reply
  <2>1. cur \in Conns /\ mpc # "died"
    BY <1>1, <1>5 DEF SendWc, HandleSendWc, RecvWc, HandleRecvWc, Reply, PostReply, Position, Registered
  <2>2. QED
    BY <1>1, <1>5, <2>1, EchoesSendWc, EchoesRecvWc, EchoesReply
<1>6. CASE UNCHANGED vars
  <2>1. \A d \in Conns : Same(d)
    BY <1>6 DEF Same, Pending, AtReply, vars, loopVars, drainVars, outsideVars, connVars,
                rcVars, buffVars, peerVars
  <2>2. QED
    BY <2>1, SameKept DEF Echoes
<1>7. CASE \/ CheckRunning \/ EpollWait \/ BatchDone \/ WaitFails \/ GetCmEventFails \/ Sigint
           \/ \E c \in Conns : GetCqEvent(c) \/ GetStaleEvent(c)
           \/ ReqNotify \/ CqCallFails \/ PollCq
  BY <1>1, <1>7, EchoesServer
<1>8. QED
  BY <1>1, <1>2, <1>3, <1>4, <1>5, <1>6, <1>7, OwnCompletions
  DEF Next, Server, HandleCqEvent, ServerStopped, Stopped

LEMMA InitEchoes == Init => Echoes
<1> SUFFICES ASSUME Init, NEW c \in Conns PROVE EchoOf(c)
  BY DEF Echoes
<1>1. /\ qp[c] = "none" /\ mpc = "check" /\ peer[c] = "new"
      /\ sent[c] = 0 /\ posted[c] = 0 /\ unacked[c] = 0 /\ slog[c] = <<>> /\ clog[c] = <<>>
  BY DEF Init
<1>2. OnePlace(c) /\ Payloads(c) /\ Acks(c)
  BY <1>1 DEF OnePlace, Payloads, Acks
<1>3. Stages(c)
  BY <1>1 DEF Stages
<1>4. QED
  BY <1>2, <1>3 DEF EchoOf

\* Nothing but a post that finds the send queue full makes the server die of
\* one, and a queue pair keeps its state once the server is dead.
LEMMA DiesOfPost ==
    ASSUME TypeOK, Position, Routed, [Next]_vars
    PROVE  \/ Reply
           \/ mpc' # "die_post"
           \/ mpc = "die_post" /\ UNCHANGED <<mpc, cur, qp>>
<1>1. ASSUME NEW c \in Conns, Network(c), mpc \notin Stopped
      PROVE  mpc' = mpc
  BY <1>1 DEF Network, Arrive, EchoArrives, AckArrives, RetryExceeded, loopVars
<1>2. ASSUME NEW c \in Conns,
             PeerConnect(c) \/ PeerEstablished(c) \/ PeerLeaves(c) \/ PeerGivesUp(c),
             mpc \notin Stopped
      PROVE  mpc' = mpc
  BY <1>2 DEF PeerConnect, PeerEstablished, PeerLeaves, PeerGivesUp, loopVars
<1>3. ASSUME NEW c \in Conns, HandleCmEvent(c)
      PROVE  mpc' # "die_post"
  BY <1>3 DEF HandleCmEvent, HandleNewRequest, RejectRequest, HandleEstablished,
              HandleDisconnected, HandleOther, PrintEvent, GetCmEvent
<1>4. CASE CheckRunning \/ EpollWait \/ BatchDone \/ WaitFails \/ GetCmEventFails \/ Sigint
  BY <1>4 DEF CheckRunning, EpollWait, BatchDone, WaitFails, GetCmEventFails, Sigint, Stopped
<1>5. ASSUME NEW c \in Conns, GetCqEvent(c) \/ GetStaleEvent(c)
      PROVE  mpc' # "die_post"
  BY <1>5 DEF GetCqEvent, GetStaleEvent
<1>6. CASE ReqNotify \/ PollCq \/ CqCallFails
  BY <1>6 DEF ReqNotify, PollCq, CqCallFails
<1>7. CASE SendWc \/ RecvWc
  BY <1>7 DEF SendWc, HandleSendWc, RecvWc, HandleRecvWc, AfterSend, NextWc
<1>8. CASE UNCHANGED vars
  BY <1>8 DEF vars, loopVars, drainVars, outsideVars, rcVars
<1>9. QED
  BY <1>1, <1>2, <1>3, <1>4, <1>5, <1>6, <1>7, <1>8, OwnCompletions
  DEF Next, Server, HandleCqEvent, ServerStopped, Stopped

LEMMA DiePostStep ==
    ASSUME IInv, Echoes, PostNeverFails, [Next]_vars, "ack_lost" \notin Mishaps
    PROVE  PostNeverFails'
<1>1. TypeOK /\ Position /\ Routed /\ Queues /\ (mpc # "died" => Credits)
  BY LiveCredits DEF IInv
<1>2. CASE Reply
  <2>1. cur \in Registered /\ mpc = "reply"
    BY <1>1, <1>2 DEF Reply, PostReply, Position
  <2>2. cur \in Conns /\ AtReply(cur) /\ qp[cur] \in {"RTS", "ERR"} /\ UNCHANGED <<cur, qp>>
    BY <1>1, <1>2, <2>1, LocalTypes DEF Registered, Queues, AtReply, Reply, PostReply, drainVars
  <2>3. CASE qp[cur] = "RTS"
    <3>1. SendsHeld(cur) = 0
      BY <1>1, <2>1, <2>2, <2>3, NothingHeld
    <3>2. ~(SendsHeld(cur) >= MaxSendWr)
      BY <3>1, BoundsAssumption
    <3>3. mpc' # "die_post"
      BY <1>2, <3>2 DEF Reply, PostReply, NextWc
    <3>4. QED
      BY <3>3 DEF PostNeverFails
  <2>4. CASE qp[cur] = "ERR"
    BY <2>2, <2>4 DEF PostNeverFails
  <2>5. QED
    BY <2>2, <2>3, <2>4
<1>3. CASE ~Reply
  BY <1>1, <1>3, DiesOfPost DEF PostNeverFails
<1>4. QED
  BY <1>2, <1>3

\* The message of every connection is where it should be, whatever the
\* server does for the others.
THEOREM EchoInvariance == Spec => []Echoes
<1>1. Init => Echoes
  BY InitEchoes
<1>2. QED
  BY <1>1, EchoesStep, Invariance, PTL DEF Spec

\* As long as no acknowledgement is lost, no reply to a working connection
\* finds the send queue full (server.c:179-182): the completion of the last
\* echo is polled before the next message, for any Count and any send queue.
THEOREM SendQueueSafe ==
    ASSUME "ack_lost" \notin Mishaps
    PROVE  Spec => []PostNeverFails
<1>1. Init => PostNeverFails
  BY DEF Init, PostNeverFails
<1>2. IInv /\ Echoes /\ PostNeverFails /\ [Next]_vars => PostNeverFails'
  BY DiePostStep
<1>3. QED
  BY <1>1, <1>2, Invariance, EchoInvariance, PTL DEF Spec

(***************************************************************************)
(* A connection implements EchoSpec.                                       *)
(***************************************************************************)

\* The steps that print a message are the server's receipt of one and the
\* client's receipt of an echo.
LEMMA Prints ==
    ASSUME Position, Routed, [Next]_vars
    PROVE  \/ UNCHANGED <<slog, clog>>
           \/ RecvWc
           \/ \E c \in Conns : EchoArrives(c)
<1>1. ASSUME NEW c \in Conns, Arrive(c) \/ AckArrives(c) \/ RetryExceeded(c)
      PROVE  UNCHANGED <<slog, clog>>
  BY <1>1 DEF Arrive, AckArrives, RetryExceeded, buffVars, peerVars
<1>2. ASSUME NEW c \in Conns,
             PeerConnect(c) \/ PeerEstablished(c) \/ PeerLeaves(c) \/ PeerGivesUp(c)
      PROVE  UNCHANGED <<slog, clog>>
  BY <1>2 DEF PeerConnect, PeerEstablished, PeerLeaves, PeerGivesUp, buffVars
<1>3. ASSUME NEW c \in Conns, HandleCmEvent(c)
      PROVE  UNCHANGED <<slog, clog>>
  BY <1>3 DEF HandleCmEvent, HandleNewRequest, RejectRequest, HandleEstablished,
              HandleDisconnected, HandleOther, PrintEvent, buffVars, peerVars
<1>4. CASE CheckRunning \/ EpollWait \/ BatchDone \/ WaitFails \/ GetCmEventFails \/ Sigint
  BY <1>4
     DEF CheckRunning, EpollWait, BatchDone, WaitFails, GetCmEventFails, Sigint, outsideVars,
         buffVars, peerVars
<1>5. ASSUME NEW c \in Conns, GetCqEvent(c) \/ GetStaleEvent(c)
      PROVE  UNCHANGED <<slog, clog>>
  BY <1>5 DEF GetCqEvent, GetStaleEvent, outsideVars, buffVars, peerVars
<1>6. CASE ReqNotify \/ PollCq \/ CqCallFails \/ SendWc \/ Reply
  BY <1>6 DEF ReqNotify, PollCq, CqCallFails, SendWc, HandleSendWc, Reply, PostReply, outsideVars,
              buffVars, peerVars
<1>7. CASE UNCHANGED vars
  BY <1>7 DEF vars, outsideVars, buffVars, peerVars
<1>8. QED
  BY <1>1, <1>2, <1>3, <1>4, <1>5, <1>6, <1>7, OwnCompletions
  DEF Next, Server, Network, HandleCqEvent, ServerStopped

\* On a working connection they are the steps of the specification.
LEMMA PrintsNext ==
    ASSUME IInv, Echoes, [Next]_vars, NEW c \in Conns, Whole(c), qp[c] = "RTS"
    PROVE  [Echo(c)!Next]_(Echo(c)!vars)
<1>1. EchoOf(c) /\ TypeOK /\ Position /\ Routed /\ (mpc # "died" => Credits)
  BY LiveCredits DEF IInv, Echoes
<1>2. slog[c] \in Seq(Nat) /\ clog[c] \in Seq(Nat)
      /\ Len(slog[c]) \in Nat /\ Len(clog[c]) \in Nat /\ Count[c] \in Nat /\ LogBound \in Nat
  BY <1>1, LocalTypes, BoundsAssumption
<1>3. CASE slog'[c] = slog[c] /\ clog'[c] = clog[c]
  BY <1>3 DEF Echo!vars
<1>4. CASE RecvWc /\ c = cur
  <2>1. Received(c)
    BY <1>1, <1>4, RecvWcFacts DEF RecvWc
  <2>2. /\ recv_buff[c] = Len(slog[c])
        /\ Len(slog[c]) = Len(clog[c]) /\ Len(slog[c]) < Count[c]
    BY <1>1, <2>1 DEF EchoOf, Payloads
  <2>3. slog'[c] = Append(slog[c], Len(slog[c])) /\ clog'[c] = clog[c]
    BY <1>1, <1>2, <1>4, <2>2, LocalTypes DEF RecvWc, HandleRecvWc, Logged, Whole, peerVars
  <2>4. QED
    BY <2>2, <2>3 DEF Echo!Next, Echo!Serve
<1>5. CASE EchoArrives(c)
  <2>1. posted[c] = 1 /\ slog'[c] = slog[c] /\ clog'[c] = Append(clog[c], send_buff[c])
    BY <1>1, <1>5, LocalTypes DEF EchoArrives, EchoOf, OnePlace, buffVars
  <2>2. /\ send_buff[c] = Len(clog[c]) /\ Len(slog[c]) = Len(clog[c]) + 1
        /\ \A k \in 1..Len(slog[c]) : slog[c][k] = k - 1
    BY <1>1, <2>1 DEF EchoOf, Payloads
  <2>3. slog[c][Len(clog[c]) + 1] = Len(clog[c])
    BY <1>2, <2>2
  <2>4. QED
    BY <1>2, <2>1, <2>2, <2>3 DEF Echo!Next, Echo!Answer
<1>6. ASSUME RecvWc, c # cur
      PROVE  slog'[c] = slog[c] /\ clog'[c] = clog[c]
  BY <1>1, <1>6, LocalTypes DEF RecvWc, HandleRecvWc, peerVars
<1>7. ASSUME NEW d \in Conns, EchoArrives(d), c # d
      PROVE  slog'[c] = slog[c] /\ clog'[c] = clog[c]
  BY <1>1, <1>7, LocalTypes DEF EchoArrives, buffVars
<1>8. QED
  BY <1>1, <1>3, <1>4, <1>5, <1>6, <1>7, Prints

\* Every connection is an echo channel as long as its queue pair works: the
\* server prints the messages of its client in order and exactly once, and
\* the client gets each back before the server prints the next
\* (server.c:155-185).  LogBound only bounds what the model keeps.
THEOREM EchoSafe ==
    ASSUME \A c \in Conns : Count[c] <= LogBound
    PROVE  Spec => EchoPerConnection
<1>1. Init => \A c \in Conns : Echo(c)!Init
  BY DEF Init, Echo!Init
<1> DEFINE Steps == \A c \in Conns : qp[c] = "RTS" => [Echo(c)!Next]_(Echo(c)!vars)
<1>2. IInv /\ Echoes /\ [Next]_vars => [Steps]_vars
  BY PrintsNext DEF Whole
<1>3. QED
  BY <1>1, <1>2, Invariance, EchoInvariance, PTL DEF Spec, EchoPerConnection
=============================================================================
