--------------------------- MODULE PingPongProofs ---------------------------
(***************************************************************************)
(* Proofs about PingPong for every Count and QueueDepth, with or without   *)
(* lost acknowledgements and faults.                                       *)
(***************************************************************************)
EXTENDS PingPong, FiniteSetTheorems, TLAPS

(***************************************************************************)
(* The inductive invariant.  A message is at any time in at most one       *)
(* place: with the client, on its way to the server, arrived there, with   *)
(* the server, on its way back, or arrived at the client.                  *)
(***************************************************************************)
ClientHolds == cpc \in {"send", "repost"}
ServerHolds == spc \in {"repost", "reply"}

OnePlace ==
    /\ posted["client"] <= 1 /\ posted["server"] <= 1
    /\ ClientHolds => /\ posted["client"] = 0 /\ ~Arrived("server")
                      /\ ~ServerHolds
                      /\ posted["server"] = 0 /\ ~Arrived("client")
    /\ posted["client"] = 1 => /\ ~Arrived("server") /\ ~ServerHolds
                               /\ posted["server"] = 0 /\ ~Arrived("client")
    /\ Arrived("server") => /\ ~ServerHolds
                            /\ posted["server"] = 0 /\ ~Arrived("client")
    /\ ServerHolds => posted["server"] = 0 /\ ~Arrived("client")
    /\ posted["server"] = 1 => ~Arrived("client")

\* What the place of the message says about the buffers and the logs.
Payloads ==
    /\ ClientHolds => Len(slog) = Len(clog)
    /\ posted["client"] = 1 => /\ send_buff["client"] = Len(slog)
                               /\ Len(slog) = Len(clog) /\ Len(slog) < Count
    /\ Arrived("server") => /\ recv_buff["server"] = Len(slog)
                            /\ Len(slog) = Len(clog) /\ Len(slog) < Count
    /\ ServerHolds \/ posted["server"] = 1 =>
          send_buff["server"] = Len(clog) /\ Len(slog) = Len(clog) + 1
    /\ Arrived("client") =>
          recv_buff["client"] = Len(clog) /\ Len(slog) = Len(clog) + 1

\* The loop counter counts the echoes the client has printed.
LoopCounter ==
    /\ cpc \in {"send", "wait_send", "wait_recv"} => i = Len(clog)
    /\ cpc = "repost" => i + 1 = Len(clog)
    /\ cpc \in {"send", "wait_send", "wait_recv", "repost"} => i < Count

\* The logs hold the message numbers in order.
LogsInOrder ==
    /\ \A k \in 1..Len(slog) : slog[k] = k - 1
    /\ \A k \in 1..Len(clog) : clog[k] = k - 1

IInv ==
    /\ TypeOK
    /\ ReceiveCredit
    /\ OnePlace
    /\ Payloads
    /\ LoopCounter
    /\ LogsInOrder

(***************************************************************************)
(* Completion queues.                                                      *)
(***************************************************************************)

\* Appending a completion to a queue.
LEMMA AppendCompletion ==
    ASSUME NEW q \in Seq(WorkCompletions), NEW wc \in WorkCompletions
    PROVE  /\ Append(q, wc) \in Seq(WorkCompletions)
           /\ HasRecv(Append(q, wc)) <=> HasRecv(q) \/ wc = "RECV"
           /\ OneRecv(q) /\ (wc = "RECV" => ~HasRecv(q))
                 => OneRecv(Append(q, wc))
<1> DEFINE q2 == Append(q, wc)
<1>1. /\ q2 \in Seq(WorkCompletions) /\ Len(q2) = Len(q) + 1
      /\ \A k \in 1..Len(q) : q2[k] = q[k]
      /\ q2[Len(q) + 1] = wc
      /\ Len(q) \in Nat
  OBVIOUS
<1> HIDE DEF q2
<1>2. HasRecv(q2) <=> HasRecv(q) \/ wc = "RECV"
  <2>1. 1..Len(q2) = (1..Len(q)) \union {Len(q) + 1}
    BY <1>1
  <2>2. QED
    BY <1>1, <2>1 DEF HasRecv
<1>3. ASSUME OneRecv(q), wc = "RECV" => ~HasRecv(q)
      PROVE  OneRecv(q2)
  BY <1>1, <1>3 DEF OneRecv, HasRecv
<1>4. QED
  BY <1>1, <1>2, <1>3 DEF q2

\* Polling the oldest completion of a queue.
LEMMA PollCompletion ==
    ASSUME NEW q \in Seq(WorkCompletions), q # <<>>
    PROVE  /\ Tail(q) \in Seq(WorkCompletions)
           /\ Head(q) \in WorkCompletions
           /\ HasRecv(q) <=> Head(q) = "RECV" \/ HasRecv(Tail(q))
           /\ OneRecv(q) => OneRecv(Tail(q))
           /\ OneRecv(q) /\ Head(q) = "RECV" => ~HasRecv(Tail(q))
<1> DEFINE t == Tail(q)
<1>1. /\ t \in Seq(WorkCompletions) /\ Len(q) \in Nat /\ Len(q) > 0
      /\ Len(t) = Len(q) - 1
      /\ \A k \in 1..Len(t) : t[k] = q[k + 1]
      /\ Head(q) = q[1] /\ Head(q) \in WorkCompletions
  OBVIOUS
<1> HIDE DEF t
<1>2. HasRecv(q) <=> q[1] = "RECV" \/ HasRecv(t)
  <2>1. ASSUME NEW k \in 1..Len(q), q[k] = "RECV", q[1] # "RECV"
        PROVE  HasRecv(t)
    <3>1. k - 1 \in 1..Len(t) /\ t[k - 1] = q[k]
      BY <1>1, <2>1
    <3>2. QED
      BY <2>1, <3>1 DEF HasRecv
  <2>2. ASSUME NEW k \in 1..Len(t), t[k] = "RECV"
        PROVE  HasRecv(q)
    <3>1. k + 1 \in 1..Len(q) /\ q[k + 1] = "RECV"
      BY <1>1, <2>2
    <3>2. QED
      BY <3>1 DEF HasRecv
  <2>3. 1 \in 1..Len(q)
    BY <1>1
  <2>4. QED
    BY <2>1, <2>2, <2>3 DEF HasRecv
<1>3. ASSUME OneRecv(q)
      PROVE  OneRecv(t) /\ (q[1] = "RECV" => ~HasRecv(t))
  <2>1. \A k \in 1..Len(t) : k + 1 \in 1..Len(q) /\ k + 1 # 1
    BY <1>1
  <2>2. 1 \in 1..Len(q)
    BY <1>1
  <2>3. QED
    BY <1>1, <1>3, <2>1, <2>2 DEF OneRecv, HasRecv
<1>4. QED
  BY <1>1, <1>2, <1>3 DEF t

\* Flushing m work requests into a queue.
LEMMA FlushCompletions ==
    ASSUME NEW q \in Seq(WorkCompletions), NEW m \in Nat
    PROVE  LET f == q \o [k \in 1..m |-> "ERR"]
           IN  /\ f \in Seq(WorkCompletions)
               /\ HasRecv(f) <=> HasRecv(q)
               /\ OneRecv(q) => OneRecv(f)
<1> DEFINE errors == [k \in 1..m |-> "ERR"]
           f == q \o errors
<1>1. errors \in Seq(WorkCompletions) /\ Len(errors) = m
  BY DEF WorkCompletions
<1>2. /\ f \in Seq(WorkCompletions) /\ Len(f) = Len(q) + m
      /\ \A k \in 1..Len(q) : f[k] = q[k]
      /\ \A k \in (Len(q) + 1)..Len(f) : f[k] = "ERR"
      /\ Len(q) \in Nat
  BY <1>1
<1> HIDE DEF f, errors
<1>3. \A k \in 1..Len(f) : f[k] = "RECV" => k \in 1..Len(q)
  BY <1>2
<1>4. 1..Len(q) \subseteq 1..Len(f)
  BY <1>2
<1>5. HasRecv(f) <=> HasRecv(q)
  BY <1>2, <1>3, <1>4 DEF HasRecv
<1>6. OneRecv(q) => OneRecv(f)
  BY <1>2, <1>3 DEF OneRecv
<1>7. QED
  BY <1>2, <1>5, <1>6 DEF f, errors

(***************************************************************************)
(* What each operation of the channel does to the end e it works on, in    *)
(* terms of the predicates of the invariant.                               *)
(***************************************************************************)

\* The other end's queue is as it was.
OthersQueue(e) == \A o \in Ends : o # e => cq'[o] = cq[o]

LEMMA PollFacts ==
    ASSUME RcTypeOK, NEW e \in Ends, NEW wc, PollCq(e, wc)
    PROVE  /\ RcTypeOK' /\ OthersQueue(e)
           /\ Arrived(e) <=> wc = "RECV" \/ Arrived(e)'
           /\ OneRecv(cq[e]) => OneRecv(cq'[e])
           /\ OneRecv(cq[e]) /\ wc = "RECV" => ~Arrived(e)'
<1>1. cq[e] \in Seq(WorkCompletions) /\ cq[e] # <<>> /\ wc = Head(cq[e])
  BY DEF RcTypeOK, PollCq
<1>2. cq'[e] = Tail(cq[e]) /\ OthersQueue(e)
  BY DEF RcTypeOK, PollCq, OthersQueue
<1>3. Tail(cq[e]) \in Seq(WorkCompletions)
  BY <1>1, PollCompletion
<1>4. RcTypeOK'
  BY <1>3 DEF RcTypeOK, PollCq
<1>5. QED
  BY <1>1, <1>2, <1>4, PollCompletion DEF Arrived

LEMMA FlushFacts ==
    ASSUME RcTypeOK, NEW e \in Ends, Flush(e)
    PROVE  /\ RcTypeOK' /\ OthersQueue(e)
           /\ Arrived(e)' <=> Arrived(e)
           /\ OneRecv(cq[e]) => OneRecv(cq'[e])
<1> DEFINE m == posted[e] + unacked[e] + rq[e]
           f == cq[e] \o [k \in 1..m |-> "ERR"]
<1>1. cq[e] \in Seq(WorkCompletions) /\ m \in Nat
  BY DEF RcTypeOK
<1>2. cq' = [cq EXCEPT ![e] = f]
  BY DEF Flush
<1>3. /\ f \in Seq(WorkCompletions)
      /\ HasRecv(f) <=> HasRecv(cq[e])
      /\ OneRecv(cq[e]) => OneRecv(f)
  BY <1>1, FlushCompletions
<1> HIDE DEF f, m
<1>4. cq'[e] = f /\ OthersQueue(e) /\ cq' \in [Ends -> Seq(WorkCompletions)]
  BY <1>2, <1>3 DEF RcTypeOK, OthersQueue
<1>5. RcTypeOK'
  BY <1>4 DEF RcTypeOK, Flush
<1>6. QED
  BY <1>3, <1>4, <1>5 DEF Arrived

\* An operation that appends one completion to e's queue.
LEMMA AppendFacts ==
    ASSUME RcTypeOK, NEW e \in Ends, NEW wc \in WorkCompletions,
           cq' = [cq EXCEPT ![e] = Append(@, wc)]
    PROVE  /\ cq' \in [Ends -> Seq(WorkCompletions)] /\ OthersQueue(e)
           /\ Arrived(e)' <=> Arrived(e) \/ wc = "RECV"
           /\ OneRecv(cq[e]) /\ (wc = "RECV" => ~Arrived(e))
                 => OneRecv(cq'[e])
<1>1. cq[e] \in Seq(WorkCompletions)
  BY DEF RcTypeOK
<1>2. cq'[e] = Append(cq[e], wc) /\ OthersQueue(e)
  BY DEF RcTypeOK, OthersQueue
<1>3. Append(cq[e], wc) \in Seq(WorkCompletions)
  BY <1>1, AppendCompletion
<1>4. cq' \in [Ends -> Seq(WorkCompletions)]
  BY <1>3 DEF RcTypeOK
<1>5. QED
  BY <1>1, <1>2, <1>4, AppendCompletion DEF Arrived

LEMMA PostFacts ==
    ASSUME RcTypeOK, NEW e \in Ends, PostRecv(e) \/ PostSend(e)
    PROVE  /\ RcTypeOK' /\ OthersQueue(e)
           /\ Arrived(e)' <=> Arrived(e)
           /\ OneRecv(cq[e]) => OneRecv(cq'[e])
<1>1. CASE qp[e] = "RTS"
  <2>1. CASE PostRecv(e)
    <3>1. cq' = cq /\ qp' = qp /\ unacked' = unacked /\ posted' = posted
          /\ rq' = [rq EXCEPT ![e] = @ + 1]
      BY <1>1, <2>1 DEF PostRecv
    <3>2. RcTypeOK'
      BY <3>1 DEF RcTypeOK
    <3>3. QED
      BY <3>1, <3>2 DEF OthersQueue, Arrived
  <2>2. CASE PostSend(e)
    <3>1. cq' = cq /\ qp' = qp /\ unacked' = unacked /\ rq' = rq
          /\ posted' = [posted EXCEPT ![e] = @ + 1]
      BY <1>1, <2>2 DEF PostSend
    <3>2. RcTypeOK'
      BY <3>1 DEF RcTypeOK
    <3>3. QED
      BY <3>1, <3>2 DEF OthersQueue, Arrived
  <2>3. QED
    BY <2>1, <2>2
<1>2. CASE qp[e] # "RTS"
  <2>1. cq' = [cq EXCEPT ![e] = Append(@, "ERR")]
    BY <1>2 DEF PostRecv, PostSend
  <2>2. "ERR" \in WorkCompletions /\ "ERR" # "RECV"
    BY DEF WorkCompletions
  <2>3. cq' \in [Ends -> Seq(WorkCompletions)]
    BY <2>1, <2>2, AppendFacts
  <2>4. RcTypeOK'
    BY <1>2, <2>3 DEF RcTypeOK, PostRecv, PostSend
  <2>5. QED
    BY <2>1, <2>2, <2>4, AppendFacts
<1>3. QED
  BY <1>1, <1>2

LEMMA DeliverFacts ==
    ASSUME RcTypeOK, NEW e \in Ends, Deliver(e)
    PROVE  /\ RcTypeOK' /\ OthersQueue(Peer(e))
           /\ Arrived(Peer(e))'
           /\ OneRecv(cq[Peer(e)]) /\ ~Arrived(Peer(e)) => OneRecv(cq'[Peer(e)])
<1>1. Peer(e) \in Ends /\ "RECV" \in WorkCompletions
  BY DEF Peer, Ends, WorkCompletions
<1>2. cq' = [cq EXCEPT ![Peer(e)] = Append(@, "RECV")]
  BY DEF Deliver
<1>3. cq' \in [Ends -> Seq(WorkCompletions)]
  BY <1>1, <1>2, AppendFacts
<1>4. RcTypeOK'
  <2>1. /\ posted' \in [Ends -> Nat] /\ unacked' \in [Ends -> Nat]
        /\ rq' \in [Ends -> Nat] /\ qp' = qp
    <3>1. /\ posted[e] - 1 \in Nat /\ unacked[e] + 1 \in Nat
          /\ rq[Peer(e)] - 1 \in Nat
      BY <1>1 DEF RcTypeOK, Deliver
    <3>2. QED
      BY <1>1, <3>1 DEF RcTypeOK, Deliver
  <2>2. QED
    BY <1>3, <2>1 DEF RcTypeOK
<1>5. QED
  BY <1>1, <1>2, <1>4, AppendFacts

LEMMA AcknowledgeFacts ==
    ASSUME RcTypeOK, NEW e \in Ends, Acknowledge(e)
    PROVE  /\ RcTypeOK' /\ OthersQueue(e)
           /\ Arrived(e)' <=> Arrived(e)
           /\ OneRecv(cq[e]) => OneRecv(cq'[e])
<1>1. "SEND" \in WorkCompletions /\ "SEND" # "RECV"
  BY DEF WorkCompletions
<1>2. cq' = [cq EXCEPT ![e] = Append(@, "SEND")]
  BY DEF Acknowledge
<1>3. cq' \in [Ends -> Seq(WorkCompletions)]
  BY <1>1, <1>2, AppendFacts
<1>4. RcTypeOK'
  BY <1>3 DEF RcTypeOK, Acknowledge
<1>5. QED
  BY <1>1, <1>2, <1>4, AppendFacts

(***************************************************************************)
(* The invariant is inductive.                                             *)
(***************************************************************************)

\* A step that moves no message on: it may only take one away.
LEMMA QuietStep ==
    ASSUME IInv, RcTypeOK',
           \A e \in Ends : posted'[e] <= posted[e] /\ (Arrived(e)' => Arrived(e)),
           ClientHolds' => ClientHolds, ServerHolds' => ServerHolds,
           UNCHANGED <<send_buff, recv_buff, slog, clog>>
    PROVE  OnePlace' /\ Payloads' /\ LogsInOrder'
<1>1. /\ posted["client"] \in Nat /\ posted["server"] \in Nat
      /\ posted'["client"] \in Nat /\ posted'["server"] \in Nat
      /\ posted'["client"] <= posted["client"]
      /\ posted'["server"] <= posted["server"]
      /\ Arrived("client")' => Arrived("client")
      /\ Arrived("server")' => Arrived("server")
  BY DEF IInv, TypeOK, RcTypeOK, Ends
<1>2. OnePlace'
  BY <1>1 DEF IInv, OnePlace
<1>3. Payloads'
  BY <1>1 DEF IInv, OnePlace, Payloads
<1>4. LogsInOrder'
  BY DEF IInv, LogsInOrder
<1>5. QED
  BY <1>2, <1>3, <1>4

LEMMA InitIInv == Init => IInv
<1> SUFFICES ASSUME Init PROVE IInv
  OBVIOUS
<1>1. \A e \in Ends : cq[e] = <<>> /\ ~Arrived(e) /\ OneRecv(cq[e])
  BY DEF Init, Arrived, HasRecv, OneRecv
<1>2. TypeOK
  BY CountAssumption DEF Init, TypeOK, RcTypeOK, Ends, ClientPcs, ServerPcs, Blank
<1>3. ReceiveCredit
  BY <1>1 DEF Init, ReceiveCredit, Reposting
<1>4. OnePlace /\ Payloads
  BY <1>1 DEF Init, OnePlace, Payloads, ClientHolds, ServerHolds, Ends
<1>5. LoopCounter /\ LogsInOrder
  BY CountAssumption DEF Init, LoopCounter, LogsInOrder
<1>6. QED
  BY <1>2, <1>3, <1>4, <1>5 DEF IInv

LEMMA ClientSendStep == IInv /\ ClientSend => IInv'
<1> SUFFICES ASSUME IInv, ClientSend PROVE IInv'
  OBVIOUS
<1>1. RcTypeOK /\ "client" \in Ends /\ "server" \in Ends /\ Ends = {"client", "server"}
  BY DEF IInv, TypeOK, Ends
<1>2. /\ RcTypeOK' /\ cq'["server"] = cq["server"]
      /\ Arrived("client")' <=> Arrived("client")
      /\ Arrived("server")' <=> Arrived("server")
      /\ OneRecv(cq["client"]) => OneRecv(cq'["client"])
  BY <1>1, PostFacts DEF ClientSend, OthersQueue, Arrived
<1>3. TypeOK'
  BY <1>2 DEF IInv, TypeOK, ClientSend, ClientPcs, serverVars
<1>4. ReceiveCredit'
  BY <1>1, <1>2 DEF IInv, ReceiveCredit, Reposting, ClientSend, PostSend, serverVars
<1>5. /\ posted'["client"] \in {0, 1} /\ posted'["server"] = 0
      /\ posted["client"] = 0
  BY <1>1 DEF IInv, OnePlace, RcTypeOK, ClientSend, PostSend, ClientHolds
<1>6. OnePlace'
  BY <1>2, <1>5 DEF IInv, OnePlace, ClientSend, ClientHolds, ServerHolds, serverVars
<1>7. Payloads'
  BY <1>2, <1>5, <1>1 DEF IInv, TypeOK, OnePlace, Payloads, LoopCounter, ClientSend,
     ClientHolds, ServerHolds, serverVars
<1>8. LoopCounter' /\ LogsInOrder'
  BY DEF IInv, LoopCounter, LogsInOrder, ClientSend, serverVars
<1>9. QED
  BY <1>3, <1>4, <1>6, <1>7, <1>8 DEF IInv

LEMMA ClientPollSendStep == IInv /\ ClientPollSend => IInv'
<1> SUFFICES ASSUME IInv, ClientPollSend PROVE IInv'
  OBVIOUS
<1>1. RcTypeOK /\ "client" \in Ends /\ "server" \in Ends /\ Ends = {"client", "server"}
  BY DEF IInv, TypeOK, Ends
<1>2. PICK wc \in {"SEND", "ERR"} : PollCq("client", wc)
  BY DEF ClientPollSend
<1>3. /\ RcTypeOK' /\ cq'["server"] = cq["server"]
      /\ Arrived("client")' <=> Arrived("client")
      /\ Arrived("server")' <=> Arrived("server")
      /\ OneRecv(cq["client"]) => OneRecv(cq'["client"])
  BY <1>1, <1>2, PollFacts DEF OthersQueue, Arrived
<1>4. cpc = "wait_send" /\ cpc' \in {"wait_send", "wait_recv", "cleanup"}
  BY DEF ClientPollSend, AfterNotify
<1>5. UNCHANGED <<posted, rq, qp, i, clog, spc, n, slog, send_buff, recv_buff>>
  BY <1>2 DEF PollCq, ClientPollSend, serverVars
<1>6. TypeOK'
  BY <1>3, <1>4, <1>5 DEF IInv, TypeOK, ClientPcs
<1>7. ReceiveCredit'
  BY <1>1, <1>3, <1>4, <1>5 DEF IInv, ReceiveCredit, Reposting
<1>8. OnePlace' /\ Payloads' /\ LogsInOrder'
  BY <1>1, <1>3, <1>4, <1>5, QuietStep DEF ClientHolds, ServerHolds, RcTypeOK
<1>9. LoopCounter'
  BY <1>4, <1>5 DEF IInv, LoopCounter
<1>10. QED
  BY <1>6, <1>7, <1>8, <1>9 DEF IInv

LEMMA ClientPollRecvStep == IInv /\ ClientPollRecv => IInv'
<1> SUFFICES ASSUME IInv, ClientPollRecv PROVE IInv'
  OBVIOUS
<1>1. RcTypeOK /\ "client" \in Ends /\ "server" \in Ends /\ Ends = {"client", "server"}
  BY DEF IInv, TypeOK, Ends
<1>2. cpc = "wait_recv" /\ UNCHANGED <<i, spc, n, slog, send_buff, recv_buff>>
  BY DEF ClientPollRecv, serverVars
<1>3. CASE /\ PollCq("client", "RECV")
           /\ clog' = Append(clog, recv_buff["client"]) /\ cpc' = "repost"
  <2>1. /\ RcTypeOK' /\ cq'["server"] = cq["server"]
        /\ Arrived("client") /\ ~Arrived("client")'
        /\ Arrived("server")' <=> Arrived("server")
        /\ OneRecv(cq["client"]) => OneRecv(cq'["client"])
    BY <1>1, <1>3, PollFacts DEF OthersQueue, Arrived, IInv, ReceiveCredit
  <2>2. UNCHANGED <<posted, rq, qp>>
    BY <1>3 DEF PollCq
  <2>3. /\ recv_buff["client"] = Len(clog) /\ Len(slog) = Len(clog) + 1
        /\ Len(clog) = i /\ i < Count /\ clog \in Seq(Nat) /\ i \in Nat
    BY <1>2, <2>1 DEF IInv, TypeOK, Payloads, LoopCounter
  <2>4. /\ clog' \in Seq(Nat) /\ Len(clog') = Len(clog) + 1
        /\ \A k \in 1..Len(clog) : clog'[k] = clog[k]
        /\ clog'[Len(clog) + 1] = Len(clog)
    BY <1>3, <2>3
  <2>5. TypeOK'
    BY <1>2, <1>3, <2>1, <2>4 DEF IInv, TypeOK, ClientPcs
  <2>6. ReceiveCredit'
    BY <1>1, <1>2, <1>3, <2>1, <2>2 DEF IInv, ReceiveCredit, Reposting
  <2>7. OnePlace'
    BY <1>1, <1>2, <1>3, <2>1, <2>2
    DEF IInv, OnePlace, ClientHolds, ServerHolds, RcTypeOK
  <2>8. Payloads'
    BY <1>1, <1>2, <1>3, <2>1, <2>2, <2>3, <2>4
    DEF IInv, OnePlace, Payloads, ClientHolds, ServerHolds
  <2>9. LoopCounter'
    BY <1>2, <1>3, <2>3, <2>4 DEF LoopCounter
  <2>10. LogsInOrder'
    BY <1>2, <2>3, <2>4 DEF IInv, LogsInOrder
  <2>11. QED
    BY <2>5, <2>6, <2>7, <2>8, <2>9, <2>10 DEF IInv
<1>4. CASE PollCq("client", "ERR") /\ cpc' = "cleanup" /\ UNCHANGED clog
  <2>1. /\ RcTypeOK' /\ cq'["server"] = cq["server"]
        /\ Arrived("client")' <=> Arrived("client")
        /\ Arrived("server")' <=> Arrived("server")
        /\ OneRecv(cq["client"]) => OneRecv(cq'["client"])
    BY <1>1, <1>4, PollFacts DEF OthersQueue, Arrived
  <2>2. UNCHANGED <<posted, rq, qp>>
    BY <1>4 DEF PollCq
  <2>3. TypeOK'
    BY <1>2, <1>4, <2>1 DEF IInv, TypeOK, ClientPcs
  <2>4. ReceiveCredit'
    BY <1>1, <1>2, <1>4, <2>1, <2>2 DEF IInv, ReceiveCredit, Reposting
  <2>5. OnePlace' /\ Payloads' /\ LogsInOrder'
    BY <1>1, <1>2, <1>4, <2>1, <2>2, QuietStep DEF ClientHolds, ServerHolds, RcTypeOK
  <2>6. LoopCounter'
    BY <1>2, <1>4 DEF LoopCounter
  <2>7. QED
    BY <2>3, <2>4, <2>5, <2>6 DEF IInv
<1>5. QED
  BY <1>3, <1>4 DEF ClientPollRecv

LEMMA ClientRepostStep == IInv /\ ClientRepost => IInv'
<1> SUFFICES ASSUME IInv, ClientRepost PROVE IInv'
  OBVIOUS
<1>1. RcTypeOK /\ "client" \in Ends /\ "server" \in Ends /\ Ends = {"client", "server"}
  BY DEF IInv, TypeOK, Ends
<1>2. /\ cpc = "repost" /\ i' = i + 1 /\ PostRecv("client")
      /\ (cpc' = "send" /\ i + 1 < Count) \/ cpc' = "cleanup"
      /\ UNCHANGED <<clog, spc, n, slog, send_buff, recv_buff>>
  BY DEF ClientRepost, AfterNotify, serverVars
<1>3. /\ RcTypeOK' /\ cq'["server"] = cq["server"]
      /\ Arrived("client")' <=> Arrived("client")
      /\ Arrived("server")' <=> Arrived("server")
      /\ OneRecv(cq["client"]) => OneRecv(cq'["client"])
  BY <1>1, <1>2, PostFacts DEF OthersQueue, Arrived
<1>4. TypeOK'
  BY <1>2, <1>3 DEF IInv, TypeOK, ClientPcs
<1>5. ~Arrived("client") /\ rq["client"] = 0
  BY <1>1, <1>2 DEF IInv, OnePlace, ClientHolds, ReceiveCredit, Reposting, RcTypeOK
<1>6. ReceiveCredit'
  BY <1>1, <1>2, <1>3, <1>5 DEF IInv, ReceiveCredit, Reposting, PostRecv, RcTypeOK
<1>7. UNCHANGED posted
  BY <1>2 DEF PostRecv
<1>8. OnePlace' /\ Payloads' /\ LogsInOrder'
  BY <1>1, <1>2, <1>3, <1>7, QuietStep DEF ClientHolds, ServerHolds, RcTypeOK
<1>9. LoopCounter'
  BY <1>2 DEF IInv, LoopCounter
<1>10. QED
  BY <1>4, <1>6, <1>8, <1>9 DEF IInv

\* The teardown, the exits, and the loss of the connection.
LEMMA FlushStep ==
    ASSUME IInv, NEW e \in Ends, Flush(e),
           cpc' = cpc \/ (e = "client" /\ cpc' \in {"done", "died"}),
           spc' = spc \/ (e = "server" /\ spc' \in {"done", "died"}),
           UNCHANGED <<i, clog, n, slog, send_buff, recv_buff>>
    PROVE  IInv'
<1>1. RcTypeOK /\ Ends = {"client", "server"}
  BY DEF IInv, TypeOK, Ends
<1>2. /\ RcTypeOK'
      /\ \A o \in Ends : Arrived(o)' <=> Arrived(o)
      /\ \A o \in Ends : OneRecv(cq[o]) => OneRecv(cq'[o])
  BY <1>1, FlushFacts DEF OthersQueue, Arrived
<1>3. /\ qp' = [qp EXCEPT ![e] = "ERR"] /\ rq' = [rq EXCEPT ![e] = 0]
      /\ posted' = [posted EXCEPT ![e] = 0]
  BY DEF Flush
<1>4. TypeOK'
  BY <1>2 DEF IInv, TypeOK, ClientPcs, ServerPcs
<1>5. ReceiveCredit'
  BY <1>1, <1>2, <1>3 DEF IInv, ReceiveCredit, Reposting, RcTypeOK
<1>6. \A o \in Ends : posted'[o] <= posted[o]
  BY <1>1, <1>3 DEF RcTypeOK
<1>7. OnePlace' /\ Payloads' /\ LogsInOrder'
  BY <1>2, <1>6, QuietStep DEF ClientHolds, ServerHolds
<1>8. LoopCounter'
  BY DEF IInv, LoopCounter
<1>9. QED
  BY <1>4, <1>5, <1>7, <1>8 DEF IInv

LEMMA ServerEstablishedStep == IInv /\ ServerEstablished => IInv'
<1> SUFFICES ASSUME IInv, ServerEstablished PROVE IInv'
  OBVIOUS
<1>1. /\ spc = "accept" /\ spc' = "poll"
      /\ UNCHANGED <<rcVars, cpc, i, clog, n, slog, send_buff, recv_buff>>
  BY DEF ServerEstablished, clientVars
<1>2. UNCHANGED <<qp, posted, unacked, rq, cq>>
  BY <1>1 DEF rcVars
<1>3. RcTypeOK' /\ \A e \in Ends : Arrived(e)' <=> Arrived(e)
  BY <1>2 DEF IInv, TypeOK, RcTypeOK, Arrived
<1>4. TypeOK'
  BY <1>1, <1>3 DEF IInv, TypeOK, ServerPcs
<1>5. ReceiveCredit'
  BY <1>1, <1>2, <1>3 DEF IInv, ReceiveCredit, Reposting
<1>6. OnePlace' /\ Payloads' /\ LogsInOrder'
  BY <1>1, <1>2, <1>3, QuietStep DEF ClientHolds, ServerHolds, RcTypeOK
<1>7. LoopCounter'
  BY <1>1 DEF IInv, LoopCounter
<1>8. QED
  BY <1>4, <1>5, <1>6, <1>7 DEF IInv

LEMMA ServerPollRecvStep == IInv /\ ServerPollRecv => IInv'
<1> SUFFICES ASSUME IInv, ServerPollRecv PROVE IInv'
  OBVIOUS
<1>1. RcTypeOK /\ "client" \in Ends /\ "server" \in Ends /\ Ends = {"client", "server"}
  BY DEF IInv, TypeOK, Ends
<1>2. /\ spc = "poll" /\ spc' = "repost" /\ PollCq("server", "RECV")
      /\ slog' = Append(slog, recv_buff["server"])
      /\ send_buff' = [send_buff EXCEPT !["server"] = recv_buff["server"]]
      /\ UNCHANGED <<cpc, i, clog, n, recv_buff>>
  BY DEF ServerPollRecv, clientVars
<1>3. /\ RcTypeOK' /\ cq'["client"] = cq["client"]
      /\ Arrived("server") /\ ~Arrived("server")'
      /\ Arrived("client")' <=> Arrived("client")
      /\ OneRecv(cq["server"]) => OneRecv(cq'["server"])
  BY <1>1, <1>2, PollFacts DEF OthersQueue, Arrived, IInv, ReceiveCredit
<1>4. UNCHANGED <<posted, rq, qp>>
  BY <1>2 DEF PollCq
<1>5. /\ recv_buff["server"] = Len(slog) /\ Len(slog) = Len(clog)
      /\ slog \in Seq(Nat) /\ send_buff \in [Ends -> Nat]
  BY <1>3 DEF IInv, TypeOK, Payloads
<1>6. /\ slog' \in Seq(Nat) /\ Len(slog') = Len(slog) + 1
      /\ \A k \in 1..Len(slog) : slog'[k] = slog[k]
      /\ slog'[Len(slog) + 1] = Len(slog)
  BY <1>2, <1>5
<1>7. send_buff' \in [Ends -> Nat] /\ send_buff'["server"] = Len(clog)
  BY <1>1, <1>2, <1>5
<1>8. TypeOK'
  BY <1>2, <1>3, <1>6, <1>7 DEF IInv, TypeOK, ServerPcs
<1>9. ReceiveCredit'
  BY <1>1, <1>2, <1>3, <1>4 DEF IInv, ReceiveCredit, Reposting
<1>10. OnePlace'
  BY <1>1, <1>2, <1>3, <1>4 DEF IInv, OnePlace, ClientHolds, ServerHolds, RcTypeOK
<1>11. Payloads'
  BY <1>1, <1>2, <1>3, <1>4, <1>5, <1>6, <1>7
  DEF IInv, OnePlace, Payloads, ClientHolds, ServerHolds
<1>12. LoopCounter' /\ LogsInOrder'
  BY <1>2, <1>5, <1>6 DEF IInv, LoopCounter, LogsInOrder
<1>13. QED
  BY <1>8, <1>9, <1>10, <1>11, <1>12 DEF IInv

LEMMA ServerPollSendStep == IInv /\ ServerPollSend => IInv'
<1> SUFFICES ASSUME IInv, ServerPollSend PROVE IInv'
  OBVIOUS
<1>1. RcTypeOK /\ "client" \in Ends /\ "server" \in Ends /\ Ends = {"client", "server"}
  BY DEF IInv, TypeOK, Ends
<1>2. PICK wc \in {"SEND", "ERR"} : PollCq("server", wc)
  BY DEF ServerPollSend
<1>3. /\ spc = "poll" /\ spc' \in {"poll", "cleanup"} /\ n' \in Nat
      /\ UNCHANGED <<cpc, i, clog, slog, send_buff, recv_buff>>
  BY DEF ServerPollSend, AfterNotify, clientVars, IInv, TypeOK
<1>4. /\ RcTypeOK' /\ cq'["client"] = cq["client"]
      /\ Arrived("client")' <=> Arrived("client")
      /\ Arrived("server")' <=> Arrived("server")
      /\ OneRecv(cq["server"]) => OneRecv(cq'["server"])
  BY <1>1, <1>2, PollFacts DEF OthersQueue, Arrived
<1>5. UNCHANGED <<posted, rq, qp>>
  BY <1>2 DEF PollCq
<1>6. TypeOK'
  BY <1>3, <1>4 DEF IInv, TypeOK, ServerPcs
<1>7. ReceiveCredit'
  BY <1>1, <1>3, <1>4, <1>5 DEF IInv, ReceiveCredit, Reposting
<1>8. OnePlace' /\ Payloads' /\ LogsInOrder'
  BY <1>1, <1>3, <1>4, <1>5, QuietStep DEF ClientHolds, ServerHolds, RcTypeOK
<1>9. LoopCounter'
  BY <1>3 DEF IInv, LoopCounter
<1>10. QED
  BY <1>6, <1>7, <1>8, <1>9 DEF IInv

LEMMA ServerRepostStep == IInv /\ ServerRepost => IInv'
<1> SUFFICES ASSUME IInv, ServerRepost PROVE IInv'
  OBVIOUS
<1>1. RcTypeOK /\ "client" \in Ends /\ "server" \in Ends /\ Ends = {"client", "server"}
  BY DEF IInv, TypeOK, Ends
<1>2. /\ spc = "repost" /\ spc' = "reply" /\ PostRecv("server")
      /\ UNCHANGED <<cpc, i, clog, n, slog, send_buff, recv_buff>>
  BY DEF ServerRepost, clientVars
<1>3. /\ RcTypeOK' /\ cq'["client"] = cq["client"]
      /\ Arrived("client")' <=> Arrived("client")
      /\ Arrived("server")' <=> Arrived("server")
      /\ OneRecv(cq["server"]) => OneRecv(cq'["server"])
  BY <1>1, <1>2, PostFacts DEF OthersQueue, Arrived
<1>4. TypeOK'
  BY <1>2, <1>3 DEF IInv, TypeOK, ServerPcs
<1>5. ~Arrived("server") /\ rq["server"] = 0
  BY <1>1, <1>2 DEF IInv, ReceiveCredit, Reposting, RcTypeOK
<1>6. ReceiveCredit'
  BY <1>1, <1>2, <1>3, <1>5 DEF IInv, ReceiveCredit, Reposting, PostRecv, RcTypeOK
<1>7. UNCHANGED posted
  BY <1>2 DEF PostRecv
<1>8. OnePlace' /\ Payloads' /\ LogsInOrder'
  BY <1>1, <1>2, <1>3, <1>7, QuietStep DEF ClientHolds, ServerHolds, RcTypeOK
<1>9. LoopCounter'
  BY <1>2 DEF IInv, LoopCounter
<1>10. QED
  BY <1>4, <1>6, <1>8, <1>9 DEF IInv

LEMMA ServerReplyStep == IInv /\ ServerReply => IInv'
<1> SUFFICES ASSUME IInv, ServerReply PROVE IInv'
  OBVIOUS
<1>1. RcTypeOK /\ "client" \in Ends /\ "server" \in Ends /\ Ends = {"client", "server"}
  BY DEF IInv, TypeOK, Ends
<1>2. /\ spc = "reply" /\ spc' \in {"poll", "cleanup"} /\ PostSend("server")
      /\ UNCHANGED <<cpc, i, clog, n, slog, send_buff, recv_buff>>
  BY DEF ServerReply, AfterNotify, clientVars
<1>3. /\ RcTypeOK' /\ cq'["client"] = cq["client"]
      /\ Arrived("client")' <=> Arrived("client")
      /\ Arrived("server")' <=> Arrived("server")
      /\ OneRecv(cq["server"]) => OneRecv(cq'["server"])
  BY <1>1, <1>2, PostFacts DEF OthersQueue, Arrived
<1>4. TypeOK'
  BY <1>2, <1>3 DEF IInv, TypeOK, ServerPcs
<1>5. UNCHANGED <<rq, qp>>
  BY <1>2 DEF PostSend
<1>6. ReceiveCredit'
  BY <1>1, <1>2, <1>3, <1>5 DEF IInv, ReceiveCredit, Reposting
<1>7. /\ posted["server"] = 0 /\ posted["client"] \in {0, 1}
      /\ posted'["server"] \in {0, 1} /\ posted'["client"] = posted["client"]
  BY <1>1, <1>2 DEF IInv, OnePlace, RcTypeOK, PostSend, ServerHolds
<1>8. OnePlace'
  BY <1>2, <1>3, <1>7 DEF IInv, OnePlace, ClientHolds, ServerHolds
<1>9. Payloads'
  BY <1>2, <1>3, <1>7 DEF IInv, OnePlace, Payloads, ClientHolds, ServerHolds
<1>10. LoopCounter' /\ LogsInOrder'
  BY <1>2 DEF IInv, LoopCounter, LogsInOrder
<1>11. QED
  BY <1>4, <1>6, <1>8, <1>9, <1>10 DEF IInv

LEMMA DeliverStep == ASSUME NEW e \in Ends, IInv, DeliverMessage(e) PROVE IInv'
<1>1. RcTypeOK /\ Ends = {"client", "server"}
  BY DEF IInv, TypeOK, Ends
<1>2. Peer(e) \in Ends /\ e # Peer(e)
  BY <1>1 DEF Peer
<1>3. /\ Deliver(e) /\ recv_buff' = [recv_buff EXCEPT ![Peer(e)] = send_buff[e]]
      /\ UNCHANGED <<cpc, i, clog, spc, n, slog, send_buff>>
  BY DEF DeliverMessage, clientVars, serverVars
<1>4. /\ posted[e] = 1 /\ rq[Peer(e)] > 0
      /\ posted' = [posted EXCEPT ![e] = @ - 1]
      /\ rq' = [rq EXCEPT ![Peer(e)] = @ - 1]
      /\ UNCHANGED qp
  BY <1>1, <1>3 DEF Deliver, IInv, OnePlace, RcTypeOK
<1>5. ~Arrived(Peer(e)) /\ ~Reposting(Peer(e)) /\ rq[Peer(e)] = 1
  BY <1>1, <1>2, <1>4 DEF IInv, ReceiveCredit, RcTypeOK
<1>6. /\ RcTypeOK' /\ Arrived(Peer(e))'
      /\ \A o \in Ends : o # Peer(e) => (Arrived(o)' <=> Arrived(o))
      /\ \A o \in Ends : OneRecv(cq'[o])
  BY <1>1, <1>2, <1>3, <1>5, DeliverFacts
  DEF OthersQueue, Arrived, IInv, ReceiveCredit
<1>7. TypeOK'
  BY <1>2, <1>3, <1>6 DEF IInv, TypeOK
<1>8. ReceiveCredit'
  BY <1>1, <1>2, <1>3, <1>4, <1>5, <1>6
  DEF IInv, ReceiveCredit, Reposting, RcTypeOK
<1>9. ASSUME e = "client" PROVE OnePlace' /\ Payloads'
  <2>1. /\ Arrived("server")'
        /\ Arrived("client")' <=> Arrived("client")
        /\ posted["client"] = 1 /\ posted'["client"] = 0
        /\ posted'["server"] = posted["server"]
        /\ recv_buff'["server"] = send_buff["client"]
        /\ recv_buff'["client"] = recv_buff["client"]
    BY <1>1, <1>3, <1>4, <1>6, <1>9 DEF Peer, RcTypeOK, IInv, TypeOK
  <2>2. OnePlace' /\ Payloads'
    BY <1>3, <2>1 DEF IInv, OnePlace, Payloads, ClientHolds, ServerHolds
  <2>3. QED
    BY <2>2
<1>10. ASSUME e = "server" PROVE OnePlace' /\ Payloads'
  <2>1. /\ Arrived("client")'
        /\ Arrived("server")' <=> Arrived("server")
        /\ posted["server"] = 1 /\ posted'["server"] = 0
        /\ posted'["client"] = posted["client"]
        /\ recv_buff'["client"] = send_buff["server"]
        /\ recv_buff'["server"] = recv_buff["server"]
    BY <1>1, <1>3, <1>4, <1>6, <1>10 DEF Peer, RcTypeOK, IInv, TypeOK
  <2>2. posted["client"] = 0
    BY <1>1, <2>1 DEF IInv, OnePlace, RcTypeOK
  <2>3. OnePlace' /\ Payloads'
    BY <1>3, <2>1, <2>2 DEF IInv, OnePlace, Payloads, ClientHolds, ServerHolds
  <2>4. QED
    BY <2>3
<1>11. LoopCounter' /\ LogsInOrder'
  BY <1>3 DEF IInv, LoopCounter, LogsInOrder
<1>12. OnePlace' /\ Payloads'
  BY <1>1, <1>9, <1>10
<1>13. QED
  BY <1>7, <1>8, <1>11, <1>12 DEF IInv

LEMMA AcknowledgeStep ==
    ASSUME NEW e \in Ends, IInv, AcknowledgeMessage(e) PROVE IInv'
<1>1. RcTypeOK /\ Ends = {"client", "server"}
  BY DEF IInv, TypeOK, Ends
<1>2. Acknowledge(e) /\ UNCHANGED <<cpc, i, clog, spc, n, slog, send_buff, recv_buff>>
  BY DEF AcknowledgeMessage, clientVars, serverVars
<1>3. /\ RcTypeOK'
      /\ \A o \in Ends : Arrived(o)' <=> Arrived(o)
      /\ \A o \in Ends : OneRecv(cq[o]) => OneRecv(cq'[o])
  BY <1>1, <1>2, AcknowledgeFacts DEF OthersQueue, Arrived
<1>4. UNCHANGED <<qp, posted, rq>>
  BY <1>2 DEF Acknowledge
<1>5. TypeOK'
  BY <1>2, <1>3 DEF IInv, TypeOK
<1>6. ReceiveCredit'
  BY <1>2, <1>3, <1>4 DEF IInv, ReceiveCredit, Reposting
<1>7. OnePlace' /\ Payloads' /\ LogsInOrder'
  BY <1>2, <1>3, <1>4, QuietStep DEF ClientHolds, ServerHolds, RcTypeOK
<1>8. LoopCounter'
  BY <1>2 DEF IInv, LoopCounter
<1>9. QED
  BY <1>5, <1>6, <1>7, <1>8 DEF IInv

LEMMA StutterStep == IInv /\ UNCHANGED vars => IInv'
<1> SUFFICES ASSUME IInv, UNCHANGED vars PROVE IInv'
  OBVIOUS
<1>1. UNCHANGED <<qp, posted, unacked, rq, cq, cpc, i, clog, spc, n, slog,
                  send_buff, recv_buff>>
  BY DEF vars, rcVars, clientVars, serverVars
<1>2. \A e \in Ends : Arrived(e)' <=> Arrived(e)
  BY <1>1 DEF Arrived
<1>3. TypeOK'
  BY <1>1 DEF IInv, TypeOK, RcTypeOK
<1>4. ReceiveCredit'
  BY <1>1, <1>2 DEF IInv, ReceiveCredit, Reposting
<1>5. OnePlace' /\ Payloads' /\ LogsInOrder'
  BY <1>1, <1>2, <1>3, QuietStep DEF ClientHolds, ServerHolds, RcTypeOK, TypeOK
<1>6. LoopCounter'
  BY <1>1 DEF IInv, LoopCounter
<1>7. QED
  BY <1>3, <1>4, <1>5, <1>6 DEF IInv

LEMMA ClientFlushStep ==
    ASSUME IInv, Flush("client"), cpc' \in {"done", "died"}, spc' = spc,
           UNCHANGED <<i, clog, n, slog, send_buff, recv_buff>>
    PROVE  IInv'
<1>1. "client" \in Ends
  BY DEF Ends
<1>2. QED
  BY <1>1, FlushStep

LEMMA ServerFlushStep ==
    ASSUME IInv, Flush("server"), spc' \in {"done", "died"}, cpc' = cpc,
           UNCHANGED <<i, clog, n, slog, send_buff, recv_buff>>
    PROVE  IInv'
<1>1. "server" \in Ends
  BY DEF Ends
<1>2. QED
  BY <1>1, FlushStep

LEMMA NextIInv == IInv /\ [Next]_vars => IInv'
<1> SUFFICES ASSUME IInv, [Next]_vars PROVE IInv'
  OBVIOUS
<1>1. CASE ClientCleanup \/ ClientUnexpectedOpcode \/ ClientDie
  <2>1. /\ Flush("client") /\ cpc' \in {"done", "died"} /\ spc' = spc
        /\ UNCHANGED <<i, clog, n, slog, send_buff, recv_buff>>
    BY <1>1 DEF ClientCleanup, ClientUnexpectedOpcode, ClientDie, ClientExit, serverVars
  <2>2. QED
    BY <2>1, ClientFlushStep
<1>2. CASE ServerCleanup \/ ServerDie
  <2>1. /\ Flush("server") /\ spc' \in {"done", "died"} /\ cpc' = cpc
        /\ UNCHANGED <<i, clog, n, slog, send_buff, recv_buff>>
    BY <1>2 DEF ServerCleanup, ServerDie, clientVars
  <2>2. QED
    BY <2>1, ServerFlushStep
<1>3. ASSUME NEW e \in Ends, LoseConnection(e) PROVE IInv'
  <2>1. /\ Flush(e) /\ cpc' = cpc /\ spc' = spc
        /\ UNCHANGED <<i, clog, n, slog, send_buff, recv_buff>>
    BY <1>3 DEF LoseConnection, RetryExceeded, clientVars, serverVars
  <2>2. QED
    BY <2>1, FlushStep
<1>4. CASE Client
  BY <1>1, <1>4, ClientSendStep, ClientPollSendStep, ClientPollRecvStep,
     ClientRepostStep DEF Client
<1>5. CASE Server
  BY <1>2, <1>5, ServerEstablishedStep, ServerPollRecvStep, ServerPollSendStep,
     ServerRepostStep, ServerReplyStep DEF Server
<1>6. CASE \E e \in Ends :
              DeliverMessage(e) \/ AcknowledgeMessage(e) \/ LoseConnection(e)
  BY <1>3, <1>6, DeliverStep, AcknowledgeStep
<1>7. CASE Terminated \/ UNCHANGED vars
  BY <1>7, StutterStep DEF Terminated
<1>8. QED
  BY <1>1, <1>2, <1>4, <1>5, <1>6, <1>7 DEF Next

\* The inductive invariant of both programs' loops: where the one message is,
\* and what the buffers, counters and logs then hold (rdmacm03/client.c:61-106,
\* server.c:53-87).
THEOREM Invariance == Spec => []IInv
BY InitIInv, NextIInv, PTL DEF Spec

\* The types of the variables, for every Count.
THEOREM TypeCorrect == Spec => []TypeOK
<1>1. IInv => TypeOK
  BY DEF IInv
<1>2. QED
  BY <1>1, Invariance, PTL

\* At each end the single receive request is posted, completed, or with the
\* program, and never in two of these places (server.c:66-70, client.c:93-96).
THEOREM ReceiveCreditHeld == Spec => []ReceiveCredit
<1>1. IInv => ReceiveCredit
  BY DEF IInv
<1>2. QED
  BY <1>1, Invariance, PTL

(***************************************************************************)
(* The send buffers.  When no acknowledgement is lost a message that has   *)
(* arrived, or that a program holds, leaves nothing unacknowledged behind  *)
(* it at that end.                                                         *)
(***************************************************************************)
AcksInOrder ==
    ~AcksLost =>
        /\ Arrived("client") \/ ClientHolds => unacked["client"] = 0
        /\ Arrived("server") \/ ServerHolds => unacked["server"] = 0

LEMMA InitAcks == Init => AcksInOrder
BY DEF Init, AcksInOrder, Ends

LEMMA NextAcks == IInv /\ IInv' /\ AcksInOrder /\ [Next]_vars => AcksInOrder'
<1> SUFFICES ASSUME IInv, IInv', AcksInOrder, [Next]_vars PROVE AcksInOrder'
  OBVIOUS
<1>1. RcTypeOK /\ RcTypeOK' /\ "client" \in Ends /\ "server" \in Ends
      /\ Ends = {"client", "server"}
  BY DEF IInv, TypeOK, Ends
<1>2. ASSUME \A e \in Ends : unacked'[e] = unacked[e] /\ (Arrived(e)' => Arrived(e)),
             ClientHolds' => ClientHolds \/ Arrived("client"),
             ServerHolds' => ServerHolds \/ Arrived("server")
      PROVE  AcksInOrder'
  BY <1>1, <1>2 DEF AcksInOrder
<1>3. ASSUME NEW e \in Ends, Flush(e),
             ClientHolds' => ClientHolds, ServerHolds' => ServerHolds
      PROVE  AcksInOrder'
  <2>1. \A o \in Ends : unacked'[o] \in {0, unacked[o]} /\ (Arrived(o)' => Arrived(o))
    BY <1>1, <1>3, FlushFacts DEF Flush, RcTypeOK, OthersQueue, Arrived
  <2>2. QED
    BY <1>1, <1>3, <2>1 DEF AcksInOrder
<1>4. CASE Client
  <2>1. ASSUME PostSend("client") \/ PostRecv("client")
        PROVE  \A e \in Ends : unacked'[e] = unacked[e] /\ (Arrived(e)' => Arrived(e))
    <3>1. UNCHANGED unacked
      BY <2>1 DEF PostSend, PostRecv
    <3>2. QED
      BY <1>1, <2>1, <3>1, PostFacts DEF OthersQueue, Arrived
  <2>2. ASSUME NEW wc, PollCq("client", wc)
        PROVE  \A e \in Ends : unacked'[e] = unacked[e] /\ (Arrived(e)' => Arrived(e))
    <3>1. UNCHANGED unacked
      BY <2>2 DEF PollCq
    <3>2. QED
      BY <1>1, <2>2, <3>1, PollFacts DEF OthersQueue, Arrived
  <2>3. CASE ClientSend
    BY <1>2, <2>1, <2>3 DEF ClientSend, ClientHolds, ServerHolds, serverVars
  <2>4. CASE ClientPollSend
    BY <1>2, <2>2, <2>4 DEF ClientPollSend, AfterNotify, ClientHolds, ServerHolds, serverVars
  <2>5. CASE ClientPollRecv
    <3>1. PollCq("client", "RECV") => Arrived("client")
      BY <1>1, PollFacts
    <3>2. QED
      BY <1>2, <2>2, <2>5, <3>1 DEF ClientPollRecv, ClientHolds, ServerHolds, serverVars
  <2>6. CASE ClientRepost
    BY <1>2, <2>1, <2>6 DEF ClientRepost, AfterNotify, ClientHolds, ServerHolds, serverVars
  <2>7. CASE ClientCleanup \/ ClientUnexpectedOpcode
    <3>1. Flush("client") /\ ~ClientHolds' /\ (ServerHolds' <=> ServerHolds)
      BY <2>7 DEF ClientCleanup, ClientUnexpectedOpcode, ClientExit, serverVars,
                  ClientHolds, ServerHolds
    <3>2. QED
      BY <1>1, <1>3, <3>1
  <2>8. QED
    BY <1>4, <2>3, <2>4, <2>5, <2>6, <2>7 DEF Client
<1>5. CASE Server
  <2>1. ASSUME PostSend("server") \/ PostRecv("server")
        PROVE  \A e \in Ends : unacked'[e] = unacked[e] /\ (Arrived(e)' => Arrived(e))
    <3>1. UNCHANGED unacked
      BY <2>1 DEF PostSend, PostRecv
    <3>2. QED
      BY <1>1, <2>1, <3>1, PostFacts DEF OthersQueue, Arrived
  <2>2. ASSUME NEW wc, PollCq("server", wc)
        PROVE  \A e \in Ends : unacked'[e] = unacked[e] /\ (Arrived(e)' => Arrived(e))
    <3>1. UNCHANGED unacked
      BY <2>2 DEF PollCq
    <3>2. QED
      BY <1>1, <2>2, <3>1, PollFacts DEF OthersQueue, Arrived
  <2>3. CASE ServerEstablished
    <3>1. UNCHANGED <<unacked, cq, cpc>> /\ ~ServerHolds'
      BY <2>3 DEF ServerEstablished, ServerHolds, rcVars, clientVars
    <3>2. QED
      BY <1>2, <3>1 DEF ClientHolds, Arrived
  <2>4. CASE ServerPollRecv
    <3>1. Arrived("server")
      BY <1>1, <2>4, PollFacts DEF ServerPollRecv
    <3>2. QED
      BY <1>2, <2>2, <2>4, <3>1 DEF ServerPollRecv, ClientHolds, clientVars
  <2>5. CASE ServerPollSend
    BY <1>2, <2>2, <2>5 DEF ServerPollSend, AfterNotify, ClientHolds, ServerHolds, clientVars
  <2>6. CASE ServerRepost
    BY <1>2, <2>1, <2>6 DEF ServerRepost, ClientHolds, ServerHolds, clientVars
  <2>7. CASE ServerReply
    BY <1>2, <2>1, <2>7 DEF ServerReply, AfterNotify, ClientHolds, ServerHolds, clientVars
  <2>8. CASE ServerCleanup
    <3>1. Flush("server") /\ ~ServerHolds' /\ (ClientHolds' <=> ClientHolds)
      BY <2>8 DEF ServerCleanup, clientVars, ClientHolds, ServerHolds
    <3>2. QED
      BY <1>1, <1>3, <3>1
  <2>9. QED
    BY <1>5, <2>3, <2>4, <2>5, <2>6, <2>7, <2>8 DEF Server
<1>6. CASE ClientDie
  <2>1. Flush("client") /\ ~ClientHolds' /\ (ServerHolds' <=> ServerHolds)
    BY <1>6 DEF ClientDie, ClientExit, serverVars, ClientHolds, ServerHolds
  <2>2. QED
    BY <1>1, <1>3, <2>1
<1>7. CASE ServerDie
  <2>1. Flush("server") /\ ~ServerHolds' /\ (ClientHolds' <=> ClientHolds)
    BY <1>7 DEF ServerDie, clientVars, ClientHolds, ServerHolds
  <2>2. QED
    BY <1>1, <1>3, <2>1
<1>8. ASSUME NEW e \in Ends,
             DeliverMessage(e) \/ AcknowledgeMessage(e) \/ LoseConnection(e)
      PROVE  AcksInOrder'
  <2>1. (ClientHolds' <=> ClientHolds) /\ (ServerHolds' <=> ServerHolds)
    BY <1>8 DEF DeliverMessage, AcknowledgeMessage, LoseConnection, clientVars,
                serverVars, ClientHolds, ServerHolds
  <2>2. CASE LoseConnection(e)
    BY <1>3, <2>1, <2>2 DEF LoseConnection, RetryExceeded
  <2>3. CASE AcknowledgeMessage(e)
    <3>1. Acknowledge(e)
      BY <2>3 DEF AcknowledgeMessage
    <3>2. \A o \in Ends : Arrived(o)' => Arrived(o)
      BY <1>1, <3>1, AcknowledgeFacts DEF OthersQueue, Arrived
    <3>3. \A o \in Ends : unacked[o] = 0 => unacked'[o] = 0
      BY <1>1, <3>1 DEF Acknowledge, RcTypeOK
    <3>4. QED
      BY <1>1, <2>1, <3>2, <3>3 DEF AcksInOrder
  <2>4. CASE DeliverMessage(e)
    <3>1. /\ Deliver(e) /\ posted[e] = 1 /\ (AcksLost \/ unacked[Peer(e)] = 0)
          /\ unacked' = [unacked EXCEPT ![e] = @ + 1]
      BY <1>1, <2>4 DEF DeliverMessage, Deliver, IInv, OnePlace, RcTypeOK
    <3>2. Peer(e) \in Ends /\ e # Peer(e) /\ (e = "client" <=> Peer(e) = "server")
      BY <1>1 DEF Peer
    <3>3. Arrived(e)' => Arrived(e)
      BY <1>1, <3>1, <3>2, DeliverFacts DEF OthersQueue, Arrived
    <3>4. CASE e = "client"
      <4>1. ~Arrived("client") /\ ~ClientHolds
        BY <3>1, <3>4 DEF IInv, OnePlace
      <4>2. AcksLost \/ unacked'["server"] = 0
        BY <1>1, <3>1, <3>2, <3>4 DEF RcTypeOK
      <4>3. QED
        BY <2>1, <3>3, <3>4, <4>1, <4>2 DEF AcksInOrder
    <3>5. CASE e = "server"
      <4>1. ~Arrived("server") /\ ~ServerHolds
        BY <1>1, <3>1, <3>5 DEF IInv, OnePlace
      <4>2. AcksLost \/ unacked'["client"] = 0
        BY <1>1, <3>1, <3>2, <3>5 DEF RcTypeOK
      <4>3. QED
        BY <2>1, <3>3, <3>5, <4>1, <4>2 DEF AcksInOrder
    <3>6. QED
      BY <1>1, <3>4, <3>5
  <2>5. QED
    BY <1>8, <2>2, <2>3, <2>4
<1>9. CASE Terminated \/ UNCHANGED vars
  BY <1>2, <1>9 DEF Terminated, vars, rcVars, clientVars, serverVars, Arrived,
     ClientHolds, ServerHolds
<1>10. QED
  BY <1>4, <1>5, <1>6, <1>7, <1>8, <1>9 DEF Next

\* Neither program writes its send buffer while a send from it is
\* undelivered, nor, unless acknowledgements can be lost, unacknowledged
\* (client.c:62-67, server.c:66-72).
THEOREM SendBufferSafe == Spec => SendBufferOwned
<1>1. ASSUME IInv, AcksInOrder, [Next]_vars, NEW e \in Ends,
             send_buff'[e] # send_buff[e]
      PROVE  posted[e] = 0 /\ (AcksLost \/ unacked[e] = 0)
  <2>1. \/ e = "client" /\ ClientHolds
        \/ e = "server" /\ Arrived("server")
    <3>1. "server" \in Ends /\ RcTypeOK /\ send_buff \in [Ends -> Nat]
      BY <1>1 DEF Ends, IInv, TypeOK
    <3>2. CASE ClientSend
      <4>1. e = "client"
        BY <1>1, <3>1, <3>2 DEF ClientSend
      <4>2. ClientHolds
        BY <3>2 DEF ClientSend, ClientHolds
      <4>3. QED
        BY <4>1, <4>2
    <3>3. CASE ServerPollRecv
      <4>1. e = "server"
        BY <1>1, <3>1, <3>3 DEF ServerPollRecv
      <4>2. Arrived("server")
        BY <3>1, <3>3, PollFacts DEF ServerPollRecv
      <4>3. QED
        BY <4>1, <4>2
    <3>4. QED
      BY <1>1, <3>2, <3>3
      DEF Next, Client, ClientPollSend, ClientPollRecv, ClientRepost, ClientCleanup,
          ClientUnexpectedOpcode, ClientExit, ClientDie, Server, ServerEstablished,
          ServerPollSend, ServerRepost, ServerReply, ServerCleanup, ServerDie,
          DeliverMessage, AcknowledgeMessage, LoseConnection, Terminated, vars
  <2>2. CASE e = "client" /\ ClientHolds
    BY <1>1, <2>2 DEF IInv, OnePlace, AcksInOrder
  <2>3. CASE e = "server" /\ Arrived("server")
    BY <1>1, <2>3 DEF IInv, OnePlace, AcksInOrder
  <2>4. QED
    BY <2>1, <2>2, <2>3
<1>2. IInv /\ AcksInOrder /\ [Next]_vars =>
         [\A e \in Ends :
             send_buff'[e] # send_buff[e] =>
                 posted[e] = 0 /\ (AcksLost \/ unacked[e] = 0)]_vars
  BY <1>1
<1>3. QED
  BY <1>2, Invariance, InitAcks, NextAcks, PTL DEF Spec, SendBufferOwned

(***************************************************************************)
(* The two logs implement the echo channel.                                *)
(***************************************************************************)
LEMMA StepImplements ==
    ASSUME IInv, [Next]_vars
    PROVE  [Echo!Next]_(Echo!vars)
<1>1. RcTypeOK /\ "client" \in Ends /\ "server" \in Ends
  BY DEF IInv, TypeOK, Ends
<1>2. CASE ServerPollRecv
  <2>1. Arrived("server")
    BY <1>1, <1>2, PollFacts DEF ServerPollRecv
  <2>2. Len(slog) = Len(clog) /\ Len(slog) < Count /\ recv_buff["server"] = Len(slog)
    BY <2>1 DEF IInv, Payloads
  <2>3. slog' = Append(slog, Len(slog)) /\ clog' = clog
    BY <1>2, <2>2 DEF ServerPollRecv, clientVars
  <2>4. Echo!Serve
    BY <2>2, <2>3 DEF Echo!Serve
  <2>5. QED
    BY <2>4 DEF Echo!Next
<1>3. CASE ClientPollRecv /\ clog' # clog
  <2>1. Arrived("client") /\ clog' = Append(clog, recv_buff["client"]) /\ slog' = slog
    BY <1>1, <1>3, PollFacts DEF ClientPollRecv, serverVars
  <2>2. Len(slog) = Len(clog) + 1 /\ recv_buff["client"] = Len(clog)
    BY <2>1 DEF IInv, Payloads
  <2>3. Len(clog) \in Nat /\ slog[Len(clog) + 1] = Len(clog)
    <3>1. Len(clog) \in Nat /\ Len(slog) \in Nat
      BY DEF IInv, TypeOK
    <3>2. Len(clog) + 1 \in 1..Len(slog)
      BY <2>2, <3>1
    <3>3. \A k \in 1..Len(slog) : slog[k] = k - 1
      BY DEF IInv, LogsInOrder
    <3>4. slog[Len(clog) + 1] = Len(clog)
      BY <3>1, <3>2, <3>3
    <3>5. QED
      BY <3>1, <3>4
  <2>4. Echo!Answer
    BY <2>1, <2>2, <2>3 DEF Echo!Answer
  <2>5. QED
    BY <2>4 DEF Echo!Next
<1>4. CASE ClientPollRecv /\ clog' = clog
  BY <1>4 DEF ClientPollRecv, serverVars, Echo!vars
<1>5. CASE ~ServerPollRecv /\ ~ClientPollRecv
  <2>1. UNCHANGED <<slog, clog>>
    BY <1>5 DEF Next, Client, ClientSend, ClientPollSend, ClientRepost, ClientCleanup,
       ClientUnexpectedOpcode, ClientExit, ClientDie, Server, ServerEstablished,
       ServerPollSend, ServerRepost, ServerReply, ServerCleanup, ServerDie,
       DeliverMessage, AcknowledgeMessage, LoseConnection, Terminated, vars,
       clientVars, serverVars
  <2>2. QED
    BY <2>1 DEF Echo!vars
<1>6. QED
  BY <1>2, <1>3, <1>4, <1>5

\* Whatever is lost or fails, the server prints the client's messages in
\* order and once, and the client prints the echo of each before the server
\* prints the next.
THEOREM Implementation == Spec => ImplementsEcho
<1>1. Init => Echo!Init
  BY DEF Init, Echo!Init
<1>2. QED
  BY <1>1, StepImplements, Invariance, PTL DEF Spec, ImplementsEcho, Echo!Spec

(***************************************************************************)
(* How many sends a queue holds.                                           *)
(***************************************************************************)
NoErrors(q) == \A k \in 1..Len(q) : q[k] # "ERR"

LEMMA SendsFinite ==
    ASSUME NEW q \in Seq(WorkCompletions)
    PROVE  /\ IsFiniteSet(Sends(q)) /\ Cardinality(Sends(q)) \in Nat
           /\ Cardinality(Sends(q)) = 0 <=> Sends(q) = {}
<1>1. Len(q) \in Nat /\ IsFiniteSet(1..Len(q))
  BY FS_Interval
<1>2. Sends(q) \subseteq 1..Len(q)
  BY DEF Sends
<1>3. IsFiniteSet(Sends(q))
  BY <1>1, <1>2, FS_Subset
<1>4. QED
  BY <1>3, FS_CardinalityType, FS_EmptySet

LEMMA SendsAppend ==
    ASSUME NEW q \in Seq(WorkCompletions), NEW wc \in WorkCompletions
    PROVE  /\ Cardinality(Sends(Append(q, wc)))
                = Cardinality(Sends(q)) + (IF wc = "SEND" THEN 1 ELSE 0)
           /\ wc # "SEND" => Sends(Append(q, wc)) = Sends(q)
           /\ wc = "SEND" => Sends(Append(q, wc)) = Sends(q) \union {Len(q) + 1}
           /\ NoErrors(q) /\ wc # "ERR" => NoErrors(Append(q, wc))
<1> DEFINE r == Append(q, wc)
<1>1. /\ Len(q) \in Nat /\ Len(r) = Len(q) + 1 /\ r[Len(q) + 1] = wc
      /\ \A k \in 1..Len(q) : r[k] = q[k]
  OBVIOUS
<1> HIDE DEF r
<1>2. 1..Len(r) = (1..Len(q)) \union {Len(q) + 1}
  BY <1>1
<1>3. IsFiniteSet(Sends(q)) /\ Cardinality(Sends(q)) \in Nat /\ Len(q) + 1 \notin Sends(q)
  BY <1>1, SendsFinite DEF Sends
<1>4. CASE wc = "SEND"
  <2>1. Sends(r) = Sends(q) \union {Len(q) + 1}
    BY <1>1, <1>2, <1>4 DEF Sends
  <2>2. QED
    BY <1>1, <1>2, <1>3, <1>4, <2>1, FS_AddElement DEF NoErrors, r
<1>5. CASE wc # "SEND"
  <2>1. Sends(r) = Sends(q)
    BY <1>1, <1>2, <1>5 DEF Sends
  <2>2. QED
    BY <1>1, <1>2, <1>3, <1>5, <2>1 DEF NoErrors, r
<1>6. QED
  BY <1>4, <1>5

LEMMA SendsTail ==
    ASSUME NEW q \in Seq(WorkCompletions), q # <<>>
    PROVE  /\ Cardinality(Sends(q))
                = Cardinality(Sends(Tail(q))) + (IF Head(q) = "SEND" THEN 1 ELSE 0)
           /\ \A k \in Sends(Tail(q)) : k + 1 \in Sends(q)
           /\ NoErrors(q) => NoErrors(Tail(q)) /\ Head(q) # "ERR"
<1> DEFINE t == Tail(q)
<1>1. /\ t \in Seq(WorkCompletions) /\ Len(q) \in Nat /\ Len(t) \in Nat
      /\ Len(q) = Len(t) + 1
      /\ \A k \in 1..Len(t) : t[k] = q[k + 1]
      /\ Head(q) = q[1]
  OBVIOUS
<1> HIDE DEF t
<1>2. IsFiniteSet(Sends(t)) /\ Cardinality(Sends(t)) \in Nat /\ IsFiniteSet(Sends(q))
      /\ Cardinality(Sends(q)) \in Nat
  BY <1>1, SendsFinite
<1>3. /\ \A k \in Sends(t) : k \in Nat /\ k + 1 \in Sends(q) \ {1}
      /\ \A k \in Sends(q) \ {1} : k \in Nat /\ k - 1 \in Sends(t)
  <2>1. ASSUME NEW k \in 1..Len(t)
        PROVE  k \in Nat /\ k + 1 \in 1..Len(q) /\ k + 1 # 1
    BY <1>1
  <2>2. ASSUME NEW k \in 1..Len(q), k # 1
        PROVE  k \in Nat /\ k - 1 \in 1..Len(t) /\ (k - 1) + 1 = k
    BY <1>1, <2>2
  <2>3. QED
    BY <1>1, <2>1, <2>2 DEF Sends
<1>4. Cardinality(Sends(q) \ {1}) = Cardinality(Sends(t))
  <2> DEFINE f == [k \in Sends(t) |-> k + 1]
  <2>1. f \in Bijection(Sends(t), Sends(q) \ {1})
    <3>1. f \in [Sends(t) -> Sends(q) \ {1}]
      BY <1>3
    <3>2. \A k, l \in Sends(t) : f[k] = f[l] => k = l
      BY <1>3
    <3>3. \A m \in Sends(q) \ {1} : m - 1 \in Sends(t) /\ f[m - 1] = m
      BY <1>3
    <3>4. \A m \in Sends(q) \ {1} : \E k \in Sends(t) : f[k] = m
      BY <3>3
    <3> HIDE DEF f
    <3>5. f \in Injection(Sends(t), Sends(q) \ {1}) /\ f \in Surjection(Sends(t), Sends(q) \ {1})
      BY <3>1, <3>2, <3>4 DEF Injection, Surjection, IsInjective
    <3>6. QED
      BY <3>5 DEF Bijection
  <2>2. ExistsBijection(Sends(t), Sends(q) \ {1})
    BY <2>1 DEF ExistsBijection
  <2>3. QED
    BY <1>2, <2>2, FS_Bijection
<1>5. Cardinality(Sends(q) \ {1})
        = IF 1 \in Sends(q) THEN Cardinality(Sends(q)) - 1 ELSE Cardinality(Sends(q))
  BY <1>2, FS_RemoveElement
<1>6. 1 \in Sends(q) <=> Head(q) = "SEND"
  BY <1>1 DEF Sends
<1>7. NoErrors(q) => NoErrors(t) /\ Head(q) # "ERR"
  <2>1. 1 \in 1..Len(q) /\ \A k \in 1..Len(t) : k + 1 \in 1..Len(q)
    BY <1>1
  <2>2. QED
    BY <1>1, <2>1 DEF NoErrors
<1>8. QED
  BY <1>2, <1>3, <1>4, <1>5, <1>6, <1>7 DEF t

\* A queue without errors holds its sends and at most one receive.
LEMMA QueueLength ==
    ASSUME NEW q \in Seq(WorkCompletions), NoErrors(q), OneRecv(q)
    PROVE  Len(q) = Cardinality(Sends(q)) + (IF HasRecv(q) THEN 1 ELSE 0)
<1>1. Len(q) \in Nat /\ Cardinality(1..Len(q)) = Len(q)
  <2>1. Len(q) \in Nat /\ 1 \in Int /\ Len(q) \in Int
    OBVIOUS
  <2>2. Cardinality(1..Len(q)) = IF 1 > Len(q) THEN 0 ELSE Len(q) - 1 + 1
    BY <2>1, FS_Interval
  <2>3. QED
    BY <2>1, <2>2
<1>2. \A k \in 1..Len(q) : q[k] = "SEND" \/ q[k] = "RECV"
  BY DEF NoErrors, WorkCompletions
<1>3. CASE HasRecv(q)
  <2>1. PICK m \in 1..Len(q) : q[m] = "RECV"
    BY <1>3 DEF HasRecv
  <2>2. m \notin Sends(q) /\ 1..Len(q) = Sends(q) \union {m}
    BY <1>2, <2>1 DEF Sends, OneRecv
  <2>3. QED
    BY <1>1, <1>3, <2>2, SendsFinite, FS_AddElement
<1>4. CASE ~HasRecv(q)
  <2>1. 1..Len(q) = Sends(q)
    BY <1>2, <1>4 DEF Sends, HasRecv
  <2>2. QED
    BY <1>1, <1>4, <2>1, SendsFinite
<1>5. QED
  BY <1>3, <1>4

(***************************************************************************)
(* The sends that are held, and the size of the queues.  As long as the    *)
(* queue pair works, the client holds the send it waits for; the server    *)
(* holds those of its echoes that it has not counted.                      *)
(***************************************************************************)
ClientHeld ==
    qp["client"] = "RTS" =>
        /\ NoErrors(cq["client"])
        /\ SendsHeld("client") = IF cpc = "wait_send" THEN 1 ELSE 0
ServerHeld ==
    qp["server"] = "RTS" =>
        /\ NoErrors(cq["server"])
        /\ SendsHeld("server") + n + (IF ServerHolds THEN 1 ELSE 0) = Len(slog)
Held == ClientHeld /\ ServerHeld /\ Len(slog) <= Count

\* An end that a step leaves alone.
Untouched(e) ==
    qp'[e] = qp[e] /\ posted'[e] = posted[e] /\ unacked'[e] = unacked[e] /\ cq'[e] = cq[e]

LEMMA HeldKept ==
    ASSUME Held
    PROVE  /\ Untouched("client") /\ UNCHANGED clientVars => ClientHeld'
           /\ Untouched("server") /\ UNCHANGED serverVars => ServerHeld'
BY DEF Held, ClientHeld, ServerHeld, Untouched, SendsHeld, ServerHolds, clientVars, serverVars

\* What the operations do to the sends that their end holds.
LEMMA PostTally ==
    ASSUME RcTypeOK, NEW e \in Ends, PostSend(e) \/ PostRecv(e)
    PROVE  /\ \A o \in Ends : o # e => Untouched(o)
           /\ qp' = qp
           /\ qp[e] = "RTS" =>
                 /\ cq'[e] = cq[e]
                 /\ PostSend(e) => SendsHeld(e)' = SendsHeld(e) + 1
                 /\ ~PostSend(e) => SendsHeld(e)' = SendsHeld(e)
<1>1. /\ qp' = qp /\ unacked' = unacked
      /\ \A o \in Ends : o # e => posted'[o] = posted[o] /\ cq'[o] = cq[o]
  BY DEF PostSend, PostRecv, RcTypeOK
<1>2. Cardinality(Sends(cq[e])) \in Nat /\ posted[e] \in Nat /\ unacked[e] \in Nat
  BY SendsFinite DEF RcTypeOK
<1>3. ASSUME qp[e] = "RTS"
      PROVE  /\ cq' = cq
             /\ PostSend(e) => posted'[e] = posted[e] + 1
             /\ ~PostSend(e) => posted'[e] = posted[e]
  BY <1>3 DEF PostSend, PostRecv, RcTypeOK
<1>4. QED
  BY <1>1, <1>2, <1>3 DEF Untouched, SendsHeld

LEMMA PollTally ==
    ASSUME RcTypeOK, NEW e \in Ends, NEW wc, PollCq(e, wc)
    PROVE  /\ \A o \in Ends : o # e => Untouched(o)
           /\ qp' = qp
           /\ SendsHeld(e) = SendsHeld(e)' + (IF wc = "SEND" THEN 1 ELSE 0)
           /\ SendsHeld(e)' \in Nat
           /\ NoErrors(cq[e]) => NoErrors(cq'[e]) /\ wc # "ERR"
<1>1. /\ cq[e] \in Seq(WorkCompletions) /\ cq[e] # <<>> /\ wc = Head(cq[e])
      /\ cq'[e] = Tail(cq[e]) /\ Tail(cq[e]) \in Seq(WorkCompletions)
      /\ \A o \in Ends : o # e => cq'[o] = cq[o]
      /\ UNCHANGED <<qp, posted, unacked>>
  BY DEF RcTypeOK, PollCq
<1>2. Cardinality(Sends(Tail(cq[e]))) \in Nat /\ posted[e] \in Nat /\ unacked[e] \in Nat
  BY <1>1, SendsFinite DEF RcTypeOK
<1>3. /\ Cardinality(Sends(cq[e]))
             = Cardinality(Sends(cq'[e])) + (IF wc = "SEND" THEN 1 ELSE 0)
      /\ NoErrors(cq[e]) => NoErrors(cq'[e]) /\ wc # "ERR"
  BY <1>1, SendsTail
<1>4. SendsHeld(e)' = posted'[e] + unacked'[e] + Cardinality(Sends(cq'[e]))
  BY DEF SendsHeld
<1>5. SendsHeld(e) = posted[e] + unacked[e] + Cardinality(Sends(cq[e]))
  BY DEF SendsHeld
<1>6. Cardinality(Sends(cq'[e])) \in Nat
  BY <1>1, <1>2
<1>7. SendsHeld(e) = SendsHeld(e)' + (IF wc = "SEND" THEN 1 ELSE 0) /\ SendsHeld(e)' \in Nat
  BY <1>1, <1>2, <1>3, <1>4, <1>5, <1>6
<1>8. QED
  BY <1>1, <1>3, <1>7 DEF Untouched

LEMMA DeliverTally ==
    ASSUME RcTypeOK, NEW e \in Ends, Deliver(e) \/ Acknowledge(e)
    PROVE  \A o \in Ends : /\ qp'[o] = qp[o] /\ SendsHeld(o)' = SendsHeld(o)
                           /\ NoErrors(cq[o]) => NoErrors(cq'[o])
<1>1. /\ Peer(e) \in Ends /\ e # Peer(e) /\ \A o \in Ends : o = e \/ o = Peer(e)
      /\ "RECV" \in WorkCompletions /\ "SEND" \in WorkCompletions
  BY DEF Ends, Peer, WorkCompletions
<1>2. \A o \in Ends : /\ cq[o] \in Seq(WorkCompletions)
                      /\ Cardinality(Sends(cq[o])) \in Nat
                      /\ posted[o] \in Nat /\ unacked[o] \in Nat
  BY SendsFinite DEF RcTypeOK
<1>0. \A o : /\ SendsHeld(o) = posted[o] + unacked[o] + Cardinality(Sends(cq[o]))
             /\ SendsHeld(o)' = posted'[o] + unacked'[o] + Cardinality(Sends(cq'[o]))
  BY DEF SendsHeld
<1>3. CASE Deliver(e)
  <2>1. /\ posted[e] > 0 /\ posted'[e] = posted[e] - 1 /\ unacked'[e] = unacked[e] + 1
        /\ posted'[Peer(e)] = posted[Peer(e)] /\ unacked'[Peer(e)] = unacked[Peer(e)]
        /\ cq'[e] = cq[e] /\ cq'[Peer(e)] = Append(cq[Peer(e)], "RECV") /\ qp' = qp
    BY <1>1, <1>3 DEF Deliver, RcTypeOK
  <2>2. /\ Cardinality(Sends(cq'[Peer(e)])) = Cardinality(Sends(cq[Peer(e)]))
        /\ NoErrors(cq[Peer(e)]) => NoErrors(cq'[Peer(e)])
    BY <1>1, <1>2, <2>1, SendsAppend
  <2>3. SendsHeld(e)' = SendsHeld(e) /\ SendsHeld(Peer(e))' = SendsHeld(Peer(e))
    <3>1. Cardinality(Sends(cq'[Peer(e)])) \in Nat /\ Cardinality(Sends(cq'[e])) \in Nat
      BY <1>1, <1>2, <2>1, <2>2
    <3>2. SendsHeld(e)' = SendsHeld(e)
      <4>1. posted'[e] + unacked'[e] + Cardinality(Sends(cq'[e]))
              = posted[e] + unacked[e] + Cardinality(Sends(cq[e]))
        BY <1>2, <2>1, <2>2, <3>1
      <4>2. QED
        BY <1>0, <4>1
    <3>3. SendsHeld(Peer(e))' = SendsHeld(Peer(e))
      <4>1. posted'[Peer(e)] + unacked'[Peer(e)] + Cardinality(Sends(cq'[Peer(e)]))
              = posted[Peer(e)] + unacked[Peer(e)] + Cardinality(Sends(cq[Peer(e)]))
        BY <1>1, <1>2, <2>1, <2>2, <3>1
      <4>2. QED
        BY <1>0, <4>1
    <3>4. QED
      BY <3>2, <3>3
  <2>4. QED
    BY <1>1, <2>1, <2>2, <2>3
<1>4. CASE Acknowledge(e)
  <2>1. /\ unacked[e] > 0 /\ unacked'[e] = unacked[e] - 1 /\ posted' = posted
        /\ unacked'[Peer(e)] = unacked[Peer(e)]
        /\ cq'[Peer(e)] = cq[Peer(e)] /\ cq'[e] = Append(cq[e], "SEND") /\ qp' = qp
    BY <1>1, <1>4 DEF Acknowledge, RcTypeOK
  <2>2. /\ Cardinality(Sends(cq'[e])) = Cardinality(Sends(cq[e])) + 1
        /\ NoErrors(cq[e]) => NoErrors(cq'[e])
    BY <1>1, <1>2, <2>1, SendsAppend
  <2>3. SendsHeld(e)' = SendsHeld(e) /\ SendsHeld(Peer(e))' = SendsHeld(Peer(e))
    <3>1. Cardinality(Sends(cq'[Peer(e)])) \in Nat /\ Cardinality(Sends(cq'[e])) \in Nat
      BY <1>1, <1>2, <2>1, <2>2
    <3>2. SendsHeld(e)' = SendsHeld(e)
      <4>1. posted'[e] + unacked'[e] + Cardinality(Sends(cq'[e]))
              = posted[e] + unacked[e] + Cardinality(Sends(cq[e]))
        <5>1. \A p, u, c \in Nat : u > 0 => p + (u - 1) + (c + 1) = p + u + c
          OBVIOUS
        <5>2. /\ posted'[e] = posted[e] /\ unacked'[e] = unacked[e] - 1 /\ unacked[e] > 0
              /\ Cardinality(Sends(cq'[e])) = Cardinality(Sends(cq[e])) + 1
          BY <2>1, <2>2
        <5>3. QED
          BY <1>2, <5>1, <5>2
      <4>2. QED
        BY <1>0, <4>1
    <3>3. SendsHeld(Peer(e))' = SendsHeld(Peer(e))
      <4>1. posted'[Peer(e)] + unacked'[Peer(e)] + Cardinality(Sends(cq'[Peer(e)]))
              = posted[Peer(e)] + unacked[Peer(e)] + Cardinality(Sends(cq[Peer(e)]))
        BY <1>1, <1>2, <2>1, <2>2, <3>1
      <4>2. QED
        BY <1>0, <4>1
    <3>4. QED
      BY <3>2, <3>3
  <2>4. QED
    BY <1>1, <2>1, <2>2, <2>3
<1>5. QED
  BY <1>3, <1>4

LEMMA FlushTally ==
    ASSUME RcTypeOK, NEW e \in Ends, Flush(e)
    PROVE  qp'[e] = "ERR" /\ \A o \in Ends : o # e => Untouched(o)
BY DEF RcTypeOK, Flush, Untouched

LEMMA InitHeld == Init => Held
<1> SUFFICES ASSUME Init PROVE Held
  OBVIOUS
<1>1. /\ "client" \in Ends /\ "server" \in Ends
      /\ \A e \in Ends : posted[e] = 0 /\ unacked[e] = 0 /\ cq[e] = <<>>
      /\ cpc = "send" /\ n = 0 /\ spc = "accept" /\ slog = <<>>
  BY DEF Init, Ends
<1>2. Sends(<<>>) = {} /\ NoErrors(<<>>)
  BY DEF Sends, NoErrors
<1>3. Cardinality(Sends(<<>>)) = 0
  BY <1>2, FS_EmptySet
<1>4. SendsHeld("client") = 0 /\ SendsHeld("server") = 0
  BY <1>1, <1>3 DEF SendsHeld
<1>5. Len(slog) = 0
  BY <1>1
<1>6. QED
  BY <1>1, <1>2, <1>4, <1>5, CountAssumption DEF Held, ClientHeld, ServerHeld, ServerHolds

LEMMA ClientHeldStep ==
    ASSUME IInv, Held, Client \/ ClientDie
    PROVE  Held'
<1>1. /\ RcTypeOK /\ "client" \in Ends /\ "server" \in Ends /\ "server" # "client"
      /\ ClientHeld /\ Len(slog) <= Count
  BY DEF IInv, TypeOK, Ends, Held
<1>2. SendsHeld("client") \in Nat
  BY <1>1, SendsFinite DEF SendsHeld, RcTypeOK
<1>3. UNCHANGED serverVars
  BY DEF Client, ClientSend, ClientPollSend, ClientPollRecv, ClientRepost, ClientCleanup,
         ClientUnexpectedOpcode, ClientExit, ClientDie
<1>4. ASSUME Untouched("server"), ClientHeld' PROVE Held'
  BY <1>1, <1>3, <1>4, HeldKept DEF Held, serverVars
<1>5. CASE ClientSend
  <2>1. PostSend("client") /\ cpc = "send" /\ cpc' = "wait_send"
    BY <1>5 DEF ClientSend
  <2>2. ClientHeld'
    BY <1>1, <1>2, <2>1, PostTally DEF ClientHeld
  <2>3. QED
    BY <1>1, <1>4, <2>1, <2>2, PostTally
<1>6. CASE ClientPollSend
  <2>1. /\ cpc = "wait_send" /\ cpc' # "wait_send"
        /\ PollCq("client", "SEND") \/ PollCq("client", "ERR")
    BY <1>6 DEF ClientPollSend, AfterNotify
  <2>2. ClientHeld'
    BY <1>1, <2>1, PollTally DEF ClientHeld
  <2>3. QED
    BY <1>1, <1>4, <2>1, <2>2, PollTally
<1>7. CASE ClientPollRecv
  <2>1. /\ cpc = "wait_recv" /\ cpc' # "wait_send"
        /\ PollCq("client", "RECV") \/ PollCq("client", "ERR")
    BY <1>7 DEF ClientPollRecv
  <2>2. ClientHeld'
    BY <1>1, <2>1, PollTally DEF ClientHeld
  <2>3. QED
    BY <1>1, <1>4, <2>1, <2>2, PollTally
<1>8. CASE ClientRepost
  <2>1. PostRecv("client") /\ cpc = "repost" /\ cpc' # "wait_send"
    BY <1>8 DEF ClientRepost, AfterNotify
  <2>2. qp["client"] = "RTS" => ~PostSend("client")
    BY <1>1, <2>1 DEF PostRecv, PostSend, RcTypeOK
  <2>3. ClientHeld'
    BY <1>1, <1>2, <2>1, <2>2, PostTally DEF ClientHeld
  <2>4. QED
    BY <1>1, <1>4, <2>1, <2>3, PostTally
<1>9. CASE ClientCleanup \/ ClientUnexpectedOpcode \/ ClientDie
  <2>1. Flush("client")
    BY <1>9 DEF ClientCleanup, ClientUnexpectedOpcode, ClientDie, ClientExit
  <2>2. QED
    BY <1>1, <1>4, <2>1, FlushTally DEF ClientHeld
<1>10. QED
  BY <1>5, <1>6, <1>7, <1>8, <1>9 DEF Client

LEMMA ServerHeldStep ==
    ASSUME IInv, Held, Server \/ ServerDie
    PROVE  Held'
<1>1. /\ RcTypeOK /\ "client" \in Ends /\ "server" \in Ends /\ "server" # "client"
      /\ ServerHeld /\ Len(slog) <= Count /\ n \in Nat /\ slog \in Seq(Nat)
      /\ Len(slog) \in Nat
  BY DEF IInv, TypeOK, Ends, Held
<1>2. SendsHeld("server") \in Nat
  BY <1>1, SendsFinite DEF SendsHeld, RcTypeOK
<1>3. UNCHANGED clientVars
  BY DEF Server, ServerEstablished, ServerPollRecv, ServerPollSend, ServerRepost,
         ServerReply, ServerCleanup, ServerDie
<1>4. ASSUME Untouched("client"), ServerHeld', Len(slog') <= Count PROVE Held'
  BY <1>1, <1>3, <1>4, HeldKept DEF Held
<1>5. CASE ServerEstablished
  <2>1. UNCHANGED <<qp, posted, unacked, cq, n, slog>> /\ spc = "accept" /\ spc' = "poll"
    BY <1>5 DEF ServerEstablished, rcVars
  <2>2. ServerHeld'
    BY <1>1, <2>1 DEF ServerHeld, ServerHolds, SendsHeld
  <2>3. QED
    BY <1>1, <1>4, <2>1, <2>2 DEF Untouched
<1>6. CASE ServerPollRecv
  <2>1. /\ PollCq("server", "RECV") /\ spc = "poll" /\ spc' = "repost" /\ n' = n
        /\ Len(slog') = Len(slog) + 1
    BY <1>1, <1>6 DEF ServerPollRecv, IInv, TypeOK
  <2>2. Arrived("server")
    BY <1>1, <2>1, PollFacts
  <2>3. Len(slog') <= Count
    BY <1>1, <2>1, <2>2, CountAssumption DEF IInv, Payloads
  <2>4. ServerHeld'
    BY <1>1, <2>1, PollTally DEF ServerHeld, ServerHolds
  <2>5. QED
    BY <1>1, <1>4, <2>1, <2>3, <2>4, PollTally
<1>7. CASE ServerPollSend
  <2>1. /\ spc = "poll" /\ spc' \in {"poll", "cleanup"} /\ slog' = slog
        /\ \/ PollCq("server", "SEND") /\ n' = n + 1
           \/ PollCq("server", "ERR") /\ n' = n
    BY <1>7 DEF ServerPollSend, AfterNotify
  <2>2. ServerHeld'
    <3>1. CASE PollCq("server", "SEND") /\ n' = n + 1
      BY <1>1, <2>1, <3>1, PollTally DEF ServerHeld, ServerHolds
    <3>2. CASE PollCq("server", "ERR") /\ n' = n
      BY <1>1, <2>1, <3>2, PollTally DEF ServerHeld, ServerHolds
    <3>3. QED
      BY <2>1, <3>1, <3>2
  <2>3. QED
    BY <1>1, <1>4, <2>1, <2>2, PollTally
<1>8. CASE ServerRepost
  <2>1. /\ PostRecv("server") /\ spc = "repost" /\ spc' = "reply" /\ UNCHANGED <<n, slog>>
    BY <1>8 DEF ServerRepost
  <2>2. qp["server"] = "RTS" => ~PostSend("server")
    BY <1>1, <2>1 DEF PostRecv, PostSend, RcTypeOK
  <2>3. ServerHeld'
    BY <1>1, <1>2, <2>1, <2>2, PostTally DEF ServerHeld, ServerHolds
  <2>4. QED
    BY <1>1, <1>4, <2>1, <2>3, PostTally
<1>9. CASE ServerReply
  <2>1. /\ PostSend("server") /\ spc = "reply" /\ spc' \in {"poll", "cleanup"}
        /\ UNCHANGED <<n, slog>>
    BY <1>9 DEF ServerReply, AfterNotify
  <2>2. ServerHeld'
    BY <1>1, <1>2, <2>1, PostTally DEF ServerHeld, ServerHolds
  <2>3. QED
    BY <1>1, <1>4, <2>1, <2>2, PostTally
<1>10. CASE ServerCleanup \/ ServerDie
  <2>1. Flush("server") /\ slog' = slog
    BY <1>10 DEF ServerCleanup, ServerDie
  <2>2. QED
    BY <1>1, <1>4, <2>1, FlushTally DEF ServerHeld
<1>11. QED
  BY <1>5, <1>6, <1>7, <1>8, <1>9, <1>10 DEF Server

LEMMA HeldStep ==
    ASSUME IInv, Held, [Next]_vars
    PROVE  Held'
<1>1. CASE Client \/ ClientDie
  BY <1>1, ClientHeldStep
<1>2. CASE Server \/ ServerDie
  BY <1>2, ServerHeldStep
<1>3. CASE \E e \in Ends : DeliverMessage(e) \/ AcknowledgeMessage(e) \/ LoseConnection(e)
  <2>1. PICK e \in Ends : DeliverMessage(e) \/ AcknowledgeMessage(e) \/ LoseConnection(e)
    BY <1>3
  <2>2. /\ RcTypeOK /\ "client" \in Ends /\ "server" \in Ends /\ (e = "client" \/ e = "server")
        /\ ClientHeld /\ ServerHeld /\ Len(slog) <= Count
    BY DEF IInv, TypeOK, Ends, Held
  <2>3. UNCHANGED <<clientVars, serverVars>>
    BY <2>1 DEF DeliverMessage, AcknowledgeMessage, LoseConnection
  <2>4. CASE Deliver(e) \/ Acknowledge(e)
    BY <2>2, <2>3, <2>4, DeliverTally
    DEF Held, ClientHeld, ServerHeld, ServerHolds, clientVars, serverVars
  <2>5. CASE Flush(e)
    BY <2>2, <2>3, <2>5, FlushTally, HeldKept
    DEF Held, ClientHeld, ServerHeld, serverVars
  <2>6. QED
    BY <2>1, <2>4, <2>5
    DEF DeliverMessage, AcknowledgeMessage, LoseConnection, RetryExceeded
<1>4. CASE Terminated \/ UNCHANGED vars
  <2>1. UNCHANGED <<qp, posted, unacked, cq, cpc, spc, n, slog>>
    BY <1>4 DEF Terminated, vars, rcVars, clientVars, serverVars
  <2>2. QED
    BY <2>1 DEF Held, ClientHeld, ServerHeld, ServerHolds, SendsHeld
<1>5. QED
  BY <1>1, <1>2, <1>3, <1>4 DEF Next

\* What each program holds of its send queue follows from where it is
\* (client.c:61-102, server.c:53-81).
THEOREM HeldInvariance == Spec => []Held
BY InitHeld, HeldStep, Invariance, PTL DEF Spec

\* Neither queue of a working queue pair outgrows its QueueDepth entries, one
\* for each message and at least two, however late the acknowledgements and
\* the polls are (common.c:76, 85).
THEOREM QueuesBounded == Spec => []QueuesFit
<1>1. ASSUME IInv, Held, NEW e \in Ends, qp[e] = "RTS"
      PROVE  Len(cq[e]) <= QueueDepth /\ SendsHeld(e) <= QueueDepth
  <2>1. /\ cq[e] \in Seq(WorkCompletions) /\ OneRecv(cq[e]) /\ posted[e] \in Nat
        /\ unacked[e] \in Nat /\ n \in Nat /\ Len(slog) \in Nat
        /\ Cardinality(Sends(cq[e])) \in Nat
    BY <1>1, SendsFinite DEF IInv, TypeOK, RcTypeOK, ReceiveCredit
  <2>2. NoErrors(cq[e])
    BY <1>1 DEF Held, ClientHeld, ServerHeld, Ends
  <2>3. /\ Len(cq[e]) = Cardinality(Sends(cq[e])) + (IF HasRecv(cq[e]) THEN 1 ELSE 0)
        /\ Cardinality(Sends(cq[e])) <= SendsHeld(e) /\ SendsHeld(e) \in Nat
    BY <2>1, <2>2, QueueLength DEF SendsHeld
  <2>4. CASE e = "client"
    <3>1. SendsHeld(e) <= 1
      BY <1>1, <2>4 DEF Held, ClientHeld
    <3>2. QED
      BY <2>1, <2>3, <3>1, QueueAssumption
  <2>5. CASE e = "server"
    <3>1. SendsHeld(e) <= Len(slog) /\ Len(slog) <= Count
      BY <1>1, <2>1, <2>3, <2>5 DEF Held, ServerHeld
    <3>2. HasRecv(cq[e]) => Len(slog) < Count
      BY <1>1, <2>5 DEF IInv, Payloads, Arrived
    <3>3. QED
      BY <2>1, <2>3, <3>1, <3>2, QueueAssumption, CountAssumption
  <2>6. QED
    BY <2>4, <2>5 DEF Ends
<1>2. IInv /\ Held => QueuesFit
  BY <1>1 DEF QueuesFit
<1>3. QED
  BY <1>2, Invariance, HeldInvariance, PTL

(***************************************************************************)
(* The order of the client's completions.                                  *)
(***************************************************************************)

\* At most one send, and a receive only after it.
OneSend(q) == \A k, l \in Sends(q) : k = l
SendFirst(q) == \A l \in 1..Len(q) : q[l] = "RECV" => \E k \in Sends(q) : k < l

Order ==
    /\ cpc # "died"
    /\ cpc = "wait_send" => OneSend(cq["client"]) /\ SendFirst(cq["client"])
    /\ cpc \in {"send", "wait_recv", "repost"} => Sends(cq["client"]) = {}

\* A completion that comes in keeps a queue in order: a send into a queue
\* with none and no receive either, a receive into one with a send.
LEMMA OrderAppend ==
    ASSUME NEW q \in Seq(WorkCompletions), NEW wc \in WorkCompletions,
           wc = "SEND" => Sends(q) = {} , wc = "RECV" => Sends(q) # {},
           OneSend(q), SendFirst(q)
    PROVE  OneSend(Append(q, wc)) /\ SendFirst(Append(q, wc))
<1> DEFINE r == Append(q, wc)
<1>1. /\ Len(q) \in Nat /\ Len(r) = Len(q) + 1 /\ r[Len(q) + 1] = wc
      /\ \A k \in 1..Len(q) : r[k] = q[k]
      /\ \A k \in 1..Len(r) : k \in 1..Len(q) \/ k = Len(q) + 1
  OBVIOUS
<1>2. /\ wc # "SEND" => Sends(r) = Sends(q)
      /\ wc = "SEND" => Sends(r) = Sends(q) \union {Len(q) + 1}
  BY SendsAppend
<1> HIDE DEF r
<1>3. OneSend(r)
  BY <1>2 DEF OneSend
<1>4. ASSUME NEW l \in 1..Len(r), r[l] = "RECV"
      PROVE  \E k \in Sends(r) : k < l
  <2>1. CASE l \in 1..Len(q)
    BY <1>1, <1>2, <1>4, <2>1 DEF SendFirst
  <2>2. CASE l = Len(q) + 1
    <3>1. wc = "RECV"
      BY <1>1, <1>4, <2>2
    <3>2. PICK k \in Sends(q) : TRUE
      BY <3>1
    <3>3. k < l
      BY <1>1, <2>2, <3>2 DEF Sends
    <3>4. QED
      BY <1>2, <3>1, <3>3
  <2>3. QED
    BY <1>1, <2>1, <2>2
<1>5. QED
  BY <1>3, <1>4 DEF SendFirst, r

\* Errors do not disturb it.
LEMMA OrderFlush ==
    ASSUME NEW q \in Seq(WorkCompletions), NEW m \in Nat
    PROVE  LET f == q \o [k \in 1..m |-> "ERR"]
           IN  /\ Sends(f) = Sends(q)
               /\ SendFirst(q) => SendFirst(f)
<1> DEFINE errors == [k \in 1..m |-> "ERR"]
           f == q \o errors
<1>1. errors \in Seq(WorkCompletions) /\ Len(errors) = m
  BY DEF WorkCompletions
<1>2. /\ Len(f) = Len(q) + m
      /\ \A k \in 1..Len(q) : f[k] = q[k]
      /\ \A k \in (Len(q) + 1)..Len(f) : f[k] = "ERR"
      /\ Len(q) \in Nat
  BY <1>1
<1> HIDE DEF f, errors
<1>3. /\ \A k \in 1..Len(f) : f[k] # "ERR" => k \in 1..Len(q)
      /\ 1..Len(q) \subseteq 1..Len(f)
  BY <1>2
<1>4. Sends(f) = Sends(q)
  BY <1>2, <1>3 DEF Sends
<1>5. SendFirst(q) => SendFirst(f)
  BY <1>2, <1>3, <1>4 DEF SendFirst
<1>6. QED
  BY <1>4, <1>5 DEF f, errors

\* The oldest completion of a queue that is in order.
LEMMA OrderTail ==
    ASSUME NEW q \in Seq(WorkCompletions), q # <<>>
    PROVE  /\ Sends(q) = {} => Sends(Tail(q)) = {} /\ Head(q) # "SEND"
           /\ OneSend(q) /\ Head(q) = "SEND" => Sends(Tail(q)) = {}
           /\ SendFirst(q) => Head(q) # "RECV"
<1>1. Len(q) \in Nat /\ 1 \in 1..Len(q) /\ Head(q) = q[1]
  OBVIOUS
<1>2. 1 \in Sends(q) <=> Head(q) = "SEND"
  BY <1>1 DEF Sends
<1>3. \A k \in Sends(Tail(q)) : k + 1 \in Sends(q) /\ k + 1 # 1
  <2>1. \A k \in Sends(Tail(q)) : k \in 1..Len(Tail(q))
    BY DEF Sends
  <2>2. QED
    BY <2>1, SendsTail
<1>4. SendFirst(q) => Head(q) # "RECV"
  BY <1>1 DEF SendFirst, Sends
<1>5. QED
  BY <1>2, <1>3, <1>4 DEF OneSend

LEMMA OrderStep ==
    ASSUME ~AcksLost, ~Faults, IInv, Held, Order, [Next]_vars
    PROVE  Order'
<1>1. /\ RcTypeOK /\ "client" \in Ends /\ "server" \in Ends /\ "server" # "client"
      /\ cq["client"] \in Seq(WorkCompletions) /\ ClientHeld
      /\ posted["client"] \in Nat /\ unacked["client"] \in Nat
      /\ {"SEND", "RECV", "ERR"} \subseteq WorkCompletions
  BY DEF IInv, TypeOK, RcTypeOK, Ends, Held, WorkCompletions
<1>2. ASSUME cq'["client"] = cq["client"], cpc' = cpc
      PROVE  Order'
  BY <1>2 DEF Order
<1>3. CASE ClientSend
  <2>1. PostSend("client") /\ cpc = "send" /\ cpc' = "wait_send"
    BY <1>3 DEF ClientSend
  <2>2. ~Arrived("client") /\ Sends(cq["client"]) = {}
    BY <2>1 DEF IInv, OnePlace, ClientHolds, Order
  <2>3. OneSend(cq["client"]) /\ SendFirst(cq["client"])
    BY <2>2 DEF OneSend, SendFirst, Arrived, HasRecv
  <2>4. cq'["client"] = cq["client"] \/ cq'["client"] = Append(cq["client"], "ERR")
    BY <1>1, <2>1 DEF PostSend, RcTypeOK
  <2>5. OneSend(cq'["client"]) /\ SendFirst(cq'["client"])
    BY <1>1, <2>3, <2>4, OrderAppend
  <2>6. QED
    BY <2>1, <2>5 DEF Order
<1>4. ASSUME NEW wc, PollCq("client", wc)
      PROVE  cq["client"] # <<>> /\ wc = Head(cq["client"]) /\ cq'["client"] = Tail(cq["client"])
  BY <1>1, <1>4 DEF PollCq, RcTypeOK
<1>5. CASE ClientPollSend
  <2>1. /\ cpc = "wait_send"
        /\ \/ PollCq("client", "SEND") /\ cpc' = "wait_recv"
           \/ PollCq("client", "ERR") /\ cpc' = "cleanup"
    BY <1>5 DEF ClientPollSend, AfterNotify
  <2>2. CASE PollCq("client", "SEND") /\ cpc' = "wait_recv"
    <3>1. Sends(cq'["client"]) = {}
      BY <1>1, <1>4, <2>1, <2>2, OrderTail DEF Order
    <3>2. QED
      BY <2>2, <3>1 DEF Order
  <2>3. CASE cpc' = "cleanup"
    BY <2>3 DEF Order
  <2>4. QED
    BY <2>1, <2>2, <2>3
<1>6. CASE ClientPollRecv
  <2>1. /\ cpc = "wait_recv" /\ cpc' \in {"repost", "cleanup"}
        /\ PollCq("client", "RECV") \/ PollCq("client", "ERR")
    BY <1>6 DEF ClientPollRecv
  <2>2. Sends(cq'["client"]) = {}
    BY <1>1, <1>4, <2>1, OrderTail DEF Order
  <2>3. QED
    BY <2>1, <2>2 DEF Order
<1>7. CASE ClientRepost
  <2>1. /\ PostRecv("client") /\ cpc = "repost" /\ cpc' \in {"send", "cleanup"}
    BY <1>7 DEF ClientRepost, AfterNotify
  <2>2. cq'["client"] = cq["client"] \/ cq'["client"] = Append(cq["client"], "ERR")
    BY <1>1, <2>1 DEF PostRecv, RcTypeOK
  <2>3. Sends(cq["client"]) = {}
    BY <2>1 DEF Order
  <2>4. Sends(cq'["client"]) = {}
    <3>1. Sends(Append(cq["client"], "ERR")) = Sends(cq["client"])
      BY <1>1, SendsAppend
    <3>2. QED
      BY <2>2, <2>3, <3>1
  <2>5. QED
    BY <2>1, <2>4 DEF Order
<1>8. CASE ClientCleanup
  BY <1>8 DEF ClientCleanup, Order
\* The opcode that comes is the one that is waited for.
<1>9. ~ClientUnexpectedOpcode /\ ~ClientDie
  <2>1. ASSUME cpc = "wait_send", cq["client"] # <<>>
        PROVE  Head(cq["client"]) # "RECV"
    BY <1>1, <2>1, OrderTail DEF Order
  <2>2. ASSUME cpc = "wait_recv", cq["client"] # <<>>
        PROVE  Head(cq["client"]) # "SEND"
    BY <1>1, <2>2, OrderTail DEF Order
  <2>3. QED
    BY <2>1, <2>2 DEF ClientUnexpectedOpcode, ClientDie
<1>10. CASE Server \/ ServerDie
  <2>1. cpc' = cpc
    BY <1>10 DEF Server, ServerEstablished, ServerPollRecv, ServerPollSend, ServerRepost,
         ServerReply, ServerCleanup, ServerDie, clientVars
  <2>2. \/ cq' = cq
        \/ \E wc : PollCq("server", wc)
        \/ PostSend("server") \/ PostRecv("server") \/ Flush("server")
    BY <1>10 DEF Server, ServerEstablished, ServerPollRecv, ServerPollSend, ServerRepost,
         ServerReply, ServerCleanup, ServerDie, rcVars
  <2>3. cq'["client"] = cq["client"]
    BY <1>1, <2>2, PollTally, PostTally, FlushTally DEF Untouched
  <2>4. QED
    BY <1>2, <2>1, <2>3
\* Before the echo, the acknowledgement has come, and its completion.
<1>11. CASE DeliverMessage("server")
  <2>1. /\ cq'["client"] = Append(cq["client"], "RECV") /\ cpc' = cpc
        /\ qp["client"] = "RTS" /\ posted["server"] > 0 /\ unacked["client"] = 0
    BY <1>1, <1>11 DEF DeliverMessage, Deliver, Peer, RcTypeOK, clientVars
  <2>2. Sends(cq'["client"]) = Sends(cq["client"])
    BY <1>1, <2>1, SendsAppend
  <2>3. CASE cpc = "wait_send"
    <3>1. posted["client"] = 0
      BY <1>1, <2>1 DEF IInv, OnePlace
    <3>2. SendsHeld("client") = 1
      BY <1>1, <2>1, <2>3 DEF ClientHeld
    <3>3. SendsHeld("client") = 0 + 0 + Cardinality(Sends(cq["client"]))
      BY <2>1, <3>1 DEF SendsHeld
    <3>4. Sends(cq["client"]) # {}
      BY <1>1, <3>2, <3>3, SendsFinite
    <3>5. OneSend(cq'["client"]) /\ SendFirst(cq'["client"])
      BY <1>1, <2>1, <2>3, <3>4, OrderAppend DEF Order
    <3>6. QED
      BY <2>1, <2>3, <3>5 DEF Order
  <2>4. CASE cpc # "wait_send"
    BY <2>1, <2>2, <2>4 DEF Order
  <2>5. QED
    BY <2>3, <2>4
<1>12. CASE DeliverMessage("client") \/ AcknowledgeMessage("server") \/ LoseConnection("server")
  BY <1>1, <1>2, <1>12
  DEF DeliverMessage, Deliver, AcknowledgeMessage, Acknowledge, LoseConnection, RetryExceeded,
      Flush, Peer, RcTypeOK, clientVars
<1>13. CASE AcknowledgeMessage("client")
  <2>1. /\ cq'["client"] = Append(cq["client"], "SEND") /\ cpc' = cpc
        /\ qp["client"] = "RTS" /\ unacked["client"] > 0
    BY <1>1, <1>13 DEF AcknowledgeMessage, Acknowledge, RcTypeOK, clientVars
  <2>2. /\ Cardinality(Sends(cq["client"])) \in Nat
        /\ SendsHeld("client")
             = posted["client"] + unacked["client"] + Cardinality(Sends(cq["client"]))
        /\ SendsHeld("client") = IF cpc = "wait_send" THEN 1 ELSE 0
    BY <1>1, <2>1, SendsFinite DEF ClientHeld, SendsHeld
  <2>3. cpc = "wait_send" /\ Cardinality(Sends(cq["client"])) = 0
    BY <1>1, <2>1, <2>2
  <2>4. Sends(cq["client"]) = {}
    BY <1>1, <2>3, SendsFinite
  <2>5. OneSend(cq'["client"]) /\ SendFirst(cq'["client"])
    BY <1>1, <2>1, <2>3, <2>4, OrderAppend DEF Order
  <2>6. QED
    BY <2>1, <2>3, <2>5 DEF Order
<1>14. CASE LoseConnection("client")
  <2>1. cpc' = cpc /\ Flush("client")
    BY <1>14 DEF LoseConnection, RetryExceeded, clientVars
  <2>2. PICK m \in Nat : cq'["client"] = cq["client"] \o [k \in 1..m |-> "ERR"]
    <3> DEFINE w == posted["client"] + unacked["client"] + rq["client"]
    <3>1. w \in Nat
      BY <1>1 DEF RcTypeOK
    <3>2. cq'["client"] = cq["client"] \o [k \in 1..w |-> "ERR"]
      BY <1>1, <2>1 DEF Flush, RcTypeOK
    <3>3. QED
      BY <3>1, <3>2
  <2>3. /\ Sends(cq'["client"]) = Sends(cq["client"])
        /\ SendFirst(cq["client"]) => SendFirst(cq'["client"])
    BY <1>1, <2>2, OrderFlush
  <2>4. QED
    BY <2>1, <2>3 DEF Order, OneSend
<1>15. CASE Terminated \/ UNCHANGED vars
  BY <1>2, <1>15 DEF Terminated, vars, rcVars, clientVars
<1>16. QED
  BY <1>1, <1>3, <1>5, <1>6, <1>7, <1>8, <1>9, <1>10, <1>11, <1>12, <1>13, <1>14, <1>15
  DEF Next, Client, Ends

\* When no acknowledgement is lost and nothing fails, the completion of the
\* client's send comes before the echo, and the client never reaches
\* die("Unexpected opcode") (client.c:75-79, 93-99).
THEOREM CompletionsOrdered ==
    ASSUME ~AcksLost, ~Faults
    PROVE  Spec => []CompletionsInOrder
<1>1. Init => Order
  BY DEF Init, Order, Ends, Sends
<1>2. IInv /\ Held /\ Order /\ [Next]_vars => Order'
  BY OrderStep
<1>3. Order => CompletionsInOrder
  BY DEF Order, CompletionsInOrder
<1>4. QED
  BY <1>1, <1>2, <1>3, Invariance, HeldInvariance, PTL DEF Spec
=============================================================================
