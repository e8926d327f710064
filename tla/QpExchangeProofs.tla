-------------------------- MODULE QpExchangeProofs --------------------------
(***************************************************************************)
(* The theorems of example03, for every number of messages and every pair  *)
(* of byte orders, whatever goes wrong.                                    *)
(***************************************************************************)
EXTENDS QpExchange, SequenceTheorems, TLAPS

(***************************************************************************)
(* The invariant.                                                          *)
(***************************************************************************)

\* Where the programs are before their queue pair is at RTS, and where they
\* have their peer's address.
ClientBegins == {"connect", "read_info", "write_info", "setup"}
ServerBegins == {"listen", "accept", "write_info", "read_info", "setup"}
ClientKnows == {"write_info", "setup", "prepare", "send", "wait"}
ServerKnows == {"setup", "post_receive", "wait_recv", "wait_send"}

\* What is written to the socket, and what is read from it, is an address.
Addresses ==
    /\ \A e \in Ends : wire[e] \in {<<>>, <<Encoded(e)>>}
    /\ remote \in [Ends -> {NoInfo, Address("client"), Address("server")}]
    /\ cpc \in ClientKnows => remote["client"] = Address("server")
    /\ spc \in ServerKnows => remote["server"] = Address("client")

\* The queues of end e: p sends posted, u not acknowledged, r receives
\* posted, and the completions q.
Queues(e, p, u, r, q) ==
    posted[e] = p /\ unacked[e] = u /\ rq[e] = r /\ cq[e] = q

\* The server has one request outstanding at a time.
ServerQueues ==
    /\ spc \in ServerBegins =>
          qp["server"] \in {"RESET", "INIT", "RTR"} /\ Queues("server", 0, 0, 0, <<>>)
    /\ spc \in ServerBegins \ {"setup"} => qp["server"] = "RESET"
    /\ spc = "post_receive" => qp["server"] = "RTS" /\ Queues("server", 0, 0, 0, <<>>)
    /\ spc = "wait_recv" =>
          /\ qp["server"] = "RTS"
          /\ Queues("server", 0, 0, 1, <<>>) \/ Queues("server", 0, 0, 0, <<"RECV">>)
    /\ spc = "wait_send" =>
          \/ /\ qp["server"] = "RTS"
             /\ \/ Queues("server", 1, 0, 0, <<>>) \/ Queues("server", 0, 1, 0, <<>>)
                \/ Queues("server", 0, 0, 0, <<"SEND">>)
          \/ qp["server"] = "ERR" /\ Queues("server", 0, 0, 0, <<"ERR">>)
    /\ spc = "died" =>
          qp["server"] = "gone" /\ Queues("server", 0, 0, 0, cq["server"])

\* The client's send and its receive, in whichever order they complete; one
\* of them may be counted already.
Waiting ==
    \/ /\ completions = 0
       /\ \/ Queues("client", 1, 0, 1, <<>>) \/ Queues("client", 0, 1, 1, <<>>)
          \/ Queues("client", 0, 0, 1, <<"SEND">>) \/ Queues("client", 0, 1, 0, <<"RECV">>)
          \/ Queues("client", 0, 0, 0, <<"SEND", "RECV">>)
          \/ Queues("client", 0, 0, 0, <<"RECV", "SEND">>)
    \/ /\ completions = 1
       /\ \/ Queues("client", 0, 0, 1, <<>>) \/ Queues("client", 0, 0, 0, <<"RECV">>)
          \/ Queues("client", 0, 1, 0, <<>>) \/ Queues("client", 0, 0, 0, <<"SEND">>)

\* Its send has failed; only then does anything else.
Failing ==
    \/ completions = 0 /\ Queues("client", 0, 0, 0, <<"ERR", "ERR">>)
    \/ completions = 0 /\ Queues("client", 0, 0, 0, <<"RECV", "ERR">>)
    \/ completions = 1 /\ Queues("client", 0, 0, 0, <<"ERR">>)

ClientQueues ==
    /\ cpc \in ClientBegins =>
          /\ qp["client"] \in {"RESET", "INIT", "RTR"} /\ Queues("client", 0, 0, 0, <<>>)
          /\ msg_count = 0
    /\ cpc \in ClientBegins \ {"setup"} => qp["client"] = "RESET"
    /\ cpc = "prepare" => qp["client"] = "RTS" /\ Queues("client", 0, 0, 0, <<>>)
    /\ cpc = "send" => qp["client"] = "RTS" /\ Queues("client", 0, 0, 1, <<>>)
    /\ cpc = "wait" => (qp["client"] = "RTS" /\ Waiting) \/ (qp["client"] = "ERR" /\ Failing)
    /\ cpc = "died" =>
          qp["client"] = "gone" /\ Queues("client", 0, 0, 0, cq["client"])

\* The server has the message and has not printed it; it has printed it and
\* its echo is not delivered.
Arrived == spc = "wait_recv" /\ cq["server"] = <<"RECV">>
Echoing == posted["server"] = 1

\* The message of the client's round is with neither.
NotAtServer == ~Arrived /\ ~Echoing

\* How far the logs are, and which message is in which buffer.
AtServer ==
    /\ Arrived => /\ msg_count < Messages /\ buf["server"] = msg_count
                  /\ Len(slog) = msg_count /\ Len(clog) = msg_count
    /\ Echoing => /\ buf["server"] = msg_count
                  /\ Len(slog) = msg_count + 1 /\ Len(clog) = msg_count
AtClient ==
    /\ cpc \in {"send", "wait"} => msg_count < Messages /\ buf["client"] = msg_count
    /\ cpc \in ClientBegins \union {"prepare", "send"} \/ posted["client"] = 1 =>
          NotAtServer /\ Len(slog) = msg_count /\ Len(clog) = msg_count
    /\ cpc = "wait" /\ rq["client"] = 1 => Len(clog) = msg_count
    /\ cpc = "wait" /\ cq["client"] = <<"ERR", "ERR">> => Len(clog) = msg_count
    /\ cpc = "wait" /\ rq["client"] = 0 /\ cq["client"] # <<"ERR", "ERR">> =>
          /\ NotAtServer /\ Len(slog) = msg_count + 1
          /\ Len(clog) = IF Received(cq["client"]) THEN msg_count ELSE msg_count + 1

\* A log holds the messages from the first on.
Log(log) == \A k \in 1..Len(log) : log[k] = k - 1
Logs ==
    /\ Log(slog) /\ Log(clog)
    /\ Len(slog) \in {msg_count, msg_count + 1} /\ Len(clog) \in {msg_count, msg_count + 1}
    /\ Len(clog) <= Len(slog)

IInv ==
    /\ TypeOK /\ Addresses
    /\ ServerQueues /\ ClientQueues
    /\ AtServer /\ AtClient /\ Logs

(***************************************************************************)
(* Short sequences.                                                        *)
(***************************************************************************)
Completions == {"SEND", "RECV", "ERR"}

LEMMA TwoElements ==
    ASSUME NEW E, NEW q \in Seq(E), Len(q) = 2
    PROVE  q = <<q[1], q[2]>>
OBVIOUS

LEMMA AppendSecond ==
    ASSUME NEW a \in Completions, NEW b \in Completions
    PROVE  Append(<<a>>, b) = <<a, b>>
<1>1. <<a>> \in Seq(Completions) /\ Len(<<a>>) = 1
  OBVIOUS
<1>2. Append(<<a>>, b) \in Seq(Completions) /\ Len(Append(<<a>>, b)) = 2
  BY <1>1
<1>3. Append(<<a>>, b)[1] = a /\ Append(<<a>>, b)[2] = b
  BY <1>1
<1>4. QED
  BY <1>2, <1>3, TwoElements

\* The failed completions of a queue pair that goes into error.
LEMMA Flushed ==
    ASSUME NEW q \in Seq(Completions)
    PROVE  /\ q \o [k \in 1..1 |-> "ERR"] = Append(q, "ERR")
           /\ <<>> \o [k \in 1..2 |-> "ERR"] = <<"ERR", "ERR">>
<1>1. [k \in 1..1 |-> "ERR"] = <<"ERR">> /\ [k \in 1..2 |-> "ERR"] = <<"ERR", "ERR">>
  OBVIOUS
<1>2. QED
  BY <1>1 DEF Completions

LEMMA WholeQueue ==
    ASSUME NEW q \in Seq(Completions)
    PROVE  SubSeq(q, 1, Len(q)) = q /\ SubSeq(q, Len(q) + 1, Len(q)) = <<>>
BY SubSeqFull

LEMMA AppendLog ==
    ASSUME NEW log \in Seq(0..Messages), Log(log), NEW m \in 0..Messages, Len(log) = m
    PROVE  /\ Append(log, m) \in Seq(0..Messages) /\ Log(Append(log, m))
           /\ Len(Append(log, m)) = m + 1
<1>1. /\ Append(log, m) \in Seq(0..Messages) /\ Len(Append(log, m)) = m + 1
      /\ Append(log, m)[m + 1] = m /\ \A k \in 1..m : Append(log, m)[k] = log[k]
  OBVIOUS
<1>2. \A k \in 1..(m + 1) : k \in 1..m \/ k = m + 1
  BY BoundsAssumption
<1>3. QED
  BY <1>1, <1>2, BoundsAssumption DEF Log

(***************************************************************************)
(* Byte orders.                                                            *)
(***************************************************************************)

\* Converting to network order and reading the memory of any host backwards
\* where need be cancel out.
LEMMA NetOrderInMemory ==
    ASSUME NEW e, NEW num \in Seq(Nat)
    PROVE  InMemory(e, NetOrder(e, num)) = num /\ NetOrder(e, InMemory(e, num)) = num
<1>1. Reverse(Reverse(num)) = num
  BY DEF Reverse
<1>2. QED
  BY <1>1 DEF InMemory, NetOrder

\* What an end reads is what its peer meant, whatever the two hosts are.
LEMMA AddressesArrive ==
    ASSUME NEW e \in Ends, NEW d \in Ends
    PROVE  Encoded(d) = Address(d) /\ Decoded(e, Encoded(d)) = Address(d)
<1>1. Address(d).qp_num \in Seq(Nat) /\ Address(d).lid \in Seq(Nat)
  BY DEF Address
<1>2. Encoded(d) = [qp_num |-> Address(d).qp_num, lid |-> Address(d).lid, gid |-> Address(d).gid]
  BY <1>1, NetOrderInMemory DEF Encoded
<1>3. [qp_num |-> Address(d).qp_num, lid |-> Address(d).lid, gid |-> Address(d).gid] = Address(d)
  BY DEF Address
<1>4. Encoded(d) = Address(d)
  BY <1>2, <1>3
<1>5. Decoded(e, Address(d)) = Address(d)
  <2>1. Decoded(e, Address(d))
          = [qp_num |-> Address(d).qp_num, lid |-> Address(d).lid, gid |-> Address(d).gid]
    BY <1>1, NetOrderInMemory DEF Decoded
  <2>2. QED
    BY <1>3, <2>1
<1>6. QED
  BY <1>4, <1>5

(***************************************************************************)
(* The end of a program.                                                   *)
(***************************************************************************)

\* One end's part of the invariant does not depend on the other's queues.
LEMMA ServerKept ==
    ASSUME ServerQueues, spc' = spc,
           qp'["server"] = qp["server"], posted'["server"] = posted["server"],
           unacked'["server"] = unacked["server"], rq'["server"] = rq["server"],
           cq'["server"] = cq["server"]
    PROVE  ServerQueues' /\ (Arrived' <=> Arrived) /\ (Echoing' <=> Echoing)
BY DEF ServerQueues, Queues, Arrived, Echoing

LEMMA ClientKept ==
    ASSUME ClientQueues, cpc' = cpc, completions' = completions, msg_count' = msg_count,
           qp'["client"] = qp["client"], posted'["client"] = posted["client"],
           unacked'["client"] = unacked["client"], rq'["client"] = rq["client"],
           cq'["client"] = cq["client"]
    PROVE  ClientQueues'
BY DEF ClientQueues, Waiting, Failing, Queues

\* What the end of e's process leaves.
LEMMA ExitFacts ==
    ASSUME TypeOK, NEW e \in Ends, Exit(e)
    PROVE  /\ qp' \in [Ends -> QpStates] /\ qp'[e] = "gone"
           /\ rq' \in [Ends -> 0..1] /\ posted' \in [Ends -> 0..1] /\ unacked' \in [Ends -> 0..1]
           /\ rq'[e] = 0 /\ posted'[e] = 0 /\ unacked'[e] = 0 /\ cq' = cq
           /\ \A d \in Ends : d # e => /\ qp'[d] = qp[d] /\ rq'[d] = rq[d]
                                       /\ posted'[d] = posted[d] /\ unacked'[d] = unacked[d]
           /\ UNCHANGED <<tcpVars, buf>>
BY DEF TypeOK, Exit, Withdraw, QpStates

LEMMA ClientDies ==
    ASSUME IInv, cpc' = "died", Exit("client"),
           UNCHANGED <<msg_count, completions, spc, slog>>,
           clog' \in Seq(0..Messages), Logs', clog' = clog \/ NotAtServer
    PROVE  IInv'
<1>1. TypeOK /\ Addresses /\ ServerQueues /\ AtServer /\ "client" \in Ends /\ "server" \in Ends
  BY DEF IInv, Ends
<1>2. /\ qp' \in [Ends -> QpStates] /\ qp'["client"] = "gone" /\ qp'["server"] = qp["server"]
      /\ rq' \in [Ends -> 0..1] /\ posted' \in [Ends -> 0..1] /\ unacked' \in [Ends -> 0..1]
      /\ rq'["client"] = 0 /\ posted'["client"] = 0 /\ unacked'["client"] = 0
      /\ rq'["server"] = rq["server"] /\ posted'["server"] = posted["server"]
      /\ unacked'["server"] = unacked["server"]
      /\ cq' = cq /\ UNCHANGED <<connected, wire, remote, buf>>
  BY <1>1, ExitFacts DEF tcpVars
<1>3. TypeOK'
  BY <1>1, <1>2 DEF TypeOK
<1>4. Addresses'
  BY <1>1, <1>2 DEF Addresses, ClientKnows
<1>5. ServerQueues' /\ (Arrived' <=> Arrived) /\ (Echoing' <=> Echoing)
  BY <1>1, <1>2, ServerKept
<1>6. ClientQueues'
  BY <1>2 DEF ClientQueues, ClientBegins, Queues
<1>7. AtServer' /\ AtClient'
  BY <1>1, <1>2, <1>5 DEF AtServer, AtClient, ClientBegins, NotAtServer
<1>8. QED
  BY <1>3, <1>4, <1>5, <1>6, <1>7 DEF IInv

LEMMA ServerDies ==
    ASSUME IInv, ServerExit
    PROVE  IInv'
<1>1. /\ TypeOK /\ Addresses /\ ClientQueues /\ AtClient /\ Logs
      /\ "client" \in Ends /\ "server" \in Ends
  BY DEF IInv, Ends
<1>2. /\ qp' \in [Ends -> QpStates] /\ qp'["server"] = "gone" /\ qp'["client"] = qp["client"]
      /\ rq' \in [Ends -> 0..1] /\ posted' \in [Ends -> 0..1] /\ unacked' \in [Ends -> 0..1]
      /\ rq'["server"] = 0 /\ posted'["server"] = 0 /\ unacked'["server"] = 0
      /\ rq'["client"] = rq["client"] /\ posted'["client"] = posted["client"]
      /\ unacked'["client"] = unacked["client"]
      /\ cq' = cq /\ UNCHANGED <<connected, wire, remote, buf>>
  BY <1>1, ExitFacts DEF ServerExit, tcpVars
<1>3. /\ spc' = "died"
      /\ UNCHANGED <<cpc, msg_count, completions, slog, clog>>
  BY DEF ServerExit, clientVars, logVars
<1>4. TypeOK'
  BY <1>1, <1>2, <1>3 DEF TypeOK
<1>5. Addresses'
  BY <1>1, <1>2, <1>3 DEF Addresses, ServerKnows
<1>6. ClientQueues'
  BY <1>1, <1>2, <1>3, ClientKept
<1>7. ServerQueues' /\ NotAtServer'
  BY <1>2, <1>3 DEF ServerQueues, ServerBegins, Queues, NotAtServer, Arrived, Echoing
<1>8. AtServer'
  BY <1>7 DEF AtServer, NotAtServer
<1>9. AtClient'
  BY <1>1, <1>2, <1>3, <1>7 DEF AtClient
<1>10. Logs'
  BY <1>1, <1>3 DEF Logs, Log
<1>11. QED
  BY <1>4, <1>5, <1>6, <1>7, <1>8, <1>9, <1>10 DEF IInv

(***************************************************************************)
(* The way of a queue pair to RTS.                                         *)
(***************************************************************************)

\* The three calls of either end keep the addresses in order.
LEMMA WireFacts ==
    ASSUME IInv, NEW e \in Ends,
           \/ WriteInfo(e)
           \/ ReadInfo(e)
           \/ ModifyQp(e)
    PROVE  /\ wire' \in [Ends -> {<<>>} \union {<<Encoded(d)>> : d \in Ends}]
           /\ \A d \in Ends : wire'[d] \in {<<>>, <<Encoded(d)>>}
           /\ remote' \in [Ends -> {NoInfo, Address("client"), Address("server")}]
           /\ \A d \in Ends : d # e => remote'[d] = remote[d]
           /\ ReadInfo(e) => remote'[e] = Address(Peer(e))
           /\ ~ReadInfo(e) => remote' = remote
           /\ UNCHANGED <<connected, rq, posted, unacked, cq, buf>>
<1>1. /\ wire \in [Ends -> {<<>>} \union {<<Encoded(d)>> : d \in Ends}]
      /\ \A d \in Ends : wire[d] \in {<<>>, <<Encoded(d)>>}
      /\ remote \in [Ends -> {NoInfo, Address("client"), Address("server")}]
      /\ Peer(e) \in Ends
  BY DEF IInv, TypeOK, Addresses, Peer, Ends
<1>2. CASE WriteInfo(e)
  <2>1. wire' = [wire EXCEPT ![e] = <<Encoded(e)>>]
        /\ UNCHANGED <<connected, remote, rq, posted, unacked, cq, buf>>
    BY <1>2 DEF WriteInfo, rcVars
  <2>2. ~ReadInfo(e)
    <3>1. Peer(e) # e /\ wire'[e] = <<Encoded(e)>> /\ wire'[Peer(e)] = wire[Peer(e)]
      BY <1>1, <2>1 DEF Peer, Ends
    <3>2. ReadInfo(e) => wire[Peer(e)] # <<>> /\ wire'[Peer(e)] = <<>>
      BY <1>1 DEF ReadInfo
    <3>3. QED
      BY <3>1, <3>2
  <2>3. QED
    BY <1>1, <2>1, <2>2
<1>3. CASE ReadInfo(e)
  <2>1. /\ wire[Peer(e)] # <<>>
        /\ remote' = [remote EXCEPT ![e] = Decoded(e, Head(wire[Peer(e)]))]
        /\ wire' = [wire EXCEPT ![Peer(e)] = <<>>]
        /\ UNCHANGED <<connected, rq, posted, unacked, cq, buf>>
    BY <1>3 DEF ReadInfo, rcVars
  <2>2. Head(wire[Peer(e)]) = Encoded(Peer(e))
    BY <1>1, <2>1
  <2>3. Decoded(e, Head(wire[Peer(e)])) = Address(Peer(e))
    BY <1>1, <2>2, AddressesArrive
  <2>4. Address(Peer(e)) \in {Address("client"), Address("server")}
    BY DEF Peer
  <2>5. QED
    BY <1>1, <1>3, <2>1, <2>3, <2>4
<1>4. CASE ModifyQp(e) /\ ~ReadInfo(e)
  BY <1>1, <1>4 DEF ModifyQp, tcpVars
<1>5. QED
  BY <1>2, <1>3, <1>4

LEMMA ModifyFacts ==
    ASSUME TypeOK, NEW e \in Ends, ModifyQp(e)
    PROVE  /\ qp' \in [Ends -> QpStates] /\ \A d \in Ends : d # e => qp'[d] = qp[d]
           /\ qp[e] = "RTR" => qp'[e] = "RTS"
           /\ qp[e] # "RTR" => qp'[e] \in {"INIT", "RTR"}
BY DEF TypeOK, ModifyQp, NextState, QpStates

\* Before its queue pair is at RTS the client has nothing to do with messages.
LEMMA ClientBegun ==
    ASSUME IInv, TypeOK', Addresses', cpc \in ClientBegins,
           cpc' \in ClientBegins \union {"prepare"},
           cpc' \in ClientBegins => qp'["client"] \in {"RESET", "INIT", "RTR"},
           cpc' \in ClientBegins \ {"setup"} => qp'["client"] = "RESET",
           cpc' = "prepare" => qp'["client"] = "RTS",
           qp'["server"] = qp["server"],
           UNCHANGED <<msg_count, completions, spc, rq, posted, unacked, cq, buf, slog, clog>>
    PROVE  IInv'
<1>1. ServerQueues /\ ClientQueues /\ AtServer /\ AtClient /\ Logs
  BY DEF IInv
<1>2. Queues("client", 0, 0, 0, <<>>) /\ msg_count = 0
      /\ NotAtServer /\ Len(slog) = msg_count /\ Len(clog) = msg_count
  BY <1>1 DEF ClientQueues, AtClient
<1>3. ServerQueues' /\ (Arrived' <=> Arrived) /\ (Echoing' <=> Echoing)
  BY <1>1, ServerKept
<1>4. ClientQueues'
  BY <1>2 DEF ClientQueues, Queues, ClientBegins
<1>5. AtServer' /\ AtClient'
  BY <1>1, <1>2, <1>3 DEF AtServer, AtClient, NotAtServer, ClientBegins
<1>6. Logs'
  BY <1>1 DEF Logs, Log
<1>7. QED
  BY <1>3, <1>4, <1>5, <1>6 DEF IInv

LEMMA ServerBegun ==
    ASSUME IInv, TypeOK', Addresses', spc \in ServerBegins,
           spc' \in ServerBegins \union {"post_receive"},
           spc' \in ServerBegins => qp'["server"] \in {"RESET", "INIT", "RTR"},
           spc' \in ServerBegins \ {"setup"} => qp'["server"] = "RESET",
           spc' = "post_receive" => qp'["server"] = "RTS",
           qp'["client"] = qp["client"],
           UNCHANGED <<cpc, msg_count, completions, rq, posted, unacked, cq, buf, slog, clog>>
    PROVE  IInv'
<1>1. ServerQueues /\ ClientQueues /\ AtServer /\ AtClient /\ Logs
  BY DEF IInv
<1>2. Queues("server", 0, 0, 0, <<>>)
  BY <1>1 DEF ServerQueues
<1>3. ClientQueues'
  BY <1>1, ClientKept
<1>4. ServerQueues' /\ NotAtServer /\ NotAtServer'
  BY <1>2 DEF ServerQueues, Queues, ServerBegins, NotAtServer, Arrived, Echoing
<1>5. AtServer' /\ AtClient'
  BY <1>1, <1>4 DEF AtServer, AtClient, NotAtServer
<1>6. Logs'
  BY <1>1 DEF Logs, Log
<1>7. QED
  BY <1>3, <1>4, <1>5, <1>6 DEF IInv

LEMMA ClientBeginsStep ==
    ASSUME IInv, ClientConnect \/ ClientReadInfo \/ ClientWriteInfo \/ ClientSetup
    PROVE  IInv'
<1>1. /\ TypeOK /\ Addresses /\ ClientQueues /\ Logs
      /\ "client" \in Ends /\ "server" \in Ends /\ Peer("client") = "server"
  BY DEF IInv, Ends, Peer
<1>2. CASE ClientExit
  <2>1. Logs' /\ clog' = clog /\ clog \in Seq(0..Messages)
    BY <1>1, <1>2 DEF ClientExit, logVars, Logs, Log, TypeOK
  <2>2. QED
    BY <1>2, <2>1, ClientDies DEF ClientExit, logVars
<1>3. CASE ClientConnect /\ ~ClientExit
  <2>1. /\ cpc = "connect" /\ cpc' = "read_info" /\ connected' = TRUE
        /\ UNCHANGED <<msg_count, completions, spc, wire, remote, qp, rq, posted, unacked, cq, buf,
                       slog, clog>>
    BY <1>3 DEF ClientConnect, rcVars, logVars
  <2>2. TypeOK' /\ Addresses'
    BY <1>1, <2>1 DEF TypeOK, Addresses, ClientKnows
  <2>3. qp["client"] = "RESET"
    BY <1>1, <2>1 DEF ClientQueues, ClientBegins
  <2>4. QED
    BY <2>1, <2>2, <2>3, ClientBegun DEF ClientBegins
<1>4. CASE ClientReadInfo /\ ~ClientExit
  <2>1. /\ cpc = "read_info" /\ cpc' = "write_info" /\ ReadInfo("client")
        /\ UNCHANGED <<msg_count, completions, spc, qp, rq, posted, unacked, cq, buf, slog, clog>>
    BY <1>4 DEF ClientReadInfo, ReadInfo, logVars, rcVars
  <2>2. /\ wire' \in [Ends -> {<<>>} \union {<<Encoded(d)>> : d \in Ends}]
        /\ \A d \in Ends : wire'[d] \in {<<>>, <<Encoded(d)>>}
        /\ remote' \in [Ends -> {NoInfo, Address("client"), Address("server")}]
        /\ remote'["client"] = Address("server") /\ remote'["server"] = remote["server"]
        /\ UNCHANGED connected
    BY <1>1, <2>1, WireFacts
  <2>3. Addresses'
    BY <1>1, <2>1, <2>2 DEF Addresses
  <2>4. TypeOK'
    <3>1. \A e \in Ends : remote'[e].gid \in Ends \union {"none"}
      BY <2>2 DEF NoInfo, Address, Ends
    <3>2. QED
      BY <1>1, <2>1, <2>2, <3>1 DEF TypeOK
  <2>5. qp["client"] = "RESET"
    BY <1>1, <2>1 DEF ClientQueues, ClientBegins
  <2>6. QED
    BY <2>1, <2>3, <2>4, <2>5, ClientBegun DEF ClientBegins
<1>5. CASE ClientWriteInfo /\ ~ClientExit
  <2>1. /\ cpc = "write_info" /\ cpc' = "setup" /\ WriteInfo("client")
        /\ UNCHANGED <<msg_count, completions, spc, remote, qp, rq, posted, unacked, cq, buf, slog,
                       clog>>
    BY <1>5 DEF ClientWriteInfo, WriteInfo, logVars, rcVars
  <2>2. /\ wire' \in [Ends -> {<<>>} \union {<<Encoded(d)>> : d \in Ends}]
        /\ \A d \in Ends : wire'[d] \in {<<>>, <<Encoded(d)>>}
        /\ UNCHANGED connected
    BY <1>1, <2>1, WireFacts
  <2>3. Addresses' /\ TypeOK'
    BY <1>1, <2>1, <2>2 DEF Addresses, ClientKnows, TypeOK
  <2>4. qp["client"] = "RESET"
    BY <1>1, <2>1 DEF ClientQueues, ClientBegins
  <2>5. QED
    BY <2>1, <2>3, <2>4, ClientBegun DEF ClientBegins
<1>6. CASE ClientSetup
  <2>1. /\ cpc = "setup" /\ cpc' = (IF qp["client"] = "RTR" THEN "prepare" ELSE "setup")
        /\ ModifyQp("client")
        /\ UNCHANGED <<msg_count, completions, spc, connected, wire, remote, rq, posted, unacked,
                       cq, buf, slog, clog>>
    BY <1>6 DEF ClientSetup, ModifyQp, logVars, tcpVars
  <2>2. /\ qp' \in [Ends -> QpStates] /\ qp'["server"] = qp["server"]
        /\ qp["client"] = "RTR" => qp'["client"] = "RTS"
        /\ qp["client"] # "RTR" => qp'["client"] \in {"INIT", "RTR"}
    BY <1>1, <2>1, ModifyFacts
  <2>3. Addresses' /\ TypeOK'
    BY <1>1, <2>1, <2>2 DEF Addresses, ClientKnows, TypeOK
  <2>4. QED
    BY <2>1, <2>2, <2>3, ClientBegun DEF ClientBegins
<1>7. QED
  BY <1>2, <1>3, <1>4, <1>5, <1>6

LEMMA ServerBeginsStep ==
    ASSUME IInv,
           \/ ServerListen \/ ServerAccept \/ ServerWriteInfo \/ ServerReadInfo \/ ServerSetup
    PROVE  IInv'
<1>1. /\ TypeOK /\ Addresses /\ ServerQueues
      /\ "client" \in Ends /\ "server" \in Ends /\ Peer("server") = "client"
  BY DEF IInv, Ends, Peer
<1>2. CASE ServerExit
  BY <1>2, ServerDies
<1>3. CASE ServerListen \/ ServerAccept
  <2>1. /\ spc \in {"listen", "accept"} /\ spc' \in {"accept", "write_info"}
        /\ UNCHANGED <<cpc, msg_count, completions, connected, wire, remote, qp, rq, posted,
                       unacked, cq, buf, slog, clog>>
    BY <1>3 DEF ServerListen, ServerAccept, clientVars, tcpVars, rcVars, logVars
  <2>2. TypeOK' /\ Addresses'
    BY <1>1, <2>1 DEF TypeOK, Addresses, ServerKnows
  <2>3. qp["server"] = "RESET"
    BY <1>1, <2>1 DEF ServerQueues, ServerBegins
  <2>4. QED
    BY <2>1, <2>2, <2>3, ServerBegun DEF ServerBegins
<1>4. CASE ServerReadInfo /\ ~ServerExit
  <2>1. /\ spc = "read_info" /\ spc' = "setup" /\ ReadInfo("server")
        /\ UNCHANGED <<cpc, msg_count, completions, qp, rq, posted, unacked, cq, buf, slog, clog>>
    BY <1>4 DEF ServerReadInfo, ReadInfo, clientVars, logVars, rcVars
  <2>2. /\ wire' \in [Ends -> {<<>>} \union {<<Encoded(d)>> : d \in Ends}]
        /\ \A d \in Ends : wire'[d] \in {<<>>, <<Encoded(d)>>}
        /\ remote' \in [Ends -> {NoInfo, Address("client"), Address("server")}]
        /\ remote'["server"] = Address("client") /\ remote'["client"] = remote["client"]
        /\ UNCHANGED connected
    BY <1>1, <2>1, WireFacts
  <2>3. Addresses'
    BY <1>1, <2>1, <2>2 DEF Addresses
  <2>4. TypeOK'
    <3>1. \A e \in Ends : remote'[e].gid \in Ends \union {"none"}
      BY <2>2 DEF NoInfo, Address, Ends
    <3>2. QED
      BY <1>1, <2>1, <2>2, <3>1 DEF TypeOK
  <2>5. qp["server"] = "RESET"
    BY <1>1, <2>1 DEF ServerQueues, ServerBegins
  <2>6. QED
    BY <2>1, <2>3, <2>4, <2>5, ServerBegun DEF ServerBegins
<1>5. CASE ServerWriteInfo /\ ~ServerExit
  <2>1. /\ spc = "write_info" /\ spc' = "read_info" /\ WriteInfo("server")
        /\ UNCHANGED <<cpc, msg_count, completions, remote, qp, rq, posted, unacked, cq, buf, slog,
                       clog>>
    BY <1>5 DEF ServerWriteInfo, WriteInfo, clientVars, logVars, rcVars
  <2>2. /\ wire' \in [Ends -> {<<>>} \union {<<Encoded(d)>> : d \in Ends}]
        /\ \A d \in Ends : wire'[d] \in {<<>>, <<Encoded(d)>>}
        /\ UNCHANGED connected
    BY <1>1, <2>1, WireFacts
  <2>3. Addresses' /\ TypeOK'
    BY <1>1, <2>1, <2>2 DEF Addresses, ServerKnows, TypeOK
  <2>4. qp["server"] = "RESET"
    BY <1>1, <2>1 DEF ServerQueues, ServerBegins
  <2>5. QED
    BY <2>1, <2>3, <2>4, ServerBegun DEF ServerBegins
<1>6. CASE ServerSetup
  <2>1. /\ spc = "setup" /\ spc' = (IF qp["server"] = "RTR" THEN "post_receive" ELSE "setup")
        /\ ModifyQp("server")
        /\ UNCHANGED <<cpc, msg_count, completions, connected, wire, remote, rq, posted, unacked,
                       cq, buf, slog, clog>>
    BY <1>6 DEF ServerSetup, ModifyQp, clientVars, logVars, tcpVars
  <2>2. /\ qp' \in [Ends -> QpStates] /\ qp'["client"] = qp["client"]
        /\ qp["server"] = "RTR" => qp'["server"] = "RTS"
        /\ qp["server"] # "RTR" => qp'["server"] \in {"INIT", "RTR"}
    BY <1>1, <2>1, ModifyFacts
  <2>3. Addresses' /\ TypeOK'
    BY <1>1, <2>1, <2>2 DEF Addresses, ServerKnows, TypeOK
  <2>4. QED
    BY <2>1, <2>2, <2>3, ServerBegun DEF ServerBegins
<1>7. QED
  BY <1>2, <1>3, <1>4, <1>5, <1>6

(***************************************************************************)
(* A round of messages.                                                    *)
(***************************************************************************)

\* The queues a client may find.
LEMMA ShortQueues ==
    ASSUME NEW q
    PROVE  /\ q = <<>> => Len(q) = 0 /\ ~Received(q)
           /\ q = <<"SEND">> => Len(q) = 1 /\ ~Received(q) /\ ~Contains(q, "ERR")
           /\ q = <<"RECV">> => Len(q) = 1 /\ Received(q) /\ ~Contains(q, "ERR")
           /\ q = <<"SEND", "RECV">> => Len(q) = 2 /\ Received(q) /\ ~Contains(q, "ERR")
           /\ q = <<"RECV", "SEND">> => Len(q) = 2 /\ Received(q) /\ ~Contains(q, "ERR")
           /\ q = <<"ERR">> => Len(q) = 1 /\ ~Received(q) /\ Contains(q, "ERR")
           /\ q = <<"ERR", "ERR">> => Len(q) = 2 /\ ~Received(q) /\ Contains(q, "ERR")
           /\ q = <<"RECV", "ERR">> => Len(q) = 2 /\ Received(q) /\ Contains(q, "ERR")
<1>1. /\ q = <<>> => Len(q) = 0 /\ ~Received(q)
      /\ q = <<"SEND">> => Len(q) = 1 /\ ~Received(q) /\ ~Contains(q, "ERR")
      /\ q = <<"RECV">> => Len(q) = 1 /\ Received(q) /\ ~Contains(q, "ERR")
  BY DEF Received, Contains
<1>2. /\ q = <<"SEND", "RECV">> => Len(q) = 2 /\ Received(q) /\ ~Contains(q, "ERR")
      /\ q = <<"RECV", "SEND">> => Len(q) = 2 /\ Received(q) /\ ~Contains(q, "ERR")
  BY DEF Received, Contains
<1>3. /\ q = <<"ERR">> => Len(q) = 1 /\ ~Received(q) /\ Contains(q, "ERR")
      /\ q = <<"ERR", "ERR">> => Len(q) = 2 /\ ~Received(q) /\ Contains(q, "ERR")
      /\ q = <<"RECV", "ERR">> => Len(q) = 2 /\ Received(q) /\ Contains(q, "ERR")
  BY DEF Received, Contains
<1>4. QED
  BY <1>1, <1>2, <1>3

\* The types that the queues of an end depend on.
RcTypes ==
    /\ qp \in [Ends -> QpStates]
    /\ rq \in [Ends -> 0..1] /\ posted \in [Ends -> 0..1] /\ unacked \in [Ends -> 0..1]
    /\ cq \in [Ends -> Seq(Completions)]
    /\ buf \in [Ends -> 0..Messages]

LEMMA TypeFacts ==
    ASSUME IInv
    PROVE  /\ RcTypes /\ msg_count \in 0..Messages /\ Messages \in Nat
           /\ slog \in Seq(0..Messages) /\ clog \in Seq(0..Messages)
           /\ "client" \in Ends /\ "server" \in Ends
           /\ Peer("client") = "server" /\ Peer("server") = "client"
           /\ \A e \in Ends : e = "client" \/ e = "server"
BY BoundsAssumption DEF IInv, TypeOK, RcTypes, Completions, Ends, Peer

\* The rest of the types stays as it is.
LEMMA TypeKept ==
    ASSUME IInv, RcTypes', UNCHANGED tcpVars,
           cpc' \in {"prepare", "send", "wait", cpc}, msg_count' \in 0..Messages,
           completions' \in 0..2,
           spc' \in {"post_receive", "wait_recv", "wait_send", spc},
           slog' \in Seq(0..Messages), clog' \in Seq(0..Messages)
    PROVE  TypeOK'
BY DEF IInv, TypeOK, RcTypes, Completions, tcpVars

LEMMA AddressesKept ==
    ASSUME IInv, UNCHANGED tcpVars,
           cpc' \in ClientKnows => cpc \in ClientKnows,
           spc' \in ServerKnows => spc \in ServerKnows
    PROVE  Addresses'
BY DEF IInv, Addresses, tcpVars

LEMMA PrepareStep ==
    ASSUME IInv, ClientPrepare
    PROVE  IInv'
<1>1. /\ RcTypes /\ msg_count \in 0..Messages /\ Messages \in Nat
      /\ "client" \in Ends /\ "server" \in Ends
  BY TypeFacts
<1>2. ServerQueues /\ ClientQueues /\ AtServer /\ AtClient /\ Logs
  BY DEF IInv
<1>3. /\ cpc = "prepare" /\ msg_count < Messages /\ cpc' = "send"
      /\ buf' = [buf EXCEPT !["client"] = msg_count]
      /\ rq' = [rq EXCEPT !["client"] = @ + 1]
      /\ UNCHANGED <<tcpVars, qp, posted, unacked, cq, msg_count, completions, spc, slog, clog>>
  BY DEF ClientPrepare, PostEchoReceive, PostReceive, logVars
<1>4. qp["client"] = "RTS" /\ Queues("client", 0, 0, 0, <<>>)
      /\ NotAtServer /\ Len(slog) = msg_count /\ Len(clog) = msg_count
  BY <1>2, <1>3 DEF ClientQueues, AtClient
<1>5. /\ buf'["client"] = msg_count /\ buf'["server"] = buf["server"]
      /\ rq'["client"] = 1 /\ rq'["server"] = rq["server"]
      /\ RcTypes'
  BY <1>1, <1>3, <1>4 DEF RcTypes, Queues
<1>6. TypeOK'
  <2>1. completions \in 0..2 /\ slog \in Seq(0..Messages) /\ clog \in Seq(0..Messages)
    BY DEF IInv, TypeOK
  <2>2. QED
    BY <1>1, <1>3, <1>5, <2>1, TypeKept
<1>7. Addresses'
  BY <1>3, AddressesKept DEF ClientKnows
<1>8. ServerQueues' /\ (Arrived' <=> Arrived) /\ (Echoing' <=> Echoing)
  BY <1>2, <1>3, <1>5, ServerKept
<1>9. ClientQueues'
  BY <1>3, <1>4, <1>5 DEF ClientQueues, Queues, ClientBegins
<1>10. AtServer' /\ AtClient'
  BY <1>3, <1>4, <1>5, <1>8 DEF AtServer, AtClient, NotAtServer
<1>11. Logs'
  BY <1>2, <1>3 DEF Logs, Log
<1>12. QED
  BY <1>6, <1>7, <1>8, <1>9, <1>10, <1>11 DEF IInv

LEMMA SendStep ==
    ASSUME IInv, ClientSend
    PROVE  IInv'
<1>1. /\ RcTypes /\ msg_count \in 0..Messages /\ "client" \in Ends /\ "server" \in Ends
      /\ slog \in Seq(0..Messages) /\ clog \in Seq(0..Messages)
  BY TypeFacts
<1>2. ServerQueues /\ ClientQueues /\ AtServer /\ AtClient /\ Logs
  BY DEF IInv
<1>3. /\ cpc = "send" /\ cpc' = "wait" /\ completions' = 0
      /\ posted' = [posted EXCEPT !["client"] = @ + 1]
      /\ UNCHANGED <<tcpVars, qp, rq, unacked, cq, buf, msg_count, spc, slog, clog>>
  BY DEF ClientSend, FirstCount, PostSend, logVars
<1>4. /\ qp["client"] = "RTS" /\ Queues("client", 0, 0, 1, <<>>)
      /\ NotAtServer /\ Len(slog) = msg_count /\ Len(clog) = msg_count
      /\ msg_count < Messages /\ buf["client"] = msg_count
  BY <1>2, <1>3 DEF ClientQueues, AtClient
<1>5. posted'["client"] = 1 /\ posted'["server"] = posted["server"] /\ RcTypes'
  BY <1>1, <1>3, <1>4 DEF RcTypes, Queues
<1>6. TypeOK'
  BY <1>1, <1>3, <1>5, TypeKept
<1>7. Addresses'
  BY <1>3, AddressesKept DEF ClientKnows
<1>8. ServerQueues' /\ (Arrived' <=> Arrived) /\ (Echoing' <=> Echoing)
  BY <1>2, <1>3, <1>5, ServerKept
<1>9. ClientQueues'
  BY <1>3, <1>4, <1>5 DEF ClientQueues, Waiting, Queues, ClientBegins
<1>10. AtServer' /\ AtClient'
  BY <1>3, <1>4, <1>5, <1>8 DEF AtServer, AtClient, NotAtServer, Queues
<1>11. Logs'
  BY <1>2, <1>3 DEF Logs, Log
<1>12. QED
  BY <1>6, <1>7, <1>8, <1>9, <1>10, <1>11 DEF IInv

\* The client takes the whole of its queue.
LEMMA PollFacts ==
    ASSUME IInv, ClientPoll
    PROVE  /\ Polled = cq["client"] /\ cq["client"] # <<>> /\ cpc = "wait"
           /\ \/ qp["client"] = "RTS" /\ Waiting /\ ~Contains(cq["client"], "ERR")
              \/ qp["client"] = "ERR" /\ Failing /\ Contains(cq["client"], "ERR")
<1>1. cpc = "wait" /\ cq["client"] # <<>>
  BY DEF ClientPoll
<1>2. (qp["client"] = "RTS" /\ Waiting) \/ (qp["client"] = "ERR" /\ Failing)
  BY <1>1 DEF IInv, ClientQueues
<1>3. /\ cq["client"] \in Seq(Completions) /\ Len(cq["client"]) <= 2
      /\ Waiting => ~Contains(cq["client"], "ERR")
      /\ Failing => Contains(cq["client"], "ERR")
  <2>1. cq["client"] \in Seq(Completions)
    BY TypeFacts DEF RcTypes
  <2>2. /\ Waiting => cq["client"] \in {<<"SEND">>, <<"RECV">>, <<"SEND", "RECV">>,
                                       <<"RECV", "SEND">>}
        /\ Failing => cq["client"] \in {<<"ERR">>, <<"ERR", "ERR">>, <<"RECV", "ERR">>}
    BY <1>1 DEF Waiting, Failing, Queues
  <2> PICK q : q = cq["client"]
    OBVIOUS
  <2>3. /\ q = <<"SEND">> => Len(q) = 1 /\ ~Contains(q, "ERR")
        /\ q = <<"RECV">> => Len(q) = 1 /\ ~Contains(q, "ERR")
        /\ q = <<"SEND", "RECV">> => Len(q) = 2 /\ ~Contains(q, "ERR")
        /\ q = <<"RECV", "SEND">> => Len(q) = 2 /\ ~Contains(q, "ERR")
        /\ q = <<"ERR">> => Len(q) = 1 /\ Contains(q, "ERR")
        /\ q = <<"ERR", "ERR">> => Len(q) = 2 /\ Contains(q, "ERR")
        /\ q = <<"RECV", "ERR">> => Len(q) = 2 /\ Contains(q, "ERR")
    BY ShortQueues
  <2>4. /\ Waiting => ~Contains(q, "ERR") /\ (Len(q) = 1 \/ Len(q) = 2)
        /\ Failing => Contains(q, "ERR") /\ (Len(q) = 1 \/ Len(q) = 2)
    BY <2>2, <2>3
  <2>5. QED
    <3>1. 1 <= 2 /\ 2 <= 2
      OBVIOUS
    <3>2. QED
      BY <1>2, <2>1, <2>4, <3>1, Zenon
<1>4. Polled = cq["client"]
  <2>1. (IF Len(cq["client"]) < 2 THEN Len(cq["client"]) ELSE 2) = Len(cq["client"])
    BY <1>3
  <2>2. QED
    BY <1>3, <2>1, WholeQueue DEF Polled
<1>5. QED
  BY <1>1, <1>2, <1>3, <1>4

LEMMA PollStep ==
    ASSUME IInv, ClientPoll
    PROVE  IInv'
<1>1. /\ RcTypes /\ msg_count \in 0..Messages /\ Messages \in Nat
      /\ "client" \in Ends /\ "server" \in Ends
      /\ slog \in Seq(0..Messages) /\ clog \in Seq(0..Messages)
  BY TypeFacts
<1>2. ServerQueues /\ ClientQueues /\ AtServer /\ AtClient /\ Logs
  BY DEF IInv
<1>3. /\ Polled = cq["client"] /\ cq["client"] # <<>> /\ cpc = "wait"
      /\ \/ qp["client"] = "RTS" /\ Waiting /\ ~Contains(cq["client"], "ERR")
         \/ qp["client"] = "ERR" /\ Failing /\ Contains(cq["client"], "ERR")
  BY PollFacts
<1>4. /\ clog' = IF Received(cq["client"]) THEN Append(clog, buf["client"]) ELSE clog
      /\ UNCHANGED <<spc, slog>>
      /\ msg_count < Messages /\ buf["client"] = msg_count
  BY <1>2, <1>3 DEF ClientPoll, AtClient
<1>5. ASSUME Received(cq["client"]), rq["client"] = 0
      PROVE  /\ NotAtServer /\ Len(slog) = msg_count + 1 /\ Len(clog) = msg_count
             /\ clog' \in Seq(0..Messages) /\ Log(clog') /\ Len(clog') = msg_count + 1
  <2>1. cq["client"] # <<"ERR", "ERR">>
    BY <1>5, ShortQueues
  <2>2. NotAtServer /\ Len(slog) = msg_count + 1 /\ Len(clog) = msg_count
    BY <1>2, <1>3, <1>5, <2>1 DEF AtClient
  <2>3. clog' = Append(clog, msg_count)
    BY <1>4, <1>5
  <2>4. QED
    BY <1>1, <1>2, <2>2, <2>3, AppendLog DEF Logs
<1>6. CASE qp["client"] = "ERR"
  <2>1. Contains(cq["client"], "ERR") /\ Failing
    BY <1>3, <1>6
  <2>2. cpc' = "died" /\ Exit("client") /\ UNCHANGED <<msg_count, completions>>
    BY <1>3, <2>1 DEF ClientPoll
  <2>3. rq["client"] = 0
    BY <2>1 DEF Failing, Queues
  <2>4. CASE Received(cq["client"])
    <3>1. Logs'
      BY <1>1, <1>2, <1>4, <1>5, <2>2, <2>3, <2>4 DEF Logs, Log
    <3>2. QED
      BY <1>4, <1>5, <2>2, <2>3, <2>4, <3>1, ClientDies
  <2>5. CASE ~Received(cq["client"])
    <3>1. clog' = clog
      BY <1>4, <2>5
    <3>2. Logs'
      BY <1>2, <1>4, <2>2, <3>1 DEF Logs, Log
    <3>3. QED
      BY <1>1, <1>4, <2>2, <3>1, <3>2, ClientDies
  <2>6. QED
    BY <2>4, <2>5
<1>7. CASE qp["client"] = "RTS"
  <2>1. Waiting /\ ~Contains(cq["client"], "ERR")
    BY <1>3, <1>7
  <2>2. /\ cq' = [cq EXCEPT !["client"] = SubSeq(@, Len(cq["client"]) + 1, Len(@))]
        /\ completions' = completions + Len(cq["client"])
        /\ IF completions + Len(cq["client"]) >= 2
             THEN cpc' = "prepare" /\ msg_count' = msg_count + 1
             ELSE UNCHANGED <<cpc, msg_count>>
        /\ UNCHANGED <<tcpVars, qp, rq, posted, unacked, buf>>
    BY <1>3, <2>1 DEF ClientPoll, RoundOver
  <2>3. cq'["client"] = <<>> /\ cq'["server"] = cq["server"] /\ RcTypes'
    <3>1. cq["client"] \in Seq(Completions) /\ <<>> \in Seq(Completions)
      BY <1>1 DEF RcTypes
    <3>2. cq' = [cq EXCEPT !["client"] = <<>>]
      BY <2>2, <3>1, WholeQueue
    <3>3. QED
      BY <1>1, <2>2, <3>1, <3>2 DEF RcTypes
  <2>4. ServerQueues' /\ (Arrived' <=> Arrived) /\ (Echoing' <=> Echoing)
    BY <1>2, <1>4, <2>2, <2>3, ServerKept
  \* The send alone is back, or the echo alone, or both now are.
  <2>5. \/ /\ completions = 0 /\ Queues("client", 0, 0, 1, <<"SEND">>)
        \/ /\ completions = 0 /\ Queues("client", 0, 1, 0, <<"RECV">>)
        \/ /\ completions = 0 \/ completions = 1
           /\ completions + Len(cq["client"]) = 2
           /\ posted["client"] = 0 /\ unacked["client"] = 0 /\ rq["client"] = 0
    <3> PICK q : q = cq["client"]
      OBVIOUS
    <3>1. /\ q = <<"SEND">> => Len(q) = 1
          /\ q = <<"RECV">> => Len(q) = 1
          /\ q = <<"SEND", "RECV">> => Len(q) = 2
          /\ q = <<"RECV", "SEND">> => Len(q) = 2
      BY ShortQueues
    <3>2. \/ completions = 0 /\ Queues("client", 0, 0, 1, <<"SEND">>)
          \/ completions = 0 /\ Queues("client", 0, 1, 0, <<"RECV">>)
          \/ /\ \/ completions = 0 /\ (q = <<"SEND", "RECV">> \/ q = <<"RECV", "SEND">>)
                \/ completions = 1 /\ (q = <<"SEND">> \/ q = <<"RECV">>)
             /\ posted["client"] = 0 /\ unacked["client"] = 0 /\ rq["client"] = 0
      <4>1. Waiting /\ cq["client"] # <<>>
        BY <1>3, <2>1
      <4>2. QED
        BY <4>1 DEF Waiting, Queues
    <3>3. \/ completions = 0 /\ (q = <<"SEND", "RECV">> \/ q = <<"RECV", "SEND">>)
          \/ completions = 1 /\ (q = <<"SEND">> \/ q = <<"RECV">>)
          => completions + Len(q) = 2
      <4>1. 0 + 2 = 2 /\ 1 + 1 = 2
        OBVIOUS
      <4>2. QED
        BY <3>1, <4>1, Zenon
    <3>4. QED
      BY <3>2, <3>3
  <2>6. CASE completions = 0 /\ Queues("client", 0, 0, 1, <<"SEND">>)
    <3>1. clog' = clog /\ completions' = 1 /\ UNCHANGED <<cpc, msg_count>>
      BY <1>4, <2>2, <2>6, ShortQueues DEF Queues
    <3>2. TypeOK' /\ Addresses'
      BY <1>1, <1>4, <2>2, <2>3, <3>1, TypeKept, AddressesKept
    <3>3. ClientQueues'
      BY <1>3, <1>7, <2>2, <2>3, <2>6, <3>1 DEF ClientQueues, Waiting, Queues, ClientBegins
    <3>4. AtServer'
      BY <1>2, <1>4, <2>2, <2>4, <3>1 DEF AtServer
    <3>5. AtClient'
      BY <1>2, <1>3, <1>4, <2>2, <2>3, <2>6, <3>1 DEF AtClient, Queues, ClientBegins
    <3>6. Logs'
      BY <1>2, <1>4, <3>1 DEF Logs, Log
    <3>7. QED
      BY <2>4, <3>2, <3>3, <3>4, <3>5, <3>6 DEF IInv
  <2>7. CASE completions = 0 /\ Queues("client", 0, 1, 0, <<"RECV">>)
    <3>1. completions' = 1 /\ UNCHANGED <<cpc, msg_count>>
      BY <2>2, <2>7, ShortQueues DEF Queues
    <3>2. /\ NotAtServer /\ Len(slog) = msg_count + 1
          /\ clog' \in Seq(0..Messages) /\ Log(clog') /\ Len(clog') = msg_count + 1
      BY <1>5, <2>7, ShortQueues DEF Queues
    <3>3. TypeOK' /\ Addresses'
      BY <1>1, <1>4, <2>2, <2>3, <3>1, <3>2, TypeKept, AddressesKept
    <3>4. ClientQueues'
      BY <1>3, <1>7, <2>2, <2>3, <2>7, <3>1 DEF ClientQueues, Waiting, Queues, ClientBegins
    <3>5. AtServer' /\ NotAtServer'
      BY <2>4, <3>2 DEF AtServer, NotAtServer
    <3>6. AtClient'
      <4> PICK q : q = cq'["client"]
        OBVIOUS
      <4>1. ~Received(q) /\ q = <<>>
        BY <2>3, ShortQueues
      <4>2. ~Received(cq["client"])'
        BY <4>1 DEF Received
      <4>3. posted'["client"] = 0 /\ cpc' = "wait" /\ msg_count' = msg_count /\ slog' = slog
        BY <1>3, <1>4, <2>2, <2>7, <3>1 DEF Queues
      <4>4. rq'["client"] = 0 /\ cq'["client"] = <<>> /\ buf' = buf
        BY <2>2, <2>3, <2>7 DEF Queues
      <4>5. QED
        BY <1>4, <3>2, <3>5, <4>2, <4>3, <4>4 DEF AtClient, ClientBegins
    <3>7. Logs'
      BY <1>1, <1>2, <1>4, <3>1, <3>2 DEF Logs, Log
    <3>8. QED
      BY <2>4, <3>3, <3>4, <3>5, <3>6, <3>7 DEF IInv
  <2>8. CASE /\ completions = 0 \/ completions = 1
             /\ completions + Len(cq["client"]) = 2
             /\ posted["client"] = 0 /\ unacked["client"] = 0 /\ rq["client"] = 0
    <3>1. cpc' = "prepare" /\ msg_count' = msg_count + 1 /\ completions' = 2
      BY <2>2, <2>8
    <3>2. /\ NotAtServer /\ Len(slog) = msg_count + 1
          /\ clog' \in Seq(0..Messages) /\ Log(clog') /\ Len(clog') = msg_count + 1
      <4>1. CASE Received(cq["client"])
        BY <1>5, <2>8, <4>1
      <4>2. CASE ~Received(cq["client"])
        <5>1. cq["client"] # <<"ERR", "ERR">>
          BY <2>1, ShortQueues
        <5>2. QED
          BY <1>1, <1>2, <1>3, <1>4, <2>8, <4>2, <5>1 DEF AtClient, Logs
      <4>3. QED
        BY <4>1, <4>2
    <3>3. msg_count' \in 0..Messages
      BY <1>1, <1>4, <3>1
    <3>4. TypeOK'
      BY <1>1, <1>4, <2>2, <2>3, <3>1, <3>2, <3>3, TypeKept
    <3>5. Addresses'
      BY <1>3, <1>4, <2>2, AddressesKept DEF ClientKnows
    <3>6. ClientQueues'
      BY <1>7, <2>2, <2>3, <2>8, <3>1 DEF ClientQueues, Queues, ClientBegins
    <3>7. AtServer' /\ NotAtServer'
      BY <2>4, <3>2 DEF AtServer, NotAtServer
    <3>8. AtClient'
      BY <1>4, <2>2, <2>8, <3>1, <3>2, <3>7 DEF AtClient
    <3>9. Logs'
      BY <1>1, <1>2, <1>4, <3>1, <3>2 DEF Logs, Log
    <3>10. QED
      BY <2>4, <3>4, <3>5, <3>6, <3>7, <3>8, <3>9 DEF IInv
  <2>9. QED
    BY <2>5, <2>6, <2>7, <2>8
<1>8. QED
  BY <1>3, <1>6, <1>7

(***************************************************************************)
(* The server's side of it.                                                *)
(***************************************************************************)
LEMMA ServerReceives ==
    ASSUME IInv, ServerPollRecv
    PROVE  IInv'
<1>1. /\ RcTypes /\ msg_count \in 0..Messages /\ Messages \in Nat
      /\ "client" \in Ends /\ "server" \in Ends
      /\ slog \in Seq(0..Messages) /\ clog \in Seq(0..Messages)
  BY TypeFacts
<1>2. ServerQueues /\ ClientQueues /\ AtServer /\ AtClient /\ Logs
  BY DEF IInv
<1>3. /\ spc = "wait_recv" /\ cq["server"] # <<>>
      /\ cq' = [cq EXCEPT !["server"] = Tail(@)]
      /\ UNCHANGED <<cpc, msg_count, completions, tcpVars, qp, rq, unacked, buf, clog>>
  BY DEF ServerPollRecv, Take, clientVars
<1>4. qp["server"] = "RTS" /\ Queues("server", 0, 0, 0, <<"RECV">>) /\ Arrived
  BY <1>2, <1>3 DEF ServerQueues, Queues, Arrived
<1>5. /\ slog' = Append(slog, buf["server"]) /\ spc' = "wait_send"
      /\ posted' = [posted EXCEPT !["server"] = @ + 1]
      /\ cq' = [cq EXCEPT !["server"] = <<>>]
  BY <1>3, <1>4 DEF ServerPollRecv, Queues
<1>6. /\ posted'["server"] = 1 /\ posted'["client"] = posted["client"]
      /\ cq'["server"] = <<>> /\ cq'["client"] = cq["client"]
      /\ RcTypes'
  <2>1. <<>> \in Seq(Completions)
    OBVIOUS
  <2>2. QED
    BY <1>1, <1>3, <1>4, <1>5, <2>1 DEF RcTypes, Queues
<1>7. /\ msg_count < Messages /\ buf["server"] = msg_count
      /\ Len(slog) = msg_count /\ Len(clog) = msg_count
  BY <1>2, <1>4 DEF AtServer
<1>8. slog' \in Seq(0..Messages) /\ Log(slog') /\ Len(slog') = msg_count + 1
  BY <1>1, <1>2, <1>5, <1>7, AppendLog DEF Logs
<1>9. TypeOK'
  <2>1. completions \in 0..2
    BY DEF IInv, TypeOK
  <2>2. QED
    BY <1>1, <1>3, <1>5, <1>6, <1>8, <2>1, TypeKept
<1>10. Addresses'
  BY <1>3, <1>5, AddressesKept DEF ServerKnows
<1>11. ClientQueues'
  BY <1>2, <1>3, <1>6, ClientKept
<1>12. ServerQueues' /\ ~Arrived' /\ Echoing'
  BY <1>3, <1>4, <1>5, <1>6 DEF ServerQueues, Queues, ServerBegins, Arrived, Echoing
<1>13. AtServer'
  BY <1>3, <1>7, <1>8, <1>12 DEF AtServer
<1>14. AtClient'
  <2>1. /\ cpc \notin ClientBegins \union {"prepare", "send"} /\ posted["client"] # 1
        /\ ~(cpc = "wait" /\ rq["client"] = 0 /\ cq["client"] # <<"ERR", "ERR">>)
    BY <1>2, <1>4 DEF AtClient, NotAtServer
  <2>2. QED
    BY <1>2, <1>3, <1>6, <2>1 DEF AtClient
<1>15. Logs'
  BY <1>1, <1>2, <1>3, <1>7, <1>8 DEF Logs, Log
<1>16. QED
  BY <1>9, <1>10, <1>11, <1>12, <1>13, <1>14, <1>15 DEF IInv

\* Steps after which the message is as little with the server as before.
LEMMA ServerProceeds ==
    ASSUME IInv, RcTypes', ServerQueues',
           spc' \in {"post_receive", "wait_recv", "wait_send"} , spc \in ServerKnows,
           NotAtServer',
           qp'["client"] = qp["client"], posted'["client"] = posted["client"],
           unacked'["client"] = unacked["client"], rq'["client"] = rq["client"],
           cq'["client"] = cq["client"],
           UNCHANGED <<cpc, msg_count, completions, tcpVars, buf, slog, clog>>
    PROVE  IInv'
<1>1. ClientQueues /\ AtClient /\ Logs
  BY DEF IInv
<1>2. TypeOK'
  <2>1. /\ msg_count \in 0..Messages /\ completions \in 0..2
        /\ slog \in Seq(0..Messages) /\ clog \in Seq(0..Messages)
    BY DEF IInv, TypeOK
  <2>2. QED
    BY <2>1, TypeKept
<1>3. Addresses'
  BY AddressesKept
<1>4. ClientQueues'
  BY <1>1, ClientKept
<1>5. AtServer' /\ AtClient'
  BY <1>1 DEF AtServer, AtClient, NotAtServer
<1>6. Logs'
  BY <1>1 DEF Logs, Log
<1>7. QED
  BY <1>2, <1>3, <1>4, <1>5, <1>6 DEF IInv

LEMMA ServerQuietStep ==
    ASSUME IInv, ServerPostReceive \/ ServerPollSend
    PROVE  IInv'
<1>1. RcTypes /\ "client" \in Ends /\ "server" \in Ends /\ ServerQueues
  BY TypeFacts DEF IInv
<1>2. CASE ServerPostReceive
  <2>1. /\ spc = "post_receive" /\ spc' = "wait_recv" /\ rq' = [rq EXCEPT !["server"] = @ + 1]
        /\ UNCHANGED <<cpc, msg_count, completions, tcpVars, qp, posted, unacked, cq, buf, slog, clog>>
    BY <1>2 DEF ServerPostReceive, PostReceive, clientVars, logVars
  <2>2. qp["server"] = "RTS" /\ Queues("server", 0, 0, 0, <<>>)
    BY <1>1, <2>1 DEF ServerQueues
  <2>3. rq'["server"] = 1 /\ rq'["client"] = rq["client"] /\ RcTypes'
    BY <1>1, <2>1, <2>2 DEF RcTypes, Queues
  <2>4. ServerQueues' /\ NotAtServer'
    BY <2>1, <2>2, <2>3
    DEF ServerQueues, Queues, ServerBegins, NotAtServer, Arrived, Echoing
  <2>5. QED
    BY <2>1, <2>3, <2>4, ServerProceeds DEF ServerKnows
<1>3. CASE ServerPollSend
  <2>1. /\ spc = "wait_send" /\ spc' = "post_receive"
        /\ cq["server"] # <<>> /\ Head(cq["server"]) # "ERR"
        /\ cq' = [cq EXCEPT !["server"] = Tail(@)]
        /\ UNCHANGED <<cpc, msg_count, completions, tcpVars, qp, rq, posted, unacked, buf, slog, clog>>
    BY <1>3 DEF ServerPollSend, Take, clientVars
  <2>2. qp["server"] = "RTS" /\ Queues("server", 0, 0, 0, <<"SEND">>)
    BY <1>1, <2>1 DEF ServerQueues, Queues
  <2>3. cq' = [cq EXCEPT !["server"] = <<>>]
    BY <2>1, <2>2 DEF Queues
  <2>4. cq'["server"] = <<>> /\ cq'["client"] = cq["client"] /\ RcTypes'
    <3>1. <<>> \in Seq(Completions)
      OBVIOUS
    <3>2. QED
      BY <1>1, <2>1, <2>3, <3>1 DEF RcTypes
  <2>5. ServerQueues' /\ NotAtServer'
    BY <2>1, <2>2, <2>4
    DEF ServerQueues, Queues, ServerBegins, NotAtServer, Arrived, Echoing
  <2>6. QED
    BY <2>1, <2>4, <2>5, ServerProceeds DEF ServerKnows
<1>4. QED
  BY <1>2, <1>3

(***************************************************************************)
(* The adapters.                                                           *)
(***************************************************************************)

\* A client that has something outstanding waits for it.
LEMMA ClientOutstanding ==
    ASSUME IInv, qp["client"] = "RTS", posted["client"] # 0 \/ unacked["client"] # 0
    PROVE  cpc = "wait" /\ Waiting
BY DEF IInv, ClientQueues, ClientBegins, Queues, TypeOK

LEMMA ServerOutstanding ==
    ASSUME IInv, qp["server"] = "RTS", posted["server"] # 0 \/ unacked["server"] # 0
    PROVE  /\ spc = "wait_send"
           /\ Queues("server", 1, 0, 0, <<>>) \/ Queues("server", 0, 1, 0, <<>>)
BY DEF IInv, ServerQueues, ServerBegins, Queues, TypeOK

LEMMA DeliverToServer ==
    ASSUME IInv, Deliver("client")
    PROVE  IInv'
<1>1. /\ RcTypes /\ msg_count \in 0..Messages /\ Messages \in Nat
      /\ "client" \in Ends /\ "server" \in Ends /\ Peer("client") = "server"
      /\ slog \in Seq(0..Messages) /\ clog \in Seq(0..Messages)
  BY TypeFacts
<1>2. ServerQueues /\ ClientQueues /\ AtServer /\ AtClient /\ Logs
  BY DEF IInv
<1>3. /\ qp["client"] = "RTS" /\ posted["client"] > 0 /\ rq["server"] > 0
      /\ posted' = [posted EXCEPT !["client"] = @ - 1]
      /\ unacked' = [unacked EXCEPT !["client"] = @ + 1]
      /\ rq' = [rq EXCEPT !["server"] = @ - 1]
      /\ buf' = [buf EXCEPT !["server"] = buf["client"]]
      /\ cq' = [cq EXCEPT !["server"] = Append(@, "RECV")]
      /\ UNCHANGED <<cpc, msg_count, completions, spc, tcpVars, qp, slog, clog>>
  BY <1>1 DEF Deliver, pcVars, clientVars, logVars
<1>4. cpc = "wait" /\ completions = 0 /\ Queues("client", 1, 0, 1, <<>>)
  <2>1. posted["client"] # 0
    BY <1>3
  <2>2. cpc = "wait" /\ Waiting
    BY <1>3, <2>1, ClientOutstanding
  <2>3. QED
    BY <2>1, <2>2 DEF Waiting, Queues
<1>5. spc = "wait_recv" /\ qp["server"] = "RTS" /\ Queues("server", 0, 0, 1, <<>>)
  <2>1. rq["server"] # 0
    BY <1>3
  <2>2. spc \in ServerBegins \union {"post_receive", "wait_recv", "wait_send", "died"}
    BY DEF IInv, TypeOK, ServerBegins
  <2>3. QED
    BY <1>2, <2>1, <2>2 DEF ServerQueues, Queues
<1>6. cq' = [cq EXCEPT !["server"] = <<"RECV">>]
  BY <1>3, <1>5 DEF Queues
<1>7. /\ posted'["client"] = 0 /\ unacked'["client"] = 1 /\ rq'["client"] = 1
      /\ cq'["client"] = <<>>
      /\ posted'["server"] = 0 /\ unacked'["server"] = 0 /\ rq'["server"] = 0
      /\ cq'["server"] = <<"RECV">>
      /\ buf'["server"] = buf["client"] /\ buf'["client"] = buf["client"]
      /\ RcTypes'
  <2>1. <<"RECV">> \in Seq(Completions)
    BY DEF Completions
  <2>2. QED
    BY <1>1, <1>3, <1>4, <1>5, <1>6, <2>1 DEF RcTypes, Queues
<1>8. /\ NotAtServer /\ Len(slog) = msg_count /\ Len(clog) = msg_count
      /\ msg_count < Messages /\ buf["client"] = msg_count
  BY <1>2, <1>4 DEF AtClient, Queues
<1>9. TypeOK' /\ Addresses'
  <2>1. completions \in 0..2
    BY <1>4
  <2>2. QED
    BY <1>1, <1>3, <1>7, <2>1, TypeKept, AddressesKept
<1>10. ServerQueues' /\ Arrived' /\ ~Echoing'
  BY <1>3, <1>5, <1>7 DEF ServerQueues, Queues, ServerBegins, Arrived, Echoing
<1>11. ClientQueues'
  BY <1>3, <1>4, <1>7 DEF ClientQueues, Waiting, Queues, ClientBegins
<1>12. AtServer'
  BY <1>3, <1>7, <1>8, <1>10 DEF AtServer
<1>13. AtClient'
  BY <1>3, <1>4, <1>7, <1>8 DEF AtClient, ClientBegins
<1>14. Logs'
  BY <1>2, <1>3 DEF Logs, Log
<1>15. QED
  BY <1>9, <1>10, <1>11, <1>12, <1>13, <1>14 DEF IInv

\* The echo finds the receive request posted for it.
LEMMA EchoMeetsReceive ==
    ASSUME IInv, posted["server"] # 0, qp["client"] = "RTS"
    PROVE  /\ rq["client"] = 1 /\ cpc = "wait"
           /\ \/ completions = 0 /\ Queues("client", 0, 1, 1, <<>>)
              \/ completions = 0 /\ Queues("client", 0, 0, 1, <<"SEND">>)
              \/ completions = 1 /\ Queues("client", 0, 0, 1, <<>>)
<1>1. ClientQueues /\ AtClient /\ RcTypes /\ "server" \in Ends
  BY TypeFacts DEF IInv
<1>2. Echoing
  BY <1>1 DEF RcTypes, Echoing
<1>3. /\ cpc \notin ClientBegins \union {"prepare", "send"} /\ posted["client"] # 1
      /\ ~(cpc = "wait" /\ rq["client"] = 0 /\ cq["client"] # <<"ERR", "ERR">>)
  BY <1>1, <1>2 DEF AtClient, NotAtServer
<1>4. cpc = "wait" /\ Waiting
  BY <1>1, <1>3 DEF IInv, TypeOK, ClientQueues, ClientBegins
<1>5. rq["client"] = 0 => cq["client"] # <<"ERR", "ERR">>
  BY <1>4 DEF Waiting, Queues
<1>6. posted["client"] # 1 /\ rq["client"] # 0
  BY <1>3, <1>4, <1>5
<1>7. QED
  BY <1>4, <1>6 DEF Waiting, Queues

LEMMA DeliverToClient ==
    ASSUME IInv, Deliver("server")
    PROVE  IInv' /\ buf' = buf
<1>1. /\ RcTypes /\ msg_count \in 0..Messages /\ Messages \in Nat
      /\ "client" \in Ends /\ "server" \in Ends /\ Peer("server") = "client"
      /\ slog \in Seq(0..Messages) /\ clog \in Seq(0..Messages)
  BY TypeFacts
<1>2. ServerQueues /\ ClientQueues /\ AtServer /\ AtClient /\ Logs
  BY DEF IInv
<1>3. /\ qp["server"] = "RTS" /\ posted["server"] > 0 /\ rq["client"] > 0
      /\ qp["client"] \in {"RTR", "RTS"}
      /\ posted' = [posted EXCEPT !["server"] = @ - 1]
      /\ unacked' = [unacked EXCEPT !["server"] = @ + 1]
      /\ rq' = [rq EXCEPT !["client"] = @ - 1]
      /\ buf' = [buf EXCEPT !["client"] = buf["server"]]
      /\ cq' = [cq EXCEPT !["client"] = Append(@, "RECV")]
      /\ UNCHANGED <<cpc, msg_count, completions, spc, tcpVars, qp, slog, clog>>
  BY <1>1 DEF Deliver, CanReceive, pcVars, clientVars, logVars
<1>4. posted["server"] # 0 /\ spc = "wait_send" /\ Queues("server", 1, 0, 0, <<>>) /\ Echoing
  <2>1. posted["server"] # 0
    BY <1>3
  <2>2. QED
    BY <1>3, <2>1, ServerOutstanding DEF Queues, Echoing
<1>5. /\ rq["client"] = 1 /\ cpc = "wait" /\ qp["client"] = "RTS"
      /\ \/ completions = 0 /\ Queues("client", 0, 1, 1, <<>>)
         \/ completions = 0 /\ Queues("client", 0, 0, 1, <<"SEND">>)
         \/ completions = 1 /\ Queues("client", 0, 0, 1, <<>>)
  <2>1. rq["client"] # 0
    BY <1>3
  <2>2. qp["client"] = "RTS"
    BY <1>2, <1>3, <2>1 DEF IInv, TypeOK, ClientQueues, ClientBegins, Queues
  <2>3. QED
    BY <1>4, <2>2, EchoMeetsReceive
<1>6. /\ Len(slog) = msg_count + 1 /\ Len(clog) = msg_count /\ buf["server"] = msg_count
      /\ msg_count < Messages /\ buf["client"] = msg_count
  BY <1>2, <1>4, <1>5 DEF AtServer, AtClient
<1>7. buf' = buf
  BY <1>1, <1>3, <1>6 DEF RcTypes
<1>8. \/ cq["client"] = <<>> /\ cq' = [cq EXCEPT !["client"] = <<"RECV">>]
      \/ cq["client"] = <<"SEND">> /\ cq' = [cq EXCEPT !["client"] = <<"SEND", "RECV">>]
  <2>1. Append(<<"SEND">>, "RECV") = <<"SEND", "RECV">> /\ Append(<<>>, "RECV") = <<"RECV">>
    BY AppendSecond DEF Completions
  <2>2. QED
    BY <1>3, <1>5, <2>1 DEF Queues
<1>9. /\ posted'["client"] = 0 /\ unacked'["client"] = unacked["client"] /\ rq'["client"] = 0
      /\ \/ cq["client"] = <<>> /\ cq'["client"] = <<"RECV">>
         \/ cq["client"] = <<"SEND">> /\ cq'["client"] = <<"SEND", "RECV">>
      /\ posted'["server"] = 0 /\ unacked'["server"] = 1 /\ rq'["server"] = 0
      /\ cq'["server"] = <<>>
      /\ RcTypes'
  <2>1. <<"RECV">> \in Seq(Completions) /\ <<"SEND", "RECV">> \in Seq(Completions)
    BY DEF Completions
  <2>2. posted["server"] = 1 /\ unacked["server"] = 0 /\ rq["server"] = 0 /\ cq["server"] = <<>>
    BY <1>4 DEF Queues
  <2>3. posted["client"] = 0
    BY <1>5 DEF Queues
  <2>4. /\ posted \in [Ends -> 0..1] /\ unacked \in [Ends -> 0..1] /\ rq \in [Ends -> 0..1]
        /\ cq \in [Ends -> Seq(Completions)]
    BY <1>1 DEF RcTypes
  <2>5. /\ cq'["server"] = <<>> /\ cq' \in [Ends -> Seq(Completions)]
        /\ \/ cq["client"] = <<>> /\ cq'["client"] = <<"RECV">>
           \/ cq["client"] = <<"SEND">> /\ cq'["client"] = <<"SEND", "RECV">>
    <3>1. CASE cq["client"] = <<>> /\ cq' = [cq EXCEPT !["client"] = <<"RECV">>]
      BY <1>1, <2>1, <2>2, <2>4, <3>1
    <3>2. CASE cq["client"] = <<"SEND">> /\ cq' = [cq EXCEPT !["client"] = <<"SEND", "RECV">>]
      BY <1>1, <2>1, <2>2, <2>4, <3>2
    <3>3. QED
      BY <1>8, <3>1, <3>2
  <2>6. /\ posted'["client"] = 0 /\ posted'["server"] = 0 /\ posted' \in [Ends -> 0..1]
        /\ unacked'["client"] = unacked["client"] /\ unacked'["server"] = 1
        /\ unacked' \in [Ends -> 0..1]
    BY <1>1, <1>3, <2>2, <2>3, <2>4
  <2>7. rq'["client"] = 0 /\ rq'["server"] = 0 /\ rq' \in [Ends -> 0..1]
    BY <1>1, <1>3, <1>5, <2>2, <2>4
  <2>8. RcTypes'
    BY <1>1, <1>3, <1>7, <2>5, <2>6, <2>7 DEF RcTypes
  <2>9. QED
    BY <2>5, <2>6, <2>7, <2>8
<1>10. TypeOK' /\ Addresses'
  <2>1. completions \in 0..2
    BY <1>5
  <2>2. QED
    BY <1>1, <1>3, <1>9, <2>1, TypeKept, AddressesKept
<1>11. ServerQueues' /\ ~Arrived' /\ ~Echoing'
  BY <1>3, <1>4, <1>9 DEF ServerQueues, Queues, ServerBegins, Arrived, Echoing
<1>12. ClientQueues'
  <2>1. Waiting'
    <3>1. /\ posted'["client"] = 0 /\ rq'["client"] = 0
          /\ unacked'["client"] = unacked["client"] /\ completions' = completions
      BY <1>3, <1>9
    <3>2. /\ cq["client"] = <<>> => cq'["client"] = <<"RECV">>
          /\ cq["client"] = <<"SEND">> => cq'["client"] = <<"SEND", "RECV">>
      <4>1. <<>> # <<"SEND">>
        OBVIOUS
      <4>2. QED
        BY <1>9, <4>1
    <3>3. CASE completions = 0 /\ Queues("client", 0, 1, 1, <<>>)
      BY <3>1, <3>2, <3>3 DEF Waiting, Queues
    <3>4. CASE completions = 0 /\ Queues("client", 0, 0, 1, <<"SEND">>)
      BY <3>1, <3>2, <3>4 DEF Waiting, Queues
    <3>5. CASE completions = 1 /\ Queues("client", 0, 0, 1, <<>>)
      BY <3>1, <3>2, <3>5 DEF Waiting, Queues
    <3>6. QED
      BY <1>5, <3>3, <3>4, <3>5
  <2>2. QED
    BY <1>3, <1>5, <2>1 DEF ClientQueues, ClientBegins
<1>13. AtServer' /\ NotAtServer'
  BY <1>11 DEF AtServer, NotAtServer
<1>14. AtClient'
  <2>1. Received(cq["client"])' /\ cq'["client"] # <<"ERR", "ERR">>
    <3> PICK q : q = cq'["client"]
      OBVIOUS
    <3>1. Received(q) /\ q # <<"ERR", "ERR">>
      BY <1>9, ShortQueues
    <3>2. QED
      BY <3>1 DEF Received
  <2>2. QED
    BY <1>3, <1>5, <1>6, <1>7, <1>9, <1>13, <2>1 DEF AtClient, ClientBegins
<1>15. Logs'
  BY <1>2, <1>3 DEF Logs, Log
<1>16. QED
  BY <1>7, <1>10, <1>11, <1>12, <1>13, <1>14, <1>15 DEF IInv

\* Steps of the client's adapter after which the client waits or fails.
LEMMA ClientProceeds ==
    ASSUME IInv, RcTypes', ClientQueues', cpc = "wait",
           rq'["client"] = rq["client"] \/ cq'["client"] = <<"ERR", "ERR">>,
           rq["client"] = 1 \/ (Received(cq["client"])' <=> Received(cq["client"])),
           rq["client"] = 0 => /\ cq["client"] # <<"ERR", "ERR">>
                               /\ cq'["client"] # <<"ERR", "ERR">>,
           cq'["client"] = <<"ERR", "ERR">> => rq["client"] = 1 /\ rq'["client"] = 0,
           posted'["client"] = 1 => posted["client"] = 1,
           rq["client"] \in {0, 1},
           qp'["server"] = qp["server"], posted'["server"] = posted["server"],
           unacked'["server"] = unacked["server"], rq'["server"] = rq["server"],
           cq'["server"] = cq["server"],
           UNCHANGED <<cpc, spc, msg_count, completions, tcpVars, buf, slog, clog>>
    PROVE  IInv'
<1>1. ServerQueues /\ AtServer /\ AtClient /\ Logs
  BY DEF IInv
<1>2. TypeOK'
  <2>1. /\ msg_count \in 0..Messages /\ completions \in 0..2
        /\ slog \in Seq(0..Messages) /\ clog \in Seq(0..Messages)
    BY DEF IInv, TypeOK
  <2>2. QED
    BY <2>1, TypeKept
<1>3. Addresses'
  BY AddressesKept
<1>4. ServerQueues' /\ (Arrived' <=> Arrived) /\ (Echoing' <=> Echoing)
  BY <1>1, ServerKept
<1>5. AtServer'
  BY <1>1, <1>4 DEF AtServer
<1>6. AtClient'
  BY <1>1, <1>4 DEF AtClient, NotAtServer
<1>7. Logs'
  BY <1>1 DEF Logs, Log
<1>8. QED
  BY <1>2, <1>3, <1>4, <1>5, <1>6, <1>7 DEF IInv

LEMMA AcknowledgeStep ==
    ASSUME IInv, NEW e \in Ends, Acknowledge(e)
    PROVE  IInv'
<1>1. /\ RcTypes /\ "client" \in Ends /\ "server" \in Ends /\ (e = "client" \/ e = "server")
  BY TypeFacts
<1>2. ServerQueues /\ ClientQueues
  BY DEF IInv
<1>3. /\ qp[e] = "RTS" /\ unacked[e] > 0 /\ unacked[e] # 0
      /\ unacked' = [unacked EXCEPT ![e] = @ - 1]
      /\ cq' = [cq EXCEPT ![e] = Append(@, "SEND")]
      /\ UNCHANGED <<cpc, msg_count, completions, spc, tcpVars, qp, rq, posted, buf, slog, clog>>
  BY DEF Acknowledge, pcVars, clientVars, logVars
<1>4. /\ unacked[e] = 1 /\ unacked'[e] = 0 /\ unacked' \in [Ends -> 0..1]
      /\ \A d \in Ends : d # e => unacked'[d] = unacked[d]
  BY <1>1, <1>3 DEF RcTypes
<1>5. CASE e = "server"
  <2>1. spc = "wait_send" /\ qp["server"] = "RTS" /\ Queues("server", 0, 1, 0, <<>>)
    BY <1>3, <1>5, ServerOutstanding DEF Queues
  <2>2. cq' = [cq EXCEPT !["server"] = <<"SEND">>]
    BY <1>3, <1>5, <2>1 DEF Queues
  <2>3. cq'["server"] = <<"SEND">> /\ cq'["client"] = cq["client"] /\ RcTypes'
    <3>1. <<"SEND">> \in Seq(Completions)
      BY DEF Completions
    <3>2. QED
      BY <1>1, <1>3, <1>4, <2>2, <3>1 DEF RcTypes
  <2>4. ServerQueues' /\ NotAtServer'
    BY <1>3, <1>4, <1>5, <2>1, <2>3
    DEF ServerQueues, Queues, ServerBegins, NotAtServer, Arrived, Echoing
  <2>5. QED
    BY <1>1, <1>3, <1>4, <1>5, <2>1, <2>3, <2>4, ServerProceeds DEF ServerKnows
<1>6. CASE e = "client"
  <2>1. cpc = "wait" /\ Waiting
    BY <1>3, <1>6, ClientOutstanding
  <2>2. \/ completions = 0 /\ Queues("client", 0, 1, 1, <<>>)
        \/ completions = 0 /\ Queues("client", 0, 1, 0, <<"RECV">>)
        \/ completions = 1 /\ Queues("client", 0, 1, 0, <<>>)
    BY <1>3, <1>6, <2>1 DEF Waiting, Queues
  <2>3. /\ RcTypes' /\ cq'["server"] = cq["server"]
        /\ \/ cq["client"] = <<>> /\ cq'["client"] = <<"SEND">>
           \/ cq["client"] = <<"RECV">> /\ cq'["client"] = <<"RECV", "SEND">>
    <3>1. <<"SEND">> \in Seq(Completions) /\ <<"RECV", "SEND">> \in Seq(Completions)
      BY DEF Completions
    <3>2. Append(<<"RECV">>, "SEND") = <<"RECV", "SEND">> /\ Append(<<>>, "SEND") = <<"SEND">>
      BY AppendSecond DEF Completions
    <3>3. \/ cq["client"] = <<>> /\ cq' = [cq EXCEPT !["client"] = <<"SEND">>]
          \/ cq["client"] = <<"RECV">> /\ cq' = [cq EXCEPT !["client"] = <<"RECV", "SEND">>]
      BY <1>3, <1>6, <2>2, <3>2 DEF Queues
    <3>4. CASE cq["client"] = <<>> /\ cq' = [cq EXCEPT !["client"] = <<"SEND">>]
      BY <1>1, <1>3, <1>4, <3>1, <3>4 DEF RcTypes
    <3>5. CASE cq["client"] = <<"RECV">> /\ cq' = [cq EXCEPT !["client"] = <<"RECV", "SEND">>]
      BY <1>1, <1>3, <1>4, <3>1, <3>5 DEF RcTypes
    <3>6. QED
      BY <3>3, <3>4, <3>5
  <2>4. ClientQueues'
    <3>1. Waiting'
      BY <1>3, <1>4, <1>6, <2>2, <2>3 DEF Waiting, Queues
    <3>2. QED
      BY <1>3, <1>6, <2>1, <3>1 DEF ClientQueues, ClientBegins
  <2>5. Received(cq["client"])' <=> Received(cq["client"])
    <3> PICK q, r : q = cq["client"] /\ r = cq'["client"]
      OBVIOUS
    <3>1. Received(r) <=> Received(q)
      BY <2>3, ShortQueues
    <3>2. QED
      BY <3>1 DEF Received
  <2>6. cq'["client"] # <<"ERR", "ERR">> /\ cq["client"] # <<"ERR", "ERR">>
    BY <2>3
  <2>7. rq["client"] \in {0, 1} /\ unacked'["server"] = unacked["server"]
    BY <1>1, <1>4, <1>6, <2>2 DEF Queues
  <2>8. QED
    BY <1>3, <2>1, <2>3, <2>4, <2>5, <2>6, <2>7, ClientProceeds
<1>7. QED
  BY <1>1, <1>5, <1>6

LEMMA RetryStep ==
    ASSUME IInv, NEW e \in Ends, RetryExceeded(e)
    PROVE  IInv'
<1>1. /\ RcTypes /\ "client" \in Ends /\ "server" \in Ends /\ (e = "client" \/ e = "server")
  BY TypeFacts
<1>2. ServerQueues /\ ClientQueues
  BY DEF IInv
<1>3. /\ qp[e] = "RTS" /\ (posted[e] # 0 \/ unacked[e] # 0)
      /\ qp' = [qp EXCEPT ![e] = "ERR"]
      /\ cq' = [cq EXCEPT ![e] = cq[e] \o [k \in 1..(posted[e] + unacked[e] + rq[e]) |-> "ERR"]]
      /\ Withdraw(e)
      /\ UNCHANGED <<cpc, msg_count, completions, spc, tcpVars, buf, slog, clog>>
  BY <1>1 DEF RetryExceeded, pcVars, clientVars, logVars, RcTypes
<1>4. /\ qp' \in [Ends -> QpStates] /\ qp'[e] = "ERR"
      /\ rq' \in [Ends -> 0..1] /\ posted' \in [Ends -> 0..1] /\ unacked' \in [Ends -> 0..1]
      /\ rq'[e] = 0 /\ posted'[e] = 0 /\ unacked'[e] = 0
      /\ \A d \in Ends : d # e => /\ qp'[d] = qp[d] /\ rq'[d] = rq[d]
                                  /\ posted'[d] = posted[d] /\ unacked'[d] = unacked[d]
  BY <1>1, <1>3 DEF RcTypes, Withdraw, QpStates
<1>5. ASSUME NEW q \in Seq(Completions), cq' = [cq EXCEPT ![e] = q]
      PROVE  RcTypes' /\ cq'[e] = q /\ \A d \in Ends : d # e => cq'[d] = cq[d]
  BY <1>1, <1>3, <1>4, <1>5 DEF RcTypes
<1>6. /\ <<>> \o [k \in 1..1 |-> "ERR"] = <<"ERR">>
      /\ <<"RECV">> \o [k \in 1..1 |-> "ERR"] = <<"RECV", "ERR">>
      /\ <<>> \o [k \in 1..2 |-> "ERR"] = <<"ERR", "ERR">>
      /\ <<"ERR">> \in Seq(Completions) /\ <<"RECV", "ERR">> \in Seq(Completions)
      /\ <<"ERR", "ERR">> \in Seq(Completions)
  <2>1. <<>> \in Seq(Completions) /\ <<"RECV">> \in Seq(Completions)
    BY DEF Completions
  <2>2. Append(<<"RECV">>, "ERR") = <<"RECV", "ERR">> /\ Append(<<>>, "ERR") = <<"ERR">>
    BY AppendSecond DEF Completions
  <2>3. /\ <<"ERR">> \in Seq(Completions) /\ <<"RECV", "ERR">> \in Seq(Completions)
        /\ <<"ERR", "ERR">> \in Seq(Completions)
    BY DEF Completions
  <2>4. QED
    BY <2>1, <2>2, <2>3, Flushed
<1>7. CASE e = "server"
  <2>1. /\ spc = "wait_send" /\ cq["server"] = <<>>
        /\ posted["server"] + unacked["server"] + rq["server"] = 1
    BY <1>3, <1>7, ServerOutstanding DEF Queues
  <2>2. cq' = [cq EXCEPT !["server"] = <<"ERR">>]
    BY <1>3, <1>6, <1>7, <2>1
  <2>3. RcTypes' /\ cq'["server"] = <<"ERR">> /\ cq'["client"] = cq["client"]
    BY <1>1, <1>5, <1>6, <1>7, <2>2
  <2>4. ServerQueues' /\ NotAtServer'
    BY <1>3, <1>4, <1>7, <2>1, <2>3
    DEF ServerQueues, Queues, ServerBegins, NotAtServer, Arrived, Echoing
  <2>5. QED
    BY <1>1, <1>3, <1>4, <1>7, <2>1, <2>3, <2>4, ServerProceeds DEF ServerKnows
<1>8. CASE e = "client"
  <2>1. cpc = "wait" /\ Waiting
    BY <1>3, <1>8, ClientOutstanding
  <2>2. \/ /\ completions = 0 /\ rq["client"] = 1 /\ cq["client"] = <<>>
           /\ posted["client"] + unacked["client"] + rq["client"] = 2
        \/ /\ completions = 0 /\ rq["client"] = 0 /\ cq["client"] = <<"RECV">>
           /\ posted["client"] + unacked["client"] + rq["client"] = 1
        \/ /\ completions = 1 /\ rq["client"] = 0 /\ cq["client"] = <<>>
           /\ posted["client"] + unacked["client"] + rq["client"] = 1
    BY <1>3, <1>8, <2>1 DEF Waiting, Queues
  <2>3. \/ /\ completions = 0 /\ rq["client"] = 1 /\ cq["client"] = <<>>
           /\ cq' = [cq EXCEPT !["client"] = <<"ERR", "ERR">>]
        \/ /\ completions = 0 /\ rq["client"] = 0 /\ cq["client"] = <<"RECV">>
           /\ cq' = [cq EXCEPT !["client"] = <<"RECV", "ERR">>]
        \/ /\ completions = 1 /\ rq["client"] = 0 /\ cq["client"] = <<>>
           /\ cq' = [cq EXCEPT !["client"] = <<"ERR">>]
    BY <1>3, <1>6, <1>8, <2>2
  <2>4. RcTypes' /\ cq'["server"] = cq["server"]
    BY <1>1, <1>5, <1>6, <1>8, <2>3
  <2>5. \/ /\ completions = 0 /\ rq["client"] = 1 /\ cq["client"] = <<>>
           /\ cq'["client"] = <<"ERR", "ERR">>
        \/ /\ completions = 0 /\ rq["client"] = 0 /\ cq["client"] = <<"RECV">>
           /\ cq'["client"] = <<"RECV", "ERR">>
        \/ /\ completions = 1 /\ rq["client"] = 0 /\ cq["client"] = <<>>
           /\ cq'["client"] = <<"ERR">>
    BY <1>1, <1>5, <1>6, <1>8, <2>3
  <2>6. ClientQueues'
    <3>1. Failing'
      BY <1>3, <1>4, <1>8, <2>5 DEF Failing, Queues
    <3>2. QED
      BY <1>3, <1>4, <1>8, <2>1, <3>1 DEF ClientQueues, ClientBegins
  <2>7. rq["client"] = 1 \/ (Received(cq["client"])' <=> Received(cq["client"]))
    <3> PICK q, r : q = cq["client"] /\ r = cq'["client"]
      OBVIOUS
    <3>1. rq["client"] = 1 \/ (Received(r) <=> Received(q))
      BY <2>5, ShortQueues
    <3>2. QED
      BY <3>1 DEF Received
  <2>8. /\ rq'["client"] = rq["client"] \/ cq'["client"] = <<"ERR", "ERR">>
        /\ rq["client"] = 0 => /\ cq["client"] # <<"ERR", "ERR">>
                               /\ cq'["client"] # <<"ERR", "ERR">>
        /\ cq'["client"] = <<"ERR", "ERR">> => rq["client"] = 1 /\ rq'["client"] = 0
        /\ posted'["client"] = 1 => posted["client"] = 1
        /\ rq["client"] \in {0, 1}
    <3>1. rq'["client"] = 0 /\ posted'["client"] = 0
      BY <1>4, <1>8
    <3>2. /\ <<>> # <<"ERR", "ERR">> /\ <<"RECV">> # <<"ERR", "ERR">>
          /\ <<"RECV", "ERR">> # <<"ERR", "ERR">> /\ <<"ERR">> # <<"ERR", "ERR">>
      OBVIOUS
    <3>3. CASE rq["client"] = 1 /\ cq'["client"] = <<"ERR", "ERR">>
      BY <3>1, <3>3
    <3>4. CASE rq["client"] = 0 /\ cq["client"] = <<"RECV">> /\ cq'["client"] = <<"RECV", "ERR">>
      BY <3>1, <3>2, <3>4
    <3>5. CASE rq["client"] = 0 /\ cq["client"] = <<>> /\ cq'["client"] = <<"ERR">>
      BY <3>1, <3>2, <3>5
    <3>6. QED
      BY <2>5, <3>3, <3>4, <3>5
  <2>9. /\ qp'["server"] = qp["server"] /\ posted'["server"] = posted["server"]
        /\ unacked'["server"] = unacked["server"] /\ rq'["server"] = rq["server"]
    BY <1>1, <1>4, <1>8
  <2>10. QED
    BY <1>3, <2>1, <2>4, <2>6, <2>7, <2>8, <2>9, ClientProceeds
<1>9. QED
  BY <1>1, <1>7, <1>8

(***************************************************************************)
(* The invariant holds.                                                    *)
(***************************************************************************)
LEMMA InitIInv == Init => IInv
<1> SUFFICES ASSUME Init PROVE IInv
  OBVIOUS
<1>1. "client" \in Ends /\ "server" \in Ends /\ 0 \in 0..Messages /\ Blank \in 0..Messages
  BY BoundsAssumption DEF Ends, Blank
<1>2. \A e \in Ends : /\ qp[e] = "RESET" /\ wire[e] = <<>> /\ remote[e] = NoInfo
                      /\ buf[e] = Blank /\ Queues(e, 0, 0, 0, <<>>)
  BY DEF Init, Queues
<1>3. TypeOK
  <2>1. /\ wire \in [Ends -> {<<>>} \union {<<Encoded(e)>> : e \in Ends}]
        /\ \A e \in Ends : remote[e].gid \in Ends \union {"none"}
    BY DEF Init, NoInfo
  <2>2. /\ qp \in [Ends -> QpStates] /\ buf \in [Ends -> 0..Messages]
        /\ rq \in [Ends -> 0..1] /\ posted \in [Ends -> 0..1] /\ unacked \in [Ends -> 0..1]
    BY <1>1 DEF Init, QpStates
  <2>3. /\ cq \in [Ends -> Seq({"SEND", "RECV", "ERR"})]
        /\ slog \in Seq(0..Messages) /\ clog \in Seq(0..Messages)
    BY DEF Init
  <2>4. /\ cpc = "connect" /\ spc = "listen" /\ msg_count \in 0..Messages
        /\ completions \in 0..2 /\ connected \in BOOLEAN
    <3>1. /\ cpc = "connect" /\ spc = "listen" /\ msg_count = 0
          /\ completions = 0 /\ connected = FALSE
      BY DEF Init
    <3>2. msg_count \in 0..Messages /\ completions \in 0..2
      BY <1>1, <3>1
    <3>3. connected \in BOOLEAN
      BY <3>1, Zenon
    <3>4. QED
      BY <3>1, <3>2, <3>3
  <2>5. QED
    BY <2>1, <2>2, <2>3, <2>4 DEF TypeOK
<1>4. Addresses
  BY <1>2 DEF Init, Addresses, ClientKnows, ServerKnows
<1>5. ServerQueues /\ ClientQueues
  BY <1>1, <1>2 DEF Init, ServerQueues, ClientQueues, ClientBegins, ServerBegins
<1>6. NotAtServer
  BY <1>1, <1>2 DEF Init, NotAtServer, Arrived, Echoing, Queues
<1>7. /\ Len(slog) = 0 /\ Len(clog) = 0 /\ msg_count = 0 /\ cpc = "connect"
      /\ posted["client"] = 0
  BY <1>1, <1>2 DEF Init, Queues
<1>8. AtServer /\ AtClient
  BY <1>6, <1>7 DEF AtServer, AtClient, NotAtServer, ClientBegins
<1>9. Logs
  BY <1>7 DEF Logs, Log
<1>10. QED
  BY <1>3, <1>4, <1>5, <1>8, <1>9 DEF IInv

\* A step that changes nothing.
LEMMA IInvKept ==
    ASSUME IInv, UNCHANGED vars
    PROVE  IInv'
<1>1. /\ UNCHANGED <<cpc, msg_count, completions, spc, connected, wire, remote>>
      /\ UNCHANGED <<qp, rq, posted, unacked, cq, buf, slog, clog>>
  BY DEF vars, pcVars, clientVars, tcpVars, rcVars, logVars
<1>2. TypeOK' /\ Addresses'
  BY <1>1 DEF IInv, TypeOK, Addresses
<1>3. ServerQueues' /\ ClientQueues'
  BY <1>1 DEF IInv, ServerQueues, ClientQueues, Waiting, Failing, Queues
<1>4. AtServer' /\ Logs'
  BY <1>1 DEF IInv, AtServer, Arrived, Echoing, Logs, Log
<1>5. AtClient'
  BY <1>1 DEF IInv, AtClient, NotAtServer, Arrived, Echoing, Received
<1>6. QED
  BY <1>2, <1>3, <1>4, <1>5 DEF IInv

\* A program that is killed where it is.
LEMMA KilledStep ==
    ASSUME IInv, Killed
    PROVE  IInv'
<1>1. CASE ClientExit
  <2>1. /\ cpc' = "died" /\ Exit("client")
        /\ UNCHANGED <<msg_count, completions, spc, slog, clog>>
    BY <1>1 DEF ClientExit, logVars
  <2>2. clog' \in Seq(0..Messages) /\ Logs'
    BY <2>1, TypeFacts DEF IInv, Logs, Log
  <2>3. QED
    BY <2>1, <2>2, ClientDies
<1>2. CASE ServerExit
  BY <1>2, ServerDies
<1>3. QED
  BY <1>1, <1>2 DEF Killed

LEMMA IInvStep ==
    ASSUME IInv, [Next]_vars
    PROVE  IInv'
<1>1. CASE Client
  BY <1>1, ClientBeginsStep, PrepareStep, SendStep, PollStep DEF Client
<1>2. CASE Server
  BY <1>2, ServerBeginsStep, ServerQuietStep, ServerReceives, ServerDies
  DEF Server, ServerPollError
<1>3. CASE Killed
  BY <1>3, KilledStep
<1>4. CASE Idle \/ UNCHANGED vars
  BY <1>4, IInvKept DEF Idle
<1>5. CASE \E e \in Ends : Deliver(e) \/ Acknowledge(e) \/ RetryExceeded(e)
  <2>1. PICK e \in Ends : Deliver(e) \/ Acknowledge(e) \/ RetryExceeded(e)
    BY <1>5
  <2>2. e = "client" \/ e = "server"
    BY DEF Ends
  <2>3. QED
    BY <2>1, <2>2, DeliverToServer, DeliverToClient, AcknowledgeStep, RetryStep
<1>6. QED
  BY <1>1, <1>2, <1>3, <1>4, <1>5 DEF Next

\* What the two programs keep true of their connection, whatever fails: the
\* server has one request outstanding (server.c:62-99), the client has its
\* send and its receive, in whichever order they complete
\* (client.c:84-101), and a message is in one place.
THEOREM Invariance == Spec => []IInv
<1>1. Init => IInv
  BY InitIInv
<1>2. IInv /\ [Next]_vars => IInv'
  BY IInvStep
<1>3. QED
  BY <1>1, <1>2, PTL DEF Spec

\* Every variable keeps its type: in particular each end has at most one
\* receive and one send outstanding, which is what it may post without
\* looking at its queues (server.c:67-102, client.c:75-101).
THEOREM TypeCorrect == Spec => []TypeOK
<1>1. IInv => TypeOK
  BY DEF IInv
<1>2. QED
  BY <1>1, Invariance, PTL

\* A queue pair that can carry messages is connected to the peer's, however
\* the bytes of the addresses lie in the memory of the two hosts
\* (client.c:41-60, server.c:36-58).
THEOREM ConnectedRight == Spec => []ConnectedToPeer
<1>1. ASSUME IInv, NEW e \in Ends, qp[e] \in {"RTR", "RTS"}
      PROVE  remote[e] = Address(Peer(e))
  <2>1. TypeOK /\ Addresses /\ ServerQueues /\ ClientQueues
    BY <1>1 DEF IInv
  <2>2. CASE e = "client"
    <3>1. cpc \in ClientKnows
      <4>1. cpc \in ClientBegins \union {"prepare", "send", "wait", "died"}
        BY <2>1 DEF TypeOK, ClientBegins
      <4>2. QED
        BY <1>1, <2>1, <2>2, <4>1 DEF ClientQueues, ClientBegins, ClientKnows
    <3>2. QED
      BY <2>1, <2>2, <3>1 DEF Addresses, Peer
  <2>3. CASE e = "server"
    <3>1. spc \in ServerKnows
      <4>1. spc \in ServerBegins \union {"post_receive", "wait_recv", "wait_send", "died"}
        BY <2>1 DEF TypeOK, ServerBegins
      <4>2. QED
        BY <1>1, <2>1, <2>3, <4>1 DEF ServerQueues, ServerBegins, ServerKnows
    <3>2. QED
      BY <2>1, <2>3, <3>1 DEF Addresses, Peer
  <2>4. QED
    BY <2>2, <2>3 DEF Ends
<1>2. IInv => ConnectedToPeer
  BY <1>1 DEF ConnectedToPeer
<1>3. QED
  BY <1>2, Invariance, PTL

\* An echo that is still to be delivered finds the client's receive posted
\* (client.c:74-77).
THEOREM EchoFindsReceive == Spec => []EchoExpected
<1>1. IInv => EchoExpected
  <2> SUFFICES ASSUME IInv, posted["server"] > 0, qp["client"] = "RTS"
               PROVE  rq["client"] = 1
    BY DEF EchoExpected
  <2>1. posted["server"] # 0
    OBVIOUS
  <2>2. QED
    BY <2>1, EchoMeetsReceive
<1>2. QED
  BY <1>1, Invariance, PTL

\* The two completions that the client counts, of whichever kind and in
\* whichever order, are those of its send and of its receive: at the next
\* message nothing is outstanding and the echo has been printed
\* (client.c:84-103).
THEOREM RoundsClosed == Spec => []RoundClosed
<1>1. IInv => RoundClosed
  BY DEF IInv, RoundClosed, ClientQueues, Queues, AtClient
<1>2. QED
  BY <1>1, Invariance, PTL

(***************************************************************************)
(* The echo that the two programs implement.                               *)
(***************************************************************************)

\* The server prints a message: the next one, with the last one back.
LEMMA ServeStep ==
    ASSUME IInv, ServerPollRecv
    PROVE  [Echo!Next]_Echo!vars
<1>1. CASE Head(cq["server"]) = "RECV"
  <2>1. /\ cq["server"] # <<>> /\ spc = "wait_recv" /\ clog' = clog
        /\ slog' = Append(slog, buf["server"])
    BY <1>1 DEF ServerPollRecv, Take
  <2>2. cq["server"] = <<"RECV">>
    BY <2>1 DEF IInv, ServerQueues, Queues
  <2>3. /\ Len(slog) < Messages /\ Len(clog) = Len(slog)
        /\ buf["server"] = Len(slog)
    BY <2>1, <2>2 DEF IInv, AtServer, Arrived
  <2>4. Echo!Serve
    BY <2>1, <2>3 DEF Echo!Serve
  <2>5. QED
    BY <2>4 DEF Echo!Next
<1>2. CASE Head(cq["server"]) # "RECV"
  BY <1>2 DEF ServerPollRecv, Take, Echo!vars
<1>3. QED
  BY <1>1, <1>2

\* The client prints an echo: of the message that the server printed last.
LEMMA AnswerStep ==
    ASSUME IInv, ClientPoll
    PROVE  [Echo!Next]_Echo!vars
<1>1. /\ Polled = cq["client"] /\ cpc = "wait"
      /\ \/ qp["client"] = "RTS" /\ Waiting
         \/ qp["client"] = "ERR" /\ Failing
  BY PollFacts
<1>2. /\ clog' = IF Received(cq["client"]) THEN Append(clog, buf["client"]) ELSE clog
      /\ slog' = slog
  BY <1>1 DEF ClientPoll
<1>3. CASE Received(cq["client"])
  <2>1. rq["client"] = 0 /\ cq["client"] # <<"ERR", "ERR">>
    <3> PICK q : q = cq["client"]
      OBVIOUS
    <3>1. /\ q = <<>> => ~Received(q)
          /\ q = <<"SEND">> => ~Received(q)
          /\ q = <<"ERR", "ERR">> => ~Received(q)
      BY ShortQueues
    <3>2. rq["client"] = 0 \/ q = <<>> \/ q = <<"SEND">>
      BY <1>1 DEF Waiting, Failing, Queues
    <3>3. QED
      BY <1>3, <3>1, <3>2
  <2>2. Len(slog) = msg_count + 1 /\ Len(clog) = msg_count /\ buf["client"] = msg_count
    BY <1>1, <1>3, <2>1 DEF IInv, AtClient
  <2>3. msg_count \in Nat
    BY TypeFacts
  <2>4. slog[msg_count + 1] = msg_count
    BY <2>2, <2>3 DEF IInv, Logs, Log
  <2>5. clog' = Append(clog, slog[Len(clog) + 1])
    BY <1>2, <1>3, <2>2, <2>4
  <2>6. Echo!Answer
    BY <1>2, <2>2, <2>3, <2>5 DEF Echo!Answer
  <2>7. QED
    BY <2>6 DEF Echo!Next
<1>4. CASE ~Received(cq["client"])
  BY <1>2, <1>4 DEF Echo!vars
<1>5. QED
  BY <1>3, <1>4

\* No other step prints anything.
LEMMA QuietStep ==
    ASSUME [Next]_vars, ~ServerPollRecv, ~ClientPoll
    PROVE  slog' = slog /\ clog' = clog
<1>1. CASE Client
  BY <1>1 DEF Client, ClientConnect, ClientReadInfo, ClientWriteInfo, ClientSetup,
              ClientPrepare, ClientSend, ClientExit, logVars
<1>2. CASE Server
  BY <1>2 DEF Server, ServerListen, ServerAccept, ServerWriteInfo, ServerReadInfo,
              ServerSetup, ServerPostReceive, ServerPollSend, Take, ServerPollError,
              ServerExit, logVars
<1>3. CASE Killed
  BY <1>3 DEF Killed, ClientExit, ServerExit, logVars
<1>4. CASE Idle \/ UNCHANGED vars
  BY <1>4 DEF Idle, vars, logVars
<1>5. CASE \E e \in Ends : Deliver(e) \/ Acknowledge(e) \/ RetryExceeded(e)
  BY <1>5 DEF Deliver, Acknowledge, RetryExceeded, logVars
<1>6. QED
  BY <1>1, <1>2, <1>3, <1>4, <1>5 DEF Next

\* Each message is printed once at each end, in order and unchanged, and the
\* server gets the next one only when the client has the echo: the two
\* loops (client.c:69-105, server.c:67-103) implement the echo connection,
\* through lost acknowledgements, spent retries and dead programs.
THEOREM Refinement == Spec => ImplementsEcho
<1>1. Init => Echo!Init
  BY DEF Init, Echo!Init
<1>2. IInv /\ [Next]_vars => [Echo!Next]_Echo!vars
  <2> SUFFICES ASSUME IInv, [Next]_vars
               PROVE  [Echo!Next]_Echo!vars
    OBVIOUS
  <2>1. CASE ~ServerPollRecv /\ ~ClientPoll
    BY <2>1, QuietStep DEF Echo!vars
  <2>2. QED
    BY <2>1, ServeStep, AnswerStep
<1>3. QED
  BY <1>1, <1>2, Invariance, PTL DEF Spec, ImplementsEcho, Echo!Spec

(***************************************************************************)
(* The one buffer of each program.                                         *)
(***************************************************************************)

\* The adapter's write into the peer's buffer: there nothing is to be sent,
\* or the message is the one that the buffer holds.
LEMMA DeliveryKeeps ==
    ASSUME IInv, NEW e \in Ends, Deliver(e), NEW d \in Ends, posted[d] + unacked[d] > 0
    PROVE  buf'[d] = buf[d]
<1>1. RcTypes /\ (e = "client" \/ e = "server") /\ (d = "client" \/ d = "server")
      /\ Peer("client") = "server" /\ "server" \in Ends
  BY TypeFacts
<1>2. CASE e = "server"
  BY <1>2, DeliverToClient
<1>3. CASE e = "client"
  <2>1. /\ qp["client"] = "RTS" /\ posted["client"] > 0 /\ rq["server"] > 0
        /\ buf' = [buf EXCEPT !["server"] = buf["client"]]
    BY <1>1, <1>3 DEF Deliver
  <2>2. posted["server"] = 0 /\ unacked["server"] = 0
    <3>1. rq["server"] # 0
      BY <2>1
    <3>2. spc \in ServerBegins \union {"post_receive", "wait_recv", "wait_send", "died"}
      BY DEF IInv, TypeOK, ServerBegins
    <3>3. QED
      BY <3>1, <3>2 DEF IInv, ServerQueues, Queues
  <2>3. d # "server"
    BY <2>2
  <2>4. QED
    BY <1>1, <2>1, <2>3 DEF RcTypes
<1>4. QED
  BY <1>1, <1>2, <1>3

\* No step changes a buffer that a message is sent from.
LEMMA BufferStep ==
    ASSUME IInv, [Next]_vars, NEW d \in Ends, posted[d] + unacked[d] > 0
    PROVE  buf'[d] = buf[d]
<1>1. CASE ClientPrepare
  <2>1. /\ cpc = "prepare" /\ buf' = [buf EXCEPT !["client"] = msg_count]
    BY <1>1 DEF ClientPrepare
  <2>2. posted["client"] = 0 /\ unacked["client"] = 0
    BY <2>1 DEF IInv, ClientQueues, Queues
  <2>3. d # "client"
    BY <2>2
  <2>4. QED
    BY <2>1, <2>3 DEF IInv, TypeOK
<1>2. CASE \E e \in Ends : Deliver(e)
  BY <1>2, DeliveryKeeps
<1>3. CASE ~ClientPrepare /\ ~(\E e \in Ends : Deliver(e))
  <2>1. CASE Client
    BY <1>3, <2>1 DEF Client, ClientConnect, ClientReadInfo, ClientWriteInfo, ClientSetup,
          ClientSend, ClientPoll, ClientExit, Exit, ReadInfo, WriteInfo, ModifyQp, PostSend
  <2>2. CASE Server
    BY <2>2 DEF Server, ServerListen, ServerAccept, ServerWriteInfo, ServerReadInfo,
          ServerSetup, ServerPostReceive, ServerPollRecv, ServerPollSend, Take,
          ServerPollError, ServerExit, Exit, ReadInfo, WriteInfo, ModifyQp
  <2>3. CASE Killed
    BY <2>3 DEF Killed, ClientExit, ServerExit, Exit
  <2>4. CASE Idle \/ UNCHANGED vars
    BY <2>4 DEF Idle, vars
  <2>5. CASE \E e \in Ends : Acknowledge(e) \/ RetryExceeded(e)
    BY <2>5 DEF Acknowledge, RetryExceeded
  <2>6. QED
    BY <1>3, <2>1, <2>2, <2>3, <2>4, <2>5 DEF Next
<1>4. QED
  BY <1>1, <1>2, <1>3

\* The buffer a message is sent from keeps it until the message can not be
\* sent again: the client fills it only when nothing is outstanding, the
\* server receives nothing before its echo is acknowledged, and what lands
\* on the client's message is that message (client.c:71-82,
\* server.c:67-102).
THEOREM BufferSafe == Spec => BufferStable
<1>1. IInv /\ [Next]_vars =>
          [\A e \in Ends : posted[e] + unacked[e] > 0 => buf'[e] = buf[e]]_vars
  BY BufferStep
<1>2. QED
  BY <1>1, Invariance, PTL DEF Spec, BufferStable
=============================================================================
