--------------------------- MODULE HandshakeProofs ---------------------------
(***************************************************************************)
(* Proofs about Handshake for every set of clients and every mishap.       *)
(***************************************************************************)
EXTENDS Handshake, TLAPS

(***************************************************************************)
(* The inductive invariant: what the server's position and each event in   *)
(* its channel say about the client they belong to.                        *)
(***************************************************************************)

\* Where a client is, or was killed, that has been told it is connected.
Joined == {"established", "done", "killed"}

Is(k, e) == evq[k][1] = e
Owner(k) == evq[k][2]

\* Only the accepted client has an acceptance to read, and what a client has
\* not asked for it has not got.
Responses ==
    \A c \in Clients :
        /\ resp[c] = "REP" => c = cur /\ cpc[c] = "connecting"
        /\ cpc[c] \in NotAsked => resp[c] = "none"
        /\ rtu[c] # "none" => cpc[c] \in Joined

\* Before the server takes a request its channel holds nothing else, and
\* nobody has an answer.
NotAccepted ==
    spc \in {"start", "listen"} =>
        /\ cur = NoClient
        /\ \A k \in 1..Len(evq) :
              /\ Is(k, "CONNECT_REQUEST")
              /\ resp[Owner(k)] = "none"
              /\ cpc[Owner(k)] \in {"connecting", "killed"}
        /\ spc = "start" => evq = <<>>

\* The client whose request was taken has asked, and waits for its answer.
Requested ==
    /\ cur \in Clients => cpc[cur] \notin NotAsked
    /\ spc = "accept" => resp[cur] = "none" /\ cpc[cur] \in {"connecting", "killed"}

\* The requests in the channel are those of others, and one of each.
Requests ==
    \A k \in 1..Len(evq) :
        Is(k, "CONNECT_REQUEST") =>
            /\ cpc[Owner(k)] \notin NotAsked
            /\ Owner(k) # cur
            /\ \A l \in 1..Len(evq) : evq[l] = evq[k] => l = k

OwnKinds == {"ESTABLISHED", "DISCONNECTED", "OTHER"}

\* What an event says about the accepted client.
Tells(e) ==
    /\ e = "ESTABLISHED" => cpc[cur] \in Joined
    /\ e = "OTHER" => cpc[cur] = "killed" \/ Refused(cur) \/ rtu[cur] = "failed"
    /\ e = "DISCONNECTED" => cpc[cur] \in {"done", "killed"}

\* Every other event belongs to that client and is true of it.
OwnEvents ==
    \A k \in 1..Len(evq), e \in OwnKinds : Is(k, e) => Owner(k) = cur /\ Tells(e)

\* A disconnect of an undisturbed client comes after its ESTABLISHED.
InOrder ==
    spc = "wait_established" =>
        \A k \in 1..Len(evq) :
            Is(k, "DISCONNECTED") =>
                \/ cpc[cur] = "killed" \/ rtu[cur] \in {"lost", "failed"}
                \/ \E j \in 1..(k - 1) : Is(j, "ESTABLISHED")

\* The ESTABLISHED of a client that goes on is in the channel.
Announced ==
    /\ spc = "wait_established"
    /\ cpc[cur] \in {"established", "done"} /\ rtu[cur] \in {"none", "late"}
    => \E k \in 1..Len(evq) : Is(k, "ESTABLISHED")

\* OnlyDisturbedDies, with a lost message still to be repeated only if the
\* client has gone.
Disturbed ==
    \/ \E c \in Clients \ {cur} : cpc[c] \notin NotAsked
    \/ cpc[cur] = "killed"
    \/ Refused(cur)
    \/ rtu[cur] = "failed"
    \/ rtu[cur] = "lost" /\ cpc[cur] = "done"

IInv ==
    /\ TypeOK
    /\ Responses
    /\ OneClientServed
    /\ ServerAgrees
    /\ NotAccepted
    /\ Requested
    /\ Requests
    /\ OwnEvents
    /\ InOrder
    /\ Announced
    /\ spc = "died" => Disturbed

(***************************************************************************)
(* Events.                                                                 *)
(***************************************************************************)

\* The event ev is now the last one in the channel.
Appended(ev) ==
    /\ Len(evq') = Len(evq) + 1
    /\ \A k \in 1..Len(evq) : evq'[k] = evq[k]
    /\ evq'[Len(evq) + 1] = ev
    /\ 1..Len(evq') = (1..Len(evq)) \union {Len(evq) + 1}

LEMMA AppendEvent ==
    ASSUME evq \in Seq(Events), NEW ev \in Events, evq' = Append(evq, ev)
    PROVE  evq' \in Seq(Events) /\ Appended(ev)
<1>1. /\ evq' \in Seq(Events) /\ Len(evq') = Len(evq) + 1
      /\ \A k \in 1..Len(evq) : evq'[k] = evq[k]
      /\ evq'[Len(evq) + 1] = ev
      /\ Len(evq) \in Nat
  OBVIOUS
<1>2. 1..Len(evq') = (1..Len(evq)) \union {Len(evq) + 1}
  BY <1>1
<1>3. QED
  BY <1>1, <1>2 DEF Appended

\* The first event was taken from the channel.
Removed ==
    /\ 1 \in 1..Len(evq) /\ Head(evq) = evq[1]
    /\ \A k \in 1..Len(evq') : k + 1 \in 1..Len(evq) /\ evq'[k] = evq[k + 1]

LEMMA RemoveEvent ==
    ASSUME evq \in Seq(Events), evq # <<>>, evq' = Tail(evq)
    PROVE  evq' \in Seq(Events) /\ Removed
<1>1. /\ evq' \in Seq(Events) /\ Len(evq) \in Nat /\ Len(evq) > 0
      /\ Len(evq') = Len(evq) - 1
      /\ \A k \in 1..Len(evq') : evq'[k] = evq[k + 1]
      /\ Head(evq) = evq[1]
  OBVIOUS
<1>2. QED
  BY <1>1 DEF Removed

\* An event in the channel has a kind and a client.
LEMMA EventTypes ==
    ASSUME evq \in Seq(Events)
    PROVE  \A k \in 1..Len(evq) :
              /\ Owner(k) \in Clients /\ evq[k] = <<evq[k][1], Owner(k)>>
              /\ evq[k][1] \in {"CONNECT_REQUEST", "ESTABLISHED", "DISCONNECTED", "OTHER"}
<1>1. \A k \in 1..Len(evq) : evq[k] \in Events
  OBVIOUS
<1>2. QED
  BY <1>1 DEF Events, Owner

LEMMA InitIInv == Init => IInv
BY ClientsAssumption
   DEF Init, IInv, TypeOK, Responses, OneClientServed, ServerAgrees, NotAccepted, Requested,
       Requests, OwnEvents, InOrder, Announced, NotAsked, Ended

(***************************************************************************)
(* What every step has in common.                                          *)
(***************************************************************************)

\* A client that has asked, joined, ended, was refused or lost its message
\* stays so.
Onward ==
    /\ UNCHANGED cur
    /\ \A c \in Clients :
          /\ cpc[c] \notin NotAsked => cpc'[c] \notin NotAsked
          /\ cpc[c] \in Joined => cpc'[c] \in Joined
          /\ cpc[c] \in {"done", "killed"} => cpc'[c] = cpc[c]
          /\ Refused(c) => Refused(c)' \/ cpc'[c] = "killed"
          /\ rtu[c] = "failed" => rtu'[c] = "failed"

\* What such a step does to the channel, unless it is a request.
OwnStep ==
    \/ UNCHANGED evq
    \/ evq' = <<>>
    \/ Removed
    \/ \E e \in OwnKinds :
          cur \in Clients /\ Appended(<<e, cur>>) /\ Tells(e)'

LEMMA TellsStep ==
    ASSUME Onward, cur \in Clients, NEW e, Tells(e)
    PROVE  Tells(e)'
BY DEF Onward, Tells

LEMMA ChannelStep ==
    ASSUME IInv, TypeOK', Onward, OwnStep
    PROVE  Requests' /\ OwnEvents'
<1>1. evq \in Seq(Events) /\ evq' \in Seq(Events) /\ cur' = cur
  BY DEF IInv, TypeOK, Onward
<1>2. ASSUME NEW k \in 1..Len(evq)
      PROVE  /\ Owner(k) \in Clients
             /\ Is(k, "CONNECT_REQUEST") => cpc'[Owner(k)] \notin NotAsked /\ Owner(k) # cur
             /\ \A e \in OwnKinds : Is(k, e) => Owner(k) = cur /\ Tells(e)'
  <2>1. Owner(k) \in Clients
    BY <1>1, <1>2, EventTypes
  <2>2. Is(k, "CONNECT_REQUEST") => cpc'[Owner(k)] \notin NotAsked /\ Owner(k) # cur
    BY <1>2, <2>1 DEF IInv, Requests, Onward
  <2>3. \A e \in OwnKinds : Is(k, e) => Owner(k) = cur /\ Tells(e)'
    BY <1>2, <2>1, TellsStep DEF IInv, OwnEvents
  <2>4. QED
    BY <2>1, <2>2, <2>3
<1>3. CASE UNCHANGED evq
  BY <1>1, <1>2, <1>3 DEF IInv, Requests, OwnEvents, Is, Owner
<1>4. CASE evq' = <<>>
  BY <1>4 DEF Requests, OwnEvents
<1>5. CASE Removed
  <2>1. \A k \in 1..Len(evq'), l \in 1..Len(evq') :
           k + 1 \in 1..Len(evq) /\ (k + 1 = l + 1 => k = l)
    BY <1>5 DEF Removed
  <2>2. Requests'
    BY <1>1, <1>2, <1>5, <2>1 DEF IInv, Requests, Removed, Is, Owner
  <2>3. OwnEvents'
    BY <1>1, <1>2, <1>5 DEF OwnEvents, Removed, Is, Owner
  <2>4. QED
    BY <2>2, <2>3
<1>6. ASSUME NEW e \in OwnKinds,
             cur \in Clients, Appended(<<e, cur>>), Tells(e)'
      PROVE  Requests' /\ OwnEvents'
  <2> DEFINE last == Len(evq) + 1
  <2>1. /\ 1..Len(evq') = (1..Len(evq)) \union {last}
        /\ \A k \in 1..Len(evq) : evq'[k] = evq[k]
        /\ evq'[last] = <<e, cur>>
    BY <1>6 DEF Appended
  <2> HIDE DEF last
  <2>2. Requests'
    <3>1. e # "CONNECT_REQUEST" /\ \A k \in 1..Len(evq) : k # last
      BY <1>6 DEF OwnKinds, last
    <3>2. QED
      BY <1>1, <1>2, <2>1, <3>1 DEF IInv, Requests, Is, Owner
  <2>3. OwnEvents'
    BY <1>1, <1>2, <1>6, <2>1 DEF OwnEvents, Is, Owner
  <2>4. QED
    BY <2>2, <2>3
<1>7. QED
  BY <1>3, <1>4, <1>5, <1>6 DEF OwnStep

(***************************************************************************)
(* The clients.                                                            *)
(***************************************************************************)

LEMMA ConnectStep ==
    ASSUME IInv, NEW c \in Clients, ClientConnect(c)
    PROVE  IInv'
<1>1. CASE Listening
  <2> DEFINE ev == <<"CONNECT_REQUEST", c>>
  <2>1. /\ evq' = Append(evq, ev) /\ ev \in Events /\ evq \in Seq(Events)
        /\ cpc[c] = "setup" /\ cpc' = [cpc EXCEPT ![c] = "connecting"]
        /\ cpc \in [Clients -> NotAsked \union {"connecting", "established", "killed"}
                                        \union Ended]
        /\ UNCHANGED <<resp, rtu, spc, cur>>
    BY <1>1 DEF ClientConnect, IInv, TypeOK, Events
  <2>2. evq' \in Seq(Events) /\ Appended(ev)
    BY <2>1, AppendEvent
  <2>3. TypeOK'
    BY <2>1, <2>2 DEF IInv, TypeOK
  <2> HIDE DEF ev
  <2>4. Responses'
    BY <2>1 DEF IInv, Responses, NotAsked, Joined
  <2>5. OneClientServed' /\ ServerAgrees'
    BY <2>1 DEF IInv, OneClientServed, ServerAgrees
  <2>6. NotAccepted'
    BY <1>1, <2>1, <2>2, EventTypes
       DEF IInv, NotAccepted, Appended, NotAsked, Responses, ev, Is, Owner, Listening
  <2>7. Requested'
    BY <2>1 DEF IInv, Requested, NotAsked
  <2>8. Requests'
    BY <2>1, <2>2, EventTypes DEF IInv, Requests, Requested, Appended, NotAsked, ev, Is, Owner
  <2>9. OwnEvents'
    <3>1. c # cur
      BY <2>1 DEF IInv, Requested, NotAsked
    <3>2. QED
      BY <2>1, <2>2, <3>1, EventTypes
         DEF IInv, OwnEvents, OwnKinds, Tells, Appended, ev, Is, Owner, Refused
  <2>10. InOrder' /\ Announced'
    BY <2>1, <2>2 DEF IInv, InOrder, Announced, Appended, ev, Is
  <2>11. QED
    BY <1>1, <2>1, <2>3, <2>4, <2>5, <2>6, <2>7, <2>8, <2>9, <2>10 DEF IInv, Listening
<1>2. CASE ~Listening
  <2>1. /\ resp' = [resp EXCEPT ![c] = "REJECTED"]
        /\ cpc[c] = "setup" /\ cpc' = [cpc EXCEPT ![c] = "connecting"]
        /\ cpc \in [Clients -> NotAsked \union {"connecting", "established", "killed"}
                                        \union Ended]
        /\ resp \in [Clients -> {"none", "REP", "REJECTED"}] /\ evq \in Seq(Events)
        /\ UNCHANGED <<rtu, spc, cur, evq>>
    BY <1>2 DEF ClientConnect, IInv, TypeOK
  <2>2. TypeOK'
    BY <2>1 DEF IInv, TypeOK
  <2>3. Responses' /\ OneClientServed' /\ ServerAgrees'
    BY <2>1 DEF IInv, Responses, OneClientServed, ServerAgrees, NotAsked, Joined
  <2>4. NotAccepted' /\ Requests'
    BY <2>1, EventTypes DEF IInv, NotAccepted, Requests, NotAsked, Is, Owner
  <2>5. Requested' /\ c # cur
    BY <1>2, <2>1 DEF IInv, Requested, NotAsked, Listening
  <2>6. OwnEvents' /\ InOrder' /\ Announced'
    BY <2>1, <2>5, EventTypes DEF IInv, OwnEvents, Tells, InOrder, Announced, Is, Owner, Refused
  <2>7. (spc = "died" => Disturbed)'
    BY <2>1, <2>5 DEF IInv, Disturbed, NotAsked
  <2>8. QED
    BY <2>2, <2>3, <2>4, <2>5, <2>6, <2>7 DEF IInv
<1>3. QED
  BY <1>1, <1>2

\* Before its request a client concerns nobody.
LEMMA NotAskedStep ==
    ASSUME IInv, NEW c \in Clients, NEW pc \in NotAsked,
           cpc[c] \in NotAsked, cpc' = [cpc EXCEPT ![c] = pc],
           UNCHANGED <<resp, rtu, spc, cur, evq>>
    PROVE  IInv'
<1>1. TypeOK'
  BY DEF IInv, TypeOK
<1>2. /\ cpc \in [Clients -> NotAsked \union {"connecting", "established", "killed"}
                                       \union Ended]
      /\ evq \in Seq(Events) /\ c # cur
  BY DEF IInv, TypeOK, Requested
<1>3. Onward /\ OwnStep
  BY <1>2 DEF Onward, OwnStep, NotAsked, Joined, Refused
<1>4. Requests' /\ OwnEvents'
  BY <1>1, <1>3, ChannelStep
<1>5. Responses' /\ OneClientServed' /\ ServerAgrees' /\ Requested'
  BY <1>2 DEF IInv, Responses, OneClientServed, ServerAgrees, Requested, NotAsked, Joined
<1>6. NotAccepted'
  BY <1>2, EventTypes DEF IInv, NotAccepted, Is, Owner, NotAsked
<1>7. InOrder' /\ Announced' /\ (spc = "died" => Disturbed)'
  BY <1>2 DEF IInv, InOrder, Announced, Disturbed, Is, Refused
<1>8. QED
  BY <1>1, <1>4, <1>5, <1>6, <1>7 DEF IInv

\* An event that reaches the server only if its client was accepted.
LEMMA OwnAppend ==
    ASSUME IInv, NEW c \in Clients, NEW e \in OwnKinds, Accepted(c) => Tells(e)',
           evq' = IF Accepted(c) THEN Append(evq, <<e, c>>) ELSE evq
    PROVE  /\ evq' \in Seq(Events) /\ OwnStep
           /\ Accepted(c) => Appended(<<e, cur>>)
           /\ ~Accepted(c) => UNCHANGED evq
<1>1. evq \in Seq(Events) /\ <<e, c>> \in Events
  BY DEF IInv, TypeOK, Events, OwnKinds
<1>2. CASE Accepted(c)
  BY <1>1, <1>2, AppendEvent DEF OwnStep, Accepted
<1>3. CASE ~Accepted(c)
  BY <1>1, <1>3 DEF OwnStep
<1>4. QED
  BY <1>2, <1>3

\* Where the order of the channel is concerned, an appended event that is no
\* early disconnect can do no harm.
LEMMA AppendOrder ==
    ASSUME IInv, NEW c \in Clients, NEW e \in OwnKinds, Onward, UNCHANGED spc,
           Accepted(c) => Appended(<<e, cur>>), ~Accepted(c) => UNCHANGED evq,
           \A d \in Clients : rtu[d] = "lost" /\ cpc[d] = "done" => rtu'[d] \in {"lost", "failed"},
           spc = "wait_established" /\ c = cur /\ e = "DISCONNECTED" =>
               \/ cpc'[cur] = "killed" \/ rtu'[cur] \in {"lost", "failed"}
               \/ \E k \in 1..Len(evq) : Is(k, "ESTABLISHED")
    PROVE  InOrder'
<1> SUFFICES ASSUME spc = "wait_established", NEW k \in 1..Len(evq'), Is(k, "DISCONNECTED")'
             PROVE  \/ cpc'[cur] = "killed" \/ rtu'[cur] \in {"lost", "failed"}
                    \/ \E j \in 1..(k - 1) : Is(j, "ESTABLISHED")'
  BY DEF InOrder, Onward
<1>1. cur \in Clients /\ cur' = cur /\ evq \in Seq(Events)
  BY DEF IInv, TypeOK, Onward
<1>2. CASE k \in 1..Len(evq) /\ evq'[k] = evq[k] /\ \A j \in 1..Len(evq) : evq'[j] = evq[j]
  <2>1. /\ cpc[cur] \in {"done", "killed"}
        /\ \/ cpc[cur] = "killed" \/ rtu[cur] \in {"lost", "failed"}
           \/ \E j \in 1..(k - 1) : Is(j, "ESTABLISHED")
    BY <1>2 DEF IInv, InOrder, OwnEvents, Tells, OwnKinds, Is
  <2>2. \A j \in 1..(k - 1) : evq'[j] = evq[j]
    <3>1. k \in Nat /\ Len(evq) \in Nat /\ k <= Len(evq)
      BY <1>1, <1>2
    <3>2. \A j \in 1..(k - 1) : j \in 1..Len(evq)
      BY <3>1
    <3>3. QED
      BY <1>2, <3>2
  <2>3. QED
    BY <1>1, <2>1, <2>2 DEF Onward, Is
<1>3. CASE Appended(<<e, cur>>) /\ k = Len(evq) + 1 /\ c = cur
  <2>1. e = "DISCONNECTED" /\ 1..(k - 1) = 1..Len(evq)
        /\ \A j \in 1..Len(evq) : evq'[j] = evq[j]
    BY <1>1, <1>3 DEF Appended, Is
  <2>2. QED
    BY <1>3, <2>1 DEF Is
<1>4. QED
  BY <1>2, <1>3 DEF Appended, Accepted

LEMMA ResponseStep ==
    ASSUME IInv, NEW c \in Clients, ClientGetResponse(c)
    PROVE  IInv'
<1>1. /\ cpc \in [Clients -> NotAsked \union {"connecting", "established", "killed"}
                                       \union Ended]
      /\ resp \in [Clients -> {"none", "REP", "REJECTED"}]
      /\ rtu \in [Clients -> {"none", "lost", "late", "failed"}]
      /\ evq \in Seq(Events)
      /\ cpc[c] = "connecting" /\ rtu[c] = "none"
      /\ resp' = [resp EXCEPT ![c] = "none"] /\ UNCHANGED <<spc, cur>>
  BY DEF ClientGetResponse, IInv, TypeOK, Responses, Joined
<1>2. NotAccepted /\ resp[c] # "none" => \A k \in 1..Len(evq) :
         spc \in {"start", "listen"} => Owner(k) # c
  BY DEF NotAccepted, Owner
<1>3. CASE /\ resp[c] = "REP" /\ c = cur
           /\ cpc' = [cpc EXCEPT ![c] = "established"]
           /\ evq' = IF Accepted(c) THEN Append(evq, <<"ESTABLISHED", c>>) ELSE evq
           /\ UNCHANGED rtu
  <2>1. Tells("ESTABLISHED")'
    BY <1>1, <1>3 DEF Tells, Joined
  <2>2. /\ evq' \in Seq(Events) /\ OwnStep
        /\ Accepted(c) => Appended(<<"ESTABLISHED", cur>>)
        /\ ~Accepted(c) => UNCHANGED evq
    BY <1>3, <2>1, OwnAppend DEF OwnKinds
  <2>3. TypeOK'
    BY <1>1, <1>3, <2>2 DEF IInv, TypeOK
  <2>4. Onward
    BY <1>1, <1>3 DEF Onward, NotAsked, Joined, Refused
  <2>5. Requests' /\ OwnEvents'
    BY <2>2, <2>3, <2>4, ChannelStep
  <2>6. InOrder'
    BY <1>1, <1>3, <2>2, <2>4, AppendOrder DEF OwnKinds
  <2>7. Announced'
    BY <1>1, <1>3, <2>2 DEF Announced, Appended, Accepted, Is
  <2>8. Responses' /\ OneClientServed' /\ ServerAgrees' /\ Requested'
    BY <1>1, <1>3 DEF IInv, Responses, OneClientServed, ServerAgrees, Requested, NotAsked,
                      Joined
  <2>9. NotAccepted' /\ (spc = "died" => Disturbed)'
    BY <1>1, <1>3, <2>2, ClientsAssumption
       DEF IInv, NotAccepted, Disturbed, NotAsked, Accepted, Refused
  <2>10. QED
    BY <2>3, <2>5, <2>6, <2>7, <2>8, <2>9 DEF IInv
<1>4. CASE /\ resp[c] = "REP" /\ c = cur
           /\ cpc' = [cpc EXCEPT ![c] = "established"]
           /\ rtu' = [rtu EXCEPT ![c] = "lost"] /\ UNCHANGED evq
  <2>1. TypeOK'
    BY <1>1, <1>4 DEF IInv, TypeOK
  <2>2. Onward /\ OwnStep
    BY <1>1, <1>4 DEF Onward, OwnStep, NotAsked, Joined, Refused
  <2>3. Requests' /\ OwnEvents'
    BY <2>1, <2>2, ChannelStep
  <2>4. Responses' /\ OneClientServed' /\ ServerAgrees' /\ Requested'
    BY <1>1, <1>4 DEF IInv, Responses, OneClientServed, ServerAgrees, Requested, NotAsked,
                      Joined
  <2>5. InOrder' /\ Announced'
    BY <1>1, <1>4 DEF InOrder, Announced
  <2>6. NotAccepted' /\ (spc = "died" => Disturbed)'
    BY <1>1, <1>4, ClientsAssumption DEF IInv, NotAccepted, Disturbed, NotAsked, Refused
  <2>7. QED
    BY <2>1, <2>3, <2>4, <2>5, <2>6 DEF IInv
<1>5. CASE /\ resp[c] # "REP" /\ resp[c] # "none"
           /\ cpc' = [cpc EXCEPT ![c] = "died"] /\ UNCHANGED <<rtu, evq>>
  <2>1. TypeOK'
    BY <1>1, <1>5 DEF IInv, TypeOK, Ended
  <2>2. Onward /\ OwnStep
    BY <1>1, <1>5 DEF Onward, OwnStep, NotAsked, Joined, Refused
  <2>3. Requests' /\ OwnEvents'
    BY <2>1, <2>2, ChannelStep
  <2>4. Responses' /\ OneClientServed' /\ ServerAgrees' /\ Requested'
    BY <1>1, <1>5 DEF IInv, Responses, OneClientServed, ServerAgrees, Requested, NotAsked,
                      Joined
  <2>5. InOrder' /\ Announced'
    BY <1>1, <1>5 DEF IInv, InOrder, Announced, Is
  <2>6. NotAccepted'
    BY <1>1, <1>2, <1>5, EventTypes DEF IInv, NotAccepted, Is, Owner
  <2>7. (spc = "died" => Disturbed)'
    BY <1>1, <1>5 DEF IInv, Disturbed, NotAsked, Refused
  <2>8. QED
    BY <2>1, <2>3, <2>4, <2>5, <2>6, <2>7 DEF IInv
<1>6. QED
  BY <1>3, <1>4, <1>5 DEF ClientGetResponse, IInv, Responses

LEMMA CleanupStep ==
    ASSUME IInv, NEW c \in Clients, ClientCleanup(c)
    PROVE  IInv'
<1>1. /\ cpc \in [Clients -> NotAsked \union {"connecting", "established", "killed"}
                                       \union Ended]
      /\ evq \in Seq(Events)
      /\ cpc[c] = "established" /\ cpc' = [cpc EXCEPT ![c] = "done"]
      /\ c = cur
      /\ UNCHANGED <<resp, rtu, spc, cur>>
  BY DEF ClientCleanup, IInv, TypeOK, OneClientServed
<1>2. Tells("DISCONNECTED")'
  BY <1>1 DEF Tells
<1>3. /\ evq' \in Seq(Events) /\ OwnStep
      /\ Accepted(c) => Appended(<<"DISCONNECTED", cur>>)
      /\ ~Accepted(c) => UNCHANGED evq
  BY <1>2, OwnAppend DEF OwnKinds, ClientCleanup
<1>4. TypeOK'
  BY <1>1, <1>3 DEF IInv, TypeOK, Ended
<1>5. Onward
  BY <1>1 DEF Onward, NotAsked, Joined, Refused
<1>6. Requests' /\ OwnEvents'
  BY <1>3, <1>4, <1>5, ChannelStep
<1>7. InOrder'
  <2>1. spc = "wait_established" =>
           \/ rtu[cur] \in {"lost", "failed"}
           \/ \E k \in 1..Len(evq) : Is(k, "ESTABLISHED")
    BY <1>1 DEF IInv, Announced, TypeOK
  <2>2. QED
    BY <1>1, <1>3, <1>5, <2>1, AppendOrder DEF OwnKinds
<1>8. Announced'
  BY <1>1, <1>3 DEF IInv, Announced, Appended, Accepted, Is
<1>9. Responses' /\ OneClientServed' /\ ServerAgrees' /\ Requested'
  BY <1>1 DEF IInv, Responses, OneClientServed, ServerAgrees, Requested, NotAsked, Joined
<1>10. NotAccepted' /\ (spc = "died" => Disturbed)'
  BY <1>1, ClientsAssumption DEF IInv, NotAccepted, Disturbed, NotAsked, Refused
<1>11. QED
  BY <1>4, <1>6, <1>7, <1>8, <1>9, <1>10 DEF IInv

LEMMA KilledStep ==
    ASSUME IInv, NEW c \in Clients, ClientKilled(c)
    PROVE  IInv'
<1>1. /\ cpc \in [Clients -> NotAsked \union {"connecting", "established", "killed"}
                                       \union Ended]
      /\ resp \in [Clients -> {"none", "REP", "REJECTED"}]
      /\ evq \in Seq(Events)
      /\ cpc[c] \notin Ended \union {"killed"}
      /\ resp' = [resp EXCEPT ![c] = "none"] /\ UNCHANGED <<rtu, spc, cur>>
  BY DEF ClientKilled, IInv, TypeOK
<1>2. CASE cpc[c] \in NotAsked
  <2>1. cpc' = [cpc EXCEPT ![c] = "crashed"]
    BY <1>1, <1>2 DEF ClientKilled
  <2>2. UNCHANGED <<resp, evq>>
    BY <1>1, <1>2 DEF ClientKilled, IInv, Responses, Requested, Accepted
  <2>3. QED
    BY <1>1, <1>2, <2>1, <2>2, NotAskedStep DEF NotAsked
<1>3. ASSUME cpc[c] \in {"connecting", "established"}, NEW e \in OwnKinds,
             e = IF cpc[c] = "established" THEN "DISCONNECTED" ELSE "OTHER"
      PROVE  IInv'
  <2>1. cpc' = [cpc EXCEPT ![c] = "killed"]
    BY <1>1, <1>3 DEF ClientKilled, NotAsked
  <2>2. Accepted(c) => Tells(e)'
    BY <1>1, <1>3, <2>1 DEF Tells, Accepted
  <2>3. evq' = IF Accepted(c) THEN Append(evq, <<e, c>>) ELSE evq
    BY <1>3 DEF ClientKilled
  <2>4. /\ evq' \in Seq(Events) /\ OwnStep
        /\ Accepted(c) => Appended(<<e, cur>>)
        /\ ~Accepted(c) => UNCHANGED evq
    BY <2>2, <2>3, OwnAppend
  <2>5. TypeOK'
    BY <1>1, <2>1, <2>4 DEF IInv, TypeOK
  <2>6. Onward
    BY <1>1, <1>3, <2>1 DEF Onward, NotAsked, Joined, Refused
  <2>7. Requests' /\ OwnEvents'
    BY <2>4, <2>5, <2>6, ChannelStep
  <2>8. InOrder'
    BY <1>1, <2>1, <2>4, <2>6, AppendOrder
  <2>9. Announced'
    BY <1>1, <2>1, <2>4 DEF IInv, Announced, Appended, Accepted, Is
  <2>10. Responses' /\ OneClientServed' /\ ServerAgrees' /\ Requested'
    BY <1>1, <1>3, <2>1
       DEF IInv, Responses, OneClientServed, ServerAgrees, Requested, NotAsked, Joined
  <2>11. NotAccepted'
    BY <1>1, <2>1, <2>4, EventTypes DEF IInv, NotAccepted, Accepted, Is, Owner
  <2>12. (spc = "died" => Disturbed)'
    BY <1>1, <1>3, <2>1 DEF IInv, Disturbed, NotAsked
  <2>13. QED
    BY <2>5, <2>7, <2>8, <2>9, <2>10, <2>11, <2>12 DEF IInv
<1>4. QED
  BY <1>1, <1>2, <1>3 DEF OwnKinds

LEMMA AnswerLostStep ==
    ASSUME IInv, NEW c \in Clients, AnswerLost(c)
    PROVE  IInv'
<1>1. /\ resp \in [Clients -> {"none", "REP", "REJECTED"}]
      /\ evq \in Seq(Events)
      /\ c = cur /\ cpc[c] = "connecting" /\ resp[c] = "REP"
      /\ resp' = [resp EXCEPT ![c] = "REJECTED"]
      /\ UNCHANGED <<cpc, rtu, spc, cur>>
  BY DEF AnswerLost, IInv, TypeOK, Responses
<1>2. Onward
  BY <1>1 DEF Onward, Refused
<1>3. Tells("OTHER")'
  BY <1>1 DEF Tells, Refused
<1>4. /\ evq' \in Seq(Events) /\ OwnStep
      /\ Accepted(c) => Appended(<<"OTHER", cur>>)
      /\ ~Accepted(c) => UNCHANGED evq
  BY <1>3, OwnAppend DEF OwnKinds, AnswerLost
<1>5. TypeOK'
  BY <1>1, <1>4 DEF IInv, TypeOK
<1>6. Requests' /\ OwnEvents'
  BY <1>2, <1>4, <1>5, ChannelStep
<1>7. InOrder'
  BY <1>1, <1>2, <1>4, AppendOrder DEF OwnKinds
<1>8. Announced'
  BY <1>1 DEF Announced
<1>9. Responses' /\ OneClientServed' /\ ServerAgrees' /\ Requested'
  BY <1>1 DEF IInv, Responses, OneClientServed, ServerAgrees, Requested, NotAsked, Refused
<1>10. NotAccepted' /\ (spc = "died" => Disturbed)'
  BY <1>1, ClientsAssumption DEF IInv, NotAccepted, Disturbed, Refused
<1>11. QED
  BY <1>5, <1>6, <1>7, <1>8, <1>9, <1>10 DEF IInv

LEMMA LateStep ==
    ASSUME IInv, NEW c \in Clients, LateEvent(c)
    PROVE  IInv'
<1>1. /\ rtu \in [Clients -> {"none", "lost", "late", "failed"}]
      /\ evq \in Seq(Events)
      /\ rtu[c] = "lost" /\ cpc[c] \in Joined
      /\ UNCHANGED <<cpc, resp, spc, cur>>
  BY DEF LateEvent, IInv, TypeOK, Responses
<1>2. Onward
  BY <1>1 DEF LateEvent, Onward, Refused
<1>3. ASSUME NEW e \in OwnKinds, NEW x \in {"late", "failed"},
             e # "DISCONNECTED",
             rtu' = [rtu EXCEPT ![c] = x], x = "late" => e = "ESTABLISHED",
             x = "late" => cpc[c] = "established", x = "failed" => e = "OTHER",
             evq' = IF Accepted(c) THEN Append(evq, <<e, c>>) ELSE evq
      PROVE  IInv'
  <2>1. Accepted(c) => Tells(e)'
    BY <1>1, <1>3 DEF Tells, Accepted, Joined
  <2>2. /\ evq' \in Seq(Events) /\ OwnStep
        /\ Accepted(c) => Appended(<<e, cur>>)
        /\ ~Accepted(c) => UNCHANGED evq
    BY <1>3, <2>1, OwnAppend
  <2>3. TypeOK'
    BY <1>1, <1>3, <2>2 DEF IInv, TypeOK
  <2>4. Requests' /\ OwnEvents'
    BY <1>2, <2>2, <2>3, ChannelStep
  <2>5. InOrder'
    BY <1>1, <1>2, <1>3, <2>2, AppendOrder
  <2>6. Announced'
    BY <1>1, <1>3, <2>2 DEF IInv, Announced, Appended, Accepted, Is
  <2>7. Responses' /\ OneClientServed' /\ ServerAgrees' /\ Requested'
    BY <1>1, <1>3 DEF IInv, Responses, OneClientServed, ServerAgrees, Requested, NotAsked,
                      Joined
  <2>8. NotAccepted' /\ (spc = "died" => Disturbed)'
    BY <1>1, <1>3, <2>2 DEF IInv, NotAccepted, Accepted, Disturbed, Is, Owner, Refused
  <2>9. QED
    BY <2>3, <2>4, <2>5, <2>6, <2>7, <2>8 DEF IInv
<1>4. QED
  BY <1>3 DEF LateEvent, OwnKinds

(***************************************************************************)
(* The server.                                                             *)
(***************************************************************************)

\* What the server's steps have in common: the clients stay where they are.
LEMMA ServerClients ==
    ASSUME IInv, UNCHANGED <<cpc, rtu, cur>>,
           \A c \in Clients : resp[c] = "REJECTED" => resp'[c] = "REJECTED"
    PROVE  Onward /\ OneClientServed'
BY DEF IInv, Onward, OneClientServed, Refused

\* The server ends with a rejection of whoever waits.
LEMMA EndStep ==
    ASSUME IInv, UNCHANGED <<cpc, rtu, cur>>, RejectPending, spc' \in Ended,
           cur \in Clients, evq' \in Seq(Events), OwnStep,
           spc' = "done" => spc = "cleanup",
           spc' = "died" => Disturbed
    PROVE  IInv'
<1>1. /\ cpc \in [Clients -> NotAsked \union {"connecting", "established", "killed"}
                                       \union Ended]
      /\ resp \in [Clients -> {"none", "REP", "REJECTED"}]
  BY DEF IInv, TypeOK
<1>2. TypeOK'
  <2>1. resp' \in [Clients -> {"none", "REP", "REJECTED"}]
    BY <1>1 DEF RejectPending
  <2>2. QED
    BY <2>1 DEF IInv, TypeOK
<1>3. Onward /\ OneClientServed'
  BY <1>1, ServerClients DEF RejectPending
<1>4. Requests' /\ OwnEvents'
  BY <1>2, <1>3, ChannelStep
<1>5. Responses'
  BY <1>1 DEF IInv, Responses, RejectPending, NotAsked
<1>6. ServerAgrees' /\ NotAccepted' /\ Requested' /\ InOrder' /\ Announced'
  BY DEF IInv, ServerAgrees, NotAccepted, Requested, InOrder, Announced, Ended
<1>7. (spc = "died" => Disturbed)'
  BY <1>3 DEF Disturbed, Onward, Refused
<1>8. QED
  BY <1>2, <1>3, <1>4, <1>5, <1>6, <1>7 DEF IInv

LEMMA ListenStep ==
    ASSUME IInv, ServerListen
    PROVE  IInv'
<1>1. spc = "start" /\ spc' = "listen" /\ UNCHANGED <<cpc, resp, rtu, cur, evq>>
  BY DEF ServerListen
<1>2. TypeOK' /\ Responses' /\ ServerAgrees' /\ NotAccepted' /\ Requested'
  BY <1>1 DEF IInv, TypeOK, Responses, ServerAgrees, NotAccepted, Requested, Is, Owner
<1>3. Onward /\ OneClientServed' /\ OwnStep
  BY <1>1, ServerClients DEF OwnStep
<1>4. Requests' /\ OwnEvents'
  BY <1>2, <1>3, ChannelStep
<1>5. InOrder' /\ Announced' /\ (spc = "died" => Disturbed)'
  BY <1>1 DEF InOrder, Announced
<1>6. QED
  BY <1>2, <1>3, <1>4, <1>5 DEF IInv

LEMMA GetRequestStep ==
    ASSUME IInv, ServerGetRequest
    PROVE  IInv'
<1>1. /\ spc = "listen" /\ cur = NoClient /\ evq \in Seq(Events)
      /\ evq' \in Seq(Events) /\ Removed
      /\ UNCHANGED <<cpc, rtu>>
  BY RemoveEvent DEF ServerGetRequest, IInv, TypeOK, NotAccepted
<1>2. Head(evq) = evq[1] /\ Head(evq)[1] = "CONNECT_REQUEST" /\ Owner(1) \in Clients
  BY <1>1, EventTypes DEF IInv, NotAccepted, Removed, Is
<1>3. spc' = "accept" /\ cur' = Owner(1) /\ UNCHANGED resp
  BY <1>2 DEF ServerGetRequest, Owner
<1>4. resp[Owner(1)] = "none" /\ cpc[Owner(1)] \in {"connecting", "killed"}
  BY <1>1 DEF IInv, NotAccepted, Removed
<1>5. TypeOK'
  BY <1>1, <1>2, <1>3 DEF IInv, TypeOK
<1>6. Responses' /\ OneClientServed' /\ ServerAgrees' /\ Requested'
  BY <1>1, <1>3, <1>4, ClientsAssumption
     DEF IInv, Responses, OneClientServed, ServerAgrees, Requested, NotAsked
<1>7. \A k \in 1..Len(evq) : Is(k, "CONNECT_REQUEST")
  BY <1>1 DEF IInv, NotAccepted
<1>8. Requests'
  <2>1. \A k \in 1..Len(evq') :
           /\ k + 1 \in 1..Len(evq) /\ k + 1 # 1 /\ evq'[k] = evq[k + 1]
           /\ Owner(k + 1) \in Clients
           /\ \A l \in 1..Len(evq') : k + 1 = l + 1 => k = l
    BY <1>1, EventTypes DEF Removed
  <2>2. \A k \in 1..Len(evq') : Owner(k + 1) # Owner(1)
    <3>1. \A l \in 1..Len(evq) : evq[l] = <<"CONNECT_REQUEST", Owner(l)>>
      BY <1>1, <1>7, EventTypes DEF Is
    <3>2. 1 \in 1..Len(evq) /\ \A l \in 1..Len(evq) : evq[l] = evq[1] => l = 1
      BY <1>1, <1>7 DEF IInv, Requests, Removed
    <3>3. QED
      BY <2>1, <3>1, <3>2
  <2>3. \A k \in 1..Len(evq') :
           /\ cpc'[Owner(k + 1)] \notin NotAsked
           /\ \A l \in 1..Len(evq') : evq[l + 1] = evq[k + 1] => l = k
    BY <1>1, <1>7, <2>1 DEF IInv, Requests
  <2>4. QED
    BY <1>3, <2>1, <2>2, <2>3 DEF Requests, Owner
<1>9. OwnEvents' /\ InOrder' /\ Announced' /\ NotAccepted' /\ (spc = "died" => Disturbed)'
  BY <1>1, <1>3, <1>7 DEF OwnEvents, OwnKinds, InOrder, Announced, NotAccepted, Removed, Is
<1>10. QED
  BY <1>5, <1>6, <1>8, <1>9 DEF IInv

LEMMA AcceptStep ==
    ASSUME IInv, ServerAccept
    PROVE  IInv'
<1>1. /\ spc = "accept" /\ cur \in Clients /\ evq \in Seq(Events)
      /\ resp \in [Clients -> {"none", "REP", "REJECTED"}]
      /\ cpc[cur] \in {"connecting", "killed"} /\ resp[cur] = "none"
      /\ UNCHANGED <<cpc, rtu, cur>>
  BY DEF ServerAccept, IInv, TypeOK, Requested
<1>2. Onward /\ OneClientServed'
  BY <1>1, ServerClients DEF ServerAccept, RejectPending
<1>3. CASE /\ cpc[cur] = "connecting" /\ spc' = "wait_established"
           /\ resp' = [resp EXCEPT ![cur] = "REP"] /\ UNCHANGED evq
  <2>1. TypeOK' /\ OwnStep
    BY <1>1, <1>3 DEF IInv, TypeOK, OwnStep
  <2>2. Requests' /\ OwnEvents'
    BY <1>2, <2>1, ChannelStep
  <2>3. Responses'
    BY <1>1, <1>3 DEF IInv, Responses, NotAsked
  <2>4. InOrder'
    BY <1>1, <1>3 DEF IInv, InOrder, OwnEvents, OwnKinds, Tells, Is
  <2>5. ServerAgrees' /\ NotAccepted' /\ Requested' /\ Announced'
        /\ (spc = "died" => Disturbed)'
    BY <1>1, <1>3
       DEF IInv, ServerAgrees, NotAccepted, Requested, Announced
  <2>6. QED
    BY <1>2, <2>1, <2>2, <2>3, <2>4, <2>5 DEF IInv
<1>4. CASE /\ cpc[cur] = "killed" /\ spc' = "wait_established"
           /\ evq' = Append(evq, <<"OTHER", cur>>) /\ UNCHANGED resp
  <2>1. <<"OTHER", cur>> \in Events /\ Tells("OTHER")'
    BY <1>1, <1>4 DEF Events, Tells
  <2>2. evq' \in Seq(Events) /\ Appended(<<"OTHER", cur>>)
    BY <1>1, <1>4, <2>1, AppendEvent
  <2>3. TypeOK' /\ OwnStep
    BY <1>1, <1>4, <2>1, <2>2 DEF IInv, TypeOK, OwnStep, OwnKinds
  <2>4. Requests' /\ OwnEvents'
    BY <1>2, <2>3, ChannelStep
  <2>5. Responses' /\ ServerAgrees' /\ NotAccepted' /\ Requested' /\ InOrder' /\ Announced'
        /\ (spc = "died" => Disturbed)'
    BY <1>1, <1>4
       DEF IInv, Responses, ServerAgrees, NotAccepted, Requested, InOrder, Announced
  <2>6. QED
    BY <1>2, <2>3, <2>4, <2>5 DEF IInv
<1>5. CASE spc' = "crashed" /\ RejectPending /\ UNCHANGED evq
  BY <1>1, <1>5, EndStep DEF OwnStep, Ended
<1>6. QED
  BY <1>1, <1>3, <1>4, <1>5 DEF ServerAccept

LEMMA GetEstablishedStep ==
    ASSUME IInv, ServerGetEstablished
    PROVE  IInv'
<1>1. /\ spc = "wait_established" /\ cur \in Clients /\ evq \in Seq(Events)
      /\ evq' \in Seq(Events) /\ Removed
      /\ UNCHANGED <<cpc, rtu, cur>>
  BY RemoveEvent DEF ServerGetEstablished, IInv, TypeOK
<1>2. Head(evq) = evq[1] /\ 1 \in 1..Len(evq)
  BY <1>1 DEF Removed
<1>3. CASE Is(1, "ESTABLISHED")
  <2>1. spc' = "cleanup" /\ UNCHANGED resp
    BY <1>2, <1>3 DEF ServerGetEstablished, Is
  <2>2. cpc[cur] \in Joined
    BY <1>2, <1>3 DEF IInv, OwnEvents, OwnKinds, Tells
  <2>3. TypeOK' /\ OwnStep
    BY <1>1, <2>1 DEF IInv, TypeOK, OwnStep
  <2>4. Onward /\ OneClientServed'
    BY <1>1, <2>1, ServerClients
  <2>5. Requests' /\ OwnEvents'
    BY <2>3, <2>4, ChannelStep
  <2>6. Responses' /\ ServerAgrees' /\ NotAccepted' /\ Requested' /\ InOrder' /\ Announced'
        /\ (spc = "died" => Disturbed)'
    BY <1>1, <2>1, <2>2
       DEF IInv, Responses, ServerAgrees, NotAccepted, Requested, InOrder, Announced, Joined
  <2>7. QED
    BY <2>3, <2>4, <2>5, <2>6 DEF IInv
<1>4. CASE ~Is(1, "ESTABLISHED")
  <2>1. spc' = "died" /\ RejectPending
    BY <1>2, <1>4 DEF ServerGetEstablished, Is
  <2>2. Disturbed
    <3>1. CASE Is(1, "CONNECT_REQUEST")
      BY <1>1, <1>2, <3>1, EventTypes DEF IInv, Requests, Disturbed
    <3>2. CASE Is(1, "OTHER")
      BY <1>2, <3>2 DEF IInv, OwnEvents, OwnKinds, Tells, Disturbed
    <3>3. CASE Is(1, "DISCONNECTED")
      <4>1. cpc[cur] \in {"done", "killed"}
        BY <1>2, <3>3 DEF IInv, OwnEvents, OwnKinds, Tells
      <4>2. cpc[cur] = "killed" \/ rtu[cur] \in {"lost", "failed"}
        BY <1>1, <1>2, <3>3 DEF IInv, InOrder
      <4>3. QED
        BY <4>1, <4>2 DEF Disturbed
    <3>4. QED
      BY <1>1, <1>2, <1>4, <3>1, <3>2, <3>3, EventTypes DEF Is
  <2>3. QED
    BY <1>1, <2>1, <2>2, EndStep DEF OwnStep, Ended
<1>5. QED
  BY <1>3, <1>4

LEMMA ServerEndStep ==
    ASSUME IInv, ServerSetupCrashes \/ ServerCleanup
    PROVE  IInv'
<1>1. cur \in Clients /\ evq \in Seq(Events)
  BY DEF ServerSetupCrashes, ServerCleanup, IInv, TypeOK
<1>2. CASE ServerSetupCrashes
  BY <1>1, <1>2, EndStep DEF ServerSetupCrashes, OwnStep, Ended
<1>3. CASE ServerCleanup
  <2>1. evq' \in Seq(Events) /\ OwnStep
    BY <1>3 DEF ServerCleanup, OwnStep
  <2>2. QED
    BY <1>1, <1>3, <2>1, EndStep DEF ServerCleanup, Ended
<1>4. QED
  BY <1>2, <1>3

(***************************************************************************)
(* The theorems.                                                           *)
(***************************************************************************)

LEMMA StutterStep ==
    ASSUME IInv, UNCHANGED vars
    PROVE  IInv'
<1>1. TypeOK' /\ Onward /\ OwnStep
  BY DEF vars, IInv, TypeOK, Onward, OwnStep, Refused
<1>2. Requests' /\ OwnEvents'
  BY <1>1, ChannelStep
<1>3. Responses' /\ OneClientServed' /\ ServerAgrees' /\ Requested' /\ NotAccepted'
  BY DEF vars, IInv, Responses, OneClientServed, ServerAgrees, Requested, NotAccepted, Is,
         Owner
<1>4. InOrder' /\ Announced' /\ (spc = "died" => Disturbed)'
  BY DEF vars, IInv, InOrder, Announced, Disturbed, Is, Refused
<1>5. QED
  BY <1>1, <1>2, <1>3, <1>4 DEF IInv

LEMMA NextIInv == IInv /\ [Next]_vars => IInv'
<1> SUFFICES ASSUME IInv, [Next]_vars PROVE IInv'
  OBVIOUS
<1>1. CASE Server
  BY <1>1, ListenStep, GetRequestStep, AcceptStep, GetEstablishedStep, ServerEndStep
     DEF Server
<1>2. ASSUME NEW c \in Clients, Client(c)
      PROVE  IInv'
  <2>1. ASSUME NEW from \in NotAsked, NEW to \in NotAsked, ClientResolve(c, from, to)
        PROVE  IInv'
    <3>1. /\ cpc[c] \in NotAsked /\ UNCHANGED <<resp, rtu, spc, cur, evq>>
          /\ \E pc \in NotAsked : cpc' = [cpc EXCEPT ![c] = pc]
      BY <2>1 DEF ClientResolve, NotAsked
    <3>2. QED
      BY <3>1, NotAskedStep
  <2>2. CASE ClientSetupCrashes(c)
    <3>1. "setup" \in NotAsked /\ "crashed" \in NotAsked
      BY DEF NotAsked
    <3>2. QED
      BY <2>2, <3>1, NotAskedStep DEF ClientSetupCrashes
  <2>3. QED
    BY <1>2, <2>1, <2>2, ConnectStep, ResponseStep, CleanupStep DEF Client, NotAsked
<1>3. CASE Quiet \/ UNCHANGED vars
  BY <1>3, StutterStep DEF Quiet
<1>4. QED
  BY <1>1, <1>2, <1>3, KilledStep, AnswerLostStep, LateStep DEF Next

\* The inductive invariant of check_cm_event's strict order of events: where
\* the server is and what every event left in its channel says of its client
\* (rdmacm01/server.c:25-50, client.c:27-60).
THEOREM Invariance == Spec => []IInv
BY InitIInv, NextIInv, PTL DEF Spec

\* The types of the variables, for every set of clients.
THEOREM TypeCorrect == Spec => []TypeOK
<1>1. IInv => TypeOK
  BY DEF IInv
<1>2. QED
  BY <1>1, Invariance, PTL

\* However many clients come, only the one the server accepted is told that
\* it is connected (client.c:44-51, server.c:28, 38).
THEOREM AtMostOneServed == Spec => []OneClientServed
<1>1. IInv => OneClientServed
  BY DEF IInv
<1>2. QED
  BY <1>1, Invariance, PTL

\* A server that ends well was connected to a client that knew it or was
\* killed (server.c:41-46).
THEOREM Agreement == Spec => []ServerAgrees
<1>1. IInv => ServerAgrees
  BY DEF IInv
<1>2. QED
  BY <1>1, Invariance, PTL

\* The server dies of an event only because of another client, the end of
\* its own, or a lost message (common.c:61-67).
THEOREM DiesDisturbed == Spec => []OnlyDisturbedDies
<1>1. IInv => OnlyDisturbedDies
  BY DEF IInv, Disturbed, OnlyDisturbedDies
<1>2. QED
  BY <1>1, Invariance, PTL
=============================================================================
