------------------------ MODULE ThreadedServerProofs ------------------------
(***************************************************************************)
(* The theorems of rdmacm04: every step of its threads and clients is one  *)
(* that CmThreadsProofs knows, whatever it does to the messages; and the   *)
(* way of a thread through its loop and its teardown.                      *)
(***************************************************************************)
EXTENDS ThreadedServer, CmThreadsProofs

\* While a thread may still count a completed send, its loop is not over.
InLoop(c) == wpc[c] \in {"none", "start", "wait", "serve"} => n[c] < Rounds

\* Past the teardown nothing but the completion channel is left.
Freed(c) == wpc[c] \in {"clear", "sem_destroy", "exited"} => res[c] \subseteq {"cc"}

Threads == \A c \in Conns : InLoop(c) /\ Freed(c)

IInv == TypeOK /\ CmInv /\ Threads

(***************************************************************************)
(* The teardown.                                                           *)
(***************************************************************************)

\* The completion channel is in use when its turn comes; every other object
\* goes, each after those that use it.
LEMMA DestroysAllButChannel ==
    ASSUME NEW S \in SUBSET Resources
    PROVE  DestroyAll(TeardownOrder, S) \subseteq {"cc"}
<1> PICK S1 \in SUBSET Resources : S1 = Destroy("cc", S)
  BY DEF Destroy
<1>1. Destroy("qp", S1) = S1 \ {"qp"}
  BY DEF Destroy, Needs, Resources
<1> DEFINE S2 == S1 \ {"qp"}
<1>2. Destroy("cq", S2) = S2 \ {"cq"}
  BY DEF Destroy, Needs, Resources
<1> DEFINE S3 == S2 \ {"cq"}
<1>3. Destroy("mr", S3) = S3 \ {"mr"}
  BY DEF Destroy, Needs, Resources
<1> DEFINE S4 == S3 \ {"mr"}
<1>4. Destroy("pd", S4) = S4 \ {"pd"}
  BY DEF Destroy, Needs, Resources
<1>5. DestroyAll(TeardownOrder, S) = S4 \ {"pd"}
  BY <1>1, <1>2, <1>3, <1>4 DEF DestroyAll, TeardownOrder
<1>6. QED
  BY <1>5 DEF Resources

(***************************************************************************)
(* Every step is one of CmThreadsProofs.                                   *)
(***************************************************************************)
LEMMA ThreadIsCmStep ==
    ASSUME CmTypeOK, NEW c \in Conns, handle_request(c)
    PROVE  ThreadStep(c) \/ UNCHANGED cmVars
<1>1. SetupConnection \in SUBSET Resources
  BY SetupCreatesAll DEF SetupConnection
<1>2. CASE \/ Accept(c, SetupConnection) \/ SemWait(c, "serve") \/ Disconnect(c)
           \/ DestroyId(c, "teardown") \/ ClearSlot(c) \/ SemDestroy(c)
  BY <1>1, <1>2 DEF ThreadStep
<1>3. CASE ServeRecv(c)
  BY <1>3 DEF ServeRecv
<1>4. CASE ServeSend(c) \/ ServeBreaks(c)
  BY <1>4 DEF ServeSend, ServeBreaks, Serves, ThreadStep
<1>5. CASE Teardown(c)
  <2>1. res[c] \in SUBSET Resources
    BY DEF CmTypeOK
  <2>2. DestroyAll(TeardownOrder, res[c]) \in SUBSET Resources
    BY <2>1, DestroysAllButChannel DEF Resources
  <2>3. TearsDown(c)
    BY <1>5, <2>2 DEF Teardown, TearsDown
  <2>4. QED
    BY <2>3 DEF ThreadStep
<1>6. CASE CallFails(c)
  BY <1>6 DEF CallFails, ThreadStep, Serves
<1>7. QED
  BY <1>2, <1>3, <1>4, <1>5, <1>6 DEF handle_request, Proceeds

LEMMA ClientIsCmStep ==
    ASSUME NEW c \in Conns, PeerConnects(c) \/ PeerSends(c) \/ Network(c)
    PROVE  ClientStep(c) \/ UNCHANGED cmVars
<1>1. CASE PeerConnects(c)
  BY <1>1 DEF PeerConnects, ClientStep
<1>2. CASE PeerSends(c) \/ EchoArrives(c)
  <2>1. Exchange(c)
    BY <1>2 DEF PeerSends, EchoArrives, Exchange
  <2>2. QED
    BY <2>1 DEF ClientStep
<1>3. CASE AckArrives(c)
  BY <1>3 DEF AckArrives
<1>4. CASE RetryExceeded(c)
  BY <1>4 DEF RetryExceeded, ClientStep, Breaks
<1>5. QED
  BY <1>1, <1>2, <1>3, <1>4 DEF Network

LEMMA StepIsCmNext == CmTypeOK /\ [Next]_vars => CmNext
<1> SUFFICES ASSUME CmTypeOK, [Next]_vars PROVE CmNext
  OBVIOUS
<1>1. CASE cm_event_loop
  BY <1>1 DEF cm_event_loop, CmNext
<1>2. ASSUME NEW c \in Conns,
             handle_request(c) \/ PeerConnects(c) \/ PeerSends(c) \/ Network(c)
      PROVE  CmNext
  BY <1>2, ThreadIsCmStep, ClientIsCmStep DEF CmNext
<1>3. CASE UNCHANGED vars
  BY <1>3 DEF vars, CmNext
<1>4. QED
  BY <1>1, <1>2, <1>3 DEF Next

(***************************************************************************)
(* The inductive invariant.                                                *)
(***************************************************************************)
LEMMA InitInv == Init => IInv
<1> SUFFICES ASSUME Init PROVE IInv
  OBVIOUS
<1>1. CmInv /\ CmTypeOK
  BY CmInitInv DEF Init, CmInv
<1>2. TypeOK
  BY <1>1, RoundsAssumption DEF Init, TypeOK
<1>3. Threads
  BY RoundsAssumption DEF Init, CmInit, Threads, InLoop, Freed
<1>4. QED
  BY <1>1, <1>2, <1>3 DEF IInv

\* What a thread counts and finds in its queues.
EchoTypes ==
    /\ n \in [Conns -> 0..Rounds] /\ sent \in [Conns -> 0..Rounds]
    /\ inbox \in [Conns -> BOOLEAN] /\ posted \in [Conns -> BOOLEAN]
    /\ unacked \in [Conns -> Nat] /\ sends \in [Conns -> Nat]

LEMMA EchoTypesStep == IInv /\ [Next]_vars => EchoTypes'
<1> SUFFICES ASSUME IInv, [Next]_vars PROVE EchoTypes'
  OBVIOUS
<1>1. EchoTypes /\ Threads
  BY DEF IInv, TypeOK, EchoTypes
<1>2. CASE UNCHANGED echoVars
  BY <1>1, <1>2 DEF EchoTypes, echoVars, sendVars
<1>3. ASSUME NEW c \in Conns, ServeRecv(c)
      PROVE  EchoTypes'
  BY <1>1, <1>3 DEF ServeRecv, EchoPosted, EchoTypes
<1>4. ASSUME NEW c \in Conns, ServeSend(c)
      PROVE  EchoTypes'
  <2>1. n[c] \in 0..Rounds /\ n[c] < Rounds
    BY <1>1, <1>4 DEF ServeSend, Goto, Threads, InLoop, EchoTypes
  <2>2. n[c] + 1 \in 0..Rounds
    BY <2>1, RoundsAssumption
  <2>3. sends[c] \in Nat /\ sends[c] > 0
    BY <1>1, <1>4 DEF ServeSend, EchoTypes
  <2>4. n' \in [Conns -> 0..Rounds] /\ sends' \in [Conns -> Nat]
    BY <1>1, <1>4, <2>2, <2>3 DEF ServeSend, EchoTypes
  <2>5. QED
    BY <1>1, <1>4, <2>4 DEF ServeSend, EchoTypes
<1>5. ASSUME NEW c \in Conns, PeerSends(c)
      PROVE  EchoTypes'
  <2>1. sent[c] + 1 \in 0..Rounds
    BY <1>1, <1>5, RoundsAssumption DEF PeerSends, EchoTypes
  <2>2. QED
    BY <1>1, <1>5, <2>1 DEF PeerSends, EchoTypes, sendVars
<1>6. ASSUME NEW c \in Conns, Network(c)
      PROVE  EchoTypes'
  <2>1. unacked \in [Conns -> Nat] /\ sends \in [Conns -> Nat] /\ posted \in [Conns -> BOOLEAN]
    BY <1>1 DEF EchoTypes
  <2>2. CASE EchoArrives(c)
    <3>1. unacked' \in [Conns -> Nat]
      BY <2>1, <2>2 DEF EchoArrives
    <3>2. posted' \in [Conns -> BOOLEAN]
      BY <2>1, <2>2 DEF EchoArrives
    <3>3. QED
      BY <1>1, <2>2, <3>1, <3>2 DEF EchoArrives, EchoTypes
  <2>3. CASE AckArrives(c)
    <3>1. unacked[c] \in Nat /\ unacked[c] > 0 /\ sends[c] \in Nat
      BY <2>1, <2>3 DEF AckArrives
    <3>2. unacked' \in [Conns -> Nat] /\ sends' \in [Conns -> Nat]
      BY <2>1, <2>3, <3>1 DEF AckArrives
    <3>3. QED
      BY <1>1, <2>3, <3>2 DEF AckArrives, EchoTypes
  <2>4. CASE RetryExceeded(c)
    BY <1>1, <2>4 DEF RetryExceeded, EchoTypes
  <2>5. QED
    BY <1>6, <2>2, <2>3, <2>4 DEF Network
<1>7. QED
  BY <1>2, <1>3, <1>4, <1>5, <1>6
  DEF Next, cm_event_loop, handle_request, Proceeds, CallFails, PeerConnects, ServeBreaks, Teardown,
      vars

\* A thread that goes from one place to another leaves the others alone.
LEMMA ThreadsKept ==
    ASSUME IInv, NEW c, \A d \in Conns : d # c => wpc'[d] = wpc[d] /\ res'[d] = res[d] /\ n'[d] = n[d],
           c \in Conns => InLoop(c)' /\ Freed(c)'
    PROVE  Threads'
<1>1. ASSUME NEW d \in Conns, d # c PROVE InLoop(d)' /\ Freed(d)'
  BY <1>1 DEF IInv, Threads, InLoop, Freed
<1>2. QED
  BY <1>1 DEF Threads

LEMMA ThreadsStep == IInv /\ [Next]_vars => Threads'
<1> SUFFICES ASSUME IInv, [Next]_vars PROVE Threads'
  OBVIOUS
<1> USE DEF tableVars, mainVars, echoVars, Goto
<1>1. CmTypeOK /\ Threads /\ Position /\ Requests /\ n \in [Conns -> 0..Rounds]
  BY DEF IInv, CmInv, TypeOK
<1>2. CASE UNCHANGED <<wpc, res, n>>
  BY <1>1, <1>2 DEF Threads, InLoop, Freed
<1>3. CASE cm_event_loop
  <2>1. CASE Claim
    <3>1. event[2] \in Conns
      BY <1>1, <2>1 DEF Claim, Position, Events
    <3>2. PICK e \in Conns : e = event[2]
      BY <3>1
    <3>3. InLoop(e) /\ wpc[e] = "none"
      BY <1>1, <2>1, <3>2 DEF Claim, Requests, AtMain, Requested, Fresh, Threads
    <3>4. /\ wpc' = wpc \/ wpc' = [wpc EXCEPT ![e] = "start"]
          /\ res' = res /\ n' = n
      BY <1>3, <2>1, <3>2 DEF Claim, cm_event_loop
    <3>5. /\ wpc'[e] \in {"none", "start"}
          /\ \A d \in Conns : d # e => wpc'[d] = wpc[d]
      BY <1>1, <3>3, <3>4 DEF CmTypeOK
    <3>6. InLoop(e)' /\ Freed(e)'
      BY <3>3, <3>4, <3>5 DEF InLoop, Freed
    <3>7. QED
      BY <3>4, <3>5, <3>6, ThreadsKept
  <2>2. CASE ~Claim
    <3>1. UNCHANGED <<wpc, res, n>>
      BY <1>3, <2>2
      DEF cm_event_loop, Main, MainDies, Die, GetEvent, Scan, Full, HandleEstablished, HandleOther,
          Ack, workerVars
    <3>2. QED
      BY <1>2, <3>1
  <2>3. QED
    BY <2>1, <2>2
<1>4. ASSUME NEW c \in Conns, handle_request(c)
      PROVE  Threads'
  <2>1. /\ wpc \in [Conns -> {"none"} \union UsingPcs \union GonePcs]
        /\ res \in [Conns -> SUBSET Resources] /\ n \in [Conns -> 0..Rounds]
        /\ InLoop(c) /\ Freed(c)
    BY <1>1 DEF CmTypeOK, Threads
  <2>2. CASE Accept(c, SetupConnection) /\ UNCHANGED echoVars
    <3>1. wpc[c] = "start" /\ wpc'[c] \in {"start", "wait"} /\ n' = n
          /\ \A d \in Conns : d # c => wpc'[d] = wpc[d] /\ res'[d] = res[d]
      BY <2>1, <2>2 DEF Accept
    <3>2. InLoop(c)' /\ Freed(c)'
      BY <2>1, <3>1 DEF InLoop, Freed
    <3>3. QED
      BY <3>1, <3>2, ThreadsKept
  <2>3. CASE SemWait(c, "serve") /\ UNCHANGED echoVars
    <3>1. wpc[c] = "wait" /\ wpc'[c] = "serve" /\ n' = n /\ res' = res
          /\ \A d \in Conns : d # c => wpc'[d] = wpc[d]
      BY <2>1, <2>3 DEF SemWait
    <3>2. InLoop(c)' /\ Freed(c)'
      BY <2>1, <3>1 DEF InLoop, Freed
    <3>3. QED
      BY <3>1, <3>2, ThreadsKept
  <2>4. CASE \/ (Disconnect(c) \/ DestroyId(c, "teardown")) /\ UNCHANGED echoVars
             \/ ServeBreaks(c)
             \/ CallFails(c) /\ ~(Die /\ UNCHANGED echoVars)
    <3>1. wpc'[c] \in {"disconnect", "destroy_id", "teardown"}
          /\ \A d \in Conns : d # c => wpc'[d] = wpc[d] /\ res'[d] = res[d] /\ n'[d] = n[d]
      BY <2>1, <2>4 DEF Disconnect, DestroyId, ServeBreaks, CallFails
    <3>2. InLoop(c)' /\ Freed(c)'
      BY <3>1 DEF InLoop, Freed
    <3>3. QED
      BY <3>1, <3>2, ThreadsKept
  <2>5. CASE ServeSend(c)
    <3>1. /\ wpc'[c] = IF n[c] + 1 < Rounds THEN "serve" ELSE "disconnect"
          /\ n'[c] = n[c] + 1 /\ res' = res
          /\ \A d \in Conns : d # c => wpc'[d] = wpc[d] /\ n'[d] = n[d]
      BY <2>1, <2>5 DEF ServeSend
    <3>2. InLoop(c)' /\ Freed(c)'
      BY <2>1, <3>1 DEF InLoop, Freed
    <3>3. QED
      BY <3>1, <3>2, ThreadsKept
  <2>6. CASE Teardown(c)
    <3>1. /\ wpc'[c] = "clear" /\ res'[c] = DestroyAll(TeardownOrder, res[c]) /\ n' = n
          /\ \A d \in Conns : d # c => wpc'[d] = wpc[d] /\ res'[d] = res[d]
      BY <2>1, <2>6 DEF Teardown
    <3>2. res'[c] \subseteq {"cc"}
      BY <2>1, <3>1, DestroysAllButChannel
    <3>3. InLoop(c)' /\ Freed(c)'
      BY <3>1, <3>2 DEF InLoop, Freed
    <3>4. QED
      BY <3>1, <3>3, ThreadsKept
  <2>7. CASE (ClearSlot(c) \/ SemDestroy(c)) /\ UNCHANGED echoVars
    <3>1. /\ wpc[c] \in {"clear", "sem_destroy"} /\ wpc'[c] \in {"sem_destroy", "exited"}
          /\ n' = n /\ res' = res
          /\ \A d \in Conns : d # c => wpc'[d] = wpc[d]
      BY <2>1, <2>7 DEF ClearSlot, SemDestroy
    <3>2. InLoop(c)' /\ Freed(c)'
      BY <2>1, <3>1 DEF InLoop, Freed
    <3>3. QED
      BY <3>1, <3>2, ThreadsKept
  <2>8. CASE ServeRecv(c) \/ (Die /\ UNCHANGED echoVars)
    BY <1>2, <2>8 DEF ServeRecv, Die, cmVars, workerVars
  <2>9. QED
    BY <1>4, <2>2, <2>3, <2>4, <2>5, <2>6, <2>7, <2>8 DEF handle_request, Proceeds
<1>5. ASSUME NEW c \in Conns, PeerConnects(c) \/ PeerSends(c) \/ Network(c)
      PROVE  Threads'
  <2>1. UNCHANGED <<wpc, res, n>>
    BY <1>5
    DEF PeerConnects, PeerConnect, PeerEstablished, PeerGivesUp, PeerLeaves, PeerSends, Network,
        EchoArrives, AckArrives, RetryExceeded, cmVars, workerVars
  <2>2. QED
    BY <1>2, <2>1
<1>6. CASE UNCHANGED vars
  BY <1>2, <1>6 DEF vars, cmVars, workerVars
<1>7. QED
  BY <1>3, <1>4, <1>5, <1>6 DEF Next

LEMMA StepInv == IInv /\ [Next]_vars => IInv'
<1> SUFFICES ASSUME IInv, [Next]_vars PROVE IInv'
  OBVIOUS
<1>1. CmInv' /\ CmTypeOK'
  BY StepIsCmNext, CmInvStep DEF IInv, CmInv
<1>2. TypeOK'
  BY <1>1, EchoTypesStep DEF EchoTypes, TypeOK
<1>3. QED
  BY <1>1, <1>2, ThreadsStep DEF IInv

\* The inductive invariant of the event loop, the table and the threads of
\* handle_request (rdmacm04/server.c:28-87), for every number of slots and
\* connections.
THEOREM Invariance == Spec => []IInv
BY InitInv, StepInv, PTL DEF Spec

\* The types of the variables; no thread counts, and no client sends, more
\* than Rounds messages (rdmacm04/server.c:42).
THEOREM TypeCorrect == Spec => []TypeOK
<1>1. IInv => TypeOK
  BY DEF IInv
<1>2. QED
  BY <1>1, Invariance, PTL

\* A thread that uses ctx->id has its own connection there, for every number
\* of slots and clients (rdmacm04/server.c:72-73, 105-114).
THEOREM IdsAreOwn == Spec => []OwnId
<1>1. IInv => OwnId
  BY CmInvSafe DEF IInv
<1>2. QED
  BY <1>1, Invariance, PTL

\* Main never looks at an event whose id is destroyed
\* (rdmacm04/server.c:73, 102-141).
THEOREM EventsAlive == Spec => []EventIdAlive
<1>1. IInv => EventIdAlive
  BY CmInvSafe DEF IInv
<1>2. QED
  BY <1>1, Invariance, PTL

\* A finished thread leaves its completion channel and nothing else
\* (rdmacm04/server.c:75-82).
THEOREM LeaksOnlyChannels == Spec => []OnlyChannelLeaks
<1>1. IInv => OnlyChannelLeaks
  BY DEF IInv, Threads, Freed, OnlyChannelLeaks
<1>2. QED
  BY <1>1, Invariance, PTL

\* g_ctxs is a pool of slots for rdmacm04 too, threads and clients that
\* exchange messages included.
THEOREM Refinement == Spec => ImplementsPool
<1>1. Init => Pool!Init
  BY PoolInit DEF Init
<1>2. IInv /\ [Next]_vars => [Pool!Next]_(Pool!vars)
  BY StepIsCmNext, PoolStep DEF IInv, CmInv
<1>3. QED
  BY <1>1, <1>2, Invariance, PTL DEF Spec, ImplementsPool, Pool!Spec
=============================================================================
