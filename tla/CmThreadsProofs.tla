-------------------------- MODULE CmThreadsProofs --------------------------
(***************************************************************************)
(* What holds of a thread for every connection, whatever the threads do    *)
(* with their connections: the invariant of CmThreads and its refinement   *)
(* of SlotPool, for any number of connections and slots.  The two programs *)
(* take their theorems from here.                                          *)
(***************************************************************************)
EXTENDS CmThreads, SequenceTheorems, FiniteSetTheorems, TLAPS

(***************************************************************************)
(* The verbs objects that both programs create, each after what it needs.  *)
(***************************************************************************)
LEMMA SetupCreatesAll ==
    CreateAll(<<"pd", "cc", "cq", "qp", "mr">>) = Resources
<1>1. /\ Create("pd", {}) = {"pd"}
      /\ Create("cc", {"pd"}) = {"pd", "cc"}
  BY DEF Create, Needs
<1>2. Create("cq", {"pd", "cc"}) = {"pd", "cc", "cq"}
  BY DEF Create, Needs
<1>3. Create("qp", {"pd", "cc", "cq"}) = {"pd", "cc", "cq", "qp"}
  BY DEF Create, Needs
<1>4. Create("mr", {"pd", "cc", "cq", "qp"}) = Resources
  BY DEF Create, Needs, Resources
<1>5. QED
  BY <1>1, <1>2, <1>3, <1>4 DEF CreateAll

(***************************************************************************)
(* Dropping the events of a connection.                                    *)
(***************************************************************************)

\* Induction over the natural numbers, for a set: the smallest number that is
\* not in S would be the smallest of the intervals that end outside S.
LEMMA SetInduction ==
    ASSUME NEW S, 0 \in S, \A k \in Nat : k \in S => k + 1 \in S
    PROVE  \A k \in Nat : k \in S
<1> SUFFICES ASSUME Nat \ S # {} PROVE FALSE
  OBVIOUS
<1> DEFINE T == {1..k : k \in Nat \ S}
<1>1. T \subseteq FiniteSubsetsOf(Nat)
  <2>1. ASSUME NEW k \in Nat PROVE 1..k \in FiniteSubsetsOf(Nat)
    <3>1. IsFiniteSet(1..k)
      BY FS_Interval
    <3>2. QED
      BY <3>1 DEF FiniteSubsetsOf
  <2>2. QED
    BY <2>1
<1>2. PICK U \in T : \A V \in T : ~(<<V, U>> \in StrictSubsetOrdering(Nat))
  <2>1. T # {}
    OBVIOUS
  <2>2. IsWellFoundedOn(StrictSubsetOrdering(Nat), FiniteSubsetsOf(Nat))
    BY FS_StrictSubsetOrderingWellFounded
  <2> HIDE DEF T
  <2>3. QED
    BY <1>1, <2>1, <2>2, WFMin
<1>3. PICK k \in Nat \ S : U = 1..k
  BY <1>2
<1>4. k # 0 /\ k - 1 \in Nat /\ (k - 1) + 1 = k
  BY <1>3
<1>5. k - 1 \notin S
  BY <1>4
<1>6. 1..(k - 1) \in T
  BY <1>4, <1>5
<1>7. <<1..(k - 1), 1..k>> \in StrictSubsetOrdering(Nat)
  <2>1. 1..(k - 1) \in SUBSET Nat /\ 1..k \in SUBSET Nat
    OBVIOUS
  <2>2. 1..(k - 1) \subseteq 1..k /\ k \in 1..k /\ k \notin 1..(k - 1)
    BY <1>4
  <2>3. QED
    BY <2>1, <2>2 DEF StrictSubsetOrdering
<1>8. QED
  BY <1>2, <1>3, <1>6, <1>7

\* Others at k, from what it is before k.
Kept(q, c, before, k) ==
    IF k = 0 THEN <<>>
    ELSE IF q[k][2] = c THEN before[k - 1]
    ELSE Append(before[k - 1], q[k])

\* The recursion of Others has a solution.
LEMMA OthersUnfolds ==
    ASSUME NEW q, Len(q) \in Nat, NEW c
    PROVE  \E f : /\ Others(q, c) = f[Len(q)]
                  /\ \A k \in 0..Len(q) : f[k] = Kept(q, c, f, k)
<1> DEFINE Solved(m) == \E f : f = [k \in 0..m |-> Kept(q, c, f, k)]
<1> DEFINE S == {m \in Nat : Solved(m)}
<1>1. 0 \in S
  <2> DEFINE f == [k \in 0..0 |-> <<>>]
  <2>1. f = [k \in 0..0 |-> Kept(q, c, f, k)]
    BY DEF Kept
  <2>2. QED
    BY <2>1
<1>2. ASSUME NEW m \in Nat, m \in S
      PROVE  m + 1 \in S
  <2>1. PICK f : f = [k \in 0..m |-> Kept(q, c, f, k)]
    BY <1>2
  <2> DEFINE g == [k \in 0..(m + 1) |-> Kept(q, c, f, k)]
  <2>2. \A k \in 0..m : f[k] = Kept(q, c, f, k)
    BY <2>1
  <2>3. \A k \in 0..m : g[k] = f[k]
    BY <2>2
  <2>4. \A k \in 0..(m + 1) : Kept(q, c, g, k) = Kept(q, c, f, k)
    <3> HIDE DEF g
    <3> SUFFICES ASSUME NEW k \in 0..(m + 1), k # 0
                 PROVE  g[k - 1] = f[k - 1]
      BY DEF Kept
    <3>1. k - 1 \in 0..m
      OBVIOUS
    <3>2. QED
      BY <2>3, <3>1
  <2>5. g = [k \in 0..(m + 1) |-> Kept(q, c, g, k)]
    BY <2>4
  <2> HIDE DEF g
  <2>6. QED
    BY <2>5
<1>3. Solved(Len(q))
  <2> HIDE DEF S
  <2>1. \A m \in Nat : m \in S
    BY <1>1, <1>2, SetInduction
  <2> USE DEF S
  <2>2. QED
    BY <2>1
<1> DEFINE upto == CHOOSE f : f = [k \in 0..Len(q) |-> Kept(q, c, f, k)]
<1>4. upto = [k \in 0..Len(q) |-> Kept(q, c, upto, k)]
  BY <1>3
<1>5. Others(q, c) = upto[Len(q)]
  BY DEF Others, Kept
<1> HIDE DEF upto
<1>6. QED
  BY <1>4, <1>5

\* An event of Others(q, c) is an event of q that is not of c, and no two of
\* them are the same event of q.
LEMMA OthersFacts ==
    ASSUME NEW E, NEW q \in Seq(E), NEW c
    PROVE  /\ Others(q, c) \in Seq(E)
           /\ \E h \in [1..Len(Others(q, c)) -> 1..Len(q)] :
                 /\ \A k \in 1..Len(Others(q, c)) :
                       Others(q, c)[k] = q[h[k]] /\ q[h[k]][2] # c
                 /\ \A k, l \in 1..Len(Others(q, c)) : k < l => h[k] < h[l]
<1>1. Len(q) \in Nat
  OBVIOUS
<1>2. PICK f : /\ Others(q, c) = f[Len(q)]
               /\ \A k \in 0..Len(q) : f[k] = Kept(q, c, f, k)
  BY <1>1, OthersUnfolds
<1> DEFINE Right(o, m) ==
               /\ o \in Seq(E)
               /\ \E h \in [1..Len(o) -> 1..m] :
                     /\ \A k \in 1..Len(o) : o[k] = q[h[k]] /\ q[h[k]][2] # c
                     /\ \A k, l \in 1..Len(o) : k < l => h[k] < h[l]
           S == {m \in Nat : m <= Len(q) => Right(f[m], m)}
<1>3. 0 \in S
  <2>1. f[0] = <<>>
    BY <1>1, <1>2 DEF Kept
  <2>2. <<>> \in Seq(E) /\ Len(<<>>) = 0 /\ 1..0 = {}
    OBVIOUS
  <2> DEFINE h == [k \in 1..0 |-> 1]
  <2>3. h \in [1..0 -> 1..0]
    OBVIOUS
  <2> HIDE DEF h
  <2>4. Right(<<>>, 0)
    BY <2>2, <2>3
  <2> HIDE DEF Right
  <2>5. QED
    BY <2>1, <2>4
<1>4. ASSUME NEW m \in Nat, m \in S
      PROVE  m + 1 \in S
  <2> SUFFICES ASSUME m + 1 <= Len(q)
               PROVE  Right(f[m + 1], m + 1)
    OBVIOUS
  <2>1. Right(f[m], m)
    BY <1>1, <1>4
  <2>2. f[m + 1] = IF q[m + 1][2] = c THEN f[m] ELSE Append(f[m], q[m + 1])
    <3>1. m + 1 \in 0..Len(q) /\ m + 1 # 0 /\ (m + 1) - 1 = m
      BY <1>1
    <3>2. QED
      BY <1>2, <3>1 DEF Kept
  <2> DEFINE o == f[m]
  <2>3. o \in Seq(E) /\ Len(o) \in Nat /\ q[m + 1] \in E
    BY <1>1, <2>1
  <2>4. PICK h \in [1..Len(o) -> 1..m] :
             /\ \A k \in 1..Len(o) : o[k] = q[h[k]] /\ q[h[k]][2] # c
             /\ \A k, l \in 1..Len(o) : k < l => h[k] < h[l]
    BY <2>1
  <2> HIDE DEF o
  <2>5. CASE q[m + 1][2] = c
    <3>1. h \in [1..Len(o) -> 1..(m + 1)]
      BY <2>3
    <3>2. Right(o, m + 1)
      BY <2>3, <2>4, <3>1
    <3> HIDE DEF Right
    <3>3. QED
      BY <2>2, <2>5, <3>2 DEF o
  <2>6. CASE q[m + 1][2] # c
    <3> DEFINE p == Append(o, q[m + 1])
               g == [k \in 1..(Len(o) + 1) |-> IF k = Len(o) + 1 THEN m + 1 ELSE h[k]]
    <3>1. /\ p \in Seq(E) /\ Len(p) = Len(o) + 1 /\ p[Len(o) + 1] = q[m + 1]
          /\ \A k \in 1..Len(o) : p[k] = o[k]
      BY <2>3
    <3>2. \A k \in 1..(Len(o) + 1) : k \in 1..Len(o) \/ k = Len(o) + 1
      BY <2>3
    <3>3. /\ g[Len(o) + 1] = m + 1
          /\ \A k \in 1..Len(o) : g[k] = h[k] /\ h[k] \in 1..m
      BY <2>3, <2>4
    <3>4. g \in [1..(Len(o) + 1) -> 1..(m + 1)]
      BY <2>3, <2>4, <3>2
    <3> HIDE DEF p, g
    <3>5. \A k \in 1..(Len(o) + 1) : p[k] = q[g[k]] /\ q[g[k]][2] # c
      BY <2>4, <2>6, <3>1, <3>2, <3>3
    <3>6. \A k, l \in 1..(Len(o) + 1) : k < l => g[k] < g[l]
      BY <2>3, <2>4, <3>2, <3>3
    <3>7. Right(p, m + 1)
      BY <3>1, <3>4, <3>5, <3>6
    <3> HIDE DEF Right
    <3>8. QED
      BY <2>2, <2>6, <3>7 DEF o, p
  <2>7. QED
    BY <2>5, <2>6
<1>5. Right(f[Len(q)], Len(q))
  <2> HIDE DEF S
  <2>1. \A m \in Nat : m \in S
    BY <1>3, <1>4, SetInduction
  <2> USE DEF S
  <2> HIDE DEF Right
  <2>2. QED
    BY <1>1, <2>1
<1>6. QED
  BY <1>2, <1>5

(***************************************************************************)
(* A step of either program, as far as CmThreads sees it.                  *)
(***************************************************************************)

\* The thread of c goes from its messages to their end, or on with them.
Serves(c) ==
    /\ \E next \in {"serve", "disconnect"} : Goto(c, "serve", next)
    /\ UNCHANGED <<tableVars, mainVars, cmq, ctx, res, qp, peer>>

\* It destroys some of what it created.
TearsDown(c) ==
    /\ Goto(c, "teardown", "clear")
    /\ \E left \in SUBSET Resources : res' = [res EXCEPT ![c] = left]
    /\ UNCHANGED <<tableVars, mainVars, cmq, ctx, qp, peer>>

ThreadStep(c) ==
    \/ \E created \in SUBSET Resources : Accept(c, created)
    \/ Die
    \/ \E next \in {"serve", "disconnect"} : SemWait(c, next)
    \/ Serves(c) \/ Disconnect(c)
    \/ \E next \in {"teardown", "clear"} : DestroyId(c, next)
    \/ TearsDown(c) \/ ClearSlot(c) \/ SemDestroy(c)

\* The client of c sends a message or gets its echo; its retries are used up.
Exchange(c) ==
    /\ peer[c] \in {"idle", "waiting"}
    /\ \E stage \in {"idle", "waiting"} : peer' = [peer EXCEPT ![c] = stage]
    /\ UNCHANGED <<tableVars, mainVars, cmq, workerVars>>
Breaks(c) ==
    /\ qp' = [qp EXCEPT ![c] = "ERR"]
    /\ UNCHANGED <<tableVars, mainVars, cmq, wpc, ctx, res, peer>>

ClientStep(c) ==
    \/ PeerConnect(c) \/ PeerEstablished(c) \/ PeerGivesUp(c) \/ PeerLeaves(c)
    \/ Exchange(c) \/ Breaks(c)

CmNext ==
    \/ Main \/ MainDies
    \/ \E c \in Conns : ThreadStep(c) \/ ClientStep(c)
    \/ UNCHANGED cmVars

(***************************************************************************)
(* The invariant.                                                          *)
(***************************************************************************)

\* Where main is and what that says of its event and of the slot it found.
Position ==
    /\ mpc \in {"scan", "claim", "full"} =>
          event \in Events /\ event[1] = "CONNECT_REQUEST"
    /\ mpc \in {"handle", "break"} =>
          held /\ event \in Events /\ event[1] # "CONNECT_REQUEST"
    /\ mpc = "claim" => i \in Slots /\ id[i] = NULL

\* The slot of a thread that has not given it back is its own.
OwnSlot(c) == wpc[c] \in UsingPcs \union {"clear"} => ctx[c] \in Slots /\ id[ctx[c]] = c
OwnSlots == \A c \in Conns : OwnSlot(c)

\* Only a request speaks of an id that need not be there.
Alive ==
    /\ \A k \in 1..Len(cmq) : cmq[k][1] # "CONNECT_REQUEST" => IdAlive(cmq[k][2])
    /\ EventIdAlive

\* Nothing has been done for c.
Fresh(c) == wpc[c] = "none" /\ \A s \in Slots : id[s] # c

\* A client asks once: until main has handled its request it has neither
\* thread nor slot.
Requested(c) == Fresh(c) /\ peer[c] # "new"
NewFresh == \A c \in Conns : peer[c] = "new" => Fresh(c)
InQueue ==
    /\ \A k \in 1..Len(cmq) : cmq[k][1] = "CONNECT_REQUEST" => Requested(cmq[k][2])
    /\ \A k, l \in 1..Len(cmq) :
          cmq[k][1] = "CONNECT_REQUEST" /\ cmq[l] = cmq[k] => k = l
AtMain ==
    mpc \in {"scan", "claim", "full"} =>
        Requested(event[2]) /\ \A k \in 1..Len(cmq) : cmq[k] # event
Requests == NewFresh /\ InQueue /\ AtMain

CmInv == CmTypeOK /\ Position /\ OwnSlots /\ Alive /\ Requests

(***************************************************************************)
(* Types.                                                                  *)
(***************************************************************************)

\* The event at the head of the queue, and the queue behind it.
LEMMA HeadFacts ==
    ASSUME NEW E, NEW q \in Seq(E), q # <<>>
    PROVE  /\ Head(q) \in E /\ Head(q) = q[1] /\ 1 \in 1..Len(q)
           /\ Tail(q) \in Seq(E) /\ Len(Tail(q)) = Len(q) - 1 /\ Len(q) \in Nat
           /\ \A k \in 1..Len(Tail(q)) : Tail(q)[k] = q[k + 1] /\ k + 1 \in 1..Len(q)
OBVIOUS

\* One more event at the end.
LEMMA AppendFacts ==
    ASSUME NEW E, NEW q \in Seq(E), NEW e \in E
    PROVE  /\ Append(q, e) \in Seq(E)
           /\ Len(Append(q, e)) = Len(q) + 1 /\ Len(q) \in Nat
           /\ Append(q, e)[Len(q) + 1] = e
           /\ \A k \in 1..Len(q) : Append(q, e)[k] = q[k]
           /\ \A k \in 1..Len(Append(q, e)) : k \in 1..Len(q) \/ k = Len(q) + 1
OBVIOUS

LEMMA CmInitInv == CmInit => CmInv
<1> SUFFICES ASSUME CmInit PROVE CmInv
  OBVIOUS
<1>1. CmTypeOK
  <2>1. 1 \in 1..(MaxThreads + 1) /\ <<>> \in Seq(Events)
    BY BoundsAssumption
  <2>2. id \in [Slots -> Conns \union {NULL}] /\ established \in [Slots -> Nat]
    BY DEF CmInit
  <2>3. /\ wpc \in [Conns -> {"none"} \union UsingPcs \union GonePcs]
        /\ ctx \in [Conns -> Slots \union {0}] /\ res \in [Conns -> SUBSET Resources]
        /\ qp \in [Conns -> {"none", "RTS", "ERR"}] /\ addr \in [Conns -> Conns]
        /\ peer \in [Conns -> {"new", "connecting", "idle", "waiting", "gone"}]
    BY DEF CmInit
  <2>4. QED
    BY <2>1, <2>2, <2>3 DEF CmInit, CmTypeOK
<1>2. Position /\ OwnSlots
  BY DEF CmInit, Position, OwnSlots, OwnSlot, UsingPcs
<1>3. Alive
  BY DEF CmInit, Alive, EventIdAlive
<1>4. Requests
  BY NullAssumption DEF CmInit, Requests, NewFresh, InQueue, AtMain, Fresh, Requested
<1>5. QED
  BY <1>1, <1>2, <1>3, <1>4 DEF CmInv

LEMMA TypeMain ==
    ASSUME CmTypeOK, Position, Main \/ MainDies
    PROVE  CmTypeOK'
<1>1. CASE GetEvent
  <2>1. Head(cmq) \in Events /\ Tail(cmq) \in Seq(Events)
    BY <1>1, HeadFacts DEF GetEvent, CmTypeOK
  <2>2. addr' \in [Conns -> Conns]
    BY <1>1, <2>1 DEF GetEvent, CmTypeOK, NewAddr, Events
  <2>3. i' \in 1..(MaxThreads + 1)
    BY <1>1, BoundsAssumption DEF GetEvent
  <2>4. QED
    BY <1>1, <2>1, <2>2, <2>3 DEF GetEvent, CmTypeOK, tableVars, workerVars
<1>2. CASE Scan
  <2>1. i' \in 1..(MaxThreads + 1)
    BY <1>2, BoundsAssumption DEF Scan, CmTypeOK
  <2>2. QED
    BY <1>2, <2>1 DEF Scan, CmTypeOK, tableVars, workerVars
<1>3. CASE Full
  BY <1>3 DEF Full, Reject, CmTypeOK, tableVars, workerVars
<1>4. CASE Claim
  <2>1. i \in Slots /\ event[2] \in Conns
    BY <1>4 DEF Claim, Position, Events
  <2>2. QED
    BY <1>4, <2>1 DEF Claim, Reject, CmTypeOK, UsingPcs
<1>5. CASE HandleEstablished
  <2>1. established' \in [Slots -> Nat]
    BY <1>5 DEF HandleEstablished, CmTypeOK
  <2>2. QED
    BY <1>5, <2>1 DEF HandleEstablished, CmTypeOK, workerVars
<1>6. CASE HandleOther \/ Ack \/ MainDies
  BY <1>6 DEF HandleOther, Ack, MainDies, Die, CmTypeOK, tableVars, workerVars, Stopped
<1>7. QED
  BY <1>1, <1>2, <1>3, <1>4, <1>5, <1>6 DEF Main

\* The queue gets an event of c that is no request.
Told(c) == \E kind \in {"OTHER", "DISCONNECTED"} : cmq' = Append(cmq, <<kind, c>>)

LEMMA ToldQueue ==
    ASSUME CmTypeOK, NEW c \in Conns, Told(c)
    PROVE  cmq' \in Seq(Events)
<1>1. PICK kind \in {"OTHER", "DISCONNECTED"} : cmq' = Append(cmq, <<kind, c>>)
  BY DEF Told
<1>2. <<kind, c>> \in Events /\ cmq \in Seq(Events)
  BY DEF Events, CmTypeOK
<1>3. QED
  BY <1>1, <1>2, AppendFacts

\* A thread disconnects the connection it was given.
LEMMA DisconnectTells ==
    ASSUME OwnSlots, NEW c \in Conns, Disconnect(c)
    PROVE  cmq' = cmq \/ Told(c)
<1>1. wpc[c] = "disconnect" /\ OwnSlot(c)
  BY DEF Disconnect, Goto, OwnSlots
<1>2. id[ctx[c]] = c
  BY <1>1 DEF OwnSlot, UsingPcs
<1>3. QED
  BY <1>2 DEF Disconnect, Told

LEMMA TypeThread ==
    ASSUME CmTypeOK, OwnSlots, NEW c \in Conns, ThreadStep(c)
    PROVE  CmTypeOK'
<1> USE DEF tableVars, mainVars, Goto, UsingPcs, GonePcs
<1>1. ASSUME NEW created \in SUBSET Resources, Accept(c, created)
      PROVE  CmTypeOK'
  <2>1. cmq' \in Seq(Events)
    <3>1. cmq' = cmq \/ Told(c)
      BY <1>1 DEF Accept, Told
    <3>2. QED
      BY <3>1, ToldQueue DEF CmTypeOK
  <2>2. /\ res' \in [Conns -> SUBSET Resources] /\ qp' \in [Conns -> {"none", "RTS", "ERR"}]
        /\ wpc' \in [Conns -> {"none"} \union UsingPcs \union GonePcs]
        /\ mpc' \in {mpc, "died"}
    BY <1>1 DEF Accept, CmTypeOK
  <2>3. QED
    BY <1>1, <2>1, <2>2 DEF Accept, CmTypeOK, Stopped
<1>2. CASE Die
  BY <1>2 DEF Die, CmTypeOK, workerVars, Stopped
<1>3. ASSUME NEW next \in {"serve", "disconnect"}, SemWait(c, next)
      PROVE  CmTypeOK'
  <2>1. ctx[c] \in Slots
    BY <1>3 DEF SemWait, OwnSlots, OwnSlot
  <2>2. established' \in [Slots -> Nat]
    BY <1>3, <2>1 DEF SemWait, Posted, CmTypeOK
  <2>3. QED
    BY <1>3, <2>2 DEF SemWait, CmTypeOK
<1>4. CASE Serves(c) \/ TearsDown(c) \/ Disconnect(c) \/ SemDestroy(c)
  <2>1. /\ wpc' \in [Conns -> {"none"} \union UsingPcs \union GonePcs]
        /\ UNCHANGED <<tableVars, mainVars, ctx, peer>>
    BY <1>4 DEF Serves, TearsDown, Disconnect, SemDestroy, CmTypeOK
  <2>2. res' \in [Conns -> SUBSET Resources]
    BY <1>4 DEF Serves, TearsDown, Disconnect, SemDestroy, CmTypeOK
  <2>3. qp' \in [Conns -> {"none", "RTS", "ERR"}]
    BY <1>4 DEF Serves, TearsDown, Disconnect, SemDestroy, CmTypeOK
  <2>4. cmq' \in Seq(Events)
    <3>1. cmq' = cmq \/ Told(c)
      BY <1>4, DisconnectTells DEF Serves, TearsDown, SemDestroy
    <3>2. QED
      BY <3>1, ToldQueue DEF CmTypeOK
  <2>5. QED
    BY <2>1, <2>2, <2>3, <2>4 DEF CmTypeOK
<1>5. ASSUME NEW next \in {"teardown", "clear"}, DestroyId(c, next)
      PROVE  CmTypeOK'
  <2>1. cmq' \in Seq(Events)
    BY <1>5, OthersFacts DEF DestroyId, CmTypeOK
  <2>2. QED
    BY <1>5, <2>1 DEF DestroyId, CmTypeOK
<1>6. CASE ClearSlot(c)
  BY <1>6 DEF ClearSlot, Cleared, CmTypeOK
<1>7. QED
  BY <1>1, <1>2, <1>3, <1>4, <1>5, <1>6 DEF ThreadStep

LEMMA TypeClient ==
    ASSUME CmTypeOK, NEW c \in Conns, ClientStep(c)
    PROVE  CmTypeOK'
<1>1. \A kind \in {"CONNECT_REQUEST", "ESTABLISHED", "DISCONNECTED", "OTHER"} :
          Append(cmq, <<kind, c>>) \in Seq(Events)
  BY AppendFacts DEF Events, CmTypeOK
<1>2. CASE PeerConnect(c) \/ PeerEstablished(c) \/ PeerGivesUp(c) \/ PeerLeaves(c)
  <2>1. cmq' \in Seq(Events)
    BY <1>1, <1>2 DEF PeerConnect, PeerEstablished, PeerGivesUp, PeerLeaves, CmTypeOK
  <2>2. QED
    BY <1>2, <2>1
    DEF PeerConnect, PeerEstablished, PeerGivesUp, PeerLeaves, CmTypeOK, tableVars, mainVars,
        workerVars
<1>3. CASE Exchange(c) \/ Breaks(c)
  BY <1>3 DEF Exchange, Breaks, CmTypeOK, tableVars, mainVars, workerVars
<1>4. QED
  BY <1>2, <1>3 DEF ClientStep

LEMMA TypeStep == CmInv /\ CmNext => CmTypeOK'
<1>1. CASE UNCHANGED cmVars
  BY <1>1 DEF CmInv, CmTypeOK, cmVars, tableVars, mainVars, workerVars
<1>2. QED
  BY <1>1, TypeMain, TypeThread, TypeClient DEF CmInv, CmNext

(***************************************************************************)
(* The slots.  Only main fills one, and only with a connection that has    *)
(* none; only the thread of its connection empties it.                     *)
(***************************************************************************)

\* The thread of c goes on from one place to another, not past the slot.
Proceeding(c) ==
    \E next \in (UsingPcs \ {"start"}) \union {"clear", "exited"} :
        /\ wpc' = [wpc EXCEPT ![c] = next]
        /\ wpc[c] \in UsingPcs \union {"sem_destroy"}
        /\ wpc[c] = "sem_destroy" <=> next = "exited"
        /\ wpc[c] \in GonePcs => next \in GonePcs

LEMMA ThreadTable ==
    ASSUME NEW c \in Conns, ThreadStep(c)
    PROVE  \/ UNCHANGED <<id, ctx, wpc>>
           \/ UNCHANGED <<id, ctx>> /\ Proceeding(c)
           \/ ClearSlot(c)
<1> USE DEF tableVars, mainVars, workerVars, Goto, UsingPcs, GonePcs
<1>1. ASSUME NEW created \in SUBSET Resources, Accept(c, created)
      PROVE  UNCHANGED <<id, ctx, wpc>> \/ (UNCHANGED <<id, ctx>> /\ Proceeding(c))
  <2>1. id' = id /\ ctx' = ctx /\ (wpc' = wpc \/ Goto(c, "start", "wait"))
    BY <1>1 DEF Accept
  <2>2. CASE Goto(c, "start", "wait")
    BY <2>1, <2>2 DEF Proceeding
  <2>3. CASE wpc' = wpc
    BY <2>1, <2>3
  <2>4. QED
    BY <2>1, <2>2, <2>3
<1>2. CASE Die
  BY <1>2 DEF Die
<1>3. ASSUME NEW next \in {"serve", "disconnect"}, SemWait(c, next)
      PROVE  UNCHANGED <<id, ctx>> /\ Proceeding(c)
  BY <1>3 DEF SemWait, Proceeding
<1>4. ASSUME NEW next \in {"teardown", "clear"}, DestroyId(c, next)
      PROVE  UNCHANGED <<id, ctx>> /\ Proceeding(c)
  BY <1>4 DEF DestroyId, Proceeding
<1>5. CASE Serves(c) \/ Disconnect(c) \/ TearsDown(c) \/ SemDestroy(c)
  BY <1>5 DEF Serves, Disconnect, TearsDown, SemDestroy, Proceeding
<1>6. QED
  BY <1>1, <1>2, <1>3, <1>4, <1>5 DEF ThreadStep

LEMMA ClientTable ==
    ASSUME NEW c \in Conns, ClientStep(c)
    PROVE  UNCHANGED <<id, ctx, wpc>> /\ UNCHANGED mainVars
BY DEF ClientStep, PeerConnect, PeerEstablished, PeerGivesUp, PeerLeaves, Exchange, Breaks,
       tableVars, mainVars, workerVars

LEMMA MainTable ==
    ASSUME Main \/ MainDies
    PROVE  Claim \/ UNCHANGED <<id, ctx, wpc>>
BY DEF Main, MainDies, Die, GetEvent, Scan, Full, HandleEstablished, HandleOther, Ack,
       tableVars, workerVars

\* Every step does one of these to the table and the threads.
LEMMA TableSteps ==
    ASSUME CmNext
    PROVE  \/ UNCHANGED <<id, ctx, wpc>>
           \/ Claim
           \/ \E c \in Conns : UNCHANGED <<id, ctx>> /\ Proceeding(c)
           \/ \E c \in Conns : ClearSlot(c)
<1>1. CASE UNCHANGED cmVars
  BY <1>1 DEF cmVars, tableVars, workerVars
<1>2. QED
  BY <1>1, MainTable, ThreadTable, ClientTable DEF CmNext

LEMMA OwnSlotsStep == CmInv /\ CmNext => OwnSlots'
<1> SUFFICES ASSUME CmInv, CmNext PROVE OwnSlots'
  OBVIOUS
<1>1. CmTypeOK /\ OwnSlots /\ Position
  BY DEF CmInv
<1>2. CASE UNCHANGED <<id, ctx, wpc>>
  BY <1>1, <1>2 DEF OwnSlots, OwnSlot
<1>3. CASE Claim
  <2>1. i \in Slots /\ id[i] = NULL /\ event[2] \in Conns
    BY <1>1, <1>3 DEF Claim, Position, Events
  <2>2. \A s \in Slots : s # i => id'[s] = id[s]
    BY <1>1, <1>3 DEF Claim, CmTypeOK
  <2>3. id'[i] = event[2]
    BY <1>1, <1>3, <2>1 DEF Claim, CmTypeOK
  <2>4. ASSUME NEW d \in Conns, OwnSlot(d), wpc'[d] = wpc[d], ctx'[d] = ctx[d]
        PROVE  OwnSlot(d)'
    <3> SUFFICES ASSUME wpc[d] \in UsingPcs \union {"clear"}
                 PROVE  ctx[d] \in Slots /\ id'[ctx[d]] = d
      BY <2>4 DEF OwnSlot
    <3>1. ctx[d] \in Slots /\ id[ctx[d]] = d
      BY <2>4 DEF OwnSlot
    <3>2. ctx[d] # i
      BY <2>1, <3>1, NullAssumption
    <3>3. QED
      BY <2>2, <3>1, <3>2
  <2>5. CASE UNCHANGED <<wpc, ctx>>
    BY <1>1, <2>4, <2>5 DEF OwnSlots
  <2>6. CASE /\ wpc' = [wpc EXCEPT ![event[2]] = "start"]
             /\ ctx' = [ctx EXCEPT ![event[2]] = i]
    <3>1. ASSUME NEW d \in Conns, d # event[2]
          PROVE  OwnSlot(d)'
      <4>1. wpc'[d] = wpc[d] /\ ctx'[d] = ctx[d] /\ OwnSlot(d)
        BY <1>1, <2>6, <3>1 DEF CmTypeOK, OwnSlots
      <4>2. QED
        BY <2>4, <4>1
    <3>2. ctx'[event[2]] = i
      BY <1>1, <2>1, <2>6 DEF CmTypeOK
    <3>3. QED
      BY <2>1, <2>3, <3>1, <3>2 DEF OwnSlots, OwnSlot
  <2>7. QED
    BY <1>3, <2>5, <2>6 DEF Claim
<1>4. ASSUME NEW c \in Conns, UNCHANGED <<id, ctx>>, Proceeding(c)
      PROVE  OwnSlots'
  <2>1. \A d \in Conns : wpc'[d] \in UsingPcs \union {"clear"} =>
                            wpc[d] \in UsingPcs \union {"clear"}
    BY <1>1, <1>4 DEF Proceeding, CmTypeOK, UsingPcs
  <2>2. QED
    BY <1>1, <1>4, <2>1 DEF OwnSlots, OwnSlot
<1>5. ASSUME NEW c \in Conns, ClearSlot(c)
      PROVE  OwnSlots'
  <2>1. /\ wpc[c] = "clear" /\ wpc'[c] = "sem_destroy" /\ UNCHANGED ctx
        /\ \A d \in Conns : d # c => wpc'[d] = wpc[d]
        /\ \A s \in Slots : s # ctx[c] => id'[s] = id[s]
    BY <1>1, <1>5 DEF ClearSlot, Cleared, Goto, CmTypeOK
  <2>2. ctx[c] \in Slots /\ id[ctx[c]] = c
    BY <1>1, <2>1 DEF OwnSlots, OwnSlot
  <2>3. ASSUME NEW d \in Conns, d # c, wpc[d] \in UsingPcs \union {"clear"}
        PROVE  ctx[d] \in Slots /\ id'[ctx[d]] = d
    <3>1. ctx[d] \in Slots /\ id[ctx[d]] = d
      BY <1>1, <2>3 DEF OwnSlots, OwnSlot
    <3>2. QED
      BY <2>1, <2>2, <2>3, <3>1
  <2>4. QED
    BY <2>1, <2>3 DEF OwnSlots, OwnSlot, UsingPcs
<1>6. QED
  BY <1>2, <1>3, <1>4, <1>5, TableSteps

\* The refinement: the connections whose threads use their slots.
Users == {c \in Conns : wpc[c] \in UsingPcs}

LEMMA PoolStep == CmInv /\ CmNext => [Pool!Next]_(Pool!vars)
<1> SUFFICES ASSUME CmInv, CmNext PROVE [Pool!Next]_(Pool!vars)
  OBVIOUS
<1> USE DEF Pool!vars, Pool!Next
<1>1. CmTypeOK /\ OwnSlots /\ Position /\ Requests
  BY DEF CmInv
<1>2. CASE UNCHANGED <<id, ctx, wpc>>
  BY <1>2
<1>3. CASE Claim
  <2>0. event[2] \in Conns
    BY <1>1, <1>3 DEF Claim, Position, Events
  <2> PICK e \in Conns : e = event[2]
    BY <2>0
  <2>1. i \in Slots /\ id[i] = NULL /\ Fresh(e)
    BY <1>1, <1>3 DEF Claim, Position, Requests, AtMain, Requested
  <2>2. wpc[e] \notin UsingPcs /\ \A s \in Slots : id[s] # e
    BY <2>1 DEF Fresh, UsingPcs
  <2>3. id' = [id EXCEPT ![i] = e]
    BY <1>3 DEF Claim
  <2>4. wpc' = wpc \/ wpc' = [wpc EXCEPT ![e] = "start"]
    BY <1>3 DEF Claim
  <2>5. Users' \in {Users, Users \union {e}}
    BY <1>1, <2>1, <2>4 DEF Users, UsingPcs, CmTypeOK
  <2>6. Pool!Claim(i, e)
    BY <2>1, <2>2, <2>3, <2>5 DEF Pool!Claim, Users
  <2>7. QED
    BY <2>1, <2>6
<1>4. ASSUME NEW c \in Conns, UNCHANGED <<id, ctx>>, Proceeding(c)
      PROVE  [Pool!Next]_(Pool!vars)
  <2>1. PICK next \in (UsingPcs \ {"start"}) \union {"clear", "exited"} :
            /\ wpc' = [wpc EXCEPT ![c] = next]
            /\ wpc[c] \in UsingPcs \union {"sem_destroy"}
            /\ wpc[c] = "sem_destroy" <=> next = "exited"
    BY <1>4 DEF Proceeding
  <2>2. wpc'[c] = next /\ \A d \in Conns : d # c => wpc'[d] = wpc[d]
    BY <1>1, <2>1 DEF CmTypeOK
  <2>3. CASE next \in UsingPcs \/ wpc[c] = "sem_destroy"
    <3>1. wpc'[c] \in UsingPcs <=> wpc[c] \in UsingPcs
      BY <2>1, <2>2, <2>3 DEF UsingPcs
    <3>2. Users' = Users
      BY <2>2, <3>1 DEF Users
    <3>3. QED
      BY <1>4, <3>2 DEF Users
  <2>4. CASE next = "clear" /\ wpc[c] \in UsingPcs
    <3>1. wpc'[c] \notin UsingPcs
      BY <2>2, <2>4 DEF UsingPcs
    <3>2. c \in Users /\ Users' = Users \ {c}
      BY <2>2, <2>4, <3>1 DEF Users
    <3>3. Pool!Finish(c)
      BY <1>4, <3>2 DEF Pool!Finish, Users
    <3>4. QED
      BY <3>3
  <2>5. QED
    BY <2>1, <2>3, <2>4 DEF UsingPcs
<1>5. ASSUME NEW c \in Conns, ClearSlot(c)
      PROVE  [Pool!Next]_(Pool!vars)
  <2>1. /\ wpc[c] = "clear" /\ wpc' = [wpc EXCEPT ![c] = "sem_destroy"]
        /\ id' = [id EXCEPT ![ctx[c]] = NULL]
    BY <1>5 DEF ClearSlot, Cleared, Goto
  <2>2. ctx[c] \in Slots /\ id[ctx[c]] = c
    BY <1>1, <2>1 DEF OwnSlots, OwnSlot
  <2>3. id[ctx[c]] \notin Users /\ Users' = Users
    BY <1>1, <2>1, <2>2 DEF Users, UsingPcs, CmTypeOK
  <2>4. Pool!Release(ctx[c])
    BY <2>1, <2>3 DEF Pool!Release, Users
  <2>5. QED
    BY <2>2, <2>4
<1>6. QED
  BY <1>2, <1>3, <1>4, <1>5, TableSteps

LEMMA PoolInit == CmInit => Pool!Init
BY DEF CmInit, Pool!Init, UsingPcs

(***************************************************************************)
(* Main's position, and the events that are on their way.                  *)
(***************************************************************************)
LEMMA PositionStep == CmInv /\ CmNext => Position'
<1> SUFFICES ASSUME CmInv, CmNext PROVE Position'
  OBVIOUS
<1>1. CmTypeOK /\ OwnSlots /\ Position
  BY DEF CmInv
<1>2. CASE Main \/ MainDies
  <2> USE DEF Position, tableVars
  <2>1. CASE GetEvent
    <3>1. event' \in Events
      BY <1>1, <2>1, HeadFacts DEF GetEvent, CmTypeOK
    <3>2. QED
      BY <2>1, <3>1 DEF GetEvent
  <2>2. CASE Scan
    BY <1>1, <2>2, BoundsAssumption DEF Scan, IsFree, CmTypeOK, Slots
  <2>3. CASE Full \/ Claim \/ HandleEstablished
    BY <2>3 DEF Full, Claim, HandleEstablished
  <2>4. CASE HandleOther \/ Ack \/ MainDies
    BY <1>1, <2>4 DEF HandleOther, Ack, MainDies, Die
  <2>5. QED
    BY <1>2, <2>1, <2>2, <2>3, <2>4 DEF Main
<1>3. ASSUME NEW c \in Conns, ThreadStep(c)
      PROVE  Position'
  <2>1. UNCHANGED <<i, event, held>> /\ (mpc' = mpc \/ mpc' = "died")
    BY <1>3 DEF ThreadStep, Accept, Die, SemWait, Serves, Disconnect, DestroyId, TearsDown,
                ClearSlot, SemDestroy, mainVars
  <2>2. mpc = "claim" => id'[i] = id[i]
    <3>1. CASE UNCHANGED id
      BY <3>1
    <3>2. CASE ClearSlot(c)
      BY <1>1, <3>2 DEF ClearSlot, Cleared, Position, CmTypeOK
    <3>3. QED
      BY <1>3, <3>1, <3>2, ThreadTable
  <2>3. QED
    BY <1>1, <2>1, <2>2 DEF Position
<1>4. ASSUME NEW c \in Conns, ClientStep(c)
      PROVE  Position'
  BY <1>1, <1>4, ClientTable DEF Position, mainVars
<1>5. CASE UNCHANGED cmVars
  BY <1>1, <1>5 DEF Position, cmVars, tableVars, mainVars
<1>6. QED
  BY <1>2, <1>3, <1>4, <1>5 DEF CmNext

\* Events stay alive when no id goes and at most one live event comes.
LEMMA AliveKept ==
    ASSUME CmTypeOK, Alive,
           \A d \in Conns : IdAlive(d) => IdAlive(d)',
           \/ cmq' = cmq
           \/ \E e \in Events : IdAlive(e[2])' /\ cmq' = Append(cmq, e),
           event' = event \/ mpc' \notin {"handle", "break"},
           mpc' \in {"handle", "break"} => mpc \in {"handle", "break"} /\ event \in Events
    PROVE  Alive'
<1>1. EventIdAlive'
  BY DEF Alive, EventIdAlive, Events
<1>2. cmq \in Seq(Events) /\ \A k \in 1..Len(cmq) : cmq[k] \in Events /\ cmq[k][2] \in Conns
  <2>1. cmq \in Seq(Events)
    BY DEF CmTypeOK
  <2>2. \A k \in 1..Len(cmq) : cmq[k] \in Events
    BY <2>1
  <2>3. QED
    BY <2>1, <2>2 DEF Events
<1>3. CASE cmq' = cmq
  BY <1>1, <1>2, <1>3 DEF Alive
<1>4. ASSUME NEW e \in Events, IdAlive(e[2])', cmq' = Append(cmq, e)
      PROVE  Alive'
  <2>1. \A k \in 1..Len(cmq') : (k \in 1..Len(cmq) /\ cmq'[k] = cmq[k]) \/ cmq'[k] = e
    BY <1>2, <1>4, AppendFacts
  <2>2. ASSUME NEW k \in 1..Len(cmq'), cmq'[k][1] # "CONNECT_REQUEST"
        PROVE  wpc'[cmq'[k][2]] \notin GonePcs
    <3>1. CASE k \in 1..Len(cmq) /\ cmq'[k] = cmq[k]
      BY <1>2, <2>2, <3>1 DEF Alive, IdAlive
    <3>2. CASE cmq'[k] = e
      BY <1>4, <3>2 DEF IdAlive
    <3>3. QED
      BY <2>1, <3>1, <3>2
  <2>3. QED
    BY <1>1, <2>2 DEF Alive, IdAlive
<1>5. QED
  BY <1>3, <1>4

LEMMA AliveMain ==
    ASSUME CmInv, Main \/ MainDies
    PROVE  Alive'
<1>1. CmTypeOK /\ Position /\ Alive
  BY DEF CmInv
<1>2. CASE GetEvent
  <2>1. /\ cmq \in Seq(Events) /\ cmq # <<>> /\ UNCHANGED wpc
        /\ event' = Head(cmq) /\ cmq' = Tail(cmq)
        /\ mpc' \in {"handle", "break"} => event'[1] # "CONNECT_REQUEST"
    BY <1>1, <1>2 DEF GetEvent, workerVars, CmTypeOK
  <2>2. event' = cmq[1] /\ 1 \in 1..Len(cmq)
        /\ \A k \in 1..Len(cmq') : cmq'[k] = cmq[k + 1] /\ k + 1 \in 1..Len(cmq)
    BY <2>1, HeadFacts
  <2>3. QED
    BY <1>1, <2>1, <2>2 DEF Alive, EventIdAlive, IdAlive
<1>3. CASE (Main /\ ~GetEvent) \/ MainDies
  <2>1. cmq' = cmq /\ (event' = event \/ mpc' \notin {"handle", "break"})
        /\ (mpc' \in {"handle", "break"} => mpc \in {"handle", "break"})
    BY <1>3 DEF Main, MainDies, Die, Scan, Full, Claim, HandleEstablished, HandleOther, Ack
  <2>2. \A d \in Conns : IdAlive(d) => IdAlive(d)'
    <3>1. wpc' = wpc \/ wpc' = [wpc EXCEPT ![event[2]] = "start"]
      BY <1>3 DEF Main, MainDies, Die, Scan, Full, Claim, HandleEstablished, HandleOther, Ack,
                  workerVars
    <3>2. QED
      BY <1>1, <3>1 DEF IdAlive, GonePcs, CmTypeOK
  <2>3. mpc \in {"handle", "break"} => event \in Events
    BY <1>1 DEF Position
  <2>4. QED
    BY <1>1, <2>1, <2>2, <2>3, AliveKept
<1>4. QED
  BY <1>2, <1>3

\* The steps of a thread that leave its id alone.
LEMMA ThreadAlive ==
    ASSUME CmTypeOK, OwnSlots, NEW c \in Conns, ThreadStep(c)
    PROVE  \/ \E next \in {"teardown", "clear"} : DestroyId(c, next)
           \/ /\ \A d \in Conns : IdAlive(d) => IdAlive(d)'
              /\ cmq' = cmq \/ (IdAlive(c)' /\ Told(c))
<1> USE DEF tableVars, mainVars, workerVars, Goto, GonePcs, IdAlive
<1>1. ASSUME NEW created \in SUBSET Resources, Accept(c, created)
      PROVE  /\ \A d \in Conns : IdAlive(d) => IdAlive(d)'
             /\ cmq' = cmq \/ (IdAlive(c)' /\ Told(c))
  <2>1. \/ wpc' = wpc /\ cmq' = cmq
        \/ Goto(c, "start", "wait") /\ (cmq' = cmq \/ Told(c))
    BY <1>1 DEF Accept, Told
  <2>2. wpc' # wpc => wpc'[c] = "wait"
    BY <2>1 DEF CmTypeOK
  <2>3. QED
    BY <2>1, <2>2 DEF CmTypeOK
<1>2. CASE Die
  BY <1>2 DEF Die
<1>3. ASSUME NEW next \in {"serve", "disconnect"}, SemWait(c, next)
      PROVE  cmq' = cmq /\ \A d \in Conns : IdAlive(d) => IdAlive(d)'
  BY <1>3 DEF SemWait, CmTypeOK
<1>4. CASE Disconnect(c)
  <2>1. wpc' = [wpc EXCEPT ![c] = "destroy_id"] /\ (cmq' = cmq \/ Told(c))
    BY <1>4, DisconnectTells DEF Disconnect
  <2>2. QED
    BY <2>1 DEF CmTypeOK
<1>5. CASE Serves(c) \/ TearsDown(c) \/ ClearSlot(c) \/ SemDestroy(c)
  BY <1>5 DEF Serves, TearsDown, ClearSlot, SemDestroy, CmTypeOK
<1>6. QED
  BY <1>1, <1>2, <1>3, <1>4, <1>5 DEF ThreadStep

\* What remains of the queue when the id of c is destroyed.
LEMMA DestroyFacts ==
    ASSUME CmInv, NEW c \in Conns, NEW next, DestroyId(c, next)
    PROVE  /\ wpc' = [wpc EXCEPT ![c] = next] /\ ~InUseByMain(c)
           /\ UNCHANGED <<tableVars, mainVars, peer>>
           /\ cmq' \in Seq(Events)
           /\ \E h \in [1..Len(cmq') -> 1..Len(cmq)] :
                 /\ \A k \in 1..Len(cmq') : cmq'[k] = cmq[h[k]] /\ cmq[h[k]][2] # c
                 /\ \A k, l \in 1..Len(cmq') : k < l => h[k] < h[l]
<1>1. wpc[c] = "destroy_id" /\ OwnSlot(c)
  BY DEF DestroyId, Goto, CmInv, OwnSlots
<1>2. id[ctx[c]] = c
  BY <1>1 DEF OwnSlot, UsingPcs
<1>3. cmq \in Seq(Events)
  BY DEF CmInv, CmTypeOK
<1>4. cmq' = Others(cmq, c) /\ ~InUseByMain(c) /\ wpc' = [wpc EXCEPT ![c] = next]
      /\ UNCHANGED <<tableVars, mainVars, peer>>
  BY <1>2 DEF DestroyId, Goto
<1>5. /\ Others(cmq, c) \in Seq(Events)
      /\ \E h \in [1..Len(Others(cmq, c)) -> 1..Len(cmq)] :
            /\ \A k \in 1..Len(Others(cmq, c)) :
                  Others(cmq, c)[k] = cmq[h[k]] /\ cmq[h[k]][2] # c
            /\ \A k, l \in 1..Len(Others(cmq, c)) : k < l => h[k] < h[l]
  BY <1>3, OthersFacts
<1> DEFINE kept == Others(cmq, c)
<1> HIDE DEF kept
<1>6. QED
  BY <1>4, <1>5 DEF kept

LEMMA AliveThread ==
    ASSUME CmInv, NEW c \in Conns, ThreadStep(c)
    PROVE  Alive'
<1>1. CmTypeOK /\ Position /\ OwnSlots /\ Alive
  BY DEF CmInv
<1>2. ASSUME NEW next \in {"teardown", "clear"}, DestroyId(c, next)
      PROVE  Alive'
  <2>1. /\ wpc' = [wpc EXCEPT ![c] = next] /\ ~InUseByMain(c)
        /\ UNCHANGED <<mpc, event, held>> /\ cmq \in Seq(Events)
    BY <1>1, <1>2, DestroyFacts DEF mainVars, CmTypeOK
  <2>2. PICK h \in [1..Len(cmq') -> 1..Len(cmq)] :
            \A k \in 1..Len(cmq') : cmq'[k] = cmq[h[k]] /\ cmq[h[k]][2] # c
    BY <1>2, DestroyFacts
  <2>3. \A d \in Conns : d # c => wpc'[d] = wpc[d]
    BY <1>1, <2>1 DEF CmTypeOK
  <2>4. EventIdAlive'
    <3> SUFFICES ASSUME mpc \in {"handle", "break"}
                 PROVE  IdAlive(event[2])'
      BY <2>1 DEF EventIdAlive
    <3>1. event[2] \in Conns /\ event[2] # c /\ IdAlive(event[2])
      BY <1>1, <2>1 DEF Position, Events, InUseByMain, Alive, EventIdAlive
    <3>2. QED
      BY <2>1, <2>3, <3>1 DEF IdAlive
  <2>5. ASSUME NEW k \in 1..Len(cmq'), cmq'[k][1] # "CONNECT_REQUEST"
        PROVE  wpc'[cmq'[k][2]] \notin GonePcs
    <3>1. cmq'[k] = cmq[h[k]] /\ cmq[h[k]][2] # c /\ h[k] \in 1..Len(cmq)
      BY <2>2
    <3>2. cmq[h[k]] \in Events /\ cmq[h[k]][2] \in Conns
      BY <2>1, <3>1 DEF Events
    <3>3. IdAlive(cmq[h[k]][2])
      BY <1>1, <2>5, <3>1 DEF Alive
    <3>4. QED
      BY <2>3, <3>1, <3>2, <3>3 DEF IdAlive
  <2>6. QED
    BY <2>4, <2>5 DEF Alive, IdAlive
<1>3. CASE ~\E next \in {"teardown", "clear"} : DestroyId(c, next)
  <2>1. event' = event /\ (mpc' = mpc \/ mpc' = "died")
    BY DEF ThreadStep, Accept, Die, SemWait, Serves, Disconnect, DestroyId, TearsDown,
           ClearSlot, SemDestroy, mainVars
  <2>2. \A kind \in {"OTHER", "DISCONNECTED"} : <<kind, c>> \in Events /\ <<kind, c>>[2] = c
    BY DEF Events
  <2>3. mpc \in {"handle", "break"} => event \in Events
    BY <1>1 DEF Position
  <2>4. /\ \A d \in Conns : IdAlive(d) => IdAlive(d)'
        /\ cmq' = cmq \/ (IdAlive(c)' /\ Told(c))
    BY <1>1, <1>3, ThreadAlive
  <2>5. \/ cmq' = cmq
        \/ \E e \in Events : IdAlive(e[2])' /\ cmq' = Append(cmq, e)
    BY <2>2, <2>4 DEF IdAlive, Told
  <2>6. QED
    BY <1>1, <2>1, <2>3, <2>4, <2>5, AliveKept
<1>4. QED
  BY <1>2, <1>3

LEMMA AliveClient ==
    ASSUME CmInv, NEW c \in Conns, ClientStep(c)
    PROVE  Alive'
<1>1. CmTypeOK /\ Position /\ Alive /\ Requests
  BY DEF CmInv
<1>2. wpc' = wpc /\ event' = event /\ mpc' = mpc
  BY ClientTable DEF mainVars
<1>3. \A d \in Conns : IdAlive(d) => IdAlive(d)'
  BY <1>2 DEF IdAlive
<1>4. \/ cmq' = cmq
      \/ \E e \in Events : IdAlive(e[2])' /\ cmq' = Append(cmq, e)
  <2>1. \A kind \in {"CONNECT_REQUEST", "ESTABLISHED", "DISCONNECTED", "OTHER"} :
            <<kind, c>> \in Events /\ <<kind, c>>[2] = c
    BY DEF Events
  <2>2. \/ cmq' = cmq
        \/ \E kind \in {"CONNECT_REQUEST", "ESTABLISHED", "DISCONNECTED", "OTHER"} :
              IdAlive(c)' /\ cmq' = Append(cmq, <<kind, c>>)
    <3>1. CASE PeerConnect(c)
      <4>1. wpc[c] = "none"
        BY <1>1, <3>1 DEF PeerConnect, Requests, NewFresh, Fresh
      <4>2. QED
        BY <1>2, <3>1, <4>1 DEF PeerConnect, IdAlive, GonePcs
    <3>2. CASE PeerEstablished(c) \/ PeerGivesUp(c) \/ PeerLeaves(c)
      BY <1>2, <3>2 DEF PeerEstablished, PeerGivesUp, PeerLeaves, IdAlive, GonePcs
    <3>3. CASE Exchange(c) \/ Breaks(c)
      BY <3>3 DEF Exchange, Breaks
    <3>4. QED
      BY <3>1, <3>2, <3>3 DEF ClientStep
  <2>3. QED
    BY <2>1, <2>2 DEF IdAlive
<1>5. QED
  BY <1>1, <1>2, <1>3, <1>4, AliveKept DEF Position

LEMMA AliveStep == CmInv /\ CmNext => Alive'
<1>1. CASE UNCHANGED cmVars
  BY <1>1 DEF CmInv, Alive, EventIdAlive, IdAlive, cmVars, mainVars, workerVars
<1>2. QED
  BY <1>1, AliveMain, AliveThread, AliveClient DEF CmNext

(***************************************************************************)
(* Requests: main handles each once.                                       *)
(***************************************************************************)

\* The requests in the queue were there before, each once.
NoNewRequest ==
    \E h \in [1..Len(cmq') -> Nat] :
        /\ \A k \in 1..Len(cmq') : cmq'[k][1] = "CONNECT_REQUEST" =>
              h[k] \in 1..Len(cmq) /\ cmq'[k] = cmq[h[k]]
        /\ \A k, l \in 1..Len(cmq') : h[k] = h[l] => k = l

LEMMA SameQueue ==
    ASSUME cmq \in Seq(Events), cmq' = cmq
    PROVE  NoNewRequest
<1> DEFINE h == [k \in 1..Len(cmq) |-> k]
<1>1. h \in [1..Len(cmq) -> Nat]
  OBVIOUS
<1>2. QED
  BY <1>1 DEF NoNewRequest

LEMMA LongerQueue ==
    ASSUME cmq \in Seq(Events),
           NEW e \in Events, e[1] # "CONNECT_REQUEST", cmq' = Append(cmq, e)
    PROVE  NoNewRequest
<1> DEFINE h == [k \in 1..Len(cmq') |-> k]
<1>1. h \in [1..Len(cmq') -> Nat]
  OBVIOUS
<1>2. \A k \in 1..Len(cmq') : (k \in 1..Len(cmq) /\ cmq'[k] = cmq[k]) \/ cmq'[k] = e
  BY AppendFacts
<1>3. \A k \in 1..Len(cmq') : cmq'[k][1] = "CONNECT_REQUEST" =>
                                h[k] \in 1..Len(cmq) /\ cmq'[k] = cmq[h[k]]
  BY <1>2
<1>4. \A k, l \in 1..Len(cmq') : h[k] = h[l] => k = l
  OBVIOUS
<1> HIDE DEF h
<1>5. QED
  BY <1>1, <1>3, <1>4 DEF NoNewRequest

LEMMA ShorterQueue ==
    ASSUME cmq \in Seq(Events), cmq # <<>>, cmq' = Tail(cmq)
    PROVE  NoNewRequest
<1> DEFINE h == [k \in 1..Len(cmq') |-> k + 1]
<1>1. cmq' \in Seq(Events) /\ \A k \in 1..Len(cmq') : cmq'[k] = cmq[k + 1] /\ k + 1 \in 1..Len(cmq)
  BY HeadFacts
<1>2. h \in [1..Len(cmq') -> Nat]
  OBVIOUS
<1>3. \A k, l \in 1..Len(cmq') : h[k] = h[l] => k = l
  OBVIOUS
<1>4. \A k \in 1..Len(cmq') : h[k] \in 1..Len(cmq) /\ cmq'[k] = cmq[h[k]]
  BY <1>1
<1> HIDE DEF h
<1>5. QED
  BY <1>2, <1>3, <1>4 DEF NoNewRequest

\* A step that takes nothing from a connection main has yet to hear of keeps
\* what is known of the clients and of the queue.
LEMMA InQueueKept ==
    ASSUME CmTypeOK, NewFresh, InQueue,
           cmq' \in Seq(Events), NoNewRequest,
           \A d \in Conns : Fresh(d) => Fresh(d)',
           \A d \in Conns : peer'[d] = "new" => peer[d] = "new"
    PROVE  NewFresh' /\ InQueue'
<1>1. NewFresh'
  BY DEF NewFresh
<1>2. PICK h \in [1..Len(cmq') -> Nat] :
          /\ \A k \in 1..Len(cmq') : cmq'[k][1] = "CONNECT_REQUEST" =>
                h[k] \in 1..Len(cmq) /\ cmq'[k] = cmq[h[k]]
          /\ \A k, l \in 1..Len(cmq') : h[k] = h[l] => k = l
  BY DEF NoNewRequest
<1>3. ASSUME NEW k \in 1..Len(cmq'), cmq'[k][1] = "CONNECT_REQUEST"
      PROVE  /\ wpc'[cmq'[k][2]] = "none" /\ peer'[cmq'[k][2]] # "new"
             /\ \A s \in Slots : id'[s] # cmq'[k][2]
  <2>1. cmq'[k] \in Events
    OBVIOUS
  <2>2. PICK d \in Conns : d = cmq'[k][2]
    BY <2>1 DEF Events
  <2>3. Requested(d)
    BY <1>2, <1>3, <2>2 DEF InQueue
  <2>4. Fresh(d)' /\ peer'[d] # "new"
    BY <2>3 DEF Requested
  <2>5. QED
    BY <2>2, <2>4 DEF Fresh
<1>4. ASSUME NEW k \in 1..Len(cmq'), NEW l \in 1..Len(cmq'),
             cmq'[k][1] = "CONNECT_REQUEST", cmq'[l] = cmq'[k]
      PROVE  k = l
  <2>1. /\ h[k] \in 1..Len(cmq) /\ cmq'[k] = cmq[h[k]]
        /\ h[l] \in 1..Len(cmq) /\ cmq'[l] = cmq[h[l]]
    BY <1>2, <1>4
  <2>2. h[k] = h[l]
    BY <1>4, <2>1 DEF InQueue
  <2>3. QED
    BY <1>2, <2>2
<1>5. QED
  BY <1>1, <1>3, <1>4 DEF InQueue, Requested, Fresh

\* The request main is at stays the only one of its client.
LEMMA AtMainKept ==
    ASSUME CmTypeOK, Position, AtMain, UNCHANGED event,
           mpc' \in {"scan", "claim", "full"} => mpc \in {"scan", "claim", "full"},
           cmq' \in Seq(Events), NoNewRequest,
           \A d \in Conns : Fresh(d) => Fresh(d)',
           \A d \in Conns : peer'[d] = "new" => peer[d] = "new"
    PROVE  AtMain'
<1> SUFFICES ASSUME mpc' \in {"scan", "claim", "full"}
             PROVE  Requested(event[2])' /\ \A k \in 1..Len(cmq') : cmq'[k] # event
  BY DEF AtMain
<1>1. event \in Events /\ event[1] = "CONNECT_REQUEST"
  BY DEF Position
<1>2. PICK e \in Conns : e = event[2]
  BY <1>1 DEF Events
<1>3. Requested(e) /\ \A k \in 1..Len(cmq) : cmq[k] # event
  BY <1>2 DEF AtMain
<1>4. Fresh(e)' /\ peer'[e] # "new"
  BY <1>3 DEF Requested
<1>5. Requested(event[2])'
  BY <1>2, <1>4 DEF Requested, Fresh
<1>6. QED
  BY <1>1, <1>3, <1>5 DEF NoNewRequest

LEMMA RequestsMain ==
    ASSUME CmInv, Main \/ MainDies
    PROVE  Requests'
<1>1. CmTypeOK /\ Position /\ NewFresh /\ InQueue /\ AtMain /\ cmq \in Seq(Events)
  BY DEF CmInv, Requests, CmTypeOK
<1>2. cmq' \in Seq(Events)
  BY TypeMain DEF CmInv, CmTypeOK
<1>3. CASE GetEvent
  <2>1. /\ UNCHANGED <<id, wpc, peer>> /\ cmq # <<>>
        /\ event' = Head(cmq) /\ cmq' = Tail(cmq)
        /\ mpc' \in {"scan", "claim", "full"} => event'[1] = "CONNECT_REQUEST"
    BY <1>3 DEF GetEvent, tableVars, workerVars
  <2>2. /\ event' = cmq[1] /\ 1 \in 1..Len(cmq) /\ Len(cmq) \in Nat
        /\ \A k \in 1..Len(cmq') : cmq'[k] = cmq[k + 1] /\ k + 1 \in 1..Len(cmq)
    BY <1>1, <2>1, HeadFacts
  <2>3. NoNewRequest
    BY <1>1, <2>1, ShorterQueue
  <2>4. NewFresh' /\ InQueue'
    BY <1>1, <1>2, <2>1, <2>3, InQueueKept DEF Fresh
  <2>5. AtMain'
    <3> SUFFICES ASSUME event'[1] = "CONNECT_REQUEST"
                 PROVE  Requested(event[2])' /\ \A k \in 1..Len(cmq') : cmq'[k] # event'
      BY <2>1 DEF AtMain
    <3>1. Requested(cmq[1][2])
      BY <1>1, <2>2 DEF InQueue
    <3>2. Requested(event[2])'
      BY <2>1, <2>2, <3>1 DEF Requested, Fresh
    <3>3. \A k \in 1..Len(cmq') : cmq'[k] # event'
      BY <1>1, <2>2 DEF InQueue
    <3>4. QED
      BY <3>2, <3>3
  <2>6. QED
    BY <2>4, <2>5 DEF Requests
<1>4. CASE Claim
  <2>1. event \in Events /\ event[1] = "CONNECT_REQUEST" /\ mpc = "claim" /\ i \in Slots
    BY <1>1, <1>4 DEF Claim, Position
  <2>2. PICK e \in Conns : e = event[2]
    BY <2>1 DEF Events
  <2>3. /\ mpc' = "ack" /\ cmq' = cmq /\ id' = [id EXCEPT ![i] = e]
        /\ wpc' = wpc \/ wpc' = [wpc EXCEPT ![e] = "start"]
        /\ peer' = peer \/ peer' = [peer EXCEPT ![e] = "gone"]
    BY <1>4, <2>2 DEF Claim, Reject
  <2>4. Requested(e) /\ \A k \in 1..Len(cmq) : cmq[k] # event
    BY <1>1, <2>1, <2>2 DEF AtMain
  <2>5. ASSUME NEW d \in Conns, d # e
        PROVE  (Fresh(d) => Fresh(d)') /\ peer'[d] = peer[d]
    BY <1>1, <2>1, <2>3, <2>5 DEF Fresh, CmTypeOK
  <2>6. NewFresh'
    <3>1. peer'[e] # "new"
      BY <1>1, <2>3, <2>4 DEF Requested, CmTypeOK
    <3>2. QED
      BY <1>1, <2>5, <3>1 DEF NewFresh
  <2>7. ASSUME NEW k \in 1..Len(cmq), cmq[k][1] = "CONNECT_REQUEST"
        PROVE  Requested(cmq[k][2])'
    <3>1. cmq[k] \in Events /\ cmq[k] # event
      BY <1>1, <2>4
    <3>2. PICK d \in Conns : d = cmq[k][2]
      BY <3>1 DEF Events
    <3>3. d # e
      BY <2>1, <2>2, <2>7, <3>1, <3>2 DEF Events
    <3>4. Requested(d)
      BY <1>1, <2>7, <3>2 DEF InQueue
    <3>5. Fresh(d)' /\ peer'[d] # "new"
      BY <2>5, <3>3, <3>4 DEF Requested
    <3>6. wpc'[cmq[k][2]] = "none" /\ \A s \in Slots : id'[s] # cmq[k][2]
      BY <3>2, <3>5 DEF Fresh
    <3>7. QED
      BY <2>3, <3>2, <3>5, <3>6 DEF Requested, Fresh
  <2>8. InQueue'
    BY <1>1, <2>3, <2>7 DEF InQueue, Requested, Fresh
  <2>9. AtMain'
    BY <2>3 DEF AtMain
  <2>10. QED
    BY <2>6, <2>8, <2>9 DEF Requests
<1>5. CASE (Main /\ ~GetEvent /\ ~Claim) \/ MainDies
  <2>1. /\ cmq' = cmq /\ id' = id /\ wpc' = wpc
        /\ event' = event \/ mpc' \notin {"scan", "claim", "full"}
        /\ mpc' \in {"scan", "claim", "full"} => mpc \in {"scan", "claim", "full"}
        /\ peer' = peer \/ peer' = [peer EXCEPT ![event[2]] = "gone"]
    BY <1>5 DEF Main, MainDies, Die, Scan, Full, Reject, HandleEstablished, HandleOther, Ack,
                tableVars, workerVars
  <2>2. /\ \A d \in Conns : Fresh(d) => Fresh(d)'
        /\ \A d \in Conns : peer'[d] = "new" => peer[d] = "new"
    BY <1>1, <2>1 DEF Fresh, CmTypeOK
  <2>3. NoNewRequest
    BY <1>1, <2>1, SameQueue
  <2>4. NewFresh' /\ InQueue'
    BY <1>1, <1>2, <2>2, <2>3, InQueueKept
  <2>5. AtMain'
    <3>1. CASE mpc' \in {"scan", "claim", "full"}
      BY <1>1, <1>2, <2>1, <2>2, <2>3, <3>1, AtMainKept
    <3>2. CASE mpc' \notin {"scan", "claim", "full"}
      BY <3>2 DEF AtMain
    <3>3. QED
      BY <3>1, <3>2
  <2>6. QED
    BY <2>4, <2>5 DEF Requests
<1>6. QED
  BY <1>3, <1>4, <1>5

LEMMA RequestsThread ==
    ASSUME CmInv, NEW c \in Conns, ThreadStep(c)
    PROVE  Requests'
<1>1. CmTypeOK /\ Position /\ OwnSlots /\ NewFresh /\ InQueue /\ AtMain /\ cmq \in Seq(Events)
  BY DEF CmInv, Requests, CmTypeOK
<1>2. cmq' \in Seq(Events)
  BY TypeThread DEF CmInv, CmTypeOK
<1>3. UNCHANGED <<event, peer>> /\ (mpc' = mpc \/ mpc' = "died")
  BY DEF ThreadStep, Accept, Die, SemWait, Serves, Disconnect, DestroyId, TearsDown, ClearSlot,
         SemDestroy, mainVars
<1>4. \A d \in Conns : Fresh(d) => Fresh(d)'
  <2>1. CASE UNCHANGED <<id, ctx, wpc>>
    BY <2>1 DEF Fresh
  <2>2. CASE UNCHANGED <<id, ctx>> /\ Proceeding(c)
    BY <1>1, <2>2 DEF Fresh, Proceeding, UsingPcs, CmTypeOK
  <2>3. CASE ClearSlot(c)
    BY <1>1, <2>3, NullAssumption DEF Fresh, ClearSlot, Cleared, Goto, CmTypeOK
  <2>4. QED
    BY <2>1, <2>2, <2>3, ThreadTable
<1>5. NoNewRequest
  <2>1. ASSUME NEW next, DestroyId(c, next)
        PROVE  NoNewRequest
    <3>1. PICK h \in [1..Len(cmq') -> 1..Len(cmq)] :
              /\ \A k \in 1..Len(cmq') : cmq'[k] = cmq[h[k]]
              /\ \A k, l \in 1..Len(cmq') : k < l => h[k] < h[l]
      BY <2>1, DestroyFacts
    <3>2. h \in [1..Len(cmq') -> Nat]
      OBVIOUS
    <3>3. \A k, l \in 1..Len(cmq') : h[k] = h[l] => k = l
      BY <3>1
    <3>4. QED
      BY <3>1, <3>2, <3>3 DEF NoNewRequest
  <2>2. \A kind \in {"OTHER", "DISCONNECTED"} :
            <<kind, c>> \in Events /\ <<kind, c>>[1] # "CONNECT_REQUEST"
    BY DEF Events
  <2>3. CASE cmq' = cmq \/ Told(c)
    BY <1>1, <2>2, <2>3, SameQueue, LongerQueue DEF Told
  <2>4. QED
    BY <1>1, <2>1, <2>3, ThreadAlive
<1>6. NewFresh' /\ InQueue'
  BY <1>1, <1>2, <1>3, <1>4, <1>5, InQueueKept
<1>7. AtMain'
  BY <1>1, <1>2, <1>3, <1>4, <1>5, AtMainKept
<1>8. QED
  BY <1>6, <1>7 DEF Requests

LEMMA RequestsClient ==
    ASSUME CmInv, NEW c \in Conns, ClientStep(c)
    PROVE  Requests'
<1>1. CmTypeOK /\ Position /\ NewFresh /\ InQueue /\ AtMain /\ cmq \in Seq(Events)
  BY DEF CmInv, Requests, CmTypeOK
<1>2. cmq' \in Seq(Events)
  BY TypeClient DEF CmInv, CmTypeOK
<1>3. UNCHANGED <<id, wpc, event, mpc>>
  BY ClientTable DEF mainVars
<1>4. \A d \in Conns : Fresh(d) <=> Fresh(d)'
  BY <1>3 DEF Fresh
<1>5. \A d \in Conns : peer'[d] = "new" => peer[d] = "new"
  BY <1>1 DEF ClientStep, PeerConnect, PeerEstablished, PeerGivesUp, PeerLeaves, Exchange, Breaks,
              CmTypeOK
<1>6. CASE PeerConnect(c)
  <2> DEFINE e == <<"CONNECT_REQUEST", c>>
  <2>1. peer[c] = "new" /\ peer' = [peer EXCEPT ![c] = "connecting"] /\ cmq' = Append(cmq, e)
    BY <1>6 DEF PeerConnect
  <2>2. e \in Events /\ e[1] = "CONNECT_REQUEST" /\ e[2] = c
    BY DEF Events
  <2> HIDE DEF e
  <2>3. /\ Len(cmq') = Len(cmq) + 1 /\ Len(cmq) \in Nat /\ cmq'[Len(cmq) + 1] = e
        /\ \A k \in 1..Len(cmq) : cmq'[k] = cmq[k]
        /\ \A k \in 1..Len(cmq') : k \in 1..Len(cmq) \/ k = Len(cmq) + 1
    BY <1>1, <2>1, <2>2, AppendFacts
  <2>4. \A k \in 1..Len(cmq) : cmq[k] # e
    BY <1>1, <2>1, <2>2 DEF InQueue, Requested
  <2>5. NewFresh'
    BY <1>1, <1>4, <1>5 DEF NewFresh
  <2>6. ASSUME NEW k \in 1..Len(cmq'), cmq'[k][1] = "CONNECT_REQUEST"
        PROVE  /\ wpc[cmq'[k][2]] = "none" /\ peer'[cmq'[k][2]] # "new"
               /\ \A s \in Slots : id[s] # cmq'[k][2]
    <3>1. CASE k \in 1..Len(cmq)
      <4>1. cmq'[k] = cmq[k] /\ cmq[k] \in Events /\ Requested(cmq[k][2])
        BY <1>1, <2>3, <2>6, <3>1 DEF InQueue
      <4>2. cmq[k][2] \in Conns
        BY <4>1 DEF Events
      <4>3. QED
        BY <1>5, <4>1, <4>2 DEF Requested, Fresh
    <3>2. CASE k = Len(cmq) + 1
      BY <1>1, <2>1, <2>2, <2>3, <3>2 DEF NewFresh, Fresh, CmTypeOK
    <3>3. QED
      BY <2>3, <3>1, <3>2
  <2>7. ASSUME NEW k \in 1..Len(cmq'), NEW l \in 1..Len(cmq'),
               cmq'[k][1] = "CONNECT_REQUEST", cmq'[l] = cmq'[k]
        PROVE  k = l
    BY <1>1, <2>3, <2>4, <2>7 DEF InQueue
  <2>8. InQueue'
    BY <1>3, <2>6, <2>7 DEF InQueue, Requested, Fresh
  <2>9. AtMain'
    <3> SUFFICES ASSUME mpc \in {"scan", "claim", "full"}
                 PROVE  Requested(event[2])' /\ \A k \in 1..Len(cmq') : cmq'[k] # event
      BY <1>3 DEF AtMain
    <3>1. event \in Events
      BY <1>1 DEF Position
    <3>2. PICK d \in Conns : d = event[2]
      BY <3>1 DEF Events
    <3>3. Requested(d) /\ \A k \in 1..Len(cmq) : cmq[k] # event
      BY <1>1, <3>2 DEF AtMain
    <3>4. d # c /\ peer'[d] # "new" /\ Fresh(d)
      BY <1>5, <2>1, <3>3 DEF Requested
    <3>5. Requested(event[2])'
      BY <1>3, <3>2, <3>4 DEF Requested, Fresh
    <3>6. event # e
      BY <2>2, <3>2, <3>4
    <3>7. QED
      BY <2>3, <3>3, <3>5, <3>6
  <2>10. QED
    BY <2>5, <2>8, <2>9 DEF Requests
<1>7. CASE ~PeerConnect(c)
  <2>1. \A kind \in {"ESTABLISHED", "DISCONNECTED", "OTHER"} :
            <<kind, c>> \in Events /\ <<kind, c>>[1] # "CONNECT_REQUEST"
    BY DEF Events
  <2>2. \/ cmq' = cmq
        \/ \E kind \in {"ESTABLISHED", "DISCONNECTED", "OTHER"} : cmq' = Append(cmq, <<kind, c>>)
    BY <1>7 DEF ClientStep, PeerEstablished, PeerGivesUp, PeerLeaves, Exchange, Breaks
  <2>3. NoNewRequest
    BY <1>1, <2>1, <2>2, SameQueue, LongerQueue
  <2>4. NewFresh' /\ InQueue'
    BY <1>1, <1>2, <1>4, <1>5, <2>3, InQueueKept
  <2>5. AtMain'
    BY <1>1, <1>2, <1>3, <1>4, <1>5, <2>3, AtMainKept
  <2>6. QED
    BY <2>4, <2>5 DEF Requests
<1>8. QED
  BY <1>6, <1>7

LEMMA RequestsStep == CmInv /\ CmNext => Requests'
<1>1. CASE UNCHANGED cmVars
  BY <1>1 DEF CmInv, Requests, NewFresh, InQueue, AtMain, Requested, Fresh, cmVars, tableVars,
              mainVars, workerVars
<1>2. QED
  BY <1>1, RequestsMain, RequestsThread, RequestsClient DEF CmNext

(***************************************************************************)
(* What the programs take from here.                                       *)
(***************************************************************************)
LEMMA CmInvStep == CmInv /\ CmNext => CmInv'
BY TypeStep, PositionStep, OwnSlotsStep, AliveStep, RequestsStep DEF CmInv

LEMMA CmInvSafe == CmInv => OwnId /\ EventIdAlive
BY DEF CmInv, OwnSlots, OwnSlot, OwnId, Alive
=============================================================================
