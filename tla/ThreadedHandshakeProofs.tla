----------------------- MODULE ThreadedHandshakeProofs -----------------------
(***************************************************************************)
(* The theorems of rdmacm02: every step of its threads is one that         *)
(* CmThreadsProofs knows.                                                  *)
(***************************************************************************)
EXTENDS ThreadedHandshake, CmThreadsProofs

LEMMA SetupCreates == SetupConnection \in SUBSET Resources
BY SetupCreatesAll DEF SetupConnection

LEMMA StepIsCmNext == [Next]_cmVars => CmNext
<1> SUFFICES ASSUME [Next]_cmVars PROVE CmNext
  OBVIOUS
<1>1. ASSUME NEW c \in Conns, handle_request(c) PROVE ThreadStep(c)
  BY <1>1, SetupCreates DEF handle_request, ThreadStep
<1>2. ASSUME NEW c \in Conns, client(c) PROVE ClientStep(c)
  BY <1>2 DEF client, ClientStep
<1>3. QED
  BY <1>1, <1>2 DEF Next, cm_event_loop, CmNext

\* The invariant of CmThreads is one of rdmacm02.
THEOREM Invariance == Spec => []CmInv
<1>1. Init => CmInv
  BY CmInitInv DEF Init
<1>2. CmInv /\ [Next]_cmVars => CmInv'
  BY StepIsCmNext, CmInvStep
<1>3. QED
  BY <1>1, <1>2, PTL DEF Spec

\* A thread that uses ctx->id has its own connection there, and main never
\* looks at an event whose id is destroyed, for every number of slots and
\* clients (rdmacm02/server.c).
THEOREM IdsSafe == Spec => [](OwnId /\ EventIdAlive)
<1>1. CmInv => OwnId /\ EventIdAlive
  BY CmInvSafe
<1>2. QED
  BY <1>1, Invariance, PTL

\* g_ctxs, which nothing locks, is a pool of slots: main takes only a free
\* one, for a connection that has none, and only its own thread gives it
\* back, when it has done with the id.
THEOREM Refinement == Spec => ImplementsPool
<1>1. Init => Pool!Init
  BY PoolInit DEF Init
<1>2. CmInv /\ [Next]_cmVars => [Pool!Next]_(Pool!vars)
  BY StepIsCmNext, PoolStep
<1>3. QED
  BY <1>1, <1>2, Invariance, PTL DEF Spec, ImplementsPool, Pool!Spec
=============================================================================
