----------------------------- MODULE CmThreads -----------------------------
(***************************************************************************)
(* What rdmacm02 and rdmacm04 have in common: a thread for every           *)
(* connection.  The main thread runs cm_event_loop: it gives a connection  *)
(* request a slot of g_ctxs and a thread, and posts the slot's semaphore   *)
(* when the connection is established.  The thread (handle_request)        *)
(* accepts, waits for the semaphore, does its work, takes the connection   *)
(* down and frees the slot.  The threads share g_ctxs without a lock.      *)
(* ThreadedHandshake and ThreadedServer put the two programs together.     *)
(***************************************************************************)
EXTENDS Naturals, Sequences, FiniteSets, Verbs

CONSTANTS
    Conns,      \* the connections clients will ask for
    NULL,       \* no connection
    MaxThreads, \* MAX_THREADS, 10
    Mishaps     \* what may go wrong

\* leave: an established client goes away early.  give_up: a client goes away
\* while it connects.  rtu_lost: the server never hears that the connection
\* is established.  no_thread: pthread_create fails.  verbs_fail: any other
\* call of a thread fails.  reuse: a new rdma_cm_id may get the address of one
\* that was destroyed.
ASSUME MishapsAssumption ==
    Mishaps \subseteq {"leave", "give_up", "rtu_lost", "no_thread", "verbs_fail", "reuse"}
ASSUME BoundsAssumption == MaxThreads \in Nat \ {0}
ASSUME NullAssumption == NULL \notin Conns

VARIABLES
    id,         \* g_ctxs[i].id
    established,\* g_ctxs[i].established: the value of the semaphore
    mpc,        \* where the main thread is
    i,          \* its loop index over g_ctxs
    event,      \* the event it got last
    held,       \* has it still to acknowledge that event?
    cmq,        \* the events it has not yet got
    addr,       \* the address of the rdma_cm_id of each connection
    wpc,        \* where the thread of each connection is
    ctx,        \* the slot it was given
    res,        \* what setup_connection created and is still there
    qp,         \* the queue pair
    peer        \* where the client is

tableVars == <<id, established>>
mainVars == <<mpc, i, event, held, addr>>
workerVars == <<wpc, ctx, res, qp>>
cmVars == <<tableVars, mainVars, cmq, workerVars, peer>>

Slots == 1..MaxThreads
NoEvent == <<"NONE", NULL>>
Events == {"CONNECT_REQUEST", "ESTABLISHED", "DISCONNECTED", "OTHER"} \X Conns
Stopped == {"exited", "died"}

\* A thread that still uses the id in its slot; one that has destroyed it.
UsingPcs == {"start", "wait", "serve", "disconnect", "destroy_id", "teardown"}
GonePcs == {"teardown", "clear", "sem_destroy", "exited"}

CmTypeOK ==
    /\ id \in [Slots -> Conns \union {NULL}]
    /\ established \in [Slots -> Nat]
    /\ mpc \in {"get", "scan", "claim", "full", "handle", "ack", "break"} \union Stopped
    /\ i \in 1..(MaxThreads + 1)
    /\ event \in Events \union {NoEvent} /\ held \in BOOLEAN
    /\ cmq \in Seq(Events)
    /\ addr \in [Conns -> Conns]
    /\ wpc \in [Conns -> {"none"} \union UsingPcs \union GonePcs]
    /\ ctx \in [Conns -> Slots \union {0}]
    /\ res \in [Conns -> SUBSET Resources]
    /\ qp \in [Conns -> {"none", "RTS", "ERR"}]
    /\ peer \in [Conns -> {"new", "connecting", "idle", "waiting", "gone"}]

CmInit ==
    /\ id = [s \in Slots |-> NULL]
    /\ established = [s \in Slots |-> 0]
    /\ mpc = "get" /\ i = 1 /\ event = NoEvent /\ held = FALSE /\ cmq = <<>>
    /\ addr = [c \in Conns |-> c]
    /\ wpc = [c \in Conns |-> "none"] /\ ctx = [c \in Conns |-> 0]
    /\ res = [c \in Conns |-> {}] /\ qp = [c \in Conns |-> "none"]
    /\ peer = [c \in Conns |-> "new"]

(***************************************************************************)
(* The main thread: cm_event_loop.                                         *)
(***************************************************************************)

\* The address a new rdma_cm_id may get: its own, or one where every id that
\* was there is destroyed.
NewAddr(c) ==
    {c} \union {a \in Conns : /\ "reuse" \in Mishaps
                              /\ \A d \in Conns : addr[d] = a => wpc[d] \in GonePcs}

GetEvent ==
    /\ mpc = "get" /\ cmq # <<>>
    /\ event' = Head(cmq) /\ held' = TRUE /\ cmq' = Tail(cmq)
    /\ i' = 1
    /\ IF event'[1] = "CONNECT_REQUEST"
         THEN /\ mpc' = "scan"
              /\ \E a \in NewAddr(event'[2]) : addr' = [addr EXCEPT ![event'[2]] = a]
         ELSE mpc' = "handle" /\ UNCHANGED addr
    /\ UNCHANGED <<tableVars, workerVars, peer>>

\* Mutation: a slot whose semaphore is not posted counts as free.
IsFreeUnposted(s) == id[s] = NULL \/ established[s] = 0
IsFree(s) == id[s] = NULL

\* One turn of the search for a free slot.
Scan ==
    /\ mpc = "scan"
    /\ \/ i > MaxThreads /\ mpc' = "full" /\ UNCHANGED i
       \/ i <= MaxThreads /\ IsFree(i) /\ mpc' = "claim" /\ UNCHANGED i
       \/ i <= MaxThreads /\ ~IsFree(i) /\ i' = i + 1 /\ UNCHANGED mpc
    /\ UNCHANGED <<tableVars, event, held, addr, cmq, workerVars, peer>>

Reject == peer' = [peer EXCEPT ![event[2]] = "gone"]

\* "Reached maximum number of clients": the request is rejected.
Full ==
    /\ mpc = "full" /\ mpc' = "ack"
    /\ Reject
    /\ UNCHANGED <<tableVars, i, event, held, addr, cmq, workerVars>>

\* The slot is filled in and its thread created.  If that fails the request
\* is rejected and the slot stays as it is.
Claim ==
    /\ mpc = "claim" /\ mpc' = "ack"
    /\ id' = [id EXCEPT ![i] = event[2]]
    /\ established' = [established EXCEPT ![i] = 0]
    /\ \/ /\ wpc' = [wpc EXCEPT ![event[2]] = "start"]
          /\ ctx' = [ctx EXCEPT ![event[2]] = i]
          /\ UNCHANGED peer
       \/ "no_thread" \in Mishaps /\ Reject /\ UNCHANGED <<wpc, ctx>>
    /\ UNCHANGED <<i, event, held, addr, cmq, res, qp>>

\* Mutation: the first slot is taken for that of every connection.
SlotsOfFirst(c) == {1}

\* The slots whose pointer is that of connection c's id.
SlotsOf(c) == {s \in Slots : id[s] # NULL /\ addr[id[s]] = addr[c]}

\* The semaphore of the first such slot is posted.
HandleEstablished ==
    /\ mpc = "handle" /\ event[1] = "ESTABLISHED" /\ mpc' = "ack"
    /\ \/ SlotsOf(event[2]) = {} /\ UNCHANGED established
       \/ \E s \in SlotsOf(event[2]) :
             /\ \A t \in SlotsOf(event[2]) : s <= t
             /\ established' = [established EXCEPT ![s] = @ + 1]
    /\ UNCHANGED <<id, i, event, held, addr, cmq, workerVars, peer>>

\* A disconnect is printed; any other event ends the loop.
HandleOther ==
    /\ mpc = "handle" /\ event[1] # "ESTABLISHED"
    /\ mpc' = IF event[1] = "OTHER" THEN "break" ELSE "ack"
    /\ UNCHANGED <<tableVars, i, event, held, addr, cmq, workerVars, peer>>

\* rdma_ack_cm_event; after the loop main returns and the process ends.
Ack ==
    /\ mpc \in {"ack", "break"}
    /\ event' = NoEvent /\ held' = FALSE
    /\ mpc' = IF mpc = "ack" THEN "get" ELSE "exited"
    /\ UNCHANGED <<tableVars, i, addr, cmq, workerVars, peer>>

\* A call fails and IF_NZERO_DIE, in whatever thread, ends the process.
Die ==
    /\ "verbs_fail" \in Mishaps
    /\ mpc' = "died"
    /\ UNCHANGED <<tableVars, i, event, held, addr, cmq, workerVars, peer>>

Main == GetEvent \/ Scan \/ Full \/ Claim \/ HandleEstablished \/ HandleOther \/ Ack
MainDies == mpc = "get" /\ Die

(***************************************************************************)
(* The thread of a connection: handle_request.                             *)
(***************************************************************************)

Goto(c, pc, next) == wpc[c] = pc /\ wpc' = [wpc EXCEPT ![c] = next]

\* setup_connection, which returns what it created, and rdma_accept, which
\* fails and ends the process if the client has given up; or the connection
\* fails later.
Accept(c, created) ==
    /\ res' = [res EXCEPT ![c] = created]
    /\ \/ wpc[c] = "start" /\ peer[c] = "gone" /\ mpc' = "died" /\ UNCHANGED <<wpc, qp, cmq>>
       \/ /\ Goto(c, "start", "wait")
          /\ qp' = [qp EXCEPT ![c] = "RTS"]
          /\ cmq' = IF peer[c] = "gone" THEN Append(cmq, <<"OTHER", c>>) ELSE cmq
          /\ UNCHANGED mpc
    /\ UNCHANGED <<tableVars, i, event, held, addr, ctx, peer>>

\* Mutation: what sem_wait returns when it is interrupted is not looked at.
PostedOrInterrupted(s) == TRUE
Posted(s) == established[s] > 0

\* sem_wait; next is what the program does with the connection.
SemWait(c, next) ==
    /\ Goto(c, "wait", next)
    /\ Posted(ctx[c])
    /\ established' = [established EXCEPT ![ctx[c]] = @ - 1]
    /\ UNCHANGED <<id, mainVars, cmq, ctx, res, qp, peer>>

\* rdma_disconnect(ctx->id).  If the client has not left, the server hears of
\* the end of the connection itself, unless it destroys the id first.
Disconnect(c) ==
    /\ Goto(c, "disconnect", "destroy_id")
    /\ qp' = [qp EXCEPT ![id[ctx[c]]] = "ERR"]
    /\ \/ peer[id[ctx[c]]] # "gone" /\ cmq' = Append(cmq, <<"DISCONNECTED", id[ctx[c]]>>)
       \/ UNCHANGED cmq
    /\ UNCHANGED <<tableVars, mainVars, ctx, res, peer>>

\* Mutation: the event is acknowledged as soon as main has copied it, so
\* that nothing keeps the id alive.
InUseByMainNever(c) == FALSE

\* Has main an event of c's id that it has not acknowledged?
InUseByMain(c) == held /\ event[1] # "CONNECT_REQUEST" /\ event[2] = c

\* The events in q that are not of connection c, in order.
Others(q, c) ==
    LET upto[k \in 0..Len(q)] ==
            IF k = 0 THEN <<>>
            ELSE IF q[k][2] = c THEN upto[k - 1]
            ELSE Append(upto[k - 1], q[k])
    IN  upto[Len(q)]

\* rdma_destroy_id(ctx->id) waits until the events of the id that the main
\* thread has got are acknowledged, and drops those it has not got.
DestroyId(c, next) ==
    /\ Goto(c, "destroy_id", next)
    /\ ~InUseByMain(id[ctx[c]])
    /\ cmq' = Others(cmq, id[ctx[c]])
    /\ UNCHANGED <<tableVars, mainVars, ctx, res, qp, peer>>

\* Mutation: the slot is not given back.
ClearedNot(table, s) == table
Cleared(table, s) == [table EXCEPT ![s] = NULL]

ClearSlot(c) ==
    /\ Goto(c, "clear", "sem_destroy")
    /\ id' = Cleared(id, ctx[c])
    /\ UNCHANGED <<established, mainVars, cmq, ctx, res, qp, peer>>

\* sem_destroy leaves the semaphore as it is, whoever has set it up again
\* (glibc's does nothing); the thread ends.
SemDestroy(c) ==
    /\ Goto(c, "sem_destroy", "exited")
    /\ UNCHANGED <<tableVars, mainVars, cmq, ctx, res, qp, peer>>

(***************************************************************************)
(* The clients, as far as they connect and leave.                          *)
(***************************************************************************)

\* Does the connection's id still exist, so that events can reach it?
IdAlive(c) == wpc[c] \notin GonePcs

\* The client resolves the address and the route and asks for a connection.
PeerConnect(c) ==
    /\ peer[c] = "new"
    /\ peer' = [peer EXCEPT ![c] = "connecting"]
    /\ cmq' = Append(cmq, <<"CONNECT_REQUEST", c>>)
    /\ UNCHANGED <<tableVars, mainVars, workerVars>>

\* The client learns that it is accepted.  If the server does not hear of it
\* the connection fails later, unless the client disconnects first.
PeerEstablished(c) ==
    /\ peer[c] = "connecting" /\ wpc[c] = "wait"
    /\ peer' = [peer EXCEPT ![c] = "idle"]
    /\ \/ cmq' = Append(cmq, <<"ESTABLISHED", c>>)
       \/ "rtu_lost" \in Mishaps /\ cmq' \in {cmq, Append(cmq, <<"OTHER", c>>)}
    /\ UNCHANGED <<tableVars, mainVars, workerVars>>

\* Once it is accepted a failing connection has an event of its own.
PeerGivesUp(c) ==
    /\ "give_up" \in Mishaps /\ peer[c] = "connecting"
    /\ peer' = [peer EXCEPT ![c] = "gone"]
    /\ cmq' = IF wpc[c] = "wait" THEN Append(cmq, <<"OTHER", c>>) ELSE cmq
    /\ UNCHANGED <<tableVars, mainVars, workerVars>>

\* An established client disconnects, or ends; the server hears of it unless
\* it has disconnected before.
PeerLeaves(c) ==
    /\ peer[c] \in {"idle", "waiting"}
    /\ peer' = [peer EXCEPT ![c] = "gone"]
    /\ cmq' = IF IdAlive(c) /\ wpc[c] # "destroy_id"
                THEN Append(cmq, <<"DISCONNECTED", c>>) ELSE cmq
    /\ UNCHANGED <<tableVars, mainVars, workerVars>>

Running == mpc \notin Stopped

\* Every client is gone; main and threads that were never told of an
\* established connection wait on.
Quiet ==
    /\ mpc = "get" /\ cmq = <<>>
    /\ \A c \in Conns : peer[c] = "gone" /\ wpc[c] \in {"none", "wait", "exited"}
    /\ \A c \in Conns : wpc[c] = "wait" => established[ctx[c]] = 0

(***************************************************************************)
(* Properties.                                                             *)
(***************************************************************************)

\* A thread that still uses ctx->id has its own connection there: the main
\* thread never fills a slot that is in use (rdmacm04/server.c:72-73,
\* 105-114).
OwnId == \A c \in Conns : wpc[c] \in UsingPcs \union {"clear"} => id[ctx[c]] = c

\* g_ctxs is a pool of slots, though nothing locks it: only the main thread
\* takes a slot, only the slot's thread gives it back, and only once it has
\* done with the id (rdmacm04/server.c:85, 105-112).
Pool == INSTANCE SlotPool WITH
            owner <- id, using <- {c \in Conns : wpc[c] \in UsingPcs}
ImplementsPool == Pool!Spec

\* While the main thread looks at an event, the id of that event is there:
\* rdma_destroy_id in the thread waits for the acknowledgement, which is why
\* it comes last (rdmacm04/server.c:102-141, 73).
EventIdAlive == mpc \in {"handle", "break"} => IdAlive(event[2])

\* A thread whose connection is seen established does not wait for ever,
\* even if the event finds the thread on its way to sem_wait
\* (rdmacm04/server.c:31, 123-131).
Wakes ==
    \A c \in Conns : event = <<"ESTABLISHED", c>> ~> wpc[c] # "wait" \/ ~Running

\* A slot whose client is gone and whose thread never started, or waits for
\* an ESTABLISHED that is not on its way.
NeverEstablished(s) ==
    /\ id[s] # NULL /\ peer[id[s]] = "gone"
    /\ wpc[id[s]] \in {"none", "wait"} /\ established[s] = 0
    /\ \A e \in {event} \union {cmq[k] : k \in DOMAIN cmq} :
          e # <<"ESTABLISHED", id[s]>> /\ e # <<"CONNECT_REQUEST", id[s]>>

\* The slot of a client that is gone becomes free (rdmacm04/server.c:85).
SlotsReturn ==
    \A c \in Conns :
        peer[c] = "gone" /\ (\E s \in Slots : id[s] = c)
            ~> (\A s \in Slots : id[s] # c) \/ ~Running
=============================================================================
