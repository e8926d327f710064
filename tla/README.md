# Verification of the RDMA tutorial programs

The repository is a series of small C programs that teach RDMA verbs and the RDMA connection
manager (CM): from listing devices to an epoll server of many connections. Each program is a
client and a server that talk through queue pairs, completion queues and CM event channels, so
each one is a concurrent system of two programs, two adapters and a network, although most of the
programs have one thread. This directory holds TLA+ models of those systems, the TLC runs that check
them and proofs that TLAPS checks.

Paths below are relative to `src/src/`.

## 1. Inventory

| Component | State | Operations | Interacts through | What is hard |
|---|---|---|---|---|
| `rdmacm01` handshake | one CM id and event channel per program, one server listener | resolve, set up, connect; listen, accept, wait, clean up | CM events, taken strictly in order (`check_cm_event`) | other clients' requests in the same channel, a lost final message, a killed peer, a receive request whose `next` is never set |
| `rdmacm02` threaded handshake | table `g_ctxs[10]`, a semaphore and a thread per slot | `cm_event_loop`, `handle_request` without messages | shared table, semaphores, CM events | ESTABLISHED against `sem_wait` and against the disconnect, pointers to destroyed ids in the table, nothing is freed |
| `rdmacm03` ping-pong | one buffer for each direction, loop counters, one completion queue for both queues | `ibv_post_recv`, `ibv_post_send`, poll, copy, echo | messages of a reliable connection | the order of send and receive completions, overwriting a buffer in flight, the receive credit, queues of exactly the needed depth |
| `rdmacm04` threaded server | `g_ctxs[10]` without a lock, semaphores, connection resources | `cm_event_loop`, `handle_request` | table, semaphores, event acknowledgement (`rdma_destroy_id` waits for it) | slot reuse against slot teardown, events for a freed id, abandoned slots, failing calls in a thread |
| `rdmacm05` epoll server | one `conn_context` and one `connection` per client, which its work requests name in `wr_id`; epoll set, `keep_running` | `handle_cm_event`, `handle_new_request`, `handle_cq_event`, SIGINT handler | epoll, completion channels, CM events | lost wake-ups between get, arm and poll; a batch that outlives what it points to; completions with an error; send queue depth |
| `example03` queue pairs over TCP | `remote_info`, QP state, one buffer sent from and received into | exchange, `setup_qp_state` (to INIT, RTR, RTS), `post_send`, `post_receive`, polls | a TCP socket, then the queue pairs | who reads first, byte order, messages before the peer is ready, one buffer for two directions, completions of two kinds counted as two |
| `example02` device query | resources opened in sequence | open, query, print, close by a chain of `goto`s | none | cleanup order |
| `example01` device list | none | print | none | nothing |
| logging, event names | none | format | none | nothing |

What makes each component correct:

- **rdmacm01**: at most one client is told that it is connected and it is the one the server
  accepted; a server that ends well agrees with its client; it dies only when something disturbed it;
  nobody waits for ever.
- **rdmacm02**: a connection that is established is taken down by its own thread, and its slot comes
  back; the table behaves as a pool of slots; an event's id exists while the main thread uses it.
- **rdmacm03**: both logs are those of an echo channel (each message once, in order, one at a time);
  a receive is posted whenever a message can come; a send buffer is not overwritten while the adapter
  still needs it; no queue overflows; both programs end, unless one leaves the other polling for
  nothing.
- **rdmacm04**: a thread works only on its own slot and connection; an event's id exists while the
  main thread uses it; a thread serves only established connections; clients are answered; slots and
  resources come back, and those that do not are the ones the code gives up.
- **rdmacm05**: no completion waits without a wake-up; each connection is an echo channel; receive
  credit; posts do not fail; clients are answered, departed ones reclaimed; SIGINT ends the server.
- **example03**: each queue pair is connected to its peer's address whatever the byte orders; the echo
  always finds a receive; a round starts with no completion left over; the shared buffer is not changed
  before the peer has its content; the exchange and every round end or a program does.

The hazards behind these, with the line each one bites at and the property that covers it, are in
`PROJECT.json`. Some have a note instead of a property: the code does what is feared there and no text
claims otherwise, so the models include it and the properties that could be upset by it say how they
exempt it.

## 2. Modules

```
EchoSpec            what an echo connection promises (abstract)
   ^   ^   ^
   |   |   +------ QpExchange       example03, implements EchoSpec
   |   |             ^
   |   |           QpExchangeProofs TLAPS
   |   +---------- EpollServer      rdmacm05, one EchoSpec for every connection
   +-------------- PingPong         rdmacm03, implements EchoSpec
                     | extends RcChannel: the reliable connection
                     ^
                   PingPongProofs   TLAPS
SlotPool            what the table g_ctxs promises (abstract)
   ^
CmThreads           event loop, table, threads of both; implements SlotPool
   ^   ^   ^
   |   |   +-- ThreadedServer      rdmacm04
   |   +------ ThreadedHandshake   rdmacm02
CmThreadsProofs     what holds of the threads of both: TLAPS (lemmas)
   ^   ^
   |   +-- ThreadedServerProofs      the theorems of rdmacm04: TLAPS
   +------ ThreadedHandshakeProofs   the theorems of rdmacm02: TLAPS
Verbs               which verbs object keeps which alive: used by EpollServer and CmThreads
MCEpollServer       EpollServer for TLC: how much each client sends, symmetry
EpollServerProofs   its inductive invariant and the theorems about it: TLAPS
   ^
EpollEchoProofs     where each connection's message is, and EchoSpec: TLAPS
Handshake           rdmacm01
   ^
HandshakeProofs     TLAPS
```

**The reliable connection.** The programs rely on what libibverbs and two adapters do; nothing of that
is repository code, so its definitions are marked external. A posted send is first `posted` (not in the
peer's memory), then `unacked` (delivered, its acknowledgement not back), then a completion. A delivery
takes one receive request of the peer; without one the sender tries again (`rnr_retry_count = 7`, for
ever). Both queues of an end share one completion queue, as in every `setup_connection`, so an
acknowledgement that is lost or late changes the order in which an end sees `SEND` and `RECV`. A queue
pair in error completes all it holds with an error. `RcChannel` models this for one connection;
`EpollServer`, `ThreadedServer` and `QpExchange` hold the same state per connection, reduced to what
their programs can tell apart (`ThreadedServer` counts completions instead of ordering them,
`QpExchange` adds queue pairs that cannot receive yet).

**Steps.** A step of a program is its code up to and including one call that an adapter, the network,
another thread or the kernel can observe or that depends on them. Adapters and clients interleave
freely between those. A poll that returns nothing is a stuttering step. Messages are their numbers (the
`%02d` of `"msg-%02d: hello"`).

| Module | Code | State | Actions |
|---|---|---|---|
| `PingPong` | `rdmacm03/client.c:61-106`, `server.c:53-87`, the posts in `common.c` | `cpc`, `i`; `spc`, `n`; `send_buff`, `recv_buff` of both ends; the logs | one for each call: send, poll of the send, poll of the echo, repost, cleanup; poll, repost, reply, cleanup |
| `EpollServer` | `rdmacm05/server.c` whole; `client.c` as connect, send, wait, leave | `keep_running`, the batch of `epoll_wait` not yet reached, the connection being drained and what was polled for it, `cctx->state`, buffers, logs | `epoll_wait`, each entry of the batch, each CM event, `ibv_get_cq_event`, `ibv_req_notify_cq`, `ibv_poll_cq`, each kind of completion, each post, SIGINT |
| `CmThreads` | what `rdmacm02/server.c` and `rdmacm04/server.c` share, and clients that connect and leave | `g_ctxs` (`id`, `established`), main's position, loop index and event, the address of every id, each thread's position, slot and resources | get, scan, claim or reject, thread creation, handle, acknowledge, break; accept, wait, disconnect, destroy, clear, `sem_destroy` |
| `ThreadedServer` | the rest of `rdmacm04/server.c`; `client.c` as above | each thread's counter, what its queues hold of each kind | those of `CmThreads`, and poll, echo, teardown |
| `ThreadedHandshake` | `rdmacm02` | none of its own | those of `CmThreads` |
| `Handshake` | `rdmacm01/client.c`, `server.c`, `common.c` | `cpc`, `spc`, `cur` (the accepted `client_id`), the server's event queue, each client's pending response | one for each expected event and the calls that follow it, in both programs |
| `QpExchange` | `example03/client.c`, `server.c`, `rdma_common.c` | `remote`, the socket, QP states, the one buffer of each end, counters, logs | connect, write, read, each modify, each post, each poll |

Where the code is more than the table says:

- `EpollServer` keeps a freed connection's state as `"freed"`. A batch entry for a freed channel is
  undefined behaviour in C; the model lets the server crash there or the read of the event fail.
- A failed completion has an undefined opcode (`rdmacm05/server.c:159-167`): the model takes both ways
  of the switch.
- `Verbs` says which object is created from which. Creating needs what it is created from, and
  `ibv_destroy_*` fails with `EBUSY` while another object uses the one to be destroyed; none of the
  programs looks at what it returns, so the order of a teardown decides what leaks. The server of
  `rdmacm04` destroys the completion channel first and keeps it, that of `rdmacm05` leaks nothing.
- A slot of `g_ctxs` holds a connection, and `addr` gives the address of its `rdma_cm_id`. All searches
  compare addresses (`SlotsOf`). With the mishap `reuse` a new id may get the address of one that is
  destroyed, which C allows as soon as `rdma_destroy_id` has freed it.
- A completion belongs to the connection that `wr_id` names (`rdmacm05/common.c:121, 131`,
  `server.c:164-165`), not to the queue it was polled from. `EpollServer` keeps `wr_id`, and the buffers
  and queues that `HandleWc` works with are those of the connection found there; that they are the
  right ones is what `EchoPerConnection` and its proof (`Routed`) are about.
- `rdmacm01/common.c:117-118` posts a receive request that lies in memory from `malloc` and whose `next`
  was never set: the mishap `stray_wr` lets `ibv_post_recv` follow it and the program end.
- `sem_destroy` (`rdmacm04/server.c:86`) comes after the slot is free, so main may have initialised the
  semaphore again. The programs are built on Linux with the GNU C library, whose `sem_destroy` does
  nothing; the model does the same. Elsewhere the behaviour is undefined, and nothing here says anything
  about it.
- `rdma_disconnect` in a thread may bring the server a DISCONNECTED event of its own, if its client has
  not left and main reads the channel before the thread destroys the id; it is only logged.
- In `QpExchange` numbers are byte sequences and each end has a byte order; `htonl` and friends and the
  raw write of the struct are modelled by what they do to the bytes.

**Mishaps.** What may go wrong is a constant of each module (`Mishaps`, or `AcksLost` and `Faults` in
`RcChannel`), so that one module serves the runs in which everything fails and those that claim
liveness. The names are explained at each module's assumption.

## 3. Runs

| Run | Instance | What it shows |
|---|---|---|
| `pingpong_lossy` | Count = QueueDepth = 10, as in the code; acknowledgements lost, any verbs call may fail, fairness | The pair implements `EchoSpec`; `ReceiveCredit`; `QueuesFit` (ten entries are just enough); `EndsOrStranded`: a program ends unless the other has ended and left it polling an empty queue |
| `pingpong_ordered` | nothing lost, fairness, deadlock checked | The client's expected order of completions holds, and both programs end with all messages echoed; `SendBufferOwned` |
| `pingpong_opcode` | acknowledgements may be late | *Violation*: the client dies on an echo that completes before its send |
| `epoll_faults` | 2 connections, 1 message each, send queue of 2, all mishaps | `NoLostWakeup`, `ReceiveCredit`, `NothingLeaks` |
| `epoll_echo` | 2 connections with 2 messages and 1, a send queue of **one** entry, batches of 2, clients leave before their echo and give up, fairness | While a queue pair works its posts never fail and its connection implements `EchoSpec`; clients are answered, all that was set up for a client that disconnects is reclaimed, and SIGINT ends the loop, unless the loop drains for ever |
| `epoll_stale` | 1 connection that finishes normally | *Violation*: one batch holds the disconnect and a completion of the same connection |
| `epoll_flushed` | 1 connection that leaves early | *Violation*: a failed completion is printed and answered as a message |
| `threads` | 2 connections, 2 slots, 1 message, all mishaps, addresses used again, fairness | `OwnId`, `EventIdAlive`, `OnlyChannelLeaks`; clients are answered; `SlotsKept`: a slot stays only with a thread that never started, was never told, or polls for a client that left |
| `threads_full` | 2 connections for 1 slot, a client leaves early | *Violation*: the table is full of clients that have gone |
| `handshakes02` | 3 connections for 2 slots, clients give up, calls fail, fairness | The table of `rdmacm02` implements `SlotPool`; `Wakes`, `TakenDown`, `SlotsReturn` |
| `handshake` | 3 clients, all mishaps, fairness | `OneClientServed`, `ServerAgrees`, `OnlyDisturbedDies`, `HandshakeEnds` |
| `qp_exchange` | 3 messages, a little-endian client and a big-endian server, all mishaps, fairness | `ConnectedToPeer`, `EchoExpected`, `RoundClosed`, implements `EchoSpec`, `BufferStable`, `ExchangeEnds`, `EchoOrDeath` |

`DrainsForEver`, the exception in the liveness of `epoll_echo`, is a loop the code really has: a failed
completion whose opcode reads as `IBV_WC_RECV` makes the server post a receive and a reply, both of
which fail at once on a queue pair in error, so that `ibv_poll_cq` need never return none. The
properties say that nothing else keeps the server from its clients and from SIGINT.

`Wakes` is claimed without the mishap `reuse`. With it a thread may not be woken: `cm_event_loop` finds
the slot of an ESTABLISHED event by comparing pointers, a thread keeps the pointer in its slot after
`rdma_destroy_id` has freed the id (`rdmacm04/server.c:73-85, 126`), and a new id at that address
matches the old slot first. It needs an allocator that hands the block to the main thread before the
old thread ends; glibc since 2.26 keeps it in the freeing thread's cache until then. `threads` includes
`reuse` and shows what it can cost: no slot but that of a thread that was not woken.

The four violations are real disagreements between the code and what it says of itself; `PROJECT.json`
lists each under `findings` with the line it contradicts. They need nothing but late messages or
departing clients. Every property of a passing run has a mutant there: a plausible bug in one
definition, under which TLC finds the property violated.

### Bounds

- **PingPong** has none in its runs: 10 messages and 10 entries are the code's own literals. The logs are full
  sequences.
- **EpollServer**: two connections are the fewest that can be mixed up, that can share a batch and of
  which one can disconnect while the other is drained. `Count` is each client's `argv[2]`; 1 and 2
  messages take a connection through a first, a following and a last echo. `MaxSendWr` of 1 makes
  `PostNeverFails` stronger than the code's 10, and 2 lets `epoll_faults` reach the failing post.
  `LogBound` caps what is kept of a log, since failed completions lengthen it without end; it is no less
  than `Count`, so that the log of a working connection is whole.
- **ThreadedServer**: two connections and two of the ten slots: a slot is freed and given to another
  connection while a second thread runs. One message each, because the temporal properties are checked
  over the whole graph; the thread's loop over several rounds is that of `rdmacm03`, which `PingPong`
  runs with all ten. `threads_full` has two messages.
- **ThreadedHandshake**: three connections for two slots, so that one is turned away, or gets a slot
  that another has given back.
- **Handshake**: one accepted client and two others, so a request can come before, between and after
  the events of the first. The proofs do not depend on it.
- **QpExchange**: `Messages` bounds the client's endless loop. Three rounds are a first, a middle and a
  last one; each starts from the same queue state (`RoundClosed`).

### Fairness and deadlock

Weak fairness is assumed of each program or thread that runs (the operating system schedules it and
each of its loops polls), and of each adapter's steps: a delivery, an acknowledgement, the end of the
retries. The last is what the verbs promise with `retry_cnt` set: a send request never stays
outstanding for ever. No call has to fail: where failing is one of a program's ways on, the fair
action leaves it out (`Main` without `MainDies`, `Proceeds` without `CallFails`), since fairness of a
mishap would end every wait by force. In `PingPong` an adapter has to give up only on a peer that is
gone. Nothing is assumed of clients that decide to come, to leave or to be killed, of SIGINT, or of
anything listed as a mishap. In `EpollServer` and `ThreadedServer` a client need not send,
but an echo that is posted is delivered. In `Handshake` the CM repeats or gives up a lost message while
the system goes on.

`CHECK_DEADLOCK FALSE` is used in three runs. In `pingpong_lossy` and `pingpong_opcode` a server whose
client has gone without an echo outstanding polls an empty queue for ever, which the code does;
`EndsOrStranded` shows that nothing else is left waiting. In `threads` a thread whose client left waits
the same way, or waits for a semaphore nobody posts; `SlotsKept` and `EchoReturns` say who.
In the other runs the places where a system rightly stops are actions of their own (`Quiet`,
`ServerStopped`), and anything else is reported.

## 4. Proofs

Every invariant that a passing run checks is a theorem, and so are the action properties about buffers
(`SendBufferOwned`, `BufferStable`) and the refinements (`EchoPerConnection`, `ImplementsEcho` of both
programs, `ImplementsPool`). The runs check them on a small instance, the theorems say the same
for every value of the constants. What remains for TLC alone is liveness.

`PingPongProofs` proves for every `Count`, every `QueueDepth` of at least that and of at least two, and
with or without lost acknowledgements and faults:

- `TypeCorrect`, `ReceiveCreditHeld`: `TypeOK` and `ReceiveCredit` always hold;
- `SendBufferSafe`: no step changes a send buffer that the adapter still needs, unless acknowledgements
  may be lost;
- `Implementation`: `PingPong` implements `EchoSpec`, with the logs of the server and the client as its
  requests and replies;
- `QueuesBounded`: `QueuesFit` always holds;
- `CompletionsOrdered`: if no acknowledgement is lost and nothing fails, `CompletionsInOrder` always
  holds. `pingpong_opcode` shows that it does not otherwise.

They rest on the inductive invariant `IInv` of `Invariance`. `ReceiveCredit` alone does not survive a
delivery: that needs to know that at most one message is under way. So `IInv` says where the message is
(`OnePlace`: with the client, on its way, arrived, with the server, on its way back, arrived), what the
buffers and logs hold for that place (`Payloads`), what the client's counter counts (`LoopCounter`) and
that the logs are in order (`LogsInOrder`). `SendBufferSafe` adds `AcksInOrder`, that an
acknowledgement precedes the echo, which holds only if none is lost. The lemmas first say what each
operation of `RcChannel` does to the predicates of the invariant (`PollFacts`, `FlushFacts`, ...), so
that the proof of each step speaks of messages and not of sequences.

`QueuesBounded` needs to know how many sends an end still holds, posted, unacknowledged or completed and
not polled. That follows from where its program is (`Held`, in `HeldInvariance`): the client holds the
one it waits for; the server holds those of its echoes that it has not counted, at most `Count`. A
receive completion makes one entry more, but then a message is still to be echoed. The sends in a queue
are counted as the cardinality of a set (`Sends`), of which the prover knows what adding and removing an
element does. The two entries of `QueueAssumption` are the client's send and echo; the code has ten.
`CompletionsOrdered` strengthens its property to `Order`, which says where in the client's queue the one
send completion is for each position of the program. The assumptions are those the
modules name (`CountAssumption`, `QueueAssumption`, `SwitchAssumption`), and for `CompletionsOrdered`
that `AcksLost` and `Faults` are false, as in the run `pingpong_ordered`.

`HandshakeProofs` proves for every set of clients and every choice of mishaps:

- `TypeCorrect`, `AtMostOneServed`, `Agreement`, `DiesDisturbed`: the four invariants of the run
  `handshake` always hold.

They rest on its own `IInv`. `ServerAgrees` and `OnlyDisturbedDies` are about the moment an event is
taken, so the invariant has to say what every event still in the channel will mean then: requests are
those of other clients, one of each (`Requests`); every other event belongs to the accepted client and is
true of it (`OwnEvents`); a disconnect of an undisturbed client has its ESTABLISHED before it
(`InOrder`), and a client that goes on has announced itself (`Announced`). Most steps only move clients
forward (`Onward`) and do one of four things to the channel (`OwnStep`); `ChannelStep` proves `Requests`
and `OwnEvents` once for all of them. `OnlyDisturbedDies` is strengthened to `Disturbed`: a lost message
may still turn into a late one, after which the property would not be explained by it, unless the client
has gone. The only assumption used is `ClientsAssumption`.

`EpollServerProofs` proves for any number of connections, messages and queue
entries, any size of a batch of events or completions and every choice of mishaps:

- `TypeCorrect`, `WakeupsSafe`, `CreditSafe`, `TeardownComplete`: `TypeOK`, `NoLostWakeup`,
  `ReceiveCredit` and `NothingLeaks` always hold.

`NoLostWakeup` does not hold on its own after the last `ibv_poll_cq`: the loop leaves the queue, and it
has to be armed, or an event to be in the channel, from the moment the loop armed it until then
(`Rearmed`). `ReceiveCredit` speaks of all completions of a connection, those polled and those in the
queue, in one sequence (`Pending`), so that a poll changes nothing and handling one takes the first; it
needs that a working queue pair has no failed completions, of which the opcode would be undefined, that a
connection's completions name that connection (`Routed`), and that its receive is posted again except
in the step that ends the server, where `ibv_post_recv` fails: the inductive part
exempts the connection the server died on (`LivingCredits`). Both have to know that a connection about to be set up has an empty queue, that
a connection being handled is set up, and which events can still come: `Events` says what
each event in the channel means for the connection (one request, one ESTABLISHED, a disconnect last) and
for the client. The invariant is inductive part by part: a lemma for each part says what the harmless
steps leave alone (`EventsKept`, `QueuesKept`, `WakeupsKept`, `CreditsKept`), and the step lemmas go
through the actions. `TeardownComplete` follows from what the teardown order does to any set of verbs
objects (`DestroysAll`). The assumptions used are `BoundsAssumption`, of which it matters that a poll
asks for at least one completion, and `ChannelAssumption`.

`EpollEchoProofs` goes on from there:

- `EchoSafe`: if the logs are kept whole (`Count[c] <= LogBound`, which only bounds the model), every
  connection implements `EchoSpec` while its queue pair works (`EchoPerConnection`);
- `SendQueueSafe`: if no acknowledgement is lost, `PostNeverFails` always holds, for any send queue of
  at least one entry. `epoll_faults` includes the lost acknowledgement and does not claim it.

Both rest on `EchoInvariance`, which says of each connection on its own where its one message is
(`OnePlace`: with the client, received and not handled, being answered, on its way back), what the
buffers and logs hold for that place (`Payloads`), how far the client is (`Stages`), and that the send
completion of an echo comes before the next message (`Acks`). What makes it hold for all connections at
once is that a step is about one of them: `SameKept` and `EchoesKept` reduce each step to the connection
it is about, and the lemmas then go through the actions. `ReceiveCredit` is needed: with a second
receive a message could overtake the one in `recv_buff`.

`CmThreadsProofs`, `ThreadedServerProofs` and `ThreadedHandshakeProofs` prove for any set of connections,
any number of slots and every choice of mishaps, the reuse of addresses among them:

- `TypeCorrect`, `IdsAreOwn`, `EventsAlive`, `LeaksOnlyChannels`: `TypeOK`, `OwnId`, `EventIdAlive` and
  `OnlyChannelLeaks` always hold in `rdmacm04`, and `IdsSafe`: `OwnId` and `EventIdAlive` in `rdmacm02`;
- `Refinement`, one for each program: the table implements `SlotPool`.

The two programs differ in what a thread does between its semaphore and its teardown, so the invariant
`CmInv` and the steps that keep it are in `CmThreadsProofs` once. `CmNext` is what `CmThreads` sees of a
step of either program, and `ThreadedServerProofs` and `ThreadedHandshakeProofs` show that each of their steps
is one of those. `OwnId` and `EventIdAlive` are not inductive. A thread keeps its slot because main takes
only free ones and a slot is cleared only by its own thread (`OwnSlots`), but that main does not take a
second slot for a connection which has one needs that a client asks once and that its request is in one
place: not yet made, in the channel, or with main (`Requests`). An id lives while main has an event of
it, since `rdma_destroy_id` waits for the acknowledgement, and takes those not yet fetched out of the
channel (`Alive`); only a request may speak of an id that need not be there. What `rdma_destroy_id`
leaves in the channel is a recursive function (`Others`), and `OthersFacts` says of it what the
invariant needs: a subsequence, without that id. That lemma is an induction over the length of the
channel. The library's induction theorems take an operator, which no prover here can instantiate;
`SetInduction` states induction for a *set* of numbers instead, and follows from the well-foundedness of
the finite subsets of `Nat`, which the library proves. Finally `LeaksOnlyChannels` follows from what
`TeardownOrder` does to any set of objects (`DestroysAllButChannel`). The assumptions used are
`BoundsAssumption` and `NullAssumption`, and `RoundsAssumption` for `rdmacm04`.

`QpExchangeProofs` proves for every number of messages, either byte order at each host and every choice
of mishaps:

- `TypeCorrect`, `ConnectedRight`, `EchoFindsReceive`, `RoundsClosed`: `TypeOK`, `ConnectedToPeer`,
  `EchoExpected` and `RoundClosed` always hold;
- `Refinement`: `QpExchange` implements `EchoSpec`;
- `BufferSafe`: no step changes a buffer from which a message may still be sent (`BufferStable`).

`ConnectedRight` reduces to the conversions undoing each other, for both orders (`NetOrder`, `InMemory`);
what is on the wire and in `remote_info` is then known exactly (`Addresses`). The rest is about queues.
At each position of a program, what its queue pair has outstanding is one of a few cases that the
invariant lists (`ServerQueues`, `ClientQueues`): the server has one request at a time; the client's send
and its receive complete in any order and one of them may be counted (`Waiting`), and once the send has
failed nothing but errors follows (`Failing`). `RoundsClosed` needs just that: the two
completions counted are one of each kind, and of the same round. `AtServer`, `AtClient` and `Logs` tie
the logs and the two buffers to `msg_count`: the message is at the server, or under way, or the echo is
printed. `BufferSafe` uses that what the adapter writes into the client's buffer while its own message
may still be sent again is that same message. The only assumption used is `BoundsAssumption`.

Only model-checked: liveness (`AllEchoed`, `EndsOrStranded`, `EchoReturns`, `Reclaimed`, `SigintExits`,
`Wakes`, `TakenDown`, `SlotsReturn`, `SlotsKept`, `HandshakeEnds`, `ExchangeEnds`, `EchoOrDeath`). It rests
on fairness, and so on `ENABLED`, which is out of reach of the prover. The violations of the four runs are
counterexamples and need no proof.

## 5. Not modelled

- `example01`: lists the devices and prints them; there is no state and nothing can go wrong but the
  one call, which ends it.
- `example02`: one thread without a loop of its own opens a device, queries and prints its ports and goes
  through two labels that give back what it holds. Nothing interleaves with it.
- The clients of `rdmacm04` and `rdmacm05` beyond what their server sees: connect, send the next
  message after the echo of the last, disconnect or disappear. Their inner loop is that of `rdmacm03`.
- Failures of setup calls before a connection is asked for (allocation, address resolution, opening a
  device) end a program with `die` before it touches anyone else; they appear only as a client that
  never comes. The same calls inside a server's request handler are modelled where they change what
  other clients see.
- An overflow of the completion queue of `rdmacm05` (`common.c:87`), which `EpollServer` does not bound.
  It holds ten entries, the ten sends of the send queue and one receive can complete before the loop
  polls. That takes ten echoes whose acknowledgements are all lost until the eleventh message is there,
  or the failed completions of a queue pair in error, which is of no use to a client any more. For
  `rdmacm03`, where ten is the number of messages, `QueuesFit` is about just this bound.
- Memory that is read after it was freed within one step (`rdmacm05/server.c:115, 120`): no model here
  can tell the values apart.
- Logging, time stamps and the names of events.

## 6. Plan

Done: the abstract echo channel, ping-pong, the epoll server, the two threaded servers over one slot
pool, the handshake and the queue-pair exchange, and the proofs of every invariant, action property and
refinement among their properties. Next:

1. The safety that liveness rests on, as invariants with the guards written out: a connection still to
   be taken down has a thread or an event left to do it (`TakenDown`, `Reclaimed`), and a program that
   has not ended has a step or waits for one of a named few (`EndsOrStranded`, `HandshakeEnds`).
2. An address as a constant of `QpExchange` instead of two values with distinct bytes.
