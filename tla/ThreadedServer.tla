--------------------------- MODULE ThreadedServer ---------------------------
(***************************************************************************)
(* rdmacm04: a thread for every connection that echoes Rounds messages     *)
(* once its connection is established, takes it down and frees what        *)
(* setup_connection created.                                               *)
(*                                                                         *)
(* What a completion queue holds of each kind is counted here; the order   *)
(* of the completions of one connection is PingPong's subject.             *)
(***************************************************************************)
EXTENDS CmThreads

CONSTANT Rounds     \* messages per connection, 10
ASSUME RoundsAssumption == Rounds \in Nat \ {0}

VARIABLES
    n,          \* the loop counter i of each thread: completed sends
    inbox,      \* is there a RECV completion?
    posted,     \* is there a send not yet delivered?
    unacked,    \* sends delivered and not acknowledged
    sends,      \* SEND completions
    sent        \* messages the client has sent

sendVars == <<posted, unacked, sends>>
echoVars == <<n, inbox, sendVars, sent>>
vars == <<cmVars, echoVars>>

TypeOK ==
    /\ CmTypeOK
    /\ n \in [Conns -> 0..Rounds] /\ sent \in [Conns -> 0..Rounds]
    /\ inbox \in [Conns -> BOOLEAN] /\ posted \in [Conns -> BOOLEAN]
    /\ unacked \in [Conns -> Nat] /\ sends \in [Conns -> Nat]

Init ==
    /\ CmInit
    /\ n = [c \in Conns |-> 0] /\ sent = [c \in Conns |-> 0]
    /\ inbox = [c \in Conns |-> FALSE] /\ posted = [c \in Conns |-> FALSE]
    /\ unacked = [c \in Conns |-> 0] /\ sends = [c \in Conns |-> 0]

(***************************************************************************)
(* handle_request.                                                         *)
(***************************************************************************)

\* What setup_connection creates, if it does not end the process.
SetupConnection == CreateAll(<<"pd", "cc", "cq", "qp", "mr">>)

\* Mutation: the echo is not posted.
EchoPostedNever(c) == FALSE
EchoPosted(c) == qp[c] = "RTS"

\* A RECV completion: the receive is posted again and the echo is sent; on
\* a queue pair in error both come back with an error.
ServeRecv(c) ==
    /\ wpc[c] = "serve" /\ inbox[c]
    /\ inbox' = [inbox EXCEPT ![c] = FALSE]
    /\ posted' = [posted EXCEPT ![c] = EchoPosted(c)]
    /\ UNCHANGED <<cmVars, n, unacked, sends, sent>>

\* A SEND completion; the last one ends the loop.
ServeSend(c) ==
    /\ Goto(c, "serve", IF n[c] + 1 < Rounds THEN "serve" ELSE "disconnect")
    /\ sends[c] > 0
    /\ sends' = [sends EXCEPT ![c] = @ - 1]
    /\ n' = [n EXCEPT ![c] = @ + 1]
    /\ UNCHANGED <<tableVars, mainVars, cmq, ctx, res, qp, peer, inbox, posted, unacked, sent>>

\* A failed completion, behind those that came before it, ends the loop.
ServeBreaks(c) ==
    /\ Goto(c, "serve", "disconnect")
    /\ qp[c] = "ERR" /\ ~inbox[c] /\ sends[c] = 0
    /\ UNCHANGED <<tableVars, mainVars, cmq, ctx, res, qp, peer, echoVars>>

\* A call fails: most end the process; ibv_poll_cq ("goto err") and
\* ibv_req_notify_cq ("break") end the loop.
CallFails(c) ==
    \/ (wpc[c] = "start" \/ (wpc[c] = "serve" /\ inbox[c])) /\ Die /\ UNCHANGED echoVars
    \/ /\ "verbs_fail" \in Mishaps
       /\ Goto(c, "serve", "disconnect")
       /\ UNCHANGED <<tableVars, mainVars, cmq, ctx, res, qp, peer, echoVars>>

\* Mutation: the protection domain goes before the memory regions.
TeardownOrderPdFirst == <<"cc", "qp", "cq", "pd", "mr">>

\* The order in which a thread destroys what it has.
TeardownOrder == <<"cc", "qp", "cq", "mr", "pd">>

Teardown(c) ==
    /\ Goto(c, "teardown", "clear")
    /\ res' = [res EXCEPT ![c] = DestroyAll(TeardownOrder, @)]
    /\ UNCHANGED <<tableVars, mainVars, cmq, ctx, qp, peer, echoVars>>

Proceeds(c) ==
    \/ /\ \/ Accept(c, SetupConnection) \/ SemWait(c, "serve")
          \/ Disconnect(c) \/ DestroyId(c, "teardown") \/ ClearSlot(c) \/ SemDestroy(c)
       /\ UNCHANGED echoVars
    \/ ServeRecv(c) \/ ServeSend(c) \/ ServeBreaks(c) \/ Teardown(c)

handle_request(c) == Proceeds(c) \/ CallFails(c)

(***************************************************************************)
(* The clients, and the adapter.                                           *)
(***************************************************************************)
PeerConnects(c) ==
    /\ \/ PeerConnect(c) \/ PeerEstablished(c) \/ PeerGivesUp(c)
       \/ /\ (peer[c] = "idle" /\ sent[c] = Rounds) \/ "leave" \in Mishaps
          /\ PeerLeaves(c)
    /\ UNCHANGED echoVars

PeerSends(c) ==
    /\ peer[c] = "idle" /\ sent[c] < Rounds
    /\ qp[c] = "RTS" /\ ~inbox[c]
    /\ inbox' = [inbox EXCEPT ![c] = TRUE]
    /\ peer' = [peer EXCEPT ![c] = "waiting"]
    /\ sent' = [sent EXCEPT ![c] = @ + 1]
    /\ UNCHANGED <<tableVars, mainVars, cmq, workerVars, n, sendVars>>

EchoArrives(c) ==
    /\ peer[c] = "waiting" /\ posted[c] /\ qp[c] = "RTS"
    /\ posted' = [posted EXCEPT ![c] = FALSE]
    /\ unacked' = [unacked EXCEPT ![c] = @ + 1]
    /\ peer' = [peer EXCEPT ![c] = "idle"]
    /\ UNCHANGED <<tableVars, mainVars, cmq, workerVars, n, inbox, sends, sent>>

AckArrives(c) ==
    /\ unacked[c] > 0 /\ qp[c] = "RTS"
    /\ unacked' = [unacked EXCEPT ![c] = @ - 1]
    /\ sends' = [sends EXCEPT ![c] = @ + 1]
    /\ UNCHANGED <<cmVars, n, inbox, posted, sent>>

RetryExceeded(c) ==
    /\ posted[c] /\ qp[c] = "RTS" /\ peer[c] = "gone"
    /\ qp' = [qp EXCEPT ![c] = "ERR"]
    /\ posted' = [posted EXCEPT ![c] = FALSE]
    /\ UNCHANGED <<tableVars, mainVars, cmq, wpc, ctx, res, peer, n, inbox, unacked, sends, sent>>

Network(c) == EchoArrives(c) \/ AckArrives(c) \/ RetryExceeded(c)

(***************************************************************************)
(* The system.                                                             *)
(***************************************************************************)

\* cm_event_loop.
cm_event_loop == (Main \/ MainDies) /\ UNCHANGED echoVars

\* A slot whose client is gone and whose thread polls a completion queue
\* that will stay empty.
Abandoned(s) ==
    /\ id[s] # NULL /\ peer[id[s]] = "gone"
    /\ LET c == id[s]
       IN  /\ wpc[c] = "serve" /\ qp[c] = "RTS"
           /\ ~inbox[c] /\ ~posted[c] /\ unacked[c] = 0 /\ sends[c] = 0

Next ==
    \/ cm_event_loop
    \/ \E c \in Conns :
          Running /\ (handle_request(c) \/ PeerConnects(c) \/ PeerSends(c) \/ Network(c))
    \/ (Quiet \/ ~Running) /\ UNCHANGED vars

Spec == Init /\ [][Next]_vars

\* Every thread runs on, and the adapters go on with what they have.  No
\* call has to fail.
FairSpec ==
    /\ Spec
    /\ WF_vars(Main /\ UNCHANGED echoVars)
    /\ \A c \in Conns :
          /\ WF_vars(Running /\ Proceeds(c))
          /\ WF_vars(Running /\ Network(c))

(***************************************************************************)
(* Properties.                                                             *)
(***************************************************************************)

\* All a finished thread leaves behind is its completion channel
\* (server.c:75-82).
OnlyChannelLeaks == \A c \in Conns : wpc[c] = "exited" => res[c] \subseteq {"cc"}

\* A client whose thread is at its messages is answered, whatever the other
\* threads do, unless a call of that thread ends its loop (server.c:42-70).
EchoReturns ==
    \A c \in Conns :
        peer[c] = "waiting" /\ wpc[c] = "serve"
            ~> peer[c] # "waiting" \/ wpc[c] # "serve" \/ ~Running

\* What keeps a slot for ever once its client is gone: its thread never
\* started, never heard that the connection is established, or polls in
\* vain.  Nothing else does (server.c:31, 42-45, 114-119).
SlotsKept ==
    \A s \in Slots : <>[](~Running \/ id[s] = NULL \/ peer[id[s]] # "gone"
                             \/ NeverEstablished(s) \/ Abandoned(s))

\* "Reached maximum number of clients" is printed when there are that many
\* (server.c:108-109), not when the clients have long gone.
FullOfClients ==
    mpc = "full" => \E s \in Slots : ~(Abandoned(s) \/ NeverEstablished(s))
=============================================================================
