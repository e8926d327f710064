----------------------------- MODULE RcChannel -----------------------------
(***************************************************************************)
(* The reliable-connected pair of queue pairs under an echo connection:    *)
(* what libibverbs and the adapters do between the calls of src/.  Nothing *)
(* here is repository code; it is the part of the verbs the programs rely  *)
(* on.                                                                     *)
(*                                                                         *)
(* A send work request is posted (its message not yet in the peer's        *)
(* memory), then unacked (delivered, the acknowledgement not yet back),    *)
(* then completes.  Delivery consumes a receive work request of the peer;  *)
(* without one the sender waits (rnr_retry_count = 7 means for ever).      *)
(* Both queues of an end complete into one completion queue (send_cq =     *)
(* recv_cq in setup_connection), so the order of a SEND and a RECV         *)
(* completion is the order in which the acknowledgement and the peer's     *)
(* message arrive.                                                         *)
(***************************************************************************)
EXTENDS Naturals, Sequences

CONSTANTS
    AcksLost,   \* may an acknowledgement be lost, or arrive late?
    Faults      \* may verbs calls fail and a live link exhaust its retries?

VARIABLES
    qp,         \* state of the queue pair of each end: "RTS" or "ERR"
    posted,     \* sends whose message is not delivered
    unacked,    \* sends delivered and not acknowledged
    rq,         \* receive work requests waiting for a message
    cq          \* the completion queue of each end

rcVars == <<qp, posted, unacked, rq, cq>>

Ends == {"client", "server"}

Peer(e) == IF e = "client" THEN "server" ELSE "client"

WorkCompletions == {"SEND", "RECV", "ERR"}

RcTypeOK ==
    /\ qp \in [Ends -> {"RTS", "ERR"}]
    /\ posted \in [Ends -> Nat]
    /\ unacked \in [Ends -> Nat]
    /\ rq \in [Ends -> Nat]
    /\ cq \in [Ends -> Seq(WorkCompletions)]

(***************************************************************************)
(* Calls of the program.                                                   *)
(***************************************************************************)

\* The queue pair goes to the error state: every work request it still
\* holds completes with an error.
Flush(e) ==
    /\ qp' = [qp EXCEPT ![e] = "ERR"]
    /\ cq' = [cq EXCEPT ![e] =
                 @ \o [k \in 1..(posted[e] + unacked[e] + rq[e]) |-> "ERR"]]
    /\ posted' = [posted EXCEPT ![e] = 0]
    /\ unacked' = [unacked EXCEPT ![e] = 0]
    /\ rq' = [rq EXCEPT ![e] = 0]

\* ibv_post_recv; on a queue pair in error the request completes at once.
PostRecv(e) ==
    /\ IF qp[e] = "RTS"
         THEN rq' = [rq EXCEPT ![e] = @ + 1] /\ UNCHANGED cq
         ELSE cq' = [cq EXCEPT ![e] = Append(@, "ERR")] /\ UNCHANGED rq
    /\ UNCHANGED <<qp, posted, unacked>>

\* ibv_post_send of a signalled request, likewise.
PostSend(e) ==
    /\ IF qp[e] = "RTS"
         THEN posted' = [posted EXCEPT ![e] = @ + 1] /\ UNCHANGED cq
         ELSE cq' = [cq EXCEPT ![e] = Append(@, "ERR")] /\ UNCHANGED posted
    /\ UNCHANGED <<qp, unacked, rq>>

\* ibv_poll_cq(cq, 1, &wc) that returned wc.
PollCq(e, wc) ==
    /\ cq[e] # <<>>
    /\ wc = Head(cq[e])
    /\ cq' = [cq EXCEPT ![e] = Tail(@)]
    /\ UNCHANGED <<qp, posted, unacked, rq>>

(***************************************************************************)
(* Steps of the adapters.                                                  *)
(***************************************************************************)

\* The message of e's oldest posted send lands in the peer's receive
\* buffer.  The peer's earlier acknowledgements precede it on the same path
\* unless they may be lost and sent again.
Deliver(e) ==
    /\ qp[e] = "RTS" /\ qp[Peer(e)] = "RTS"
    /\ posted[e] > 0
    /\ rq[Peer(e)] > 0
    /\ AcksLost \/ unacked[Peer(e)] = 0
    /\ posted' = [posted EXCEPT ![e] = @ - 1]
    /\ unacked' = [unacked EXCEPT ![e] = @ + 1]
    /\ rq' = [rq EXCEPT ![Peer(e)] = @ - 1]
    /\ cq' = [cq EXCEPT ![Peer(e)] = Append(@, "RECV")]
    /\ UNCHANGED qp

\* The acknowledgement of e's oldest delivered send arrives.
Acknowledge(e) ==
    /\ qp[e] = "RTS"
    /\ unacked[e] > 0
    /\ unacked' = [unacked EXCEPT ![e] = @ - 1]
    /\ cq' = [cq EXCEPT ![e] = Append(@, "SEND")]
    /\ UNCHANGED <<qp, posted, rq>>

\* e's retries (retry_count = 3) are exhausted: the peer's queue pair is
\* gone, or the link is.
RetryExceeded(e) ==
    /\ qp[e] = "RTS"
    /\ qp[Peer(e)] = "ERR" \/ Faults
    /\ posted[e] + unacked[e] > 0
    /\ AcksLost \/ unacked[e] = 0
    /\ Flush(e)
=============================================================================
