------------------------------ MODULE EchoSpec ------------------------------
(***************************************************************************)
(* What one echo connection promises: the server gets the client's Count   *)
(* messages in order and exactly once, and the client gets each of them    *)
(* back before the server gets the next one.  A message is its number, the *)
(* %02d of the client's "msg-%02d: hello".                                 *)
(***************************************************************************)
EXTENDS Naturals, Sequences

CONSTANT Count      \* messages the client sends

VARIABLES
    requests,       \* the messages the server has printed, oldest first
    replies         \* the echoes the client has printed, oldest first

vars == <<requests, replies>>

Init == requests = <<>> /\ replies = <<>>

\* The server gets the next message: only once its last one came back.
Serve ==
    /\ Len(requests) = Len(replies)
    /\ Len(requests) < Count
    /\ requests' = Append(requests, Len(requests))
    /\ UNCHANGED replies

\* The client gets the echo of the message the server got last.
Answer ==
    /\ Len(replies) < Len(requests)
    /\ replies' = Append(replies, requests[Len(replies) + 1])
    /\ UNCHANGED requests

Next == Serve \/ Answer

Spec == Init /\ [][Next]_vars
=============================================================================
