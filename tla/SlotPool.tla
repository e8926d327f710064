------------------------------ MODULE SlotPool ------------------------------
(***************************************************************************)
(* What g_ctxs promises to the threads of rdmacm02 and rdmacm04: a table   *)
(* of slots in which a thread finds the id of its own connection for as    *)
(* long as it uses it.  A slot is given to a connection that has none, and *)
(* becomes free only when its connection is no longer used.                *)
(***************************************************************************)
CONSTANTS Slots, Conns, NULL

VARIABLES
    owner,  \* the connection in each slot
    using   \* the connections whose thread still uses its slot's id

vars == <<owner, using>>

Init == owner = [s \in Slots |-> NULL] /\ using = {}

\* The connection's thread may fail to start.
Claim(s, c) ==
    /\ owner[s] = NULL
    /\ c \notin using /\ \A t \in Slots : owner[t] # c
    /\ owner' = [owner EXCEPT ![s] = c]
    /\ using' \in {using, using \union {c}}

Finish(c) ==
    /\ c \in using
    /\ using' = using \ {c}
    /\ UNCHANGED owner

Release(s) ==
    /\ owner[s] \notin using
    /\ owner' = [owner EXCEPT ![s] = NULL]
    /\ UNCHANGED using

Next ==
    \/ \E s \in Slots : Release(s) \/ \E c \in Conns : Claim(s, c)
    \/ \E c \in Conns : Finish(c)

Spec == Init /\ [][Next]_vars
=============================================================================
