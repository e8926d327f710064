------------------------------- MODULE Verbs -------------------------------
(***************************************************************************)
(* Who keeps whom alive among the verbs objects of one connection: its     *)
(* protection domain, completion channel, completion queue, queue pair and *)
(* memory regions.  ibv_destroy_* and ibv_dealloc_pd refuse to destroy     *)
(* what is in use, and none of the programs looks at what they return.     *)
(***************************************************************************)

\* What r is created from.
Needs(r) ==
    CASE r = "cq" -> {"cc"}
      [] r = "qp" -> {"pd", "cq"}
      [] r = "mr" -> {"pd"}
      [] OTHER    -> {}

Resources == {"pd", "cc", "cq", "qp", "mr"}

\* What there is after an attempt on r, when there was S.
Create(r, S) == IF Needs(r) \subseteq S THEN S \union {r} ELSE S
Destroy(r, S) == IF \E user \in S : r \in Needs(user) THEN S ELSE S \ {r}

\* The same after an attempt on each of the five, in order.
CreateAll(order) ==
    LET after(k, S) == Create(order[k], S)
    IN  after(5, after(4, after(3, after(2, after(1, {})))))
DestroyAll(order, S) ==
    LET after(k, left) == Destroy(order[k], left)
    IN  after(5, after(4, after(3, after(2, after(1, S)))))
=============================================================================
