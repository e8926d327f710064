--------------------------- MODULE MCEpollServer ---------------------------
(***************************************************************************)
(* EpollServer for TLC: how many messages each client sends, and that the  *)
(* connections are interchangeable as long as that is the same for all.    *)
(***************************************************************************)
EXTENDS EpollServer, TLC

OneEach == [c \in Conns |-> 1]

\* One client sends two messages, the others one.
OneAndTwo ==
    LET longer == CHOOSE c \in Conns : TRUE
    IN  [c \in Conns |-> IF c = longer THEN 2 ELSE 1]

ConnSymmetry == Permutations(Conns)
=============================================================================
