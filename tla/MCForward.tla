----------------------------- MODULE MCForward -----------------------------
(***************************************************************************)
(* Constants for TLC: the order in which the index lists the markets.      *)
(***************************************************************************)
EXTENDS Forward

CONSTANTS m1, m2

\* Both games start at 1, or the venue does not say when the second does.
MCKickoffs == {[m \in Markets |-> 1], [m \in Markets |-> IF m = m1 THEN 1 ELSE None]}

MCRank == [m \in Markets |-> IF m = m1 THEN 1 ELSE 2]
============================================================================
