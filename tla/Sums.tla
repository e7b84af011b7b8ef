-------------------------------- MODULE Sums --------------------------------
(***************************************************************************)
(* Sums over a set of places, shared by the modules that add amounts up.   *)
(***************************************************************************)
EXTENDS Integers, FiniteSetsExt

\* The sum of a function of places.
SumOf(f) ==
    LET last == Max({0} \cup DOMAIN f)
        upTo[n \in 0..last] ==
            IF n = 0 THEN 0 ELSE upTo[n - 1] + (IF n \in DOMAIN f THEN f[n] ELSE 0)
    IN  upTo[last]
=============================================================================
