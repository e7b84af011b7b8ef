----------------------------- MODULE MCClosing -----------------------------
(***************************************************************************)
(* Constants for TLC: interchangeable processes.                           *)
(***************************************************************************)
EXTENDS Closing, TLC

MCSymmetry == Permutations(Scanners)
============================================================================
