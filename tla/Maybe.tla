------------------------------- MODULE Maybe -------------------------------
(***************************************************************************)
(* Python's None, shared by the modules a composition extends together.    *)
(***************************************************************************)
CONSTANT None
============================================================================
