----------------------------- MODULE MCLedger -----------------------------
(***************************************************************************)
(* Constants for TLC: one market, a web process with the scheduler's scan  *)
(* job and the owner's forms, and command-line processes.                  *)
(***************************************************************************)
EXTENDS Ledger

MCProcOf == [s \in Sessions |-> IF s \in {"job", "owner"} THEN "web" ELSE "cli"]
MCFillMarket == [f \in Fills |-> CHOOSE m \in Markets : TRUE]
MCFillToken == [f \in Fills |-> "A"]
===========================================================================
