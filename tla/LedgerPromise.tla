--------------------------- MODULE LedgerPromise ---------------------------
(***************************************************************************)
(* What the ledger promises its owner, with no word of sessions, locks or  *)
(* scans: each bet is recorded once, settled at most once and for good,    *)
(* and given at most one closing line, never while it is void.  The rules  *)
(* are those of the docstrings of services/bets.py and                     *)
(* services/wallet_import.py.                                              *)
(***************************************************************************)
EXTENDS Integers

CONSTANTS Bets, Fills, None

VARIABLES status, key, closing

vars == <<status, key, closing>>

Init ==
    /\ status = [b \in Bets |-> "absent"]
    /\ key = [b \in Bets |-> None]
    /\ closing = [b \in Bets |-> FALSE]

Recorded == {b \in Bets : status[b] # "absent"}

\* New bets enter the ledger open, no two with the same import key.
Record(new) ==
    /\ new # {} /\ new \cap Recorded = {}
    /\ status' = [b \in Bets |-> IF b \in new THEN "open" ELSE status[b]]
    /\ \A b \in Bets \ new : key'[b] = key[b]
    /\ \A b \in new, c \in Recorded \cup new :
          (key'[b] # None /\ key'[b] = key'[c]) => b = c
    /\ UNCHANGED closing

\* Open bets get a result, and keep it.
Settle(done) ==
    /\ done # {} /\ \A b \in done : status[b] = "open"
    /\ \A b \in done : status'[b] \in {"won", "lost", "push", "void"}
    /\ \A b \in Bets \ done : status'[b] = status[b]
    /\ UNCHANGED <<key, closing>>

\* Recorded bets that are not void get their closing line.
Capture(due) ==
    /\ due # {}
    /\ \A b \in due : status[b] \notin {"absent", "void"} /\ ~closing[b]
    /\ closing' = [b \in Bets |-> closing[b] \/ b \in due]
    /\ UNCHANGED <<status, key>>

Next == \E bs \in SUBSET Bets : Record(bs) \/ Settle(bs) \/ Capture(bs)

Spec == Init /\ [][Next]_vars
============================================================================
