-------------------------------- MODULE Wire --------------------------------
(***************************************************************************)
(* A Books refresh on the wire: one Odds API request per league            *)
(* (clients/oddsapi.py), retried by the transport (clients/transport.py)   *)
(* after a timeout or a 5xx although the server may have charged for it,   *)
(* and the credits the scan writes down (services/scan.py).                *)
(*                                                                         *)
(* The server's own count is a variable: an attempt charges or not, and    *)
(* the answer arrives or not.  The numbers of games and books are left     *)
(* out, and so is the ESPN fallback, which costs nothing.                  *)
(***************************************************************************)
EXTENDS Maybe, Integers, Sequences, FiniteSetsExt

CONSTANTS
    Enabled,        \* number of enabled leagues
    CreditCost,     \* what estimate_cost says of one request
    Retries,        \* DEFAULT_RETRIES
    Budget,         \* credits of the month
    MaxRefreshes    \* bound on refreshes

ASSUME WireAssumption ==
    /\ {Enabled, CreditCost, Retries, Budget, MaxRefreshes} \subseteq Nat
    /\ None \notin Int /\ None \notin [cost : Int, remaining : Int]
    /\ None \notin [used : Int \cup {None}, remaining : Int \cup {None}]

VARIABLES
    used,           \* credits the server has charged
    wirePc,
    league,         \* leagues asked so far
    attempt,        \* of the request under way, from 0
    answered,       \* requests whose answer was taken (history)
    lost,           \* requests given up (history)
    creditsUsed,    \* state.credits_used
    creditsRemaining,   \* state.credits_remaining
    usedBefore,     \* used when the refresh began (history)
    quotas          \* [used, remaining] of the scans stored, in order

wireVars == <<used, wirePc, league, attempt, answered, lost, creditsUsed, creditsRemaining,
              usedBefore, quotas>>

\* estimate_books_cost: what the owner is asked to agree to.
EstimatedCost == CreditCost * Enabled

\* The last attempt of a request?  (Slip: counted from one.)
LastAttemptFromOne(n) == n = Retries + 1
LastAttempt(n) == n = Retries

\* record_quota: the cost the answer states, or else the estimate, is added up,
\* and the last remaining count stated is kept.
Spent(stated) ==
    (IF creditsUsed = None THEN 0 ELSE creditsUsed)
        + (IF stated = None THEN CreditCost ELSE stated.cost)
RemainingAfter(stated) == IF stated = None THEN creditsRemaining ELSE stated.remaining

\* quota_status: of the newest scan that knows what remains.
QuotaStatus ==
    LET known == {i \in DOMAIN quotas : quotas[i].remaining # None}
    IN  IF known = {} THEN None ELSE quotas[Max(known)]

---------------------------------------------------------------------------
RefreshStarts ==
    /\ wirePc = "idle" /\ Len(quotas) < MaxRefreshes
    /\ wirePc' = "asking" /\ league' = 0 /\ attempt' = 0 /\ answered' = 0 /\ lost' = 0
    /\ creditsUsed' = None /\ creditsRemaining' = None /\ usedBefore' = used
    /\ UNCHANGED <<used, quotas>>

Asking == wirePc = "asking" /\ league < Enabled
Charged(cost) == used + cost <= Budget /\ used' = used + cost

\* The answer comes with or without the quota headers; a league without games is free.
Answered(cost, stated) ==
    LET quota == IF stated THEN [cost |-> cost, remaining |-> Budget - used - cost] ELSE None
    IN  /\ Asking /\ Charged(cost)
        /\ creditsUsed' = Spent(quota) /\ creditsRemaining' = RemainingAfter(quota)
        /\ league' = league + 1 /\ attempt' = 0 /\ answered' = answered + 1
        /\ UNCHANGED <<wirePc, lost, usedBefore, quotas>>

\* A timeout, a broken connection or a 5xx, before or after the server charged:
\* asked again until the last attempt, which is raised.
NotAnswered(cost) ==
    LET last == LastAttempt(attempt)
    IN  /\ Asking /\ Charged(cost)
        /\ attempt' = IF last THEN 0 ELSE attempt + 1
        /\ league' = IF last THEN league + 1 ELSE league
        /\ lost' = IF last THEN lost + 1 ELSE lost
        /\ UNCHANGED <<wirePc, answered, creditsUsed, creditsRemaining, usedBefore, quotas>>

\* A 4xx, or a body that cannot be used: raised at once, and what it says of the
\* quota with it.
Unusable(cost) ==
    /\ Asking /\ Charged(cost)
    /\ league' = league + 1 /\ attempt' = 0 /\ lost' = lost + 1
    /\ UNCHANGED <<wirePc, answered, creditsUsed, creditsRemaining, usedBefore, quotas>>

\* The scan commits, or is rolled back and stored as failed without its credits.
RefreshStored(ok) ==
    /\ wirePc = "asking" /\ (ok => league = Enabled)
    /\ wirePc' = "idle"
    /\ quotas' = Append(quotas, [used |-> IF ok THEN creditsUsed ELSE None,
                                 remaining |-> IF ok THEN creditsRemaining ELSE None])
    /\ UNCHANGED <<used, league, attempt, answered, lost, creditsUsed, creditsRemaining,
                   usedBefore>>

WireInit ==
    /\ used = 0 /\ wirePc = "idle" /\ league = 0 /\ attempt = 0 /\ answered = 0 /\ lost = 0
    /\ creditsUsed = None /\ creditsRemaining = None /\ usedBefore = 0 /\ quotas = <<>>

WireNext ==
    \/ RefreshStarts
    \/ \E cost \in {0, CreditCost} :
          \/ \E stated \in BOOLEAN : Answered(cost, stated)
          \/ NotAnswered(cost) \/ Unusable(cost)
    \/ \E ok \in BOOLEAN : RefreshStored(ok)

WireSpec == WireInit /\ [][WireNext]_wireVars

---------------------------------------------------------------------------
(* Properties.                                                             *)

\* What a refresh may really cost: the count written down never exceeds the
\* estimate the owner agreed to, nor falls behind what was charged by more than the
\* attempts whose answers were lost; so the charge is at most 1 + Retries times the
\* estimate.  And the remaining credits that are shown are never fewer than there
\* are: they can only be out of date.
CreditsAccounted ==
    LET charged == used - usedBefore
        recorded == IF creditsUsed = None THEN 0 ELSE creditsUsed
    IN  /\ wirePc = "asking" =>
              /\ recorded <= CreditCost * answered
              /\ charged <= recorded
                    + CreditCost * (Retries * answered + (Retries + 1) * lost + attempt)
        /\ charged <= (Retries + 1) * EstimatedCost
        /\ QuotaStatus # None => QuotaStatus.remaining >= Budget - used
=============================================================================
