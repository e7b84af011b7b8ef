------------------------------- MODULE Login -------------------------------
(***************************************************************************)
(* The password gate (routes/auth.py, main.py): the login limiter, which   *)
(* counts wrong passwords per client address and over all of them and      *)
(* locks a counter out for a time that doubles up to a cap, and the signed *)
(* session cookie, which names the password it was issued under.           *)
(*                                                                         *)
(* login_submit has no await between retry_after and the count, so a POST  *)
(* is one step.  A POST that is told to wait changes nothing and is left   *)
(* out.  Time is what is left of each lockout.                             *)
(***************************************************************************)
EXTENDS Maybe, Integers

CONSTANTS
    Clients,        \* client addresses; the owner's is one of them
    Home,           \* the owner's
    LimitPerClient, \* MAX_FAILURES_PER_IP
    LimitGlobal,    \* MAX_FAILURES_GLOBAL
    BaseLockout,    \* BASE_LOCKOUT_S
    MaxLockout,     \* MAX_LOCKOUT_S
    MaxFailures,    \* bound on each counter
    MaxPasswords    \* bound on changes of APP_PASSWORD

ASSUME LoginAssumption ==
    /\ Home \in Clients /\ "*" \notin Clients
    /\ {LimitPerClient, LimitGlobal, BaseLockout, MaxLockout} \subseteq Nat \ {0}

VARIABLES
    failures,       \* _failures, 0 for an absent key
    wait,           \* what is left of _locked_until
    served,         \* time each counter has spent locked since it was cleared (history)
    password,       \* the APP_PASSWORD the process was started with
    cookie          \* the password the owner's cookie was signed under, or None

loginVars == <<failures, wait, served, password, cookie>>

GlobalKey == "*"
Keys == Clients \cup {GlobalKey}
LimitOf(key) == IF key = GlobalKey THEN LimitGlobal ELSE LimitPerClient

\* The first lockout, doubled k times, and the lockout a counter's n-th failure
\* brings.
Doubled[k \in Nat] == IF k = 0 THEN BaseLockout ELSE 2 * Doubled[k - 1]
Lockout(key, n) ==
    IF n < LimitOf(key) THEN 0
    ELSE LET seconds == Doubled[n - LimitOf(key)]
         IN  IF seconds <= MaxLockout THEN seconds ELSE MaxLockout

\* retry_after: neither the client's own lockout nor the global one may run.
\* (Slips: the client's own only; the counters themselves, which no time clears.)
OwnLockoutOver(client) == wait[client] = 0
BelowLimits(client) ==
    failures[client] < LimitPerClient /\ failures[GlobalKey] < LimitGlobal
MayTry(client) == wait[client] = 0 /\ wait[GlobalKey] = 0

\* session_is_valid: the cookie was signed under the password in force.
SignedIn == cookie = password

\* The counters a login clears.
ClearedBy(client) == {client} \cup (IF wait[GlobalKey] = 0 THEN {GlobalKey} ELSE {})

---------------------------------------------------------------------------
WrongPassword(client) ==
    LET hit == {client, GlobalKey}
        count == [k \in Keys |-> IF k \in hit THEN failures[k] + 1 ELSE failures[k]]
    IN  /\ MayTry(client)
        /\ \A k \in hit : failures[k] < MaxFailures
        /\ failures' = count
        /\ wait' = [k \in Keys |-> IF k \in hit /\ Lockout(k, count[k]) > 0
                                   THEN Lockout(k, count[k]) ELSE wait[k]]
        /\ UNCHANGED <<served, password, cookie>>

OwnerLogsIn ==
    LET cleared == ClearedBy(Home)
    IN  /\ ~SignedIn /\ MayTry(Home)
        /\ cookie' = password
        /\ failures' = [k \in Keys |-> IF k \in cleared THEN 0 ELSE failures[k]]
        /\ wait' = [k \in Keys |-> IF k \in cleared THEN 0 ELSE wait[k]]
        /\ served' = [k \in Keys |-> IF k \in cleared THEN 0 ELSE served[k]]
        /\ UNCHANGED password

OwnerLogsOut ==
    /\ cookie' = None
    /\ UNCHANGED <<failures, wait, served, password>>

\* Redeployed with another password: the limiter's tables start empty.
Redeployed ==
    /\ password < MaxPasswords
    /\ password' = password + 1
    /\ failures' = [k \in Keys |-> 0] /\ wait' = [k \in Keys |-> 0]
    /\ served' = [k \in Keys |-> 0]
    /\ UNCHANGED cookie

TimePasses ==
    /\ \E k \in Keys : wait[k] > 0
    /\ wait' = [k \in Keys |-> IF wait[k] > 0 THEN wait[k] - 1 ELSE 0]
    /\ served' = [k \in Keys |-> IF wait[k] > 0 THEN served[k] + 1 ELSE served[k]]
    /\ UNCHANGED <<failures, password, cookie>>

LoginInit ==
    /\ failures = [k \in Keys |-> 0] /\ wait = [k \in Keys |-> 0]
    /\ served = [k \in Keys |-> 0] /\ password = 1 /\ cookie = 1

LoginNext ==
    \/ \E client \in Clients : WrongPassword(client)
    \/ OwnerLogsIn \/ OwnerLogsOut \/ Redeployed \/ TimePasses

LoginSpec ==
    LoginInit /\ [][LoginNext]_loginVars /\ WF_loginVars(TimePasses) /\ WF_loginVars(OwnerLogsIn)

---------------------------------------------------------------------------
(* Properties.                                                             *)

\* What the first n failures of a counter cost: the sum of their lockouts.
Price(key) ==
    LET Sum[n \in Nat] == IF n < LimitOf(key) THEN 0 ELSE Lockout(key, n) + Sum[n - 1]
    IN  Sum

\* Every guess is paid for (auth.py:3-6, 46-52): from the limit on, each further
\* wrong password from a client, and each from anywhere once the global limit is
\* reached, has been preceded by the whole doubled lockout of the one before; other
\* addresses, or logins in between, shorten nothing.
GuessesArePaidFor ==
    \A k \in Keys : served[k] + wait[k] = Price(k)[failures[k]]

\* The owner is never shut out for good: with the right password, and once the
\* wrong ones pause (MaxFailures), the lockouts run out and the owner is in again,
\* also after a change of password has voided the cookie.
OwnerGetsIn == []<>SignedIn
=============================================================================
