------------------------------ MODULE Forward ------------------------------
(***************************************************************************)
(* The forward test: every scan samples the outcomes it can price, and     *)
(* grades the samples when their market resolves (services/forward.py and  *)
(* the part of run_scan that drives it).                                   *)
(*                                                                         *)
(* A scan reads the clock once, samples the tradable markets of the slate, *)
(* looks up markets of open bets, then at most MAX_SETTLE_PER_SCAN markets *)
(* that hold ungraded samples of games started three hours ago or more.    *)
(* It grades the samples of every market it has seen resolved, and fills   *)
(* the closing price of every sample of the markets it looked up for the   *)
(* forward test.  One process is modelled: its SCAN_LOCK, a subject of     *)
(* module Ledger, keeps its scans apart.                                   *)
(*                                                                         *)
(* The order of the samples of a market is that of sampled_at.             *)
(***************************************************************************)
EXTENDS Integers, Sequences, FiniteSets

CONSTANTS
    Markets,
    Rank,           \* the order SQLite's index on market_id lists markets in
    Tokens,         \* the outcomes a scan finds books for
    Asks,           \* best asks
    FirstKickoffs,  \* the kickoffs the venue may announce at first
    BetMarkets,     \* the markets of the owner's open bets
    MaxTime,        \* bound on the clock
    SettleAfter,    \* SETTLE_AFTER_START, in ticks of the clock
    Limit,          \* MAX_SETTLE_PER_SCAN
    MaxSamples,     \* bound on the samples of a market
    MaxMoves,       \* bound on the kickoff changes of a market
    MaxFaults,      \* bound on failed lookups, failed steps and crashes
    None

Outcomes == {"A", "B"}
Resolved == Outcomes \cup {"push"}
Listing == {"open"} \cup Resolved
Times == 0..MaxTime

\* A game kicks off early enough for the clock to reach its settlement.
Kickoffs == 0..(MaxTime - SettleAfter)

ASSUME ConstantsOK ==
    /\ Rank \in [Markets -> Nat]
    /\ \A m, n \in Markets : Rank[m] = Rank[n] => m = n
    /\ Tokens \subseteq Outcomes /\ BetMarkets \subseteq Markets
    /\ FirstKickoffs \subseteq [Markets -> Kickoffs \cup {None}]
    /\ MaxTime \in Nat /\ SettleAfter \in 0..MaxTime
    /\ Limit \in Nat /\ MaxSamples \in Nat /\ MaxMoves \in Nat /\ MaxFaults \in Nat
    /\ None \notin Times /\ None \notin Asks /\ None \notin BOOLEAN

VARIABLES
    clock,      \* now
    listing,    \* [Markets -> Listing]: what the venue would answer
    kickoff,    \* [Markets -> ...]: gameStartTime, None when the venue has none
    moves,      \* [Markets -> ...]: how often the kickoff has moved
    saved,      \* [Markets -> Seq(Sample)]: forward_samples, committed
    samples,    \* the table as the running scan sees it
    pc, now,    \* the scan: where it is, and its clock
    found,      \* state.markets_by_id
    faults

venueVars == <<listing, kickoff, moves>>
scanVars == <<pc, now, found>>
vars == <<clock, venueVars, saved, samples, scanVars, faults>>

Sample == [token : Outcomes, ask : Asks, start : Kickoffs \cup {None},
           won : BOOLEAN \cup {None}, closing : Asks \cup {None}]

Unseen == [m \in Markets |-> "unseen"]
Fault == faults < MaxFaults /\ faults' = faults + 1

---------------------------------------------------------------------------
(* The operations of services/forward.py.                                  *)

\* record_sample's gates: the market trades and its game has not started at
\* the scan's `now`.
Priceable(m) == listing[m] = "open" /\ (kickoff[m] = None \/ kickoff[m] > now)

\* The rows one market gets in one scan: one for each outcome with an ask.
\* (Slip: an empty book sampled too.)
NewRowsNoBook(m, ask) ==
    LET row(t) == [token |-> t, ask |-> ask[t], start |-> kickoff[m],
                   won |-> None, closing |-> None]
        rowsOf(t) == IF t \in Tokens THEN <<row(t)>> ELSE <<>>
    IN rowsOf("A") \o rowsOf("B")
NewRows(m, ask) ==
    LET row(t) == [token |-> t, ask |-> ask[t], start |-> kickoff[m],
                   won |-> None, closing |-> None]
        rowsOf(t) == IF t \in Tokens /\ ask[t] # None THEN <<row(t)>> ELSE <<>>
    IN rowsOf("A") \o rowsOf("B")

\* A market with an ungraded sample of a game that should be over.
Due(m) ==
    \E i \in DOMAIN samples[m] :
        /\ samples[m][i].won = None
        /\ samples[m][i].start # None
        /\ samples[m][i].start + SettleAfter <= now

\* pending_market_ids: SELECT DISTINCT ... LIMIT.  (Slip: graded samples too.)
DueGraded(m) ==
    \E i \in DOMAIN samples[m] :
        samples[m][i].start # None /\ samples[m][i].start + SettleAfter <= now
PendingForever ==
    {m \in Markets : /\ DueGraded(m)
                     /\ Cardinality({n \in Markets : DueGraded(n) /\ Rank[n] < Rank[m]}) < Limit}
PendingMarketIds ==
    {m \in Markets : /\ Due(m)
                     /\ Cardinality({n \in Markets : Due(n) /\ Rank[n] < Rank[m]}) < Limit}

\* settle, on one market: every ungraded sample gets its result.  (Slips: a
\* 50/50 market graded too; the first sample alone graded.)
GradePush(rows, result) ==
    [i \in DOMAIN rows |->
        IF rows[i].won = None /\ result \in Resolved
        THEN [rows[i] EXCEPT !.won = (rows[i].token = result)] ELSE rows[i]]
GradeFirst(rows, result) ==
    [i \in DOMAIN rows |->
        IF rows[i].won = None /\ result \in Outcomes /\ i = 1
        THEN [rows[i] EXCEPT !.won = (rows[i].token = result)] ELSE rows[i]]
Grade(rows, result) ==
    [i \in DOMAIN rows |->
        IF rows[i].won = None /\ result \in Outcomes
        THEN [rows[i] EXCEPT !.won = (rows[i].token = result)] ELSE rows[i]]

\* The ask of the last sample of an outcome.
LastAsk(rows, t) ==
    LET last == CHOOSE i \in DOMAIN rows :
                    /\ rows[i].token = t
                    /\ \A j \in DOMAIN rows : rows[j].token = t => j <= i
    IN rows[last].ask

\* capture_closing, on one market: samples without a closing price get the
\* last ask recorded.  (Slips: the ones that have a price too; each its own.)
CloseAgain(rows) ==
    [i \in DOMAIN rows |-> [rows[i] EXCEPT !.closing = LastAsk(rows, rows[i].token)]]
CloseOwn(rows) ==
    [i \in DOMAIN rows |->
        IF rows[i].closing = None THEN [rows[i] EXCEPT !.closing = rows[i].ask] ELSE rows[i]]
Close(rows) ==
    [i \in DOMAIN rows |->
        IF rows[i].closing = None
        THEN [rows[i] EXCEPT !.closing = LastAsk(rows, rows[i].token)] ELSE rows[i]]

---------------------------------------------------------------------------
(* The world outside.                                                      *)

Tick ==
    /\ clock < MaxTime
    /\ clock' = clock + 1
    /\ UNCHANGED <<venueVars, saved, samples, scanVars, faults>>

\* A game is put off, at any time before its market closes.
Postpone(m, t) ==
    /\ listing[m] = "open" /\ kickoff[m] # None
    /\ t > kickoff[m] /\ moves[m] < MaxMoves
    /\ kickoff' = [kickoff EXCEPT ![m] = t]
    /\ moves' = [moves EXCEPT ![m] = @ + 1]
    /\ UNCHANGED <<clock, listing, saved, samples, scanVars, faults>>

\* A market resolves once its game is on, or 50/50 when the game is called off.
\* (One that has closed ahead of its result is, to a scan, one not priced.)
Resolve(m, l) ==
    /\ listing[m] = "open"
    /\ (kickoff[m] # None /\ kickoff[m] > clock) => l = "push"
    /\ listing' = [listing EXCEPT ![m] = l]
    /\ UNCHANGED <<clock, kickoff, moves, saved, samples, scanVars, faults>>

---------------------------------------------------------------------------
(* One scan, as run_scan drives the forward test.                          *)

Goto(phase) == pc' = phase

ScanBegin ==
    /\ pc = "idle"
    /\ now' = clock
    /\ Goto("leagues")
    /\ UNCHANGED <<clock, venueVars, saved, samples, found, faults>>

\* _scan_league: any part of the slate is listed; a priceable market that
\* matches a book gets a sample for each outcome with an ask.
ScanLeagues ==
    /\ pc = "leagues"
    /\ \E seen \in SUBSET Markets :
        /\ found' = [m \in Markets |-> IF m \in seen THEN listing[m] ELSE "unseen"]
        /\ \E priced \in SUBSET {m \in seen : Priceable(m)} :
           \E ask \in [priced -> [Tokens -> Asks \cup {None}]] :
              LET rows == [m \in Markets |->
                              IF m \in priced THEN samples[m] \o NewRows(m, ask[m])
                              ELSE samples[m]]
              IN /\ \A m \in priced : Len(rows[m]) <= MaxSamples
                 /\ samples' = rows
    /\ Goto("others")
    /\ UNCHANGED <<clock, venueVars, saved, now, faults>>

\* The wallet import and the open bets: markets are looked up by id, and
\* a COMMIT on the way saves the samples.
ScanOthers ==
    /\ pc = "others"
    /\ \E got \in SUBSET {m \in BetMarkets : found[m] = "unseen"} :
          found' = [m \in Markets |-> IF m \in got THEN listing[m] ELSE found[m]]
    /\ saved' \in {saved, samples}
    /\ Goto("forward")
    /\ UNCHANGED <<clock, venueVars, samples, now, faults>>

Forget == now' = 0 /\ found' = Unseen

\* The rest of run_scan.  _markets_for_pending_samples looks up the ids not
\* seen yet and returns them all, whether or not their lookup failed; settle
\* grades every market seen, capture_closing prices the ids.  An exception on
\* the way (the try block gets through "steps" of the two) is noted, and what
\* was done is committed.
ScanForward ==
    /\ pc = "forward"
    /\ LET ids == PendingMarketIds
           wanted == {m \in ids : found[m] = "unseen"}
       IN \E got \in SUBSET wanted, steps \in 0..2 :
            LET seen == [m \in Markets |-> IF m \in got THEN listing[m] ELSE found[m]]
                graded == [m \in Markets |->
                    IF steps >= 1 THEN Grade(samples[m], seen[m]) ELSE samples[m]]
                priced == [m \in Markets |->
                    IF steps = 2 /\ m \in ids THEN Close(graded[m]) ELSE graded[m]]
            IN /\ IF got = wanted /\ steps = 2 THEN UNCHANGED faults ELSE Fault
               /\ samples' = priced
               /\ saved' = priced
    /\ Forget
    /\ Goto("idle")
    /\ UNCHANGED <<clock, venueVars>>

\* An exception anywhere else, or the death of the process, rolls back.
ScanAbort ==
    /\ pc # "idle"
    /\ Fault
    /\ samples' = saved
    /\ Forget
    /\ Goto("idle")
    /\ UNCHANGED <<clock, venueVars, saved>>

Init ==
    /\ clock = 0
    /\ listing = [m \in Markets |-> "open"]
    /\ kickoff \in FirstKickoffs
    /\ moves = [m \in Markets |-> 0]
    /\ saved = [m \in Markets |-> <<>>]
    /\ samples = saved
    /\ pc = "idle" /\ now = 0 /\ found = Unseen
    /\ faults = 0

ScanStep == ScanLeagues \/ ScanOthers \/ ScanForward

Next ==
    \/ Tick
    \/ \E m \in Markets : \/ \E t \in Kickoffs : Postpone(m, t)
                          \/ \E l \in Resolved : Resolve(m, l)
    \/ ScanBegin \/ ScanStep \/ ScanAbort

Spec == Init /\ [][Next]_vars

\* Time passes, the scheduler starts scans and a scan takes its next step.
LiveSpec == Spec /\ WF_vars(Tick) /\ WF_vars(ScanBegin) /\ WF_vars(ScanStep)

---------------------------------------------------------------------------
(* Properties.                                                             *)

\* Every variable stays in its type.
TypeOK ==
    /\ clock \in Times
    /\ listing \in [Markets -> Listing]
    /\ kickoff \in [Markets -> Kickoffs \cup {None}]
    /\ moves \in [Markets -> 0..MaxMoves]
    /\ saved \in [Markets -> Seq(Sample)]
    /\ samples \in [Markets -> Seq(Sample)]
    /\ pc \in {"idle", "leagues", "others", "forward"}
    /\ now \in Times
    /\ found \in [Markets -> Listing \cup {"unseen"}]
    /\ faults \in 0..MaxFaults

Graded(row) == row.won # None

\* A stored grade is the venue's result for the sample's own outcome, however
\* late or on whose behalf the market was looked up; a 50/50 market has none.
GradedAsResolved ==
    \A m \in Markets : \A i \in DOMAIN saved[m] :
        Graded(saved[m][i]) =>
            /\ listing[m] \in Outcomes
            /\ saved[m][i].won <=> (saved[m][i].token = listing[m])

\* The samples of a market are graded together, so the report never sees an
\* outcome's later samples without the first one, the bet it counts
\* (_one_bet_per_token).
GradedTogether ==
    \A m \in Markets : \A i, j \in DOMAIN saved[m] :
        Graded(saved[m][i]) => Graded(saved[m][j])

\* What the forward test has recorded stays: no scan, failure or crash drops
\* or reorders samples, or writes another grade or closing price over one.
RecordKept ==
    [][\A m \in Markets :
        /\ Len(saved[m]) <= Len(saved'[m])
        /\ \A i \in DOMAIN saved[m] :
            LET old == saved[m][i] new == saved'[m][i]
            IN /\ new.token = old.token /\ new.ask = old.ask /\ new.start = old.start
               /\ old.won # None => new.won = old.won
               /\ old.closing # None => new.closing = old.closing]_saved

\* The closing price of a sample is the last ask recorded for its outcome, as
\* long as the kickoff has not moved.
ClosingIsLastAsk ==
    \A m \in Markets : moves[m] = 0 =>
        \A i, j \in DOMAIN saved[m] :
            LET later == {k \in DOMAIN saved[m] : k > j /\ saved[m][k].token = saved[m][j].token}
            IN (saved[m][i].closing # None /\ saved[m][i].token = saved[m][j].token /\ later = {})
                => saved[m][i].closing = saved[m][j].ask

\* An ungraded sample that a scan would look up a result for: pending_market_ids asks
\* for a kickoff (forward.py:148), although record_sample also stores samples of a
\* market whose kickoff the venue does not give (forward.py:96-98).
LookedFor(row) == row.won = None /\ row.start # None

\* A market has such samples, and a result to grade them by.
Waiting(m) ==
    listing[m] \in Outcomes /\ \E i \in DOMAIN saved[m] : LookedFor(saved[m][i])

\* A market whose samples are looked for a result that has not come.
Stuck(m) ==
    listing[m] \notin Outcomes /\ \E i \in DOMAIN saved[m] : LookedFor(saved[m][i])

\* Every sample with a kickoff of a resolved market is graded in the end, provided
\* fewer than Limit markets wait for a result that never comes.  It is not so of
\* "every outcome the scan can price" (forward.py:10-12): samples of a market that
\* never had a kickoff are not looked for, and are graded only if a scan meets the
\* market's result on other business, in the slate or for an open bet.
ResolvedGetsGraded ==
    <>[](Cardinality({m \in Markets : Stuck(m)}) < Limit)
        => \A m \in Markets : Waiting(m) ~> ~Waiting(m)

\* capture_closing fills the closing price "for graded samples": a scan that
\* has finished leaves none of them without.
GradedHasClosing ==
    pc = "idle" => \A m \in Markets : \A i \in DOMAIN saved[m] :
        Graded(saved[m][i]) => saved[m][i].closing # None
============================================================================
