# Formal models of the Polymarket edge finder

TLA+ models, TLC runs and TLAPS proofs for the application under `app/`: a
single-user FastAPI server, a scheduler and a command line that share one SQLite
file. The code is the reference; `PROJECT.json` maps each definition to the
lines it translates, each property to a slip of the code that breaks it, and
each hazard to the properties that watch it.

## The system

| component | state it keeps | operations | hard behaviour | what makes it correct |
|---|---|---|---|---|
| Ledger (`services/bets.py`, `routes/bets.py`) | `bets` | `create_bet`, `settle_bet_manual`, `settle_open_bets`, `capture_closing` | rows read before the write lock is waited for; settled by hand and by scans | a bet is settled once, with the venue's result; its closing line is captured once, also after settlement, never on a void |
| Scan run (`services/scan.py`) | `scans`, `games`, `markets`, quotes, opportunities, `SCAN_LOCK` | `run_scan_default`, `run_scan`, `_scan_league`, lookups by id | one long transaction with up to four commits, network calls inside, two processes, any step may fail | locks come free; what was committed is complete; a failed scan is picked up by the next |
| Wallet import (`services/wallet_import.py`) | rows of `bets` with an import key | `import_fills`, from a scan or the command line | keys checked against a table another process writes | a buy is one bet |
| Scheduler (`services/scheduler.py`) | `_scan_lock` | `scan_job` | jobs and manual refresh overlap | a job is skipped, never queued, never fatal |
| Forward test (`services/forward.py`) | `forward_samples` | `record_sample`, `pending_market_ids`, `settle`, `capture_closing` | grading and pricing use different sets of markets; a cap on lookups | samples are kept, graded together and rightly, priced by the last ask; backlog drains |
| Stored snapshots (`services/adapters.py`) | `book_quotes`, `games.start_time` | `upsert_game`, `latest_book_scan_id`, `_closing_fair` | scan clock and fetch time differ; scan ids reused | the closing line is the last snapshot taken before kickoff |
| Event feed (`clients/polymarket.py`, `core/parsing.py`) | one fetch | `events`, `market`, `_parse_market` | offset paging of a changing list, optional fields, closed markets | the slate without gaps or repeats, each spread read as its question says, and readable again for settlement |
| Slate (`services/scan.py`, `services/adapters.py`) | `games`, `markets`, `book_quotes` | `_scan_league`, `upsert_game`, `_stored_books` | siblings of one event, doubleheaders, fresh or stored lines | pre-game prices against pre-game lines of the same game; every market priced or given one reason |
| Matching (`core/matching.py`) | none | `match_games`, `fair_for_outcome` | doubleheaders, missing times | a market gets its own game or none |
| Odds, edge, stake (`core/odds_math.py`, `edge.py`, `clv.py`) | none | de-vig, `walk_asks`, `plan_stake`, limits | boundaries of depth, budget, minimum order | a stake never exceeds any of its limits |
| Backtest (`services/backtest.py`, `strategies.py`) | harvest file | `harvest`, `closing_trade`, replays | resuming after a crash | each resolved market once |
| Transport and quota (`clients/transport.py`, `oddsapi.py`) | quota seen | retries, quota headers | a retry after a charge | the charge is bounded by what the owner agreed to |
| Preferences, demo, schema (`prefs.py`, `demo.py`, `db.py`) | `prefs` rows, columns | update, seed, clear, add columns | defaults carried across a venue change, orphaned rows | round trips keep the owner's values |
| Login (`routes/auth.py`) | failures and lockouts per client and over all | `LoginLimiter`, session cookie | doubling lockout, logins in between | every guess is paid for, and the owner gets in |
| Pages, static files, configuration | none | rendering | none over time | not modelled |

Interaction: the web process runs scans on worker threads (POST /scan) and in
the scheduler, and answers forms on its event loop; `python -m app.cli scan` and
`import-wallet` are processes of their own. All meet in the SQLite file (WAL: reads
see the last commit, one writer at a time, 30 s wait) and, within a process, at
`SCAN_LOCK`. A scan calls the import, the ledger and the forward test in a
fixed order on its own session.

## Modules

**Ledger** is the core. State: the venue (`venue`, `started`, `filled`), the
committed tables the properties need (`bets`, `rows` for markets, `snaps` for
"the last pre-kickoff snapshot quotes the market's line"), what the writing transaction sees (`txRows`,
`txSnaps`), the two locks (`writer`, `scanLock`) and the locals of each session
(`pc`, `kicked`, `found`, `todo`, `pending`, `verdict`, `slip`). A handler is
split into two actions exactly where it reads the ledger and where it writes and
commits, since another session can commit between the two:
`ScanCaptureRead`/`ScanCaptureWrite`, `ScanSettleRead`/`ScanSettleWrite`,
`ScanImportRead`/`ScanImportWrite`, `OwnerAsksSettle`/`OwnerSettles`,
`OwnerAsksLog`/`OwnerLogs`, `ImportRead`/`ImportWrite`. `ScanBegin` is the flush
of the Scan row that takes the write lock ahead of all network calls. A session
that waits for the lock either gets it or, nondeterministically, times out
(`ScanLocked`, `ScanAbort`, `OwnerFails`, `ImportFails`); `Crash` kills a
process. A market is a game of its own here; prices and amounts are left out.
A scan that stores a fresh snapshot puts the market into `snaps` or takes it out, as
the snapshot quotes the line or not: `_closing_fair` reads the last snapshot and no
older one, and `ClosingDue` passes over a bet whose line is not in it, as
`capture_closing` does (`bets.py:326`). The line of a bet and the owner's preferences
(weights, de-vig method), which `_closing_fair` also reads, stay as they are. Which
of several snapshots is the last is the subject of Closing.

**LedgerPromise** is what the ledger promises, without sessions or locks:
`Record`, `Settle`, `Capture`. `Ledger!KeepsPromises` is the refinement.

**LedgerProofs** holds the proofs about Ledger, **ForwardProofs** and **ClosingProofs** those
about the next two, **SlateProofs** those about Slate, Matching and Pricing, **ScanProofs** about Fills and Feed,
**CostProofs** about Login, Prefs and Wire, **BacktestProofs** about Harvest and Bakeoff;
**NumberLemmas** has lemmas they share.

**Forward** is the forward test in one process, whose scans `SCAN_LOCK` keeps
apart; the tails of two scans in different processes, which may overlap once both
have committed, are not modelled here. State: the venue's listing and kickoff of each market (kickoffs may be
missing and may move), the table of samples committed and as the scan sees it,
the scan's clock. `ScanForward` is the tail of `run_scan`, with the swallowed
exception (`steps`) that leaves part of it undone.

**Closing** is the choice of the closing line: the kickoff row as markets move
it (`Kickoff`, `KickoffOf`), scan ids as SQLite gives them out, snapshots with
the scan's clock (`stamp`, the column `fetched_at`) and the time of the fetch
(`taken`, which the program does not store), the capture's read and write.
Whether a book's own commence time lets a snapshot through, and whether a scan is
a books scan at all, is left open.

The modules around the ledger, each with a part of the state of its own:

* **Sums**: the sum over a set of places, for Matching, Pricing and Fills.
* **Matching** holds pure functions: names to team keys, `MatchOne` (`_match_one`),
  American odds, de-vigging, the consensus, and `FairForOutcome` with the mirrored
  line of each side. Times are whole hours and probabilities ten-thousandths.
* **Pricing** (extends Matching): fee, Kelly, `WalkAsks`, `EdgeClearingDepth`,
  `PlanStake`, `RestingLimitPrice`, `BuildOpportunity`, over integers. Its one
  action prices a quote. The code walks a ladder level by level, sorted; the model adds
  up the levels up to a price. Levels of one price cost the same and clear an edge
  together, so the two are equal, whatever the order of the levels.
* **Slate** (extends Pricing): `_scan_league` of one league, in two steps, because the
  venue and the books change between the listing of the events (`SlateList`) and
  the rest (`SlatePrice`). A list may lack markets (`Absences`): `events()` asks for
  `closed=false`, passes over closed events, and may fail. Only the markets listed are
  upserted, matched and given reasons; the rows of the others stay, status included.
  An event drops out of one list and may be back in the next.
  State: the venue's board, the posted book games, the
  tables `gameRows`, `filed` (markets), `lines` (newest stored quotes) and what the
  last scan made of each market (`report`).
* **Feed** (extends Matching): events paged by offset while the list changes, the
  fallback without Gamma's optional filters, `_parse_market` with its reasons, and
  the read of a market for settlement. A question is a record of what the
  parser's patterns find in it.
* **Fills**: the wallet import from data-api's pages to bets, with the owner trading
  between two requests. A bet's `known` and `crossed` are history: what the feed had when
  the import began, and whether it grew meanwhile. Ledger has the same import with its processes and
  commits, and takes a fill as one key.
* **Harvest**: the back-test harvest with its commits, its limit, the rate limit's
  backoff and crashes. `added` is the session, `samples` the table. A market's trades are
  asked for once, `TradeLimit` of them (`TRADE_LIMIT` = 1000): `Returned` is what that
  shows of the history, and what the samples are made of. The pages and dates a run
  asks for (`max_pages`, `since`) are taken to include the whole `History`.
* **Bakeoff** (extends Pricing): the rules, their returns, one shuffle of the
  permutation null with any draw the generator could give, the holdout.
* **Login**: counters, lockouts and the cookie. `served` is a history variable: time
  spent locked since a counter was cleared.
* **Wire**: one Odds API request per league, its retries, the credits the server
  charges (`used`, which the program cannot see) and those the scan stores.
* **Prefs**: the row of preferences, forms open in several tabs, the boot that adds
  the venue column. `meant` is what the owner decided on, `outdated` whether a form
  was posted that was not made from the row it met.
* **Maybe** declares `None`.

**MCDesk** puts these nine state machines into one module. They share no variables
and the code runs them independently, so nothing is learnt from interleaving
them: a behaviour has a `focus`, the part that moves, and the others stay in
their initial states. The state space is the sum of the parts', not their product,
and one run checks all of their properties.

**MCLedger, MCForward, MCClosing** give the constants for TLC.

Operators marked "Slip" state a plausible bug next to the operator they would
replace. No specification uses them; the mutants do.

## Runs

| run | shows |
|---|---|
| `ledger_two_processes` | two processes with one scan each, one market, one wallet buy, room for two bets, one fault: types, `ScansKeepApart`, `ImportedOnce`, `SettledAsResolved`, the refinement `KeepsPromises`, and under fairness `WriteLockReleased` and `ResolvedBetsGetSettled` |
| `ledger_owner_forms` | scan job, owner's forms (log a bet, void a bet), command-line import, one fault, snapshots with and without the line: `StartedBetsGetClosing` |
| `ledger_settled_twice` | finding: a settled bet is settled again |
| `ledger_imported_twice` | finding: a buy becomes two bets |
| `forward_samples` | one market, both outcomes, three samples, two prices, one postponement, one fault: `GradedAsResolved`, `GradedTogether`, `ClosingIsLastAsk`, `RecordKept` |
| `forward_backlog` | two markets, one lookup a scan, one fault, one open bet, kickoffs missing or not: `ResolvedGetsGraded`, which speaks of samples with a kickoff |
| `forward_no_clv` | finding: graded samples without a closing price |
| `closing_two_processes` | two processes, three scan ids, one moved kickoff, one failed scan: `OneScanPerId`, `PicksTheLatest`, `SiblingNeverBackwards`, `CapturesAgree` |
| `closing_in_play` | finding: an in-play snapshot taken for the closing line |
| `desk` | the parts around the ledger, see below |
| `slate_neighbour` | finding: a market priced from another day's game |
| `prefs_resubmitted` | finding: the settings form posted twice separates fee and venue |

What `desk` checks, part by part:

| part | properties | instance |
|---|---|---|
| Pricing | `SharesBoughtClear`, `SuggestionPlaceable` | six ladders (empty, unordered, dust, an empty level, a gap), five markets, four preferences, five fair values: one on either side of each threshold |
| Slate | `NeighbourOnlyWithoutOwn`, `StatusFollowsKickoff`, `OneRowPerEvent`, `EveryMarketAccounted`, `PricedPregame`, `FairsComplement`, `BothSidesLeaveTheEdge` | a series of three games, two of them on one day, one event with a second market that states no kickoff, an ask ladder for each token, one market whose two tokens are cheap enough to suggest both; two scans, lists that lack no market, one or another, two changes by venue or books, clock before and between the kickoffs, three kinds of outage |
| Feed | `FetchIsTheSlate`, `SpreadSaysItsQuestion`, `SettlementCanRead` | six events in pages of two, three departures or arrivals, every form in which a line and a team are stated, one market in two events |
| Fills | `BetsAreTheirOrders` (`BetIsItsFills` and `FairFromBeforeTheFill`), `NothingMissed` | five transactions (equal fills, both outcomes, a sale, a redemption, one after kickoff), pages of three, two imports; one order whose rows a page cuts when it is placed between two requests |
| Harvest | `SamplesAreSound` (`MarketsStoredWhole` and `CloseIsLastPregame`), `HarvestKeepsItsPlace` | four markets, one-sided ones included, requests of three trades that cut off a fourth (older trades of a side, or all a side had), commits every four samples, two runs with or without a limit, three refusals |
| Bakeoff | `BakeoffIsHonest` | every subset of seven markets in two leagues, every shuffle |
| Login | `GuessesArePaidFor`, `OwnerGetsIn` | two clients, limits of two and four, a cap reached at the third doubling, one change of password |
| Wire | `CreditsAccounted` | two leagues, two retries, two refreshes, a budget that runs out |
| Prefs | `FeeIsAsMeant` | two venues, two tabs, three posts, rates on both venues' numbers, between them and out of range |

Bounds. In Ledger the bad cases need two sessions, one bet and the fill it came
from; the second ledger id is what a duplicate would need, and one market is
enough because bets meet only through the locks and through their own market.
`MaxFaults = 1` puts a crash, failed scan or failed lookup at every point, once.
In Forward the samples of one outcome need three rows for "first, middle, last"
once one of them may be the other outcome's; the clock has room for a kickoff at
1, a postponement past its settlement and that settlement. The backlog needs two
markets and one lookup. In Closing two scans store snapshots and a third
captures; the clock has a time before, at and after the first kickoff.
Processes are interchangeable there (symmetry; only safety is checked).

The command-line import and the owner's forms are in `ledger_owner_forms` and in
the two findings, not in `ledger_two_processes`: with the import
`ImportedOnce` fails and with the settle form `SettledOnce` (and so
`KeepsPromises`) fails, which the findings state on their own.

In the desk's parts the bounds are set by what a case needs. Two scans are enough for
lines stored by one to be used by the next, and an outage in the second; the
doubleheader lies outside `SAME_GAME_TOLERANCE` and inside the day rule. A fill can
straddle a page only if a page is smaller than two transactions. A commit that is
stepped over needs an odd number of samples before it, hence one-sided markets. A
lockout has to double twice to reach its cap. Three posts are a switch, a reload and a
switch back. The bake-off's rules see both leagues, both sides, thin and
liquid rows.

Fairness. `LiveSpec` of Ledger: every scanner asks for a scan again and again, the
web process by the scheduler's interval job (`build_scheduler`), a command-line one
because a task runs it again and again (`books-scan.cmd`, `forward-scan.cmd`), and a
running scan takes its next step (every network call has a timeout). Nothing is asked
of the owner's forms, of `import-wallet`, of the venue or of a waiting session: a scan
that never gets the lock times out. Weak fairness suffices since a scan's step stays enabled
unless it is the lock it lacks. `LiveSpec` of Forward: time passes, scans are
started and take their steps; lookups may fail `MaxFaults` times. Login (and the desk
for it): time passes, and an owner who wants in posts the right password once the page
lets them (`OwnerLogsIn`). Nobody else is held to anything, but wrong passwords are
bounded by `MaxFailures`: someone who guesses for ever can keep the global lockout
running for ever, so `OwnerGetsIn` says that the lockouts end once the guesses do.
Weak fairness suffices because neither step, once enabled, is disabled for good by
others within the bound.

## Findings

1. `settle_bet_manual` checks the status on the row it read and updates by id
   after waiting for the lock, so a result committed meanwhile is overwritten
   (`bets.py:216`).
2. `import-wallet` reads the known keys without any lock while a scan may be
   importing; `import_key` is not unique (`wallet_import.py:241`).
3. Samples graded before their market becomes pending never get a closing price or
   CLV (`scan.py:738`).
4. The closing line can be a snapshot fetched after kickoff, since the scan's clock
   is read before the wait for the lock and before the fetch (`scan.py:847`,
   against `bets.py:311`).
5. A market whose event states no kickoff is matched with the only posted game of its
   pairing even if that is another day's game of the series (`matching.py:358`,
   against `matching.py:389-391`). What does hold is `NeighbourOnlyWithoutOwn`.
6. Posting the settings form again after a switch of venue, by a reload or from
   an older tab, leaves the new venue with the old venue's fee (`prefs.py:106`,
   against `prefs.py:94`). What does hold is `FeeIsAsMeant`, as long as every form
   was made from the row it meets.

Other limits of the code that the models state in a premise rather than refute. A bet whose line
the last snapshot before kickoff does not quote never gets a closing line, although an older
snapshot may quote it (`StartedBetsGetClosing`; `bets.py:287`, `326`). Forward samples of a market without a
kickoff are stored but never looked up for a result (`forward.py:96-98`, `148`), and are
graded only if a scan meets the result in the slate or for an open bet
(`ResolvedGetsGraded`). A game that has left the list of active events keeps the status it
had, "live" or "scheduled", on its page's badge, which is all that shows it
(`StatusFollowsKickoff`; `scan.py:507`, `templates/game.html:9`). On a market with more than
`TRADE_LIMIT` trades the harvest sees the newest only: a side whose trades before kickoff are cut
off has no sample, for good, and the count stored with the other is of what was seen
(`MarketsStoredWhole`, `CloseIsLastPregame`; `backtest.py:241`). If the
owner trades between two page requests of a wallet import (of more than 500 fills in 45
days), the last rows of a page are served again on the next and added twice, and the new
order itself may be cut in two (`BetIsItsFills`); a game that leaves
the list during a fetch hides at most one other (`FetchIsTheSlate`); two games
of one pairing within three hours share a row (`OneRowPerEvent`); a request whose
answer is lost may be charged up to three times (`CreditsAccounted`).

## Proofs

Eight modules hold theorems. All of them speak of every value of the constants that meets
the assumptions of the modules they are about (`ConstantsOK`, `SessionsDisjoint`,
`LoginAssumption`, `PrefsAssumption`, `WireAssumption`, `HarvestAssumption`,
`FillsAssumption`, `FeedAssumption`, `SlateAssumption`): numbers are numbers, limits are positive, `None` is none of the
values it stands beside, a market has one id and is listed once, the default venue
charges the legacy fee. A property that is no invariant of one step is strengthened
until it is one; the strengthened invariant is named here, since it says why the
property holds.

**LedgerProofs** (Ledger)

* `TypeCorrect`: `Spec => []TypeOK`. Inductive as it stands; one lemma per action.
* `LocksCorrect`: `Spec => []LocksBelongToRunningScans`. Inductive together with
  `TypeOK`: sessions of different kinds are disjoint, and `ReleaseScanLock` and
  `Commit` are what every way out of a scan goes through.
* `ScansImportOnce`: without command-line importers, `Spec => []ImportedOnce`. The
  property is not inductive: two scans could each hold the same key in `pending`.
  `ImportInv` says that a scan holds the write lock from the
  flush of its Scan row through its import, that what it is about to insert is not
  in the table yet, and that an unused id carries no key.
* `ScansFetchAlone`: `Spec => []FetchesAlone`. A scan that is fetching or importing holds
  the write lock, so nobody commits between what it reads and what it inserts. Inductive together with
  `TypeOK`: nobody takes the lock while another has it, and only its holder gives it back. With `LocksCorrect` it makes `ScansKeepApart`
  (`ScansAreKeptApart`), which the runs check.
* `ProcessesScanOnce`: a process that runs a scan runs no second one, through every failure and
  crash: the lock of the process has one holder (`LocksCorrect`). It is what Forward, which has
  one scan at a time, takes for granted.
* `ScansSettleRight`: as long as the owner's form at most voids (a typed win or loss is what
  finding 1 is about), `Spec => []SettledAsResolved`. `SettleInv` says that a result
  in a scan's `found` is still the venue's, that the bets a scan is about to settle
  are recorded and on markets it found resolved, and that the market of a settled
  bet is closed also in the transaction of whoever holds the write lock, which
  could otherwise commit an older row over it.
* `ScansKeepPromises`: without importers and typed results, `Spec => KeepsPromises`. Each
  action is a lemma: it leaves the bets alone (a stutter), or is one `Record`, `Settle`
  or `Capture` of LedgerPromise. Besides `ImportInv` and `SettleInv` this needs
  `CaptureInv`: no bet is void, an unused id has no closing line, and the bets a scan
  is about to close are in the ledger. The two hypotheses are what findings 1 and 2
  refute the refinement without.

**ForwardProofs** (Forward)

* `TypeCorrect`: `Spec => []TypeOK`.
* `GradesAreResults`, `GradesComeTogether`: `GradedAsResolved` and `GradedTogether`.
  `GradeInv` says both of the committed table and of the copy the scan works on, and
  that a result the scan has seen is the market's for good. A new sample of a graded
  market would break it, but scans sample only open markets, and what has a
  grade has its result for good.
* `TheRecordIsKept`: the action property `RecordKept`. `KeptInv` relates the copy to the
  committed table, sample by sample, so that a commit keeps what the scan has kept.
* `ClosingIsTheLastAsk`: `ClosingIsLastAsk`. `CloseInv` says of both tables that, while the
  kickoff of a market has not moved, all its samples carry that kickoff, that none has a
  closing price before the game is due, and that a closing price is the ask of the
  outcome's last sample; a scan samples a market only before its kickoff, so none
  comes after a priced one.

**ClosingProofs** (Closing)

* `TypeCorrect`: `Spec => []TypeOK`.
* `SnapshotsHaveOneScan`: `OneScanPerId`. The ids of snapshots are of scans in the table or
  of the one that holds the lock, whose id nobody else has.
* `CapturesPickTheLatest`: the action property `PicksTheLatest`. `IdsFollowFetches` says that
  snapshots of greater ids were fetched no earlier, and `LaterIdsLater` that those of a greater id than
  a running scan's were fetched after its clock: the write lock is held from the insert
  of a Scan row through its fetches, so ids and fetches have one order although clocks
  do not.
* `CapturesOfOneKickoffAgree`: the action property `CapturesAgree`. It is what holds of "the first
  capture wins" (`bets.py:315`) when two processes have both read the bet without a closing line.
  `CapturesInv` adds two parts. `UnsettledLater`: what is not committed yet was fetched
  after every scan still to capture read its clock, since a scan gets the lock only when
  everything before it is committed. `Settled`, of the captured line and of every line about to be captured: the snapshots taken
  before its kickoff are committed, and none of them has a greater id. Two such lines of one kickoff
  are one.
* `SiblingsNeverMoveBackwards`: `SiblingNeverBackwards`, from `StartInv`, which says the
  same of the transaction of the lock's holder.

**CostProofs** (Login, Prefs, Wire)

* `GuessesPay`: `GuessesArePaidFor`. `PaidInv` adds only the types: a counter is increased
  only once `MayTry` has found its lockout over, the client's own and the global one,
  so the lockout just served is the one its failures had earned. `Doubled` and `Price` are unfolded once, by lemmas on
  recursive functions over the naturals.
* `FeesAreAsMeant`: `FeeIsAsMeant`. `FormsOK` says where each open form comes from: one whose base is
  the row's `updated` shows the row's fee, or a rate that was refused; a form posted before,
  if its rate was accepted, is older than the row it has made.
* `CreditsAreAccounted`: `CreditsAccounted`. `CreditsInv` counts leagues as answered
  or lost and bounds the charge by what is recorded plus what the lost attempts can cost;
  `RemainingInv` says that every remaining count that was stated is at least today's.

**BacktestProofs** (Harvest, Bakeoff)

* `MarketsAreStoredWhole`, `ClosesAreLastPregame`, `HarvestsKeepTheirPlace`; the first two
  make `SamplesAreSound`. All three speak of the trades the request returned
  (`SeenBeforeGame`). That the closing price is nevertheless the last of the market's whole
  history needs `NewestFirst`, the order `tests/test_backtest.py:5` states of the venue: what is
  cut off is then older than all that is seen (`CutOffIsOlder`). `HarvestInv`: what
  is committed and what is only added are sets of whole markets, and apart; a run
  knows every market of both and nothing else that has a trade to store; what is added is
  what was stored since the last commit, fewer than a commit's worth.
* `BakeoffsAreHonest`: `BakeoffIsHonest`, for every table whose rows of one market agree in league and
  start (`BakeoffAssumption`; the harvest writes both from the market). No rule looks at a
  result, so a shuffle changes no rule's picks (`ReshuffledRows`), and the run's best is the null of the
  results as they are (`RunIsItsNull`): together, the null of a shuffle is what the run would have
  found in it (`NullOfReshuffled`). A league with an early row has a date that cuts it (`CutIsInt`), and the two
  halves lie on its two sides (`HalvesAreOrdered`).

**ScanProofs** (Fills, Feed)

* `ImportsMissNothing`: the action property `NothingMissed`. `PagedInv` says that no row the feed had
  when the import began is above the next page without having been read: as the
  feed grows at its top, rows only move down, so paging by offset can repeat a row and
  never step over one. `ReadInv` draws the conclusion for a read that did not end at the page limit.
* `BetsAreTheirFills`: `BetIsItsFills`. The older feed is the bottom of the newer one (`FeedsGrow`) and an order's
  rows are next to each other in it (`RowsAreABlock`). `PagesInv`: the rows of then that
  lie above the next page are among those read, in their order; a page keeps this
  (`PageReadsOn`), and a trade only moves rows down, to where they are read again. `EndsInv` has it
  down to the lookback when the read ends, and `AloneInv` that what is read from a feed that does
  not grow is that feed. So an order's fills are, in order, among the group of its bet, and
  the other way round if nothing was traded: sums compare accordingly (`SumsCompare`, `RowsCompare`).
  The proof does not go through for orders placed during the import. TLC showed why: such an
  order can arrive with its first rows above the next page, so the import reads only its
  last ones. Hence the premise that the feed had the order when the import began.
* `FairsAreFromBefore`: `FairFromBeforeTheFill`. `BetsInv` adds that a bet is of a
  transaction the feed has and that later prices are of later times. The two make
  `BetsAreTheirOrders` (`BetsAreWhatWasBought`).
* `FetchesAreTheSlate`: `FetchIsTheSlate`. `PassedInv` says of the events listed all along: those
  the pages have passed without taking them are at most as many as the events that
  have left. The rows of a list are counted by the `Place` lemmas, for any set of events in any
  order: an event that leaves moves the others up by one row at most, one
  that joins moves none up, and a page that is not full was the last, as its rows
  would otherwise be too many for it. Refused filters only lengthen the list, before
  anything was passed. `FetchedInv` has the other half, one entry for an id.
* `SettlementsCanRead`: `SettlementCanRead`, from `FetchedInv` and `ClosedIsRead`: neither a market's type
  nor its line nor its team is read from what its closing changes, and a closed one is
  not passed over for taking no orders.

**SlateProofs** (Slate, Matching, Pricing)

* `PricesArePregame`, `MarketsAreAccounted`: `PricedPregame` and `EveryMarketAccounted`.
  `SlateInv` adds types and that a row has one newest line, of a game that was posted.
  The work is in one step, `SlatePrice`: a market gets a game of those compared or a
  reason and never both (`MatchedOrReason`), so that the four kinds of reason exclude
  each other.
* `RowsAreEvents`, `StatusesAreTimely`: `OneRowPerEvent` and `StatusFollowsKickoff`, for
  listings with `EventsApart`: two events of the same teams at one place state kickoffs further
  apart than `SAME_GAME_TOLERANCE`. Without it `upsert_game` means to take two events for one
  game. `RowsInv`: each event has one row, whose kickoff one of
  its markets stated, the final rows are those of the events seen closed, and the rows of the events
  last listed agree with the scan's clock. It is kept
  by each upsert (`PlacedStep`, `StatusesStep`) and by each market the list lacks
  (`StatusesRest`); the first upsert of a listing
  that broke it would be a least counterexample. The instance of run `desk` meets
  the hypothesis (`DeskEventsApart`).
* `NeighboursStandIn`: `NeighbourOnlyWithoutOwn`, for listings with `EventsApart` and `OwnGamesNearest`:
  the kickoffs an event's markets state are of its own game's day and nearer to it than to
  any other game or kickoff of these teams, and another day's game is outside the windows. Doubleheaders
  are allowed. `LinesFiled` strengthens it and relates the scans: every line stored by one
  scan is of a game that suits the market it was fetched for, and is filed under
  that market's row; `RowsInv` says that the row is still its event's in a later scan. Then the
  game `NearestGame` takes is the market's own if that is among those compared
  (`OwnIsPicked`), for lines just fetched (`FreshSource`) and for stored ones
  (`StoredSource`). "Its own were not there" has to mean that its own row was not among the
  games compared: the proof failed for fresh lines of its own that are stored for a row without
  kickoff or teams, which `book_game_from_rows` cannot dress as a game. The instance meets the hypotheses
  (`DeskEventsApart`, `DeskOwnGamesNearest`).
* `SidesAddUp`: `FairsComplement`, for listings with `SidesApart`: the two outcomes of a market do not
  read as one team or one side, which nothing in the client checks. The same
  two quotes of a book price both sides (`PairsMirror`); with either method their
  de-vigged parts are complements up to 1 (`SidesOfAPair`); sums over the same books keep
  that proportion (`SumsComplement`, by a least place where they do not), and the two
  quotients lose at most 1 more (`Quotients`). `SlateAssumption` asks for quotes whose prices,
  if American, have a probability that `Unit` can tell from 0.
* `PairsLeaveTheEdge`: `BothSidesLeaveTheEdge`, for listings with `SidesApart`. Two suggestions of one
  market come from one posted game (`SidesReported`), so their fair values are complements up to 2; each
  leaves the owner's edge at the best ask of its own token, the cheapest level of the ladder whatever its
  order (`LeastAsk`, `WorthLeavesEdge`), and the two inequalities add up. That they are about two
  different ladders is what an order book of the other token (`scan.py:572`) would break.
* `SharesAreWorthIt`, `SuggestionsArePlaceable`: `SharesBoughtClear` and `SuggestionPlaceable`, for every
  ladder of prices strictly between 0 and a dollar. `PricingInv` says that the offer is
  what `BuildOpportunity` makes of the quote, so both are facts about that function. A part of a sum of
  naturals is no more than the whole (`PartOfSum` of NumberLemmas), so levels only add cost (`MoreLevels`);
  a walk spends the money it is given or buys the whole ladder (`WalkSpends`), and the depth is below
  every level that does not clear (`DepthClears`). `SuggestionPlaceable` speaks of money to
  the cent, because `plan_stake` rounds `fill_usd`: what a ladder holds may round down
  to a sum that buys a hair less than the minimum.

**NumberLemmas** has what several of these need of the library's operators (`Max` and `Min` of finite
sets of integers, least counterexamples, recursive functions) and of **Sums**: `SumOf` unfolds place
by place (`SumOfUnfolds`), and naturals that are, in order, among those of another sum add
up to no more (`SumsCompare`, by a least place where they do).

Only model-checked:

* Liveness (`WriteLockReleased`, `ResolvedBetsGetSettled`, `StartedBetsGetClosing`,
  `ResolvedGetsGraded`, `OwnerGetsIn`): out of the prover's reach.
* `SpreadSaysItsQuestion`: what a question's words mean (`means`) is given with the instance's questions.

## What is left to prove

Nothing but these. A proof of `SpreadSaysItsQuestion` for every question would need the
meaning of its words as an assumption, and stated in the same patterns as
`parse_spread_line` reads them, that assumption would be the property.

## Not modelled

* **US import**: no code under `app/` calls it, only its tests; `import_fills`, which it
  would feed, is in Ledger and Fills.
* **Demo data**: fixtures for a ledger without real bets, seeded through modelled
  operations. Its own hazards are listed.
* **The power de-vig method**, standard errors, t values and `clv.py`: floating point.
  Money and probabilities elsewhere are integers, rounded down, so the models do not
  speak of the last cent.
* **Payload parsing** of order books, prices, the Odds API and ESPN; the alias tables and
  regular expressions: what they yield is an input.
* **Summaries, reports, pages, configuration**: rendering without state.
* **PostgreSQL**: the database engine is SQLite.
