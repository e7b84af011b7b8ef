------------------------------ MODULE Harvest ------------------------------
(***************************************************************************)
(* The back-test harvest (services/backtest.py): walking the resolved      *)
(* markets page by page, reading each one's trades through Cloudflare's    *)
(* rate limit, storing one sample per outcome, committing now and then,    *)
(* and starting over after a crash, an error or a limit.                   *)
(*                                                                         *)
(* One harvest at a time, in one session; markets go on resolving while it *)
(* walks.  A page with its trades requests is a step per market.  The      *)
(* walk is over the max_pages and dates a run asks for.                    *)
(***************************************************************************)
EXTENDS Maybe, Integers, SequencesExt, FiniteSetsExt

CONSTANTS
    History,        \* per-game markets in startDate order: [id, kickoff, winner, trades]
    TradeLimit,     \* TRADE_LIMIT: trades asked for of a market, in one request
    CommitEvery,    \* COMMIT_EVERY
    Limits,         \* values of --limit, None for none
    MaxHarvests,    \* bound on runs
    MaxSetbacks     \* bound on refusals by the rate limit

VARIABLES
    resolved,       \* the markets Gamma gives an outcome for
    harvestPc,
    walked,         \* markets walked
    known,          \* known: markets of the table when the run began, and since
    limit,
    stored,         \* stats.stored
    lastCommit,
    backoff,        \* 429s in a row
    added,          \* samples added and not committed
    samples,        \* the historical_samples table
    resolvedAtStart,    \* resolved, when the run began (history)
    harvests, setbacks

harvestVars == <<resolved, harvestPc, walked, known, limit, stored, lastCommit, backoff,
                 added, samples, resolvedAtStart, harvests, setbacks>>

HistoryIds == {m.id : m \in Range(History)}
OutcomeIndexes == {0, 1}
Backoffs == 3       \* Len(RATE_LIMIT_BACKOFF_S)
Trades == [side : Int, when : Int, price : Int]

\* A market has one id, and it is listed once.
ASSUME HarvestAssumption ==
    /\ History \in Seq([id : HistoryIds, kickoff : Int, winner : OutcomeIndexes,
                        trades : Seq(Trades)])
    /\ \A i, j \in DOMAIN History : History[i].id = History[j].id => i = j
    /\ TradeLimit \in Nat \ {0} /\ CommitEvery \in Nat \ {0} /\ Limits \subseteq Nat \cup {None}
    /\ None \notin Int /\ None \notin Trades

---------------------------------------------------------------------------
\* _fetch_trades asks once, for TRADE_LIMIT trades: the rest of a busy market's
\* history is cut off.
Returned(market) == {i \in DOMAIN market.trades : i <= TradeLimit}

\* closing_trade: which of them are on a side, priced and before kickoff, and the
\* latest of these, the first in the feed's order if several are.
Pregame(market, side) ==
    {i \in Returned(market) : /\ market.trades[i].side = side
                              /\ market.trades[i].when < market.kickoff
                              /\ market.trades[i].price \in 1..99}
ClosingTrade(market, side) ==
    LET latest == {i \in Pregame(market, side) : \A j \in Pregame(market, side) :
                      market.trades[j].when <= market.trades[i].when}
    IN  IF latest = {} THEN None ELSE market.trades[Min(latest)]

\* The samples harvest adds for a market: a side without a trade has none.
SamplesOf(market) ==
    {[market |-> market.id, side |-> s, price |-> ClosingTrade(market, s).price,
      trades |-> Cardinality(Pregame(market, s)), won |-> market.winner = s,
      run |-> harvests] : s \in {x \in OutcomeIndexes : ClosingTrade(market, x) # None}}

\* Time to commit?  (Slip: at every CommitEvery-th sample, which two at a time
\* may step over.)
CommitAtMultiple(n) == n > 0 /\ n % CommitEvery = 0
CommitDue(n) == n > 0 /\ n - lastCommit >= CommitEvery

\* The markets a run leaves alone.  (Slip: none, each run starts from nothing.)
KnownToNone == {}
KnownInTable == {s.market : s \in samples}

---------------------------------------------------------------------------
(* The world.                                                              *)

MarketResolves(id) ==
    /\ resolved' = resolved \cup {id}
    /\ UNCHANGED <<harvestPc, walked, known, limit, stored, lastCommit, backoff, added,
                   samples, resolvedAtStart, harvests, setbacks>>

---------------------------------------------------------------------------
(* The harvest.                                                            *)

HarvestStarts(n) ==
    /\ harvestPc = "idle" /\ harvests < MaxHarvests
    /\ harvestPc' = "walking" /\ harvests' = harvests + 1
    /\ walked' = 0 /\ known' = KnownInTable /\ limit' = n
    /\ stored' = 0 /\ lastCommit' = 0 /\ backoff' = 0 /\ added' = {}
    /\ resolvedAtStart' = resolved
    /\ UNCHANGED <<resolved, samples, setbacks>>

NextMarket == History[walked + 1]
InWalk == harvestPc = "walking" /\ walked < Len(History)
Wanted == NextMarket.id \in resolved /\ NextMarket.id \notin known

\* iter_resolved_markets drops a market that is not resolved, harvest one it has.
MarketPassedOver ==
    /\ InWalk /\ ~Wanted
    /\ walked' = walked + 1
    /\ UNCHANGED <<resolved, harvestPc, known, limit, stored, lastCommit, backoff, added,
                   samples, resolvedAtStart, harvests, setbacks>>

\* _fetch_trades answers; the samples are added, committed if due or at the limit.
MarketHarvested ==
    LET new == SamplesOf(NextMarket)
        n == stored + Cardinality(new)
        full == limit # None /\ n >= limit
        commit == new # {} /\ (CommitDue(n) \/ full)
    IN  /\ InWalk /\ Wanted
        /\ walked' = walked + 1 /\ known' = known \cup {NextMarket.id}
        /\ stored' = n /\ backoff' = 0
        /\ samples' = IF commit THEN samples \cup added \cup new ELSE samples
        /\ added' = IF commit THEN {} ELSE added \cup new
        /\ lastCommit' = IF commit THEN n ELSE lastCommit
        /\ harvestPc' = IF full THEN "idle" ELSE "walking"
        /\ UNCHANGED <<resolved, limit, resolvedAtStart, harvests, setbacks>>

\* A 429: wait and ask again, three times; the fourth is raised.
RateLimited ==
    LET raised == backoff = Backoffs
    IN  /\ InWalk /\ Wanted /\ setbacks < MaxSetbacks
        /\ setbacks' = setbacks + 1
        /\ backoff' = IF raised THEN 0 ELSE backoff + 1
        /\ harvestPc' = IF raised THEN "idle" ELSE "walking"
        /\ added' = IF raised THEN {} ELSE added
        /\ UNCHANGED <<resolved, walked, known, limit, stored, lastCommit, samples,
                       resolvedAtStart, harvests>>

\* Any other error ends the run, as a crash or a cancellation does.
HarvestDies ==
    /\ harvestPc = "walking"
    /\ harvestPc' = "idle" /\ added' = {}
    /\ UNCHANGED <<resolved, walked, known, limit, stored, lastCommit, backoff, samples,
                   resolvedAtStart, harvests, setbacks>>

HarvestEnds ==
    /\ harvestPc = "walking" /\ walked = Len(History)
    /\ harvestPc' = "idle"
    /\ samples' = samples \cup added /\ added' = {}
    /\ UNCHANGED <<resolved, walked, known, limit, stored, lastCommit, backoff,
                   resolvedAtStart, harvests, setbacks>>

HarvestInit ==
    /\ resolved = {} /\ harvestPc = "idle" /\ walked = 0 /\ known = {} /\ limit = None
    /\ stored = 0 /\ lastCommit = 0 /\ backoff = 0 /\ added = {} /\ samples = {}
    /\ resolvedAtStart = {} /\ harvests = 0 /\ setbacks = 0

HarvestNext ==
    \/ \E id \in HistoryIds \ resolved : MarketResolves(id)
    \/ \E n \in Limits : HarvestStarts(n)
    \/ MarketPassedOver \/ MarketHarvested \/ RateLimited \/ HarvestDies \/ HarvestEnds

HarvestSpec == HarvestInit /\ [][HarvestNext]_harvestVars

---------------------------------------------------------------------------
(* Properties.                                                             *)

\* The trades on a side that anybody could have bought at before the game, and those
\* among the TRADE_LIMIT the venue lists first, which is all a harvest sees of them.
BeforeGame(m, side) ==
    {i \in DOMAIN m.trades : LET t == m.trades[i] IN
        t.side = side /\ t.price \in 1..99 /\ t.when < m.kickoff}
SeenBeforeGame(m, side) == {i \in BeforeGame(m, side) : i <= TradeLimit}

\* "data-api sends trades newest-first" (tests/test_backtest.py:5).
NewestFirst(m) ==
    \A i, j \in DOMAIN m.trades : i < j => m.trades[j].when <= m.trades[i].when

\* "A market already in the table is skipped, so an interrupted run costs nothing
\* to repeat" (backtest.py:263-264): however runs were cut off, a market in the
\* table has each side seen to trade before kickoff, once, and a loser to its
\* winner.  Half a market would skew the calibration, and resuming could not mend
\* it, because the market would count as known.  (A side whose trades before kickoff
\* all lie beyond the first TRADE_LIMIT is missing, and stays missing; a market
\* with no more trades than that has every side that traded.)
MarketsStoredWhole ==
    \A m \in Range(History) :
        LET mine == {s \in samples : s.market = m.id}
            traded == {side \in OutcomeIndexes : SeenBeforeGame(m, side) # {}}
        IN  mine # {} => /\ {s.side : s \in mine} = traded
                         /\ Cardinality(mine) = Cardinality(traded)
                         /\ \A s \in mine : s.won <=> m.winner = s.side

\* The closing price of a stored sample is the last one seen that anybody could have
\* bought at before the game: no trade from kickoff on, and none in between.  The
\* venue listing newest first, it is the last one of the market's whole history,
\* however much of that the request cut off; the count stored with it is of the
\* trades seen.
CloseIsLastPregame ==
    \A s \in samples :
        LET m == CHOOSE x \in Range(History) : x.id = s.market
            seen == SeenBeforeGame(m, s.side)
        IN  \E i \in seen :
               /\ m.trades[i].price = s.price
               /\ \A j \in seen : m.trades[j].when <= m.trades[i].when
               /\ NewestFirst(m) =>
                     \A j \in BeforeGame(m, s.side) : m.trades[j].when <= m.trades[i].when
               /\ s.trades = Cardinality(seen)

\* What the replays rest on: the table has markets whole as far as the request showed
\* them, at their closing prices.
SamplesAreSound == MarketsStoredWhole /\ CloseIsLastPregame

\* "An interrupted run only keeps its place if the work is actually durable"
\* (backtest.py:326-328): whenever a run is cut off, fewer than COMMIT_EVERY of
\* its samples are lost, and each market it has walked past that was resolved when
\* it began, with a trade seen before kickoff, is in the table or among those few.
HarvestKeepsItsPlace ==
    harvestPc = "walking" =>
        /\ Cardinality(added) < CommitEvery
        /\ \A i \in 1..walked :
              \/ History[i].id \notin resolvedAtStart
              \/ \A side \in OutcomeIndexes : SeenBeforeGame(History[i], side) = {}
              \/ \E s \in samples \cup added : s.market = History[i].id
=============================================================================
