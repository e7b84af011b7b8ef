------------------------------- MODULE Fills -------------------------------
(***************************************************************************)
(* The wallet import from the feed to the bet: data-api trades paged by    *)
(* offset, newest first (clients/polymarket.py), parsed, grouped by        *)
(* transaction and turned into bets (services/wallet_import.py), while the *)
(* owner goes on trading between two page requests.                        *)
(*                                                                         *)
(* One import at a time; module Ledger has several processes, locks and    *)
(* commits.  A transaction is indexed with all its fills at once and its   *)
(* number is also its time.                                                *)
(***************************************************************************)
EXTENDS Sums, Maybe, Integers, SequencesExt, FiniteSetsExt

CONSTANTS
    Transactions,   \* sequence of transactions, each a sequence of fills
    FillKickoff,    \* time the market starts
    Lookback,       \* fills before this are beyond LOOKBACK
    TradesPage,     \* WALLET_TRADES_PAGE
    MaxTradePages,  \* MAX_WALLET_PAGES
    MaxImports,     \* bound on imports
    MaxSamples      \* bound on the times the app prices the outcomes

VARIABLES
    indexed,        \* transactions the feed has
    tracked,        \* does the app track the market?
    sampled,        \* times the app priced the outcomes
    importPc,       \* idle, paging, read
    pageNo,         \* pages read
    pageRows,       \* rows read
    knownAtStart,   \* transactions the feed had when the import began
    walletBets,     \* imported bets
    imports         \* imports begun

fillsVars == <<indexed, tracked, sampled, importPc, pageNo, pageRows, knownAtStart,
               walletBets, imports>>

FillOutcomes == {"A", "B"}
SkipReasons == {"sell", "already", "unknown market", "not an outcome", "after kickoff"}
TradeFills == [asset : STRING, side : STRING, size : Nat, price : Nat]
TradeRows == [tx : Nat, when : Nat, asset : STRING, side : STRING, size : Nat, price : Nat]

ASSUME FillsAssumption ==
    /\ Transactions \in Seq(Seq(TradeFills))
    /\ FillKickoff \in Nat /\ Lookback \in Nat
    /\ TradesPage \in Nat \ {0} /\ MaxTradePages \in Nat \ {0}
    /\ None \notin Int /\ None \notin SkipReasons

\* The rows of a transaction, and the feed of the first t of them, newest first.
RowOf(t, n) ==
    LET f == Transactions[t][n]
    IN  [tx |-> t, when |-> t, asset |-> f.asset, side |-> f.side, size |-> f.size,
         price |-> f.price]
RowsOfTx(t) == [n \in DOMAIN Transactions[t] |-> RowOf(t, n)]
FeedOf[t \in 0..Len(Transactions)] ==
    IF t = 0 THEN <<>> ELSE RowsOfTx(t) \o FeedOf[t - 1]
TradeFeed == FeedOf[indexed]

\* What the rows at some places of a list of rows add up to.
SharesOf(rows, places) == SumOf([i \in places |-> rows[i].size])
CostOf(rows, places) == SumOf([i \in places |-> rows[i].size * rows[i].price])

---------------------------------------------------------------------------
(* The pure parts of the import.                                           *)

\* parse_fill: rows that state a side, a size and a price.
Parseable(row) == row.side \in {"BUY", "SELL"} /\ row.size > 0 /\ row.price \in 1..99

\* import_key, which group_fills shares but for the side.  (Slip: the hash alone.)
HashAlone(row) == <<row.tx, "A">>
ImportKey(row) == <<row.tx, row.asset>>

\* The places of the rows group_fills puts together.  (Slip: rows that look the
\* same are one.)
GroupDistinct(all, key, side) ==
    {i \in DOMAIN all : /\ Parseable(all[i]) /\ ImportKey(all[i]) = key /\ all[i].side = side
                        /\ \A j \in 1..(i - 1) : all[j] # all[i]}
FillGroup(all, key, side) ==
    {i \in DOMAIN all : Parseable(all[i]) /\ ImportKey(all[i]) = key /\ all[i].side = side}

\* fair_at: the time of the newest price at or before a fill.  (The code asks the forward
\* samples first and the opportunities only if these have none; here they are one table.)
FairAt(when) ==
    LET past == {t \in sampled : t <= when} IN IF past = {} THEN None ELSE Max(past)

\* Why import_fills leaves a group of one key out, or None.
WhySkipped(key, side) ==
    IF side # "BUY" THEN "sell"
    ELSE IF \E b \in walletBets : b.key = key THEN "already"
    ELSE IF ~tracked THEN "unknown market"
    ELSE IF key[2] \notin FillOutcomes THEN "not an outcome"
    ELSE IF key[1] >= FillKickoff THEN "after kickoff"
    ELSE None

\* The bet of a group.  (History: the transactions the feed had when the import
\* began, and whether the owner traded during it.)
WalletBet(all, key) ==
    LET group == FillGroup(all, key, "BUY")
    IN  [key |-> key, shares |-> SharesOf(all, group), cost |-> CostOf(all, group),
         fair |-> FairAt(key[1]), known |-> knownAtStart, crossed |-> indexed > knownAtStart]

---------------------------------------------------------------------------
(* The world.                                                              *)

PlaceTrade ==
    /\ indexed < Len(Transactions)
    /\ indexed' = indexed + 1
    /\ UNCHANGED <<tracked, sampled, importPc, pageNo, pageRows, knownAtStart, walletBets, imports>>

TrackMarket ==
    /\ ~tracked /\ tracked' = TRUE
    /\ UNCHANGED <<indexed, sampled, importPc, pageNo, pageRows, knownAtStart, walletBets, imports>>

PriceSample ==
    /\ tracked /\ indexed \notin sampled /\ Cardinality(sampled) < MaxSamples
    /\ sampled' = sampled \cup {indexed}
    /\ UNCHANGED <<indexed, tracked, importPc, pageNo, pageRows, knownAtStart, walletBets, imports>>

---------------------------------------------------------------------------
(* The import.                                                             *)

ImportStarts ==
    /\ importPc = "idle" /\ imports < MaxImports
    /\ importPc' = "paging" /\ imports' = imports + 1
    /\ pageNo' = 0 /\ pageRows' = <<>> /\ knownAtStart' = indexed
    /\ UNCHANGED <<indexed, tracked, sampled, walletBets>>

\* One request of wallet_trades: up to a short page, the last page it may ask
\* for, or a page with a row older than the lookback.
PageRead ==
    LET got == SubSeq(TradeFeed, pageNo * TradesPage + 1,
                      Min({(pageNo + 1) * TradesPage, Len(TradeFeed)}))
        last == \/ Len(got) < TradesPage
                \/ \E r \in Range(got) : r.when < Lookback
                \/ pageNo + 1 = MaxTradePages
    IN  /\ importPc = "paging"
        /\ pageRows' = pageRows \o got /\ pageNo' = pageNo + 1
        /\ importPc' = IF last THEN "read" ELSE "paging"
        /\ UNCHANGED <<indexed, tracked, sampled, knownAtStart, walletBets, imports>>

\* A request fails: nothing was written yet.
PageFails ==
    /\ importPc = "paging" /\ importPc' = "idle"
    /\ pageRows' = <<>>
    /\ UNCHANGED <<indexed, tracked, sampled, pageNo, knownAtStart, walletBets, imports>>

\* import_fills.
FillsImported ==
    LET groups == {<<ImportKey(f), f.side>> : f \in {r \in Range(pageRows) : Parseable(r)}}
        wanted == {g \in groups : WhySkipped(g[1], g[2]) = None}
    IN  /\ importPc = "read" /\ importPc' = "idle"
        /\ walletBets' = walletBets \cup {WalletBet(pageRows, g[1]) : g \in wanted}
        /\ pageRows' = <<>>
        /\ UNCHANGED <<indexed, tracked, sampled, pageNo, knownAtStart, imports>>

---------------------------------------------------------------------------
FillsInit ==
    /\ indexed = 0 /\ tracked = FALSE /\ sampled = {}
    /\ importPc = "idle" /\ pageNo = 0 /\ pageRows = <<>> /\ knownAtStart = 0
    /\ walletBets = {} /\ imports = 0

FillsNext ==
    \/ PlaceTrade \/ TrackMarket \/ PriceSample
    \/ ImportStarts \/ PageRead \/ PageFails \/ FillsImported

FillsSpec == FillsInit /\ [][FillsNext]_fillsVars

---------------------------------------------------------------------------
(* Properties.                                                             *)

\* Fills in one transaction on one outcome are one bet whose shares and cost are
\* their sums (services/wallet_import.py:15-16), also when they straddle a page
\* boundary or look alike.  If the owner trades between two page requests, rows
\* move down the list and one can be served twice, so the sums may be too large;
\* they are never short for an order the feed had when the import began: a row is
\* never stepped over.  (An order that is newer, older than the lookback, or on the
\* last page that is asked for may be cut in two.)
OwnFills(tx, asset) ==
    {n \in DOMAIN Transactions[tx] :
        LET row == RowOf(tx, n) IN Parseable(row) /\ row.asset = asset /\ row.side = "BUY"}
BetIsItsFills ==
    \A b \in walletBets :
        LET tx == b.key[1]
            shares == SharesOf(RowsOfTx(tx), OwnFills(tx, b.key[2]))
            cost == CostOf(RowsOfTx(tx), OwnFills(tx, b.key[2]))
        IN  tx \in Lookback..b.known /\ Len(TradeFeed) < TradesPage * MaxTradePages =>
            /\ b.shares >= shares /\ b.cost >= cost
            /\ ~b.crossed => b.shares = shares /\ b.cost = cost

\* An import that was read to the end misses nothing: every order of the feed
\* when it began, before kickoff, within the lookback and of a tracked market, is
\* a bet once it has finished, one per transaction and outcome.  (Beyond
\* MAX_WALLET_PAGES pages the oldest are cut off.)
Importable(tx, asset) ==
    /\ tx \in Lookback..(FillKickoff - 1) /\ asset \in FillOutcomes
    /\ \E n \in DOMAIN Transactions[tx] :
          LET row == RowOf(tx, n) IN row.asset = asset /\ row.side = "BUY" /\ Parseable(row)
NothingMissed ==
    [][FillsImported /\ tracked /\ pageNo < MaxTradePages =>
       \A tx \in 1..knownAtStart, asset \in FillOutcomes :
           Importable(tx, asset) =>
           Cardinality({b \in walletBets' : b.key = <<tx, asset>>}) = 1]_fillsVars

\* fair_at_bet never looks ahead: it is the newest price from before the order
\* was filled, also when the import runs long after and newer prices exist.
FairFromBeforeTheFill ==
    \A b \in walletBets :
        /\ b.fair # None => b.fair <= b.key[1]
        /\ \A t \in sampled : t < b.key[1] => b.fair # None /\ b.fair >= t

\* What an imported bet says of its order: what was bought, for how much, and what
\* it was worth when it was bought (import_fills).
BetsAreTheirOrders == BetIsItsFills /\ FairFromBeforeTheFill
=============================================================================
