------------------------------ MODULE Bakeoff ------------------------------
(***************************************************************************)
(* The bake-off of betting rules over the harvested history                *)
(* (services/strategies.py): the rows it may use, every rule's return on   *)
(* them, the same search over results shuffled within narrow price bands,  *)
(* and the holdout half of each league.                                    *)
(*                                                                         *)
(* Prices are cents, rates whole percentages, returns 1/Unit of a dollar   *)
(* per dollar staked.  One repetition of the shuffle stands for the        *)
(* hundreds, with any outcome the random generator could draw.             *)
(***************************************************************************)
EXTENDS Pricing

CONSTANTS
    HistoryRows,    \* rows of the samples table, in the order it lists them
    BakeRate,       \* fee_rate
    MaxCloseAge,    \* max_close_age_hours
    MaxPairError,   \* max_pair_error
    MinN            \* min_n, at least 1

VARIABLES
    pool,           \* the rows of the run, by their places in the table
    verdict         \* what run returned, None before

bakeoffVars == <<pool, verdict>>

Leagues == {HistoryRows[i].league : i \in DOMAIN HistoryRows}
Samples == [market : STRING, side : {0, 1}, league : Leagues, start : Int \cup {None},
            price : Int, won : BOOLEAN, type : STRING, trades : Nat, closeAge : Int \cup {None}]

\* The rows of a market are of one game.
ASSUME BakeoffAssumption ==
    /\ HistoryRows \in Seq(Samples)
    /\ \A i, j \in DOMAIN HistoryRows :
          HistoryRows[i].market = HistoryRows[j].market =>
          /\ HistoryRows[i].league = HistoryRows[j].league
          /\ HistoryRows[i].start = HistoryRows[j].start
    /\ None \notin Int

PermutationBand == 2

\* STRATEGIES, without the rules on totals (whose sides are names) and without
\* further combinations and price bands of the kind given.
Favorite(row) == row.price >= 55
Underdog(row) == row.price <= 45
Liquid(row) == row.trades >= 50
Thin(row) == row.trades < 20
Rules == {"everything", "favorites", "underdogs", "coinflips", "heavy_favs", "longshots",
          "spreads", "spread_lay", "nfl", "mlb_favs", "ml_dogs", "thin_dogs", "liquid_all"}
Selects(rule, row) ==
    CASE rule = "everything" -> TRUE
      [] rule = "favorites"  -> Favorite(row)
      [] rule = "underdogs"  -> Underdog(row)
      [] rule = "coinflips"  -> row.price >= 45 /\ row.price < 55
      [] rule = "heavy_favs" -> row.price >= 80
      [] rule = "longshots"  -> row.price < 20
      [] rule = "spreads"    -> row.type = "spreads"
      [] rule = "spread_lay" -> row.type = "spreads" /\ row.side = 0
      [] rule = "nfl"        -> row.league = "nfl"
      [] rule = "mlb_favs"   -> row.league = "mlb" /\ Favorite(row)
      [] rule = "ml_dogs"    -> row.type = "moneyline" /\ Underdog(row)
      [] rule = "thin_dogs"  -> Thin(row) /\ Underdog(row)
      [] rule = "liquid_all" -> Liquid(row)

---------------------------------------------------------------------------
(* The rows.                                                               *)

PairedOnly(rows) ==
    LET Sides(i) == {j \in DOMAIN rows : rows[j].market = rows[i].market}
        Quoted(i) == \E j \in Sides(i) \ {i} :
                        /\ Sides(i) = {i, j}
                        /\ Abs(rows[i].price + rows[j].price - 100) <= MaxPairError
    IN  Restrict(rows, {i \in DOMAIN rows : Quoted(i)})

RowsOf(markets) ==
    LET fresh == {i \in DOMAIN HistoryRows :
                     /\ HistoryRows[i].market \in markets /\ HistoryRows[i].closeAge # None
                     /\ HistoryRows[i].closeAge <= MaxCloseAge}
    IN  PairedOnly(Restrict(HistoryRows, fresh))

---------------------------------------------------------------------------
(* Scores.  "wons" is a result per row, the real ones or shuffled ones.    *)

RealWons(rows) == [i \in DOMAIN rows |-> rows[i].won]

Picks(rule, rows) == {i \in DOMAIN rows : Selects(rule, rows[i])}

PnlPerDollar(price, won) ==
    LET cost == EffectivePrice(price, BakeRate)
    IN  IF ~won \/ cost <= 0 \/ cost >= Unit THEN -Unit
        ELSE ((Unit - cost) * Unit) \div cost

\* score_picks: None for a rule that picks nothing.
Roi(picked, rows, wons) ==
    IF picked = {} THEN None
    ELSE SumOf([i \in picked |-> PnlPerDollar(rows[i].price, wons[i])]) \div Cardinality(picked)

ScoreOf(rule, rows, wons) ==
    [rule |-> rule, n |-> Cardinality(Picks(rule, rows)),
     roi |-> Roi(Picks(rule, rows), rows, wons)]

BakeoffScores(rows) == {ScoreOf(rule, rows, RealWons(rows)) : rule \in Rules}

BestRoi(rois) == IF rois = {} THEN None ELSE Max(rois)

\* The best rule of a run, among those with enough picks.
RealBest(rows) == BestRoi({s.roi : s \in {s \in BakeoffScores(rows) : s.n >= MinN}})

---------------------------------------------------------------------------
(* The null.                                                               *)

Bands(rows) == {rows[i].price \div PermutationBand : i \in DOMAIN rows}
InBand(rows, band) == {i \in DOMAIN rows : rows[i].price \div PermutationBand = band}
Winners(rows, wons, band) == Cardinality({i \in InBand(rows, band) : wons[i]})

\* shuffled_wins: the draws it can come up with.
ShuffledWins(rows) ==
    LET real == RealWons(rows)
    IN  {wons \in [DOMAIN rows -> BOOLEAN] :
            \A band \in Bands(rows) : Winners(rows, wons, band) = Winners(rows, real, band)}

\* permutation_null, one repetition.
PermutationNull(rows, wons) ==
    LET eligible == {Picks(rule, rows) : rule \in Rules}
    IN  BestRoi({Roi(picked, rows, wons) :
                    picked \in {p \in eligible : Cardinality(p) >= MinN}})

---------------------------------------------------------------------------
(* The holdout.                                                            *)

\* split_by_date, the early half.  (Slip: half of a league's rows.)
EarlyByCount(rows) ==
    LET OfLeague(i) == {j \in DOMAIN rows : rows[j].league = rows[i].league}
        Before(i) == {j \in OfLeague(i) : j < i}
    IN  {i \in DOMAIN rows : 2 * Cardinality(Before(i)) < Cardinality(OfLeague(i))}
Dated(rows, league) ==
    {i \in DOMAIN rows : rows[i].league = league /\ rows[i].start # None}
\* starts[len(starts) // 2] of the sorted starts: the first by which more than half,
\* rounded down, of the league's rows have started.
Cut(rows, league) ==
    LET dated == Dated(rows, league)
        UpTo(t) == {i \in dated : rows[i].start <= t}
    IN  Min({t \in {rows[i].start : i \in dated} :
                Cardinality(UpTo(t)) > Cardinality(dated) \div 2})
EarlyHalf(rows) ==
    {i \in DOMAIN rows : rows[i].start # None /\ rows[i].start < Cut(rows, rows[i].league)}

\* The rules ranked on the early half, each with its return there and later.
Holdout(rows, early) ==
    LET first == Restrict(rows, early)
        second == Restrict(rows, DOMAIN rows \ early)
        Later(rule) == CHOOSE s \in BakeoffScores(second) : s.rule = rule
    IN  {[rule |-> s.rule, early |-> s.roi, late |-> Later(s.rule).roi] :
            s \in {s \in BakeoffScores(first) : s.n >= Max({MinN \div 2, 1})}}

---------------------------------------------------------------------------
BakeoffInit == pool = <<>> /\ verdict = None

\* run, on some rows, with a draw of the shuffle.
StrategyBakeoff(rows, wons, early) ==
    /\ verdict = None
    /\ pool' = rows
    /\ verdict' = [best |-> RealBest(rows), drawn |-> wons,
                   null |-> PermutationNull(rows, wons),
                   early |-> early, holdout |-> Holdout(rows, early)]

BakeoffNext ==
    \E rows \in {RowsOf(markets) : markets \in SUBSET {r.market : r \in Range(HistoryRows)}} :
        \E wons \in ShuffledWins(rows) : StrategyBakeoff(rows, wons, EarlyHalf(rows))

BakeoffSpec == BakeoffInit /\ [][BakeoffNext]_bakeoffVars

---------------------------------------------------------------------------
(* Properties.                                                             *)

\* The null searches as the run did: had the shuffled results been the real ones,
\* the run's best rule would be exactly the best the null reports (the same rules
\* eligible, the same fee, the same losses), so the share of draws that beat the
\* real best is the p value of the whole search.
NullIsTheSearch ==
    LET reshuffled == [i \in DOMAIN pool |-> [pool[i] EXCEPT !.won = verdict.drawn[i]]]
    IN  /\ verdict.null = RealBest(reshuffled)
        /\ verdict.drawn = RealWons(pool) => verdict.null = verdict.best

\* A rule is judged on games that had not begun when its history ended: within a
\* league every early row starts before every late one, and both sides of a
\* market, whose results decide each other, are in one half.
HoldoutIsLater ==
    \A i \in verdict.early, j \in DOMAIN pool \ verdict.early :
        /\ pool[i].market # pool[j].market
        /\ pool[i].league = pool[j].league /\ pool[j].start # None =>
           pool[i].start < pool[j].start

\* What the module says makes such an exercise honest (services/strategies.py:10-24).
BakeoffIsHonest == verdict # None => NullIsTheSearch /\ HoldoutIsLater
=============================================================================
