------------------------------ MODULE Pricing ------------------------------
(***************************************************************************)
(* From a fair probability and an ask ladder to the bet that is suggested  *)
(* (core/edge.py): the taker fee, the edge, Kelly's stake, how much of the *)
(* ladder still clears the minimum edge, the resting limit price.          *)
(*                                                                         *)
(* Prices are cents per share, costs and fair probabilities parts of Unit, *)
(* percentages whole, stakes cents, money walked up a ladder 1/Unit of a   *)
(* dollar, shares bought hundredths.  Divisions round down.                *)
(***************************************************************************)
EXTENDS Matching

CONSTANTS
    OfferMarkets,   \* markets of the quotes checked here
    Ladders,        \* ask ladders: sequences of [price, size]
    Fairs,          \* fair probabilities
    PrefChoices     \* preferences the owner may have saved

VARIABLES
    quote,          \* the market, ladder, fair value and preferences priced
    offer           \* what build_opportunity returned for it

pricingVars == <<quote, offer>>

AskLevels == [price : 1..99, size : Nat]
Terms == [closed : BOOLEAN, accepting : BOOLEAN, start : Int \cup {None},
          fee : Nat \cup {None}, tick : (Nat \ {0}) \cup {None}, minOrder : Nat \cup {None},
          liquidity : Int \cup {None}]
OwnerPrefs == [bankroll : Nat, kelly : Nat, maxPct : Nat, minEdge : Int,
               minLiquidity : Int, fee : Nat, useMarketFee : BOOLEAN]

ASSUME PricingAssumption ==
    /\ Ladders \subseteq Seq(AskLevels) /\ Fairs \subseteq Int
    /\ OfferMarkets \subseteq Terms /\ PrefChoices \subseteq OwnerPrefs
    /\ None \notin Int

MinStake == 100     \* MIN_STAKE, in cents
DefaultTick == 1

---------------------------------------------------------------------------
EffectivePrice(price, rate) == price * 100 + (rate * price * (100 - price)) \div 100

KellyFraction(fair, cost) ==
    IF cost >= Unit THEN 0 ELSE Max({0, ((fair - cost) * Unit) \div (Unit - cost)})

\* stake_for, in cents.
StakeFor(prefs, kelly) ==
    LET raw == (prefs.bankroll * kelly * prefs.kelly) \div Unit
        cap == prefs.bankroll * prefs.maxPct
        stake == Min({raw, cap})
    IN  IF stake >= MinStake THEN stake ELSE 0

\* The levels of a ladder that sell anything, which are taken by price.  What
\* walking them one by one adds up is said here of the levels up to a price: those
\* of one price cost the same, and either all of them clear an edge or none does.
Sellable(asks) == {i \in DOMAIN asks : asks[i].size > 0}
BestAsk(asks) == Min({asks[i].price : i \in Sellable(asks)})
LevelCost(level, rate) == level.size * EffectivePrice(level.price, rate)
CostOfLevels(asks, places, rate) == SumOf([i \in places |-> LevelCost(asks[i], rate)])
SharesOfLevels(asks, places) == 100 * SumOf([i \in places |-> asks[i].size])

\* walk_asks: spend up the ladder, the last price in part.
WalkAsks(asks, usd, rate) ==
    LET Upto(i) == {j \in Sellable(asks) : asks[j].price <= asks[i].price}
        whole == {i \in Sellable(asks) : CostOfLevels(asks, Upto(i), rate) < usd}
        left == usd - CostOfLevels(asks, whole, rate)
        beyond == {asks[i].price : i \in Sellable(asks) \ whole}
    IN  IF beyond = {}
        THEN [shares |-> SharesOfLevels(asks, whole), spent |-> CostOfLevels(asks, whole, rate),
              full |-> usd = 0]
        ELSE [shares |-> SharesOfLevels(asks, whole)
                         + (left * 100) \div EffectivePrice(Min(beyond), rate),
              spent |-> usd, full |-> TRUE]

AveragePrice(walk) == IF walk.shares = 0 THEN 0 ELSE (walk.spent * 100) \div walk.shares

\* edge_clearing_depth: the money the ladder takes at prices below the first that
\* does not clear the minimum edge, and whether there is none.
Clears(level, fair, minEdge, rate) == fair - EffectivePrice(level.price, rate) >= minEdge
EdgeClearingDepth(asks, fair, minEdge, rate) ==
    LET dear == {i \in Sellable(asks) : ~Clears(asks[i], fair, minEdge, rate)}
        taken == {i \in Sellable(asks) : \A j \in dear : asks[i].price < asks[j].price}
    IN  [usd |-> CostOfLevels(asks, taken, rate), exhausted |-> dear = {}]

ResolveFeeRate(marketFee, prefs) ==
    IF marketFee = None \/ ~prefs.useMarketFee THEN prefs.fee ELSE marketFee

Plan(stake, fillPrice, complete, fillUsd, note) ==
    [stake |-> stake, fillPrice |-> fillPrice, complete |-> complete,
     fillUsd |-> fillUsd, note |-> note]
NoStake(note) == Plan(0, None, TRUE, None, note)

\* Money on a ladder, rounded to cents.
ToTheCent(usd) == (usd + 50) \div 100

\* How a stake fills, and whether the exchange takes so small an order.
FillOf(asks, stake, rate, minOrder, capped) ==
    LET walk == WalkAsks(asks, stake * 100, rate)
    IN  IF minOrder # None /\ walk.shares < minOrder * 100 THEN NoStake("minimum order")
        ELSE IF capped THEN Plan(stake, AveragePrice(walk), FALSE, stake, "edge capped")
        ELSE Plan(stake, AveragePrice(walk), walk.full,
                  IF walk.full THEN None ELSE ToTheCent(walk.spent), None)

\* plan_stake.  (Slip: the Kelly stake whatever the ladder holds.)
PlanUncapped(asks, fair, kelly, rate, prefs, minOrder) ==
    LET wanted == StakeFor(prefs, kelly)
    IN  IF wanted = 0 THEN NoStake(None) ELSE FillOf(asks, wanted, rate, minOrder, FALSE)
PlanStake(asks, fair, kelly, rate, prefs, minOrder) ==
    LET wanted == StakeFor(prefs, kelly)
        depth == EdgeClearingDepth(asks, fair, prefs.minEdge, rate)
        capped == ~depth.exhausted /\ wanted * 100 > depth.usd
        stake == IF capped THEN depth.usd \div 100 ELSE wanted
    IN  IF wanted = 0 THEN NoStake(None)
        ELSE IF capped /\ stake < MinStake THEN NoStake("no edge depth")
        ELSE FillOf(asks, stake, rate, minOrder, capped)

\* resting_limit_price over limit_price_for_edge: the dearest bid that clears
\* the edge without a fee and stays a tick below the ask.  (Slip: at the ask.)
LimitAtTheAsk(fair, minEdge, ask, tick) ==
    LET price == (((fair - minEdge) \div 100) \div tick) * tick
    IN  IF price <= 0 THEN None ELSE Min({price, ask})
RestingLimitPrice(fair, minEdge, ask, tick) ==
    LET price == (((fair - minEdge) \div 100) \div tick) * tick
    IN  IF price <= 0 \/ ask - tick <= 0 THEN None ELSE Min({price, ask - tick})

\* build_opportunity for a market at an hour: None when it is not worth showing.
BuildOpportunity(market, asks, fair, prefs, now) ==
    LET ask == BestAsk(asks)
        rate == ResolveFeeRate(market.fee, prefs)
        cost == EffectivePrice(ask, rate)
        kelly == KellyFraction(fair, cost)
        tick == IF market.tick = None THEN DefaultTick ELSE market.tick
    IN  IF \/ market.closed \/ ~market.accepting
           \/ market.start # None /\ market.start <= now
           \/ Sellable(asks) = {}
           \/ fair - cost < prefs.minEdge
           \/ market.liquidity # None /\ market.liquidity < prefs.minLiquidity
        THEN None
        ELSE [ask |-> ask, cost |-> cost, fair |-> fair, kelly |-> kelly,
              plan |-> PlanStake(asks, fair, kelly, rate, prefs, market.minOrder),
              limit |-> RestingLimitPrice(fair, prefs.minEdge, ask, tick)]

---------------------------------------------------------------------------
PricingInit == quote = None /\ offer = None

PriceQuote(market, asks, fair, prefs) ==
    /\ quote = None
    /\ quote' = [market |-> market, asks |-> asks, fair |-> fair, prefs |-> prefs]
    /\ offer' = BuildOpportunity(market, asks, fair, prefs, 0)

PricingNext ==
    \E market \in OfferMarkets, asks \in Ladders, fair \in Fairs, prefs \in PrefChoices :
        PriceQuote(market, asks, fair, prefs)

PricingSpec == PricingInit /\ [][PricingNext]_pricingVars

---------------------------------------------------------------------------
(* What a suggestion promises.                                             *)

Suggested == offer # None /\ offer.plan.stake > 0
QuoteRate == ResolveFeeRate(quote.market.fee, quote.prefs)

\* No share of a suggested stake is bought dearer than the minimum edge allows:
\* money reaches a level that no longer clears it only when the cheaper levels
\* could not have taken the whole stake, which must never be.  plan_stake cuts
\* the stake to edge_clearing_depth; a stake sized at the best ask alone, or
\* rounded up past that depth, would turn a recommendation negative.
SharesBoughtClear ==
    Suggested =>
    \A i \in Sellable(quote.asks) :
        LET cheaper == {j \in Sellable(quote.asks) : quote.asks[j].price < quote.asks[i].price}
        IN  ~Clears(quote.asks[i], quote.fair, quote.prefs.minEdge, QuoteRate)
            => offer.plan.stake * 100 <= CostOfLevels(quote.asks, cheaper, QuoteRate)

\* A suggested order can be placed: it keeps the owner's cap, what it says will
\* fill is, to the cent, money the ladder holds and that buys the market's
\* minimum in shares, and its limit price both rests below the ask and clears the
\* minimum edge.
SuggestionPlaceable ==
    Suggested =>
    LET filled == IF offer.plan.fillUsd = None THEN offer.plan.stake ELSE offer.plan.fillUsd
        Buys(usd) == WalkAsks(quote.asks, usd, QuoteRate).shares
        held == CostOfLevels(quote.asks, Sellable(quote.asks), QuoteRate)
    IN  /\ offer.plan.stake <= quote.prefs.bankroll * quote.prefs.maxPct
        /\ filled * 100 <= held + 50
        /\ quote.market.minOrder # None =>
              \E extra \in {0, 50} : Buys(filled * 100 + extra) >= quote.market.minOrder * 100
        /\ offer.limit # None => /\ offer.limit < offer.ask
                                 /\ quote.fair - offer.limit * 100 >= quote.prefs.minEdge
============================================================================
