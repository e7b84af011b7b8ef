------------------------------ MODULE Matching ------------------------------
(***************************************************************************)
(* Which posted book game a market is priced from, and the fair            *)
(* probability the books give its outcomes (core/matching.py,              *)
(* core/odds_math.py).  Everything here is a pure function.                *)
(*                                                                         *)
(* Times are hours, probabilities parts of Unit, weights integers.  The    *)
(* power method, whose exponent bisection finds in floating point, is left *)
(* out; Shin's is here because on two outcomes it is the additive one.     *)
(***************************************************************************)
EXTENDS Sums, Maybe, Integers, SequencesExt, FiniteSetsExt

CONSTANTS
    TeamAliases,    \* [league -> [normalized spelling -> team key]]
    SeriesWindow,   \* [league -> hours], of the leagues that play series
    EasternLag      \* hours from UTC to the day the leagues count by

Unit == 10000
Abs(n) == IF n < 0 THEN -n ELSE n
HasTwo(S) == Cardinality(S) = 2

---------------------------------------------------------------------------
(* Names.  A name is its normalized words, and whether it was written with *)
(* a capital "No".                                                         *)

Spellings(words) ==
    LET n == Len(words) IN
    <<words>> \o (IF n >= 2 THEN <<SubSeq(words, n, n)>> ELSE <<>>)
              \o (IF n >= 3 THEN <<SubSeq(words, n - 1, n)>> ELSE <<>>)

\* "Yes" and title-case "No" are labels of a binary market, never a team.
IsBinaryLabel(name) ==
    name.words = <<"yes">> \/ (name.words = <<"no">> /\ name.title)

TeamKey(name, league) ==
    IF league \notin DOMAIN TeamAliases \/ name.words = <<>> \/ IsBinaryLabel(name)
    THEN None
    ELSE LET known == SelectSeq(Spellings(name.words),
                                LAMBDA w : w \in DOMAIN TeamAliases[league])
         IN  IF known = <<>> THEN None ELSE TeamAliases[league][Head(known)]

---------------------------------------------------------------------------
(* Matching.  A market has two outcomes' keys, and the teams and the       *)
(* kickoff its event states, any of which may be missing.                  *)

GameDay(t) == (t - EasternLag) \div 24

\* (Slip: a league's own limit is forgotten.)
WithinWindow(league, start, commence, window) == Abs(commence - start) <= window
WithinLeagueWindow(league, start, commence, window) ==
    /\ Abs(commence - start) <= window
    /\ league \in DOMAIN SeriesWindow =>
          \/ Abs(commence - start) <= SeriesWindow[league]
          \/ GameDay(start) = GameDay(commence)

MarketPair(market) ==
    LET stated == {market.home, market.away} \ {None}
        traded == {market.keys[1], market.keys[2]} \ {None}
    IN  IF HasTwo(stated) THEN stated
        ELSE IF market.type # "total" /\ HasTwo(traded) THEN traded
        ELSE None

\* _index_games: the places of a pairing's games in the order they were fetched.
GamesOf(games, league, pair) ==
    {i \in DOMAIN games : games[i].league = league /\ {games[i].home, games[i].away} = pair}

\* The first of the games nearest to a start.
Nearest(games, near, start) ==
    LET Gap(i) == Abs(games[i].commence - start)
    IN  games[Min({i \in near : \A j \in near : Gap(i) <= Gap(j)})]

Matched(game) == [game |-> game, reason |-> None]
Unmatched(why) == [game |-> None, reason |-> why]

\* _match_one.
MatchOne(market, games, window) ==
    LET pair == MarketPair(market)
        candidates == IF pair = None THEN {} ELSE GamesOf(games, market.league, pair)
        near == {i \in candidates : WithinLeagueWindow(market.league, market.start,
                                                       games[i].commence, window)}
    IN  IF pair = None THEN Unmatched("no teams")
        ELSE IF candidates = {} THEN Unmatched("no book game")
        ELSE IF market.start = None
             THEN IF Cardinality(candidates) = 1 THEN Matched(games[Min(candidates)])
                                                 ELSE Unmatched("no start time")
        ELSE IF near # {} THEN Matched(Nearest(games, near, market.start))
        ELSE IF \E i \in candidates : Abs(games[i].commence - market.start) <= window
             THEN Unmatched("different game day")
        ELSE Unmatched("outside match window")

\* match_games and unmatched_reasons, over the ids of a set of markets.
MatchGames(markets, games, window) ==
    LET tried == {[id |-> m.id, game |-> MatchOne(m, games, window).game] : m \in markets}
        hits == {x \in tried : x.game # None}
    IN  [i \in {x.id : x \in hits} |-> (CHOOSE x \in hits : x.id = i).game]

UnmatchedReasons(markets, games, window) ==
    {x \in {[id |-> m.id, reason |-> MatchOne(m, games, window).reason] : m \in markets} :
        x.reason # None}

---------------------------------------------------------------------------
(* Odds.                                                                   *)

\* Is there such an American price?
ValidAmerican(odds) == odds <= -100 \/ odds >= 100
AmericanToProb(odds) ==
    IF odds > 0 THEN (100 * Unit) \div (odds + 100) ELSE ((-odds) * Unit) \div (100 - odds)

\* De-vigged probabilities of two raw ones.  Shin's coincide with the additive
\* ones on two outcomes, but need an overround.
MultiplicativeDevig(raw) == [i \in 1..2 |-> (raw[i] * Unit) \div (raw[1] + raw[2])]
AdditiveDevig(raw) == [i \in 1..2 |-> raw[i] - (raw[1] + raw[2] - Unit) \div 2]
Rejected(raw, method) == method = "shin" /\ raw[1] + raw[2] < Unit
Devig(raw, method) ==
    IF method = "multiplicative" THEN MultiplicativeDevig(raw) ELSE AdditiveDevig(raw)

\* consensus of the samples of some books: None when every book is excluded, a
\* value of None when a probability is out of (0, 1).
Weight(weights, book) == IF book \in DOMAIN weights THEN weights[book] ELSE 1
Consensus(samples, weights) ==
    LET used == {i \in DOMAIN samples : Weight(weights, samples[i].book) > 0}
        weight == [i \in used |-> Weight(weights, samples[i].book)]
        share == [i \in used |-> samples[i].prob * weight[i]]
    IN  IF \E i \in DOMAIN samples : samples[i].prob \notin 1..(Unit - 1)
        THEN [value |-> None, books |-> {}]
        ELSE IF used = {} THEN None
        ELSE [value |-> SumOf(share) \div SumOf(weight),
              books |-> {samples[i].book : i \in used}]

---------------------------------------------------------------------------
(* The fair probability of an outcome, at the market's own line.           *)

BookKey == [moneyline |-> "h2h", spread |-> "spreads", total |-> "totals"]

QuoteOf(outcomes, who, point, exact) ==
    LET at == {i \in DOMAIN outcomes :
                  outcomes[i].who = who /\ (exact => outcomes[i].point = point)}
    IN  IF at = {} THEN None ELSE outcomes[Min(at)]

OtherSide(side) == IF side = "over" THEN "under" ELSE "over"

\* The point this outcome must be quoted at, None when the line is nobody's.
\* (Slip: both teams are quoted at the market's own line.)
SameLine(market, this, other) == market.line
RequiredPoint(market, this, other) ==
    IF market.lineTeam = this THEN market.line
    ELSE IF other = None \/ market.lineTeam = other THEN -market.line
    ELSE None

\* _pair_for_book: <<quote of this side, quote of the other>>, None for what is not
\* quoted.
PairForBook(market, index, game, outcomes) ==
    LET this == market.keys[index]
        other == market.keys[3 - index]
        opp == IF other # None THEN other
               ELSE IF this = game.home THEN game.away ELSE game.home
        exact == market.type # "moneyline"
        bad == \/ exact /\ market.line = None
               \/ this = None
               \/ /\ market.type = "spread"
                  /\ market.lineTeam = None \/ RequiredPoint(market, this, other) = None
        point == IF market.type = "spread" THEN RequiredPoint(market, this, other)
                                           ELSE market.line
        facing == IF market.type = "spread" THEN -point ELSE point
        pair == IF market.type = "total"
                THEN <<QuoteOf(outcomes, this, point, TRUE),
                       QuoteOf(outcomes, OtherSide(this), point, TRUE)>>
                ELSE <<QuoteOf(outcomes, this, point, exact),
                       QuoteOf(outcomes, opp, IF exact THEN facing ELSE point, exact)>>
    IN  IF bad THEN <<None, None>> ELSE pair

\* A book is skipped unless it quotes both sides, at prices the method can de-vig.
RawOf(pair) == [i \in 1..2 |-> AmericanToProb(pair[i].price)]
Usable(pair, method) ==
    /\ None \notin Range(pair) /\ ValidAmerican(pair[1].price) /\ ValidAmerican(pair[2].price)
    /\ ~Rejected(RawOf(pair), method)

FairForOutcome(market, index, game, weights, method) ==
    LET pair(i) == PairForBook(market, index, game, game.books[i].quotes[BookKey[market.type]])
        quoting == {i \in DOMAIN game.books : Usable(pair(i), method)}
        samples == [i \in quoting |-> [book |-> game.books[i].name,
                                       prob |-> Devig(RawOf(pair(i)), method)[1]]]
    IN  IF market.type \notin DOMAIN BookKey \/ quoting = {} THEN None
        ELSE Consensus(samples, weights)
=============================================================================
