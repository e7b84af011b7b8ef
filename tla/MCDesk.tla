------------------------------- MODULE MCDesk -------------------------------
(* Small instances of the desk's parts around the ledger.  Each behaviour    *)
(* exercises one of them, the focus; the others stay in their initial state. *)
EXTENDS Slate, Bakeoff, Fills, Harvest, Login, Feed, Wire, Prefs

CONSTANT Focuses    \* the parts a run exercises
VARIABLE focus

deskVars == <<focus, pricingVars, slateVars, bakeoffVars, fillsVars, harvestVars,
              loginVars, feedVars, wireVars, prefsVars>>

DeskInit ==
    /\ focus \in Focuses
    /\ PricingInit /\ SlateInit /\ BakeoffInit /\ FillsInit /\ HarvestInit
    /\ LoginInit /\ FeedInit /\ WireInit /\ PrefsInit

\* All of the desk but one part stays as it is.
Only(part) ==
    /\ focus = part /\ UNCHANGED focus
    /\ part # "pricing" => UNCHANGED pricingVars
    /\ part # "slate" => UNCHANGED slateVars
    /\ part # "bakeoff" => UNCHANGED bakeoffVars
    /\ part # "fills" => UNCHANGED fillsVars
    /\ part # "harvest" => UNCHANGED harvestVars
    /\ part # "login" => UNCHANGED loginVars
    /\ part # "feed" => UNCHANGED feedVars
    /\ part # "wire" => UNCHANGED wireVars
    /\ part # "prefs" => UNCHANGED prefsVars

DeskNext ==
    \/ Only("pricing") /\ PricingNext
    \/ Only("slate") /\ SlateNext
    \/ Only("bakeoff") /\ BakeoffNext
    \/ Only("fills") /\ FillsNext
    \/ Only("harvest") /\ HarvestNext
    \/ Only("login") /\ LoginNext
    \/ Only("feed") /\ FeedNext
    \/ Only("wire") /\ WireNext
    \/ Only("prefs") /\ PrefsNext

\* The fairness of LoginSpec, while the login page is the focus.
DeskFairness ==
    /\ WF_loginVars(focus = "login" /\ TimePasses)
    /\ WF_loginVars(focus = "login" /\ OwnerLogsIn)

DeskSpec == DeskInit /\ [][DeskNext]_deskVars /\ DeskFairness

---------------------------------------------------------------------------
(* Pricing: ladders with gaps, dust and empty levels; markets and          *)
(* preferences at their boundaries.                                        *)

Level(price, size) == [price |-> price, size |-> size]
MCLadders ==
    {<<>>, <<Level(45, 40), Level(50, 60)>>, <<Level(50, 60), Level(45, 3)>>,
     <<Level(45, 0), Level(48, 500)>>, <<Level(1, 30), Level(46, 2), Level(52, 900)>>,
     <<Level(46, 2), Level(57, 400)>>}
MCMarket == [closed |-> FALSE, accepting |-> TRUE, start |-> None, fee |-> None,
             tick |-> None, minOrder |-> None, liquidity |-> None]
MCOfferMarkets ==
    {MCMarket, [MCMarket EXCEPT !.fee = 10, !.minOrder = 5, !.tick = 1],
     [MCMarket EXCEPT !.start = 0], [MCMarket EXCEPT !.liquidity = 100, !.tick = 5],
     [MCMarket EXCEPT !.minOrder = 30]}
MCPrefs == [bankroll |-> 1000, kelly |-> 25, maxPct |-> 5, minEdge |-> 200,
            minLiquidity |-> 500, fee |-> 5, useMarketFee |-> TRUE]
MCPrefChoices ==
    {MCPrefs, [MCPrefs EXCEPT !.useMarketFee = FALSE, !.minLiquidity = 0],
     [MCPrefs EXCEPT !.minEdge = -500, !.bankroll = 20],
     [MCPrefs EXCEPT !.kelly = 100, !.maxPct = 100, !.bankroll = 90]}

---------------------------------------------------------------------------
(* Slate: a three game series, two games on one day, one with a spread.    *)

MCSeriesWindow == [mlb |-> 6]
Offered(id, event, type, start) ==
    LET spread == type = "spread"
    IN  [id |-> id, event |-> event, league |-> "mlb", type |-> type,
         keys |-> <<"BOS", "NYY">>, start |-> start,
         home |-> IF spread THEN None ELSE "NYY", away |-> IF spread THEN None ELSE "BOS",
         line |-> IF spread THEN -1 ELSE None, lineTeam |-> IF spread THEN "BOS" ELSE None,
         fee |-> None, tick |-> None, minOrder |-> 5, liquidity |-> None]
MCListing ==
    <<Offered("s2", "e2", "spread", None), Offered("m1", "e1", "moneyline", 17),
      Offered("m2", "e2", "moneyline", 23), Offered("m3", "e3", "moneyline", 41)>>
\* A game that is over, a market that does not parse beside one that does.
MCAbsences == {{}, {"m1"}, {"m2"}}
Quoted(who, point, price) == [who |-> who, point |-> point, price |-> price]
Booked(name, away, home, line, lay, take) ==
    [name |-> name,
     quotes |-> [h2h |-> <<Quoted("BOS", None, away), Quoted("NYY", None, home)>>,
                 spreads |-> <<Quoted("NYY", -line, take), Quoted("BOS", line, lay)>>,
                 totals |-> <<>>]]
GameAt(id, at, books) ==
    [id |-> id, league |-> "mlb", home |-> "NYY", away |-> "BOS", commence |-> at,
     books |-> books]
MCBookGames ==
    <<GameAt("b3", 41, <<Booked("pin", -150, 130, -1, 120, -140),
                         Booked("fan", -150, 50, 1, 120, -140)>>),
      GameAt("b1", 17, <<Booked("pin", -110, -110, -1, 150, -170)>>),
      GameAt("b2", 23, <<Booked("fan", 120, -140, 1, -125, 105),
                         Booked("pin", 115, -135, -1, 160, -190)>>)>>
MCOwnGame == [e1 |-> "b1", e2 |-> "b2", e3 |-> "b3"]
MCSlateAsks == ("m1" :> <<<<Level(46, 500), Level(40, 0)>>, <<Level(40, 9)>>>>)
    @@ [id \in {"s2", "m2", "m3"} |-> <<<<Level(40, 500)>>, <<Level(70, 500)>>>>]

\* The hypothesis of the theorems on game rows.
ASSUME DeskEventsApart == EventsApart
\* The other one of that on a neighbour's lines.
ASSUME DeskOwnGamesNearest == OwnGamesNearest
\* The hypothesis of those on fair values and on suggestions for both sides.
ASSUME DeskSidesApart == SidesApart

---------------------------------------------------------------------------
(* Fills: orders of several fills, of both outcomes, sold, and two alike.  *)

Fill(asset, side, size) == [asset |-> asset, side |-> side, size |-> size, price |-> 40]
MCTransactions ==
    << <<Fill("A", "BUY", 2), Fill("A", "BUY", 2)>>, <<Fill("A", "BUY", 1), Fill("B", "BUY", 3)>>,
       <<Fill("B", "SELL", 3)>>,
       <<Fill("A", "REDEEM", 1), Fill("B", "BUY", 1), Fill("B", "BUY", 1)>>,
       <<Fill("A", "BUY", 1)>> >>

---------------------------------------------------------------------------
(* Harvest: trades at, before and after kickoff; markets with one side;    *)
(* more trades than the request asks for, with and without a side cut off. *)

Traded(side, when, price) == [side |-> side, when |-> when, price |-> price]
MCHistory ==
    <<[id |-> "n1", kickoff |-> 3, winner |-> 0,
       trades |-> <<Traded(0, 3, 90), Traded(0, 2, 60), Traded(1, 1, 45), Traded(0, 1, 55)>>],
      [id |-> "n2", kickoff |-> 3, winner |-> 0,
       trades |-> <<Traded(1, 4, 99), Traded(1, 3, 98), Traded(1, 2, 30), Traded(0, 1, 70)>>],
      [id |-> "n3", kickoff |-> 3, winner |-> 0, trades |-> <<Traded(1, 5, 20)>>],
      [id |-> "n4", kickoff |-> 5, winner |-> 1,
       trades |-> <<Traded(0, 6, 97), Traded(1, 4, 20), Traded(0, 3, 82), Traded(1, 3, 25)>>]>>

---------------------------------------------------------------------------
(* Feed: every form of line and team, a market in two events, futures.     *)

MCTeamAliases == [nba |-> (<<"boston">> :> "BOS") @@ (<<"new", "york">> :> "NYK")
                          @@ (<<"knicks">> :> "NYK") @@ (<<"toronto">> :> "TOR")
                          @@ (<<"no">> :> "NOP") @@ (<<"pelicans">> :> "NOP")]
Label(words) == [words |-> words, title |-> TRUE]
Rivals == <<Label(<<"boston">>), Label(<<"ny", "knicks">>)>>

Asked(signed, before, named) ==
    [full |-> TRUE, type |-> "spread", signed |-> signed, before |-> before, after |-> None,
     named |-> named]
Plain == Asked(None, None, {})
Raw(id, stated, outcomes, line, question, team, points) ==
    [id |-> id, stated |-> stated, start |-> 17, outcomes |-> outcomes, tokens |-> 2,
     line |-> line, question |-> question, closed |-> FALSE, accepting |-> TRUE,
     book |-> None, teamIds |-> None, means |-> [team |-> team, line |-> points]]
RawMoneyline(id) == Raw(id, "moneyline", Rivals, None, Plain, None, None)
RawShared == Raw("f3", "spread", Rivals, -1, Asked(None, None, {"NYK"}), "NYK", -1)
MCFeedEvents ==
  << [game |-> TRUE, markets |-> <<
       RawMoneyline("f1"),
       Raw("f2", "spread", Rivals, None, Asked(-1, "BOS", {"BOS"}), "BOS", -1)>>],
     [game |-> TRUE, markets |-> <<
       RawShared,
       Raw("f4", "total", <<Label(<<"over">>), Label(<<"under">>)>>, 8, Plain, None, None)>>],
     [game |-> TRUE, markets |-> <<
       Raw("f5", "spread", <<Label(<<"toronto">>), Label(<<"new", "orleans", "pelicans">>)>>,
           2, Asked(None, None, {"TOR", "NOP"}), "TOR", 2),
       RawShared>>],
     [game |-> TRUE, markets |-> <<
       Raw("f6", "spread", <<Label(<<"yes">>), Label(<<"no">>)>>, None,
           Asked(-1, "BOS", {}), "BOS", -1),
       [Raw("f7", None, Rivals, None, Asked(1, None, {}), "BOS", 1) EXCEPT !.start = None],
       [RawMoneyline("f8") EXCEPT !.accepting = None, !.teamIds = <<1, 2>>],
       [RawMoneyline("f9") EXCEPT !.accepting = None, !.book = TRUE]>>],
     [game |-> FALSE, markets |-> <<
       [Raw("fx", None, Rivals, None, Plain, None, None) EXCEPT !.question.full = FALSE],
       [Raw("fy", "total", <<Label(<<"over">>)>>, None, Plain, None, None) EXCEPT !.tokens = 1]>>],
     [game |-> TRUE, markets |-> <<
       Raw("fa", None, Rivals, None,
           [Asked(1, None, {"NYK", "BOS"}) EXCEPT !.after = "NYK"], "NYK", 1)>>] >>
MCPlainOrder == <<5, 3, 1, 6, 2, 4>>
MCTeamOfId == [i \in {1, 2} |-> <<"BOS", "NYK">>[i]]

---------------------------------------------------------------------------
(* Bakeoff: two leagues, doubleheaders, an unpaired side, a stale close, a *)
(* kickoff nobody knows.                                                   *)

HistoryRow(market, side, sport, start, price, won) ==
    [market |-> market, side |-> side, league |-> sport, start |-> start, price |-> price,
     won |-> won, type |-> IF side = 0 THEN "spreads" ELSE "moneyline",
     trades |-> IF market \in {"h1", "h4"} THEN 60 ELSE 10,
     closeAge |-> IF market = "h6" THEN 4 ELSE 1]
BothSides(market, sport, start, price, winner) ==
    <<HistoryRow(market, 0, sport, start, price, winner = 0),
      HistoryRow(market, 1, sport, start, 101 - price, winner = 1)>>
MCHistoryRows == FlattenSeq(
    <<BothSides("h1", "mlb", 2, 60, 0), BothSides("h2", "mlb", 1, 61, 1),
      BothSides("h3", "mlb", 2, 40, 0), BothSides("h4", "nfl", 9, 41, 1),
      BothSides("h5", "nfl", None, 50, 1), BothSides("h6", "nfl", 8, 50, 0),
      <<HistoryRow("h7", 0, "mlb", 3, 97, FALSE)>>>>)

---------------------------------------------------------------------------
(* Prefs: the two venues.                                                  *)

MCPublished == [us |-> 695, com |-> 500]
=============================================================================
