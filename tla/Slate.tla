------------------------------- MODULE Slate -------------------------------
(***************************************************************************)
(* One league's scan (services/scan.py, services/adapters.py): listing the *)
(* venue's markets, filing them under game rows, fetching book games or    *)
(* rebuilding stored ones, deciding which markets may be compared with     *)
(* them, pricing those and giving every other one its reason.              *)
(*                                                                         *)
(* A pairing that meets several times, as in a baseball series: each event *)
(* is one game with a moneyline and perhaps a sibling market.  The venue   *)
(* pauses and closes markets, its list of active events lacks those that   *)
(* are over or that it fails to give, and the books post and drop games    *)
(* between and during scans.  The kickoffs stay (module Closing moves      *)
(* them); one process scans (module Ledger has several).                   *)
(***************************************************************************)
EXTENDS Pricing

CONSTANTS
    Listing,        \* markets in the order the venue lists them
    Absences,       \* sets of markets that a list may lack
    BookGames,      \* book games in the order the Odds API lists them
    OwnGame,        \* [event -> id of its book game]
    Hours,          \* hours the clock shows
    SlatePrefs,     \* the owner's preferences
    SlateAsks,      \* [market id -> the ask ladders of its two tokens]
    Method,         \* devig_method
    MatchWindow,    \* match_window_hours
    StaleHours,     \* stale_book_minutes, in hours; 0 for no limit
    MaxSlateScans,  \* bound on scans
    MaxChanges      \* bound on what the venue and the books change

VARIABLES
    hour,
    board,          \* [market id -> state on the venue]
    posted,         \* ids of the book games posted now
    changes,
    slatePc, kind, slateNow,
    listed,         \* the board as events() returned it to the last scan
    gameRows,       \* the games table, by id
    filed,          \* [market id -> id of its game row]: the markets table
    lines,          \* newest stored book quotes: [row, of, by, at]
    seenClosed,     \* events a scan has listed a closed market of
    report,         \* what the last scan made of each market
    slateScans

slateVars == <<hour, board, posted, changes, slatePc, kind, slateNow, listed,
               gameRows, filed, lines, seenClosed, report, slateScans>>

MarketIds == {m.id : m \in Range(Listing)}
Events == {m.event : m \in Range(Listing)}
BookIds == {g.id : g \in Range(BookGames)}
BoardStates == {"open", "paused", "closed"}
MarketOf(id) == CHOOSE m \in Range(Listing) : m.id = id
BookOf(id) == CHOOSE g \in Range(BookGames) : g.id = id
SameGameTolerance == 3
NoReport == [priced |-> {}, reasons |-> {}, opps |-> {}]

WhyNot == {"market closed", "market paused", "game started", "no book at line", "no teams",
           "no book game", "no start time", "different game day", "outside match window"}
Names == STRING \cup {None}
PostedBooks == UNION {Range(g.books) : g \in Range(BookGames)}
PostedGame == [id : BookIds, league : STRING, home : STRING, away : STRING, commence : Int,
               books : Seq(PostedBooks)]

\* Quotes, at prices that Unit tells from nothing.
Quotes == {q \in [who : Names, point : Int \cup {None}, price : Int] :
              ValidAmerican(q.price) => AmericanToProb(q.price) > 0}

\* A market and a book game have one id each; a market has two outcomes, of a total
\* overs and unders.
ASSUME SlateAssumption ==
    /\ Listing \in Seq(Range(Listing)) /\ BookGames \in Seq(PostedGame)
    /\ \A i, j \in DOMAIN Listing : Listing[i].id = Listing[j].id => i = j
    /\ Absences \subseteq SUBSET MarketIds
    /\ \A i, j \in DOMAIN BookGames : BookGames[i].id = BookGames[j].id => i = j
    /\ \A m \in Range(Listing) :
          /\ {m.home, m.away, m.keys[1], m.keys[2]} \subseteq Names
          /\ {m.start, m.line} \subseteq Int \cup {None}
          /\ m.fee \in Nat \cup {None}
          /\ m.type = "total" => {m.keys[1], m.keys[2]} \subseteq {"over", "under", None}
    /\ \A book \in PostedBooks, type \in Range(BookKey) : book.quotes[type] \in Seq(Quotes)
    /\ IsFiniteSet(Hours) /\ Hours # {} /\ Hours \subseteq Int
    /\ MatchWindow \in Nat /\ StaleHours \in Nat /\ Range(SeriesWindow) \subseteq Nat
    /\ SlateAsks \in [MarketIds -> Seq(AskLevels) \X Seq(AskLevels)] /\ SlatePrefs \in OwnerPrefs
    /\ None \notin Int /\ None \notin PostedGame /\ None \notin WhyNot

---------------------------------------------------------------------------
(* Persistence.                                                            *)

\* The venue's flags of a market as events() listed it.
ListedClosed(market) == listed[market.id] = "closed"
ListedOpen(market) == listed[market.id] = "open"

\* The markets of the list: the others are of a closed event, which events() does not
\* ask for, or were lost on the way, with all of the league if events() failed.
ListedMarkets == {m \in Range(Listing) : listed[m.id] # "unlisted"}

\* _market_teams: <<home, away>>.
MarketTeams(market) ==
    IF None \notin {market.home, market.away} THEN <<market.home, market.away>>
    ELSE IF /\ market.type # "total" /\ None \notin Range(market.keys)
            /\ market.keys[1] # market.keys[2]
         THEN <<market.keys[2], market.keys[1]>>
    ELSE <<market.home, market.away>>

\* _kickoff, as in module Closing.
RowStart(current, market) ==
    IF market.start = None THEN current
    ELSE IF current = None \/ market.type = "moneyline" \/ market.start > current
         THEN market.start ELSE current

\* _game_status, and the status a row keeps: once final it stays final.  (Slip:
\* the last market listed decides.)
LastStatus(old, status) == status
KeptStatus(old, status) == IF old = "final" THEN "final" ELSE status
GameStatus(market, start, now) ==
    IF ListedClosed(market) THEN "final"
    ELSE IF start # None /\ start <= now THEN "live" ELSE "scheduled"

\* The row upsert_game writes to: the event's, else one of the same teams with
\* nearly the same kickoff, else a new one.  (Slip: same teams, same day.)
RowByDay(rows, market) ==
    LET teams == MarketTeams(market)
        near == {i \in DOMAIN rows :
                    /\ <<rows[i].home, rows[i].away>> = teams
                    /\ rows[i].start # None /\ market.start # None
                    /\ GameDay(rows[i].start) = GameDay(market.start)}
    IN  IF near # {} THEN Min(near) ELSE Len(rows) + 1
RowFor(rows, market) ==
    LET teams == MarketTeams(market)
        same == {i \in DOMAIN rows : rows[i].event = market.event}
        near == {i \in DOMAIN rows :
                    /\ None \notin Range(teams) /\ market.start # None
                    /\ <<rows[i].home, rows[i].away>> = teams
                    /\ rows[i].start # None
                    /\ Abs(rows[i].start - market.start) <= SameGameTolerance}
    IN  IF same # {} THEN Min(same) ELSE IF near # {} THEN Min(near) ELSE Len(rows) + 1

\* upsert_game and upsert_market.
Upsert(store, market) ==
    LET at == RowFor(store.rows, market)
        teams == MarketTeams(market)
        old == IF at \in DOMAIN store.rows THEN store.rows[at]
               ELSE [event |-> None, home |-> None, away |-> None, start |-> None,
                     status |-> "scheduled"]
        start == RowStart(old.start, market)
        status == GameStatus(market, start, slateNow)
        new == [event |-> market.event,
                home |-> IF teams[1] = None THEN old.home ELSE teams[1],
                away |-> IF teams[2] = None THEN old.away ELSE teams[2],
                start |-> start,
                status |-> KeptStatus(old.status, status)]
    IN  [rows |-> IF at \in DOMAIN store.rows THEN [store.rows EXCEPT ![at] = new]
                                              ELSE Append(store.rows, new),
         filed |-> [id \in DOMAIN store.filed \cup {market.id} |->
                       IF id = market.id THEN at ELSE store.filed[id]]]

\* The tables after the first n markets, and after all of them: those of the list
\* are upserted, and the rows of other events stay as they are.
UpsertedTo[n \in 0..Len(Listing)] ==
    IF n = 0 THEN [rows |-> gameRows, filed |-> filed]
    ELSE IF Listing[n] \notin ListedMarkets THEN UpsertedTo[n - 1]
    ELSE Upsert(UpsertedTo[n - 1], Listing[n])
Upserted == UpsertedTo[Len(Listing)]

---------------------------------------------------------------------------
(* The books.                                                              *)

\* _fetch_books: what the Odds API lists, or one book per game from ESPN's
\* scoreboard if that has any, or None.
PostedGames == [i \in {j \in DOMAIN BookGames : BookGames[j].id \in posted} |-> BookGames[i]]
EspnGames == [i \in DOMAIN PostedGames |->
                 [PostedGames[i] EXCEPT !.books = IF @ = <<>> THEN @ ELSE <<Head(@)>>]]
FetchBooks(out) ==
    IF kind = "poly" \/ "espn" \in out THEN None
    ELSE IF "oddsapi" \notin out THEN PostedGames
    ELSE IF posted = {} THEN None ELSE EspnGames

\* What may be out of reach of a scan, with the Odds API up or down.
Outages == {{}, {"clob"}} \cup
           IF kind = "poly" THEN {} ELSE {{"oddsapi"}, {"oddsapi", "espn"}}

\* _stored_books, stored_book_game, book_game_from_rows: the newest snapshot of each
\* row of the list, if it is not stale, dressed as a game at the row's own kickoff.
FreshEnough(line) == StaleHours = 0 \/ line.at >= slateNow - StaleHours
StoredBooks(store) ==
    LET rows == store.rows
        usable == {i \in DOMAIN rows :
                      /\ \E m \in ListedMarkets : store.filed[m.id] = i
                      /\ rows[i].start # None /\ None \notin {rows[i].home, rows[i].away}
                      /\ \E l \in lines : l.row = i /\ FreshEnough(l)}
        Newest(i) == CHOOSE l \in lines : l.row = i
    IN  [i \in usable |-> [BookOf(Newest(i).of) EXCEPT !.commence = rows[i].start]]

---------------------------------------------------------------------------
(* Which markets are priced.                                               *)

\* _skip_reason.
SkipReason(market) ==
    IF ListedClosed(market) THEN "market closed"
    ELSE IF ~ListedOpen(market) THEN "market paused"
    ELSE IF market.start # None /\ market.start <= slateNow THEN "game started"
    ELSE None

Tradable == {m \in ListedMarkets : SkipReason(m) = None}

\* The matches left once the games the books have under way are dropped.
\* (Slip: all of them.)
AllMatched(matched) == DOMAIN matched
NotUnderWay(matched) == {id \in DOMAIN matched : matched[id].commence > slateNow}

BothFairs(market, game) == <<FairForOutcome(market, 1, game, <<>>, Method),
                              FairForOutcome(market, 2, game, <<>>, Method)>>
HasFair(fair) == fair # None /\ fair.value # None

\* The reasons of the markets that are not priced.  (Slip: a match dropped
\* because the books have it under way is forgotten.)
ReasonsForgetful(matched, kept, unpriced) ==
    {[id |-> m.id, reason |-> SkipReason(m)] : m \in ListedMarkets \ Tradable}
    \cup {[id |-> i, reason |-> "no book at line"] : i \in unpriced}
Reasons(matched, kept, unpriced) ==
    {[id |-> m.id, reason |-> SkipReason(m)] : m \in ListedMarkets \ Tradable}
    \cup {[id |-> i, reason |-> "game started"] : i \in DOMAIN matched \ kept}
    \cup {[id |-> i, reason |-> "no book at line"] : i \in unpriced}

---------------------------------------------------------------------------
(* The world.                                                              *)

\* Bound: after the last scan has listed the board nothing else is of interest.
Watching == slateScans < MaxSlateScans

HourPasses ==
    /\ Watching
    /\ \E h \in Hours : h > hour
    /\ hour' = Min({h \in Hours : h > hour})
    /\ UNCHANGED <<board, posted, changes, slatePc, kind, slateNow, listed, gameRows,
                   filed, lines, seenClosed, report, slateScans>>

VenueChanges(id, flag) ==
    /\ Watching /\ changes < MaxChanges /\ changes' = changes + 1
    /\ board[id] \notin {flag, "closed"}
    /\ board' = [board EXCEPT ![id] = flag]
    /\ UNCHANGED <<hour, posted, slatePc, kind, slateNow, listed, gameRows, filed, lines,
                   seenClosed, report, slateScans>>

BooksChange(id) ==
    /\ Watching /\ changes < MaxChanges /\ changes' = changes + 1
    /\ posted' = SymDiff(posted, {id})
    /\ UNCHANGED <<hour, board, slatePc, kind, slateNow, listed, gameRows, filed, lines,
                   seenClosed, report, slateScans>>

---------------------------------------------------------------------------
(* The scan.                                                               *)

\* run_scan reads the clock, _scan_league lists the league's active events.
SlateList(k, missing) ==
    /\ slatePc = "idle" /\ slateScans < MaxSlateScans
    /\ slatePc' = "listed" /\ slateScans' = slateScans + 1
    /\ kind' = k /\ slateNow' = hour
    /\ listed' = [id \in MarketIds |-> IF id \in missing THEN "unlisted" ELSE board[id]]
    /\ report' = NoReport
    /\ UNCHANGED <<hour, board, posted, changes, gameRows, filed, lines, seenClosed>>

\* _price_game over the markets that are kept: the fair values of both sides.
FairsOf(matched, kept) ==
    {[id |-> id, both |-> BothFairs(MarketOf(id), matched[id])] : id \in kept}

\* _store_book_quotes: the lines stored for a row are those of its first market
\* that matched.
StoredLines(matched, kept, rowOf) ==
    LET Of(row) == {i \in DOMAIN Listing : Listing[i].id \in kept /\ rowOf[Listing[i].id] = row}
        First(row) == Listing[Min(Of(row))].id
    IN  {[row |-> r, of |-> matched[First(r)].id, by |-> First(r), at |-> slateNow] :
            r \in {rowOf[id] : id \in kept}}

\* The lines a market is priced from, whether they are another game's or stored
\* under another row, and whether its own were there to be used.
Source(id, store, fresh, games, game) ==
    IF fresh # None
    THEN LET own == OwnGame[MarketOf(id).event] IN
         [of |-> game.id, by |-> id, at |-> slateNow, stray |-> game.id # own,
          had |-> \E g \in Range(games) : g.id = own]
    ELSE LET l == CHOOSE x \in lines : /\ x.row \in DOMAIN games
                                         /\ x.of = game.id /\ FreshEnough(x)
                                         /\ store.rows[x.row].start = game.commence
         IN  [of |-> l.of, by |-> l.by, at |-> l.at, stray |-> l.row # store.filed[id],
              had |-> store.filed[id] \in DOMAIN games]

\* A market as build_opportunity gets it.
Flagged(id) == LET m == MarketOf(id)
               IN  [closed |-> ListedClosed(m), accepting |-> ListedOpen(m), start |-> m.start,
                    fee |-> m.fee, tick |-> m.tick, minOrder |-> m.minOrder,
                    liquidity |-> m.liquidity]

\* The sides that are worth showing, unless the order books were out of reach.
\* (Slip: the book of the market's first token for both.)
Worth(id, asks, fair) ==
    HasFair(fair) /\ BuildOpportunity(Flagged(id), asks, fair.value, SlatePrefs, slateNow) # None
OpportunitiesOfFirst(out, fairs) ==
    {x \in {<<f.id, i, f.both[i]>> : f \in fairs, i \in 1..2} :
        "clob" \notin out /\ Worth(x[1], SlateAsks[x[1]][1], x[3])}
Opportunities(out, fairs) ==
    {x \in {<<f.id, i, f.both[i]>> : f \in fairs, i \in 1..2} :
        "clob" \notin out /\ Worth(x[1], SlateAsks[x[1]][x[2]], x[3])}

\* The end of _scan_league, from the rows, the books and the matches.
PriceMatched(out, store, fresh, games, matched, kept, fairs) ==
    LET priced == {f \in fairs : HasFair(f.both[1]) \/ HasFair(f.both[2])}
        stored == StoredLines(matched, kept, store.filed)
    IN  /\ lines' = IF fresh = None THEN lines
                    ELSE {l \in lines : \A n \in stored : n.row # l.row} \cup stored
        /\ report' = [priced |-> {[id |-> f.id, fairs |-> f.both, commence |-> matched[f.id].commence,
                                 from |-> Source(f.id, store, fresh, games, matched[f.id])] :
                                   f \in priced},
                      reasons |-> Reasons(matched, kept, kept \ {f.id : f \in priced})
                                  \cup UnmatchedReasons(Tradable, games, MatchWindow),
                      opps |-> {<<x[1], x[2]>> : x \in Opportunities(out, priced)}]

PriceKept(out, store, fresh, games, matched) ==
    LET kept == NotUnderWay(matched)
    IN  PriceMatched(out, store, fresh, games, matched, kept, FairsOf(matched, kept))

PriceWith(out, store, fresh) ==
    LET games == IF fresh = None THEN StoredBooks(store) ELSE fresh
    IN  PriceKept(out, store, fresh, games, MatchGames(Tradable, games, MatchWindow))

\* The rest of _scan_league: rows, books, matching, stored quotes, prices.
SlatePrice(out) ==
    /\ slatePc = "listed" /\ slatePc' = "idle"
    /\ gameRows' = Upserted.rows /\ filed' = Upserted.filed
    /\ seenClosed' = seenClosed \cup {m.event : m \in {x \in Range(Listing) : ListedClosed(x)}}
    /\ PriceWith(out, Upserted, FetchBooks(out))
    /\ UNCHANGED <<hour, board, posted, changes, kind, slateNow, listed, slateScans>>

---------------------------------------------------------------------------
SlateInit ==
    /\ hour = Min(Hours)
    /\ board = [id \in MarketIds |-> "open"] /\ posted = BookIds /\ changes = 0
    /\ slatePc = "idle" /\ kind = "poly" /\ slateNow = Min(Hours)
    /\ listed = [id \in MarketIds |-> "open"]
    /\ gameRows = <<>> /\ filed = <<>> /\ lines = {} /\ seenClosed = {}
    /\ report = NoReport /\ slateScans = 0

SlateNext ==
    \/ HourPasses
    \/ \E id \in MarketIds, flag \in BoardStates : VenueChanges(id, flag)
    \/ \E id \in BookIds : BooksChange(id)
    \/ \E k \in {"poly", "books"}, missing \in Absences : SlateList(k, missing)
    \/ \E out \in Outages : SlatePrice(out)

SlateSpec == SlateInit /\ [][SlateNext]_slateVars

---------------------------------------------------------------------------
(* Properties.                                                             *)

Priced == {p.id : p \in report.priced}

Done == slatePc = "idle" /\ slateScans > 0
Near(a, b) == WithinLeagueWindow(a.league, a.commence, b.commence, MatchWindow)
Foreign(p) == p.from.of # OwnGame[MarketOf(p.id).event]

\* What match_games' docstring says (core/matching.py:388-390): "a series game
\* is never priced against its neighbour's lines", a neighbour being a game of
\* another day that is not within the series window either.
NeverNeighbour ==
    \A p \in report.priced :
        Foreign(p) => Near(BookOf(p.from.of), BookOf(OwnGame[MarketOf(p.id).event]))

\* What the code does keep, whatever opened, paused, was posted or dropped in
\* between.  Lines of another game, or stored under another game's row, are used
\* only when the market's own were not among those compared.  And a market that
\* states a kickoff is compared only with lines dressed as a game near it, which
\* were filed there by a market near their real game, or by one without kickoff.
NeighbourOnlyWithoutOwn ==
    \A p \in report.priced :
        LET Fits(m, commence) ==
                m.start # None => WithinLeagueWindow(m.league, m.start, commence, MatchWindow)
            own == BookOf(OwnGame[MarketOf(p.id).event])
            lent == BookOf(p.from.of)
            by == MarketOf(p.from.by)
        IN  /\ p.from.stray => ~p.from.had
            /\ Fits(MarketOf(p.id), p.commence) /\ Fits(by, lent.commence)
            /\ Foreign(p) /\ MarketOf(p.id).start # None /\ by.start # None
               => GameDay(lent.commence) = GameDay(own.commence)

\* Each event's own game is one of its league and teams.  The kickoffs its markets
\* state are of that game's day and nearer to it, and to one another, than to the
\* games and kickoffs of other events of these teams, which are too far if they are of
\* another day.
OwnOf(event) == BookOf(OwnGame[event])
SamePairing(g, h) == g.league = h.league /\ {g.home, g.away} = {h.home, h.away}
TimesOf(e) == {m.start : m \in {x \in Range(Listing) : x.event = e}} \ {None}
RivalTimes(e) ==
    {g.commence : g \in {x \in Range(BookGames) : SamePairing(x, OwnOf(e)) /\ x # OwnOf(e)}}
    \cup UNION {TimesOf(f) : f \in {x \in Events \ {e} : SamePairing(OwnOf(x), OwnOf(e))}}
TooFar(league, t, u) ==
    \/ Abs(u - t) > MatchWindow
    \/ league \in DOMAIN SeriesWindow /\ Abs(u - t) > SeriesWindow[league]
OwnGamesNearest ==
    /\ \A m \in Range(Listing) :
          /\ OwnGame[m.event] \in BookIds /\ OwnOf(m.event).league = m.league
          /\ MarketPair(m) \in {None, {OwnOf(m.event).home, OwnOf(m.event).away}}
    /\ \A e \in Events : \A t \in TimesOf(e) :
          /\ \A u \in TimesOf(e) \cup {OwnOf(e).commence} :
                /\ GameDay(u) = GameDay(t) /\ Abs(u - t) <= MatchWindow
                /\ \A v \in RivalTimes(e) : Abs(u - t) < Abs(v - t)
          /\ \A v \in RivalTimes(e) : GameDay(v) # GameDay(t) => TooFar(OwnOf(e).league, t, v)

\* After a scan a game row is final exactly if a scan ever listed a closed market of
\* its event (a postponed sibling is enough, for good), and a row of an event that this
\* scan listed is otherwise live exactly if its kickoff, whichever market gave it, had
\* passed at the scan's clock.  A row of any other event keeps the status of the last
\* scan that listed one of its markets: a game that is over and off the list stays
\* "live", or "scheduled", on its page's badge for good (_scan_league upserts what
\* events() returns, and events() asks for closed=false).
StatusFollowsKickoff ==
    Done =>
    \A i \in DOMAIN gameRows :
        /\ gameRows[i].status = "final" <=> gameRows[i].event \in seenClosed
        /\ gameRows[i].event \in {m.event : m \in ListedMarkets} =>
              /\ gameRows[i].status = "live" =>
                    gameRows[i].start # None /\ gameRows[i].start <= slateNow
              /\ gameRows[i].status = "scheduled" /\ gameRows[i].start # None =>
                    gameRows[i].start > slateNow

\* Two events of the same teams at one place have kickoffs further apart than what
\* upsert_game takes for one game.
HomesOf(e) == {MarketTeams(m)[1] : m \in {x \in Range(Listing) : x.event = e}} \ {None}
AwaysOf(e) == {MarketTeams(m)[2] : m \in {x \in Range(Listing) : x.event = e}} \ {None}
SameTeams(e, f) ==
    HomesOf(e) \cap HomesOf(f) # {} /\ AwaysOf(e) \cap AwaysOf(f) # {}
EventsApart ==
    \A m, k \in Range(Listing) :
        /\ m.event # k.event /\ SameTeams(m.event, k.event)
        /\ m.start # None /\ k.start # None
        => Abs(m.start - k.start) > SameGameTolerance

\* A doubleheader is two rows: markets share a game row exactly if they share an
\* event, when the kickoffs of two games of the same teams lie further apart than
\* SAME_GAME_TOLERANCE, in whatever order their markets are first seen.
OneRowPerEvent ==
    \A a, b \in DOMAIN filed :
        filed[a] = filed[b] <=> MarketOf(a).event = MarketOf(b).event

\* Each market a scan lists is priced, or has exactly one reason why not; one it does
\* not list has neither.  Diagnostics shows these reasons; a listed market in neither
\* place is lost silently.
EveryMarketAccounted ==
    Done =>
    \A id \in MarketIds :
        /\ Cardinality({r \in report.reasons : r.id = id})
              = IF id \in Priced \/ listed[id] = "unlisted" THEN 0 ELSE 1
        /\ listed[id] = "unlisted" => id \notin Priced

\* Pre-game prices are compared with pre-game prices: a priced market was open
\* when listed, neither it nor the lines it is priced from had started at the
\* scan's clock, and stored lines are no older than stale_book_minutes.
PricedPregame ==
    \A p \in report.priced :
        /\ listed[p.id] = "open"
        /\ MarketOf(p.id).start # None => MarketOf(p.id).start > slateNow
        /\ p.commence > slateNow
        /\ StaleHours > 0 => p.from.at >= slateNow - StaleHours

\* No market has two outcomes that read as the same team, or as the same side.
SidesApart == \A m \in Range(Listing) : m.keys[1] = m.keys[2] => m.keys[1] = None

\* The two sides of a market are priced from the same books at mirrored lines, so
\* their fair probabilities add up to one, within the rounding of each book.
FairsComplement ==
    \A p \in report.priced :
        HasFair(p.fairs[1]) /\ HasFair(p.fairs[2]) =>
            /\ p.fairs[1].books = p.fairs[2].books
            /\ Abs(p.fairs[1].value + p.fairs[2].value - Unit) <= 2

\* Both sides of a market are suggested only when the venue itself sells the pair, a
\* sure dollar, for that much less: what their two tokens cost at the best asks, the
\* fee included, leaves the owner's minimum edge twice.  An order book of the other
\* token, or fair values of bets that do not exclude each other, would find an edge
\* on both sides of one game where there is none (scan.py:572 guards the first).
BothSidesLeaveTheEdge ==
    \A id \in MarketIds :
        LET rate == ResolveFeeRate(MarketOf(id).fee, SlatePrefs)
            Cost(i) == EffectivePrice(BestAsk(SlateAsks[id][i]), rate)
        IN  {<<id, 1>>, <<id, 2>>} \subseteq report.opps =>
                Cost(1) + Cost(2) + 2 * SlatePrefs.minEdge <= Unit + 2
=============================================================================
