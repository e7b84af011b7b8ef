-------------------------------- MODULE Feed --------------------------------
(***************************************************************************)
(* The slate as Gamma serves it (clients/polymarket.py, core/parsing.py):  *)
(* the events of a league paged by offset while events open and close, the *)
(* parser that makes a market of a raw one or says why it cannot, and the  *)
(* read of a single market for settlement.                                 *)
(*                                                                         *)
(* A question is what the parser's patterns find in it: whether it is      *)
(* about a full game, the type its wording suggests, a signed number, the  *)
(* team next to that number and after it, and the outcomes it names.  An   *)
(* outcome is a name, as in module Matching.                               *)
(***************************************************************************)
EXTENDS Matching

CONSTANTS
    FeedLeague,     \* the league fetched
    FeedEvents,     \* [event id -> [game, markets]]: game is what Gamma's filter sees
    PlainOrder,     \* the event ids in the order Gamma lists them without order=id
    TeamOfId,       \* /teams: [team id -> team key], empty if it is unavailable
    EventsPageSize, \* EVENTS_PAGE_SIZE
    MaxEventPages,  \* MAX_PAGES
    MaxFetches, MaxListChanges      \* bounds

VARIABLES
    openEvents,     \* the events Gamma lists
    fetchPc,
    offset,
    pagesRead,
    seenEvents,     \* seen of _iter_events
    fetched,        \* [page, market] of the fetch (the order in a page is left out)
    unparsed,       \* ids it could not parse, with the reason
    filtersDropped, \* events_filters_dropped
    lasting,        \* game events listed since the fetch began (history)
    removals,       \* events that left the list since then (history)
    fetches, listChanges

feedVars == <<openEvents, fetchPc, offset, pagesRead, seenEvents, fetched, unparsed,
              filtersDropped, lasting, removals, fetches, listChanges>>

EventIds == DOMAIN FeedEvents
GameEvents == {e \in EventIds : FeedEvents[e].game}

\* What Gamma may serve as a market, and why the parser may pass over it.
Words == [words : Seq(STRING), title : BOOLEAN]
Question == [full : BOOLEAN, type : STRING \cup {None}, signed : Int \cup {None},
             before : STRING \cup {None}, after : STRING \cup {None}, named : SUBSET STRING]
RawMarket == [id : STRING, stated : STRING \cup {None}, start : Int \cup {None},
              outcomes : Seq(Words), tokens : Nat, line : Int \cup {None}, question : Question,
              closed : BOOLEAN, accepting : BOOLEAN \cup {None}, book : BOOLEAN \cup {None},
              teamIds : Seq(Nat) \cup {None}, means : [team : STRING \cup {None},
                                                      line : Int \cup {None}]]
Unreadable == {"unsupported type", "no gameStartTime", "outcomes", "tokens",
               "spread not parseable", "spread team", "total not parseable",
               "no acceptingOrders"}

\* Events are numbered by their ids; a market has one id; the two orders list all.
ASSUME FeedAssumption ==
    /\ FeedEvents \in Seq(Range(FeedEvents))
    /\ \A e \in EventIds : LET raws == FeedEvents[e].markets IN
          /\ DOMAIN raws \subseteq Nat /\ Range(raws) \subseteq RawMarket
          /\ \A i, j \in DOMAIN raws : raws[i].id = raws[j].id => i = j
    /\ DOMAIN PlainOrder = EventIds /\ Range(PlainOrder) = EventIds
    /\ \A i, j \in EventIds : PlainOrder[i] = PlainOrder[j] => i = j
    /\ EventsPageSize \in Nat \ {0} /\ MaxEventPages \in Nat
    /\ None \notin Unreadable

---------------------------------------------------------------------------
(* One market.                                                             *)

\* parse_market_type: a stated type wins, unless the question is not about a full
\* game; only without one does the wording count.
MarketTypeOf(raw) ==
    IF ~raw.question.full THEN None
    ELSE IF raw.stated # None THEN raw.stated
    ELSE raw.question.type

\* _outcome_team: "Yes", "No" and unknown names are no team.
OutcomeKeys(raw) == [i \in DOMAIN raw.outcomes |-> TeamKey(raw.outcomes[i], FeedLeague)]
OutcomeTeams(raw) == Range(OutcomeKeys(raw)) \ {None}

\* parse_spread: [line, team] or None.  Without a signed number the line is of the
\* one team the question names, or else of the first outcome.
\* (Slip: always of the first outcome.)
SpreadOfFirst(raw) == [line |-> raw.line, team |-> OutcomeKeys(raw)[1]]
SpreadOf(raw) ==
    LET q == raw.question
        stray(team) == team # None /\ OutcomeTeams(raw) # {} /\ team \notin OutcomeTeams(raw)
        or(a, b) == IF a # None THEN a ELSE b
        near == or(q.before, q.after)
        told == IF Cardinality(q.named) = 1 THEN CHOOSE t \in q.named : TRUE
                ELSE IF q.named = {} THEN q.before ELSE None
        line == IF q.signed # None THEN q.signed ELSE raw.line
        team == IF q.signed # None THEN near ELSE told
    IN  IF line = None \/ stray(team) \/ or(team, OutcomeKeys(raw)[1]) = None THEN None
        ELSE [line |-> line, team |-> or(team, OutcomeKeys(raw)[1])]

\* _align_line_team: the parsed team, or the outcome the question names.
LineTeamOf(raw, team) ==
    IF team \in OutcomeTeams(raw) THEN team
    ELSE LET keys == OutcomeKeys(raw)
             named == {i \in DOMAIN keys : keys[i] \in raw.question.named}
         IN  IF named = {} THEN None ELSE keys[Min(named)]

TotalOf(raw) == IF raw.question.signed # None THEN raw.question.signed ELSE raw.line

\* _accepting_orders: the flag, or what stands in for it.
Accepting(raw) ==
    IF raw.accepting # None THEN raw.accepting
    ELSE raw.book # None /\ raw.book

\* A market nothing says can be traded.  Closed ones are kept for settlement.
\* (Slip: they are not.)
UntradableEvenClosed(raw) == raw.accepting = None /\ ~Accepting(raw)
Untradable(raw) == raw.accepting = None /\ ~Accepting(raw) /\ ~raw.closed

\* The reason _parse_market skips a raw market, or None.
SkippedBecause(raw) ==
    LET type == MarketTypeOf(raw) IN
    IF type = None THEN "unsupported type"
    ELSE IF raw.stated = None /\ raw.start = None THEN "no gameStartTime"
    ELSE IF Len(raw.outcomes) # 2 THEN "outcomes"
    ELSE IF raw.tokens # 2 THEN "tokens"
    ELSE IF type = "spread" /\ SpreadOf(raw) = None THEN "spread not parseable"
    ELSE IF type = "spread" /\ LineTeamOf(raw, SpreadOf(raw).team) = None THEN "spread team"
    ELSE IF type = "total" /\ TotalOf(raw) = None THEN "total not parseable"
    ELSE IF Untradable(raw) THEN "no acceptingOrders"
    ELSE None

\* _event_teams: <<away, home>> of the team ids, of the moneyline, of a spread.
EventTeams(markets) ==
    LET teams(raw) == IF Len(raw.outcomes) = 2 THEN OutcomeKeys(raw) ELSE <<None, None>>
        ids(raw) == IF raw.teamIds = None THEN <<None, None>>
                    ELSE [i \in 1..2 |-> IF raw.teamIds[i] \in DOMAIN TeamOfId
                                         THEN TeamOfId[raw.teamIds[i]] ELSE None]
        two(pair) == None \notin Range(pair) /\ pair[1] # pair[2]
        stated == SelectSeq(markets, LAMBDA r : r.teamIds # None)
        typed(type) == SelectSeq(markets, LAMBDA r : MarketTypeOf(r) = type /\ two(teams(r)))
        traded == typed("moneyline") \o typed("spread")
    IN  IF stated # <<>> /\ two(ids(stated[1])) THEN ids(stated[1])
        ELSE IF traded # <<>> THEN teams(traded[1])
        ELSE <<None, None>>

PmMarketOf(raw, event, teams) ==
    LET type == MarketTypeOf(raw)
    IN  [id |-> raw.id, event |-> event, type |-> type, start |-> raw.start,
         away |-> teams[1], home |-> teams[2],
         line |-> CASE type = "spread" -> SpreadOf(raw).line
                    [] type = "total" -> TotalOf(raw)
                    [] OTHER -> None,
         lineTeam |-> IF type = "spread" THEN LineTeamOf(raw, SpreadOf(raw).team) ELSE None,
         accepting |-> Accepting(raw), closed |-> raw.closed]

\* market(): the market alone, as the event of one it is served with, or nothing.  (The
\* error of a league that cannot be told is left out: run_scan passes the league.)
ReadForSettlement(raw, event) ==
    IF SkippedBecause(raw) # None THEN {} ELSE {PmMarketOf(raw, event, EventTeams(<<raw>>))}

---------------------------------------------------------------------------
(* Paging.                                                                 *)

\* What Gamma lists: game events by id, or all of them in its own order once it
\* has refused the filters.
ListedEvents == IF filtersDropped THEN openEvents ELSE openEvents \cap GameEvents
Ordered(n) == IF filtersDropped THEN PlainOrder[n] ELSE n
Rank(e) == CHOOSE n \in EventIds : Ordered(n) = e

\* The row of an event in the list, and the page that begins after a number of rows.
Row(e) == Cardinality({x \in ListedEvents : Rank(x) <= Rank(e)})
PageAt(from) == {e \in ListedEvents : from < Row(e) /\ Row(e) <= from + EventsPageSize}

\* The events of a page that are taken.
TakenOnce(page) == page \ seenEvents

\* Where the next page begins.  (Slip: one row too far.)
PageAndOne(from) == from + EventsPageSize + 1
NextPage(from) == from + EventsPageSize

\* The raw markets of some events, by event and place, in the order they come in.
Slots(events) == UNION {{<<e, i>> : i \in DOMAIN FeedEvents[e].markets} : e \in events}
RawAt(slot) == FeedEvents[slot[1]].markets[slot[2]]
Earlier(a, b) == Rank(a[1]) < Rank(b[1]) \/ (a[1] = b[1] /\ a[2] < b[2])

\* Was a market taken already, by an earlier page or earlier in this one?
SeenMarket(slots, slot) ==
    \/ \E x \in fetched : x.market.id = RawAt(slot).id
    \/ \E a \in slots : /\ Earlier(a, slot) /\ RawAt(a).id = RawAt(slot).id
                        /\ SkippedBecause(RawAt(a)) = None

\* events(): a market seen before is dropped, one that cannot be parsed noted.
NewSlots(events) == {s \in Slots(events) : ~SeenMarket(Slots(events), s)}
MarketsOf(slots) ==
    {[page |-> pagesRead,
      market |-> PmMarketOf(RawAt(s), s[1], EventTeams(FeedEvents[s[1]].markets))] :
        s \in {x \in slots : SkippedBecause(RawAt(x)) = None}}
UnparsedOf(slots) ==
    {[id |-> RawAt(s).id, why |-> SkippedBecause(RawAt(s))] :
        s \in {x \in slots : SkippedBecause(RawAt(x)) # None}}

---------------------------------------------------------------------------
(* The world.                                                              *)

EventLeaves(e) ==
    /\ e \in openEvents /\ listChanges < MaxListChanges
    /\ openEvents' = openEvents \ {e}
    /\ lasting' = lasting \ {e}
    /\ removals' = removals + 1 /\ listChanges' = listChanges + 1
    /\ UNCHANGED <<fetchPc, offset, pagesRead, seenEvents, fetched, unparsed, filtersDropped,
                   fetches>>

EventJoins(e) ==
    /\ e \notin openEvents /\ listChanges < MaxListChanges
    /\ openEvents' = openEvents \cup {e} /\ listChanges' = listChanges + 1
    /\ UNCHANGED <<fetchPc, offset, pagesRead, seenEvents, fetched, unparsed, filtersDropped,
                   lasting, removals, fetches>>

---------------------------------------------------------------------------
(* The fetch.                                                              *)

FetchStarts ==
    /\ fetchPc # "paging" /\ fetches < MaxFetches
    /\ fetchPc' = "paging" /\ fetches' = fetches + 1
    /\ offset' = 0 /\ pagesRead' = 0 /\ seenEvents' = {} /\ fetched' = {} /\ unparsed' = {}
    /\ lasting' = openEvents \cap GameEvents /\ removals' = 0
    /\ UNCHANGED <<openEvents, filtersDropped, listChanges>>

\* Gamma refuses the first page's optional parameters: ask again without them.
FiltersRefused ==
    /\ fetchPc = "paging" /\ offset = 0 /\ ~filtersDropped
    /\ filtersDropped' = TRUE
    /\ UNCHANGED <<openEvents, fetchPc, offset, pagesRead, seenEvents, fetched, unparsed,
                   lasting, removals, fetches, listChanges>>

PageServed ==
    LET page == PageAt(offset)
        new == NewSlots(TakenOnce(page))
        last == Cardinality(page) < EventsPageSize \/ pagesRead + 1 = MaxEventPages
    IN  /\ fetchPc = "paging"
        /\ seenEvents' = seenEvents \cup page
        /\ fetched' = fetched \cup MarketsOf(new) /\ unparsed' = unparsed \cup UnparsedOf(new)
        /\ pagesRead' = pagesRead + 1 /\ offset' = NextPage(offset)
        /\ fetchPc' = IF last THEN "done" ELSE "paging"
        /\ UNCHANGED <<openEvents, filtersDropped, lasting, removals, fetches, listChanges>>

\* Any other failed request is raised: the scan notes an error for the league.
FetchFails ==
    /\ fetchPc = "paging" /\ fetchPc' = "failed"
    /\ fetched' = {} /\ unparsed' = {}
    /\ UNCHANGED <<openEvents, offset, pagesRead, seenEvents, filtersDropped, lasting, removals,
                   fetches, listChanges>>

FeedInit ==
    /\ openEvents = EventIds /\ fetchPc = "idle" /\ offset = 0 /\ pagesRead = 0
    /\ seenEvents = {} /\ fetched = {} /\ unparsed = {} /\ filtersDropped = FALSE
    /\ lasting = {} /\ removals = 0 /\ fetches = 0 /\ listChanges = 0

FeedNext ==
    \/ \E e \in EventIds : EventLeaves(e) \/ EventJoins(e)
    \/ FetchStarts \/ FiltersRefused \/ PageServed \/ FetchFails

FeedSpec == FeedInit /\ [][FeedNext]_feedVars

---------------------------------------------------------------------------
(* Properties.                                                             *)

FetchedMarkets == {x.market : x \in fetched}

\* What offset paging keeps while the list changes under it (polymarket.py:492-493,
\* 257-259): no market twice, and of the events that were listed all along at most
\* as many are missing as left the list meanwhile, unless there were more pages
\* than MAX_PAGES.
FetchIsTheSlate ==
    /\ \A x, y \in fetched : x.market.id = y.market.id => x = y
    /\ fetchPc = "done" /\ pagesRead < MaxEventPages =>
          Cardinality(lasting \ seenEvents) <= removals

\* A spread is read as what its question says, whichever team it names and
\* whichever outcome is listed first: `means` is who gives how many points, and
\* the mirror image is the same bet.
SpreadSaysItsQuestion ==
    \A m \in {x \in FetchedMarkets : x.type = "spread"} :
        \A raw \in Range(FeedEvents[m.event].markets) :
            raw.id = m.id =>
                \/ m.lineTeam = raw.means.team /\ m.line = raw.means.line
                \/ /\ m.lineTeam \in OutcomeTeams(raw) \ {raw.means.team}
                   /\ m.line = -raw.means.line

\* A market the slate has shown, and a bet may be on, can be read again once it
\* has closed and stopped accepting orders, or the bet would never be settled:
\* the scan passes over a market it cannot read without a word (scan.py:637-638).
SettlementCanRead ==
    \A m \in FetchedMarkets :
        \A raw \in Range(FeedEvents[m.event].markets), gone \in {FALSE, None} :
            raw.id = m.id =>
                LET closed == [raw EXCEPT !.closed = TRUE, !.accepting = gone, !.book = FALSE]
                IN  \E read \in ReadForSettlement(closed, m.event) :
                        read.line = m.line /\ read.lineTeam = m.lineTeam
=============================================================================
