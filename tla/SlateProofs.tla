----------------------------- MODULE SlateProofs -----------------------------
(***************************************************************************)
(* Theorems about one league's scan, for every listing, every set of book  *)
(* games and every order in which the venue and the books change, and      *)
(* about the bets suggested from what it priced, for every ladder.         *)
(***************************************************************************)
EXTENDS Slate, Pricing, NumberLemmas, FiniteSetTheorems, TLAPS

---------------------------------------------------------------------------
(* The listing and the books.                                              *)

LEMMA ListingType ==
  /\ Len(Listing) \in Nat /\ DOMAIN Listing = 1..Len(Listing)
  /\ \A i \in DOMAIN Listing : Listing[i] \in Range(Listing)
  /\ \A m \in Range(Listing) : \E i \in DOMAIN Listing : m = Listing[i]
  /\ \A m \in Range(Listing) : m.id \in MarketIds /\ MarketOf(m.id) = m
  /\ \A m \in Range(Listing) : m.start \in Int \cup {None}
<1>1. /\ Len(Listing) \in Nat /\ DOMAIN Listing = 1..Len(Listing)
      /\ \A i \in DOMAIN Listing : Listing[i] \in Range(Listing)
  BY SlateAssumption DEF Range
<1>2. \A m \in Range(Listing) : \E i \in DOMAIN Listing : m = Listing[i]
  BY DEF Range
<1>3. ASSUME NEW m \in Range(Listing), NEW k \in Range(Listing), m.id = k.id PROVE m = k
  BY <1>2, <1>3, SlateAssumption
<1>4. \A m \in Range(Listing) : m.id \in MarketIds /\ MarketOf(m.id) = m
  BY <1>3 DEF MarketIds, MarketOf
<1>5. QED
  BY <1>1, <1>2, <1>4, SlateAssumption

LEMMA BookOfType ==
  ASSUME NEW id \in BookIds
  PROVE  BookOf(id) \in PostedGame /\ BookOf(id).id = id
<1>1. \A g \in Range(BookGames) : g \in PostedGame
  <2> HIDE DEF PostedGame
  <2>1. QED
    BY SlateAssumption DEF Range
<1>2. \E g \in Range(BookGames) : g.id = id
  BY DEF BookIds
<1>3. BookOf(id) \in Range(BookGames) /\ BookOf(id).id = id
  BY <1>2 DEF BookOf
<1>4. QED
  BY <1>1, <1>3

LEMMA PostedBook ==
  ASSUME NEW i \in DOMAIN BookGames
  PROVE  /\ BookGames[i].id \in BookIds /\ BookOf(BookGames[i].id) = BookGames[i]
         /\ BookGames[i] \in Range(BookGames)
<1>1. BookGames[i] \in Range(BookGames)
  BY DEF Range
<1>2. \A g \in Range(BookGames) : g.id = BookGames[i].id => g = BookGames[i]
  BY SlateAssumption DEF Range
<1>3. QED
  BY <1>1, <1>2 DEF BookIds, BookOf

\* A list of games, which may have gaps.
Playable(games) ==
    /\ \E n \in Nat : DOMAIN games \in SUBSET (1..n)
    /\ \A i \in DOMAIN games : games[i] \in PostedGame

LEMMA FetchedPlayable ==
  ASSUME NEW out, FetchBooks(out) # None
  PROVE  Playable(FetchBooks(out))
<1>1. Len(BookGames) \in Nat /\ DOMAIN BookGames = 1..Len(BookGames)
      /\ \A i \in DOMAIN BookGames : BookGames[i] \in PostedGame
  <2> HIDE DEF PostedGame
  <2>1. QED
    BY SlateAssumption
<1>2. Playable(PostedGames)
  BY <1>1 DEF Playable, PostedGames
<1>3. ASSUME NEW g \in PostedGame PROVE [g EXCEPT !.books = IF @ = <<>> THEN @ ELSE <<Head(@)>>] \in PostedGame
  <2>1. ASSUME NEW S, NEW s \in Seq(S) PROVE (IF s = <<>> THEN s ELSE <<Head(s)>>) \in Seq(S)
    <3>1. s # <<>> => s[1] \in S /\ Head(s) = s[1]
      OBVIOUS
    <3>2. QED
      BY <3>1
  <2>2. g.books \in Seq(PostedBooks)
    BY DEF PostedGame
  <2>3. (IF g.books = <<>> THEN g.books ELSE <<Head(g.books)>>) \in Seq(PostedBooks)
    BY <2>1, <2>2
  <2>4. QED
    BY <2>3 DEF PostedGame
<1>4. DOMAIN EspnGames = DOMAIN PostedGames
      /\ \A i \in DOMAIN PostedGames :
            EspnGames[i] = [PostedGames[i] EXCEPT !.books = IF @ = <<>> THEN @ ELSE <<Head(@)>>]
  BY DEF EspnGames
<1>5. Playable(EspnGames)
  <2>1. \A i \in DOMAIN PostedGames : EspnGames[i] \in PostedGame
    BY <1>2, <1>3, <1>4 DEF Playable
  <2>2. QED
    BY <1>2, <1>4, <2>1 DEF Playable
<1>6. QED
  BY <1>2, <1>5 DEF FetchBooks

GameRow == [event : Events, home : Names, away : Names, start : Int \cup {None},
            status : {"scheduled", "live", "final"}]

\* One snapshot of each row is the newest, of a game that was posted.
LinesOK ==
    /\ \A l \in lines : l.of \in BookIds /\ l.at \in Int
    /\ \A l, x \in lines : l.row = x.row => l = x

LEMMA StoredPlayable ==
  ASSUME NEW store, store.rows \in Seq(GameRow), LinesOK
  PROVE  /\ Playable(StoredBooks(store))
         /\ \A i \in DOMAIN StoredBooks(store) : \E l \in lines :
               /\ l.row = i /\ FreshEnough(l)
               /\ StoredBooks(store)[i].id = l.of
               /\ StoredBooks(store)[i].commence = store.rows[i].start
               /\ SamePairing(StoredBooks(store)[i], BookOf(l.of))
         /\ \A i \in DOMAIN StoredBooks(store) :
               i \in DOMAIN store.rows /\ store.rows[i].start # None
<1> DEFINE rows == store.rows
           usable == {i \in DOMAIN rows :
                         /\ \E m \in ListedMarkets : store.filed[m.id] = i
                         /\ rows[i].start # None /\ None \notin {rows[i].home, rows[i].away}
                         /\ \E l \in lines : l.row = i /\ FreshEnough(l)}
           Newest(i) == CHOOSE l \in lines : l.row = i
           game(i) == [BookOf(Newest(i).of) EXCEPT !.commence = rows[i].start]
<1>1. StoredBooks(store) = [i \in usable |-> game(i)]
  BY DEF StoredBooks
<1> HIDE DEF rows
<1>2. Len(rows) \in Nat /\ DOMAIN rows = 1..Len(rows)
      /\ \A i \in DOMAIN rows : rows[i] \in GameRow
  <2> HIDE DEF GameRow
  <2>1. QED
    BY DEF rows
<1>3. ASSUME NEW i \in usable
      PROVE  /\ game(i) \in PostedGame
             /\ Newest(i) \in lines /\ Newest(i).row = i /\ FreshEnough(Newest(i))
             /\ game(i).id = Newest(i).of /\ game(i).commence = rows[i].start
             /\ SamePairing(game(i), BookOf(Newest(i).of))
  <2>1. PICK l \in lines : l.row = i /\ FreshEnough(l)
    OBVIOUS
  <2>2. Newest(i) \in lines /\ Newest(i).row = i
    BY <2>1
  <2>3. Newest(i) = l
    BY <2>1, <2>2 DEF LinesOK
  <2>4. rows[i].start \in Int
    BY <1>2 DEF GameRow
  <2>5. BookOf(l.of) \in PostedGame /\ BookOf(l.of).id = l.of
    BY BookOfType DEF LinesOK
  <2>6. ASSUME NEW g \in PostedGame, NEW t \in Int
        PROVE  LET h == [g EXCEPT !.commence = t]
               IN  h \in PostedGame /\ h.id = g.id /\ h.commence = t /\ SamePairing(h, g)
    BY DEF PostedGame, SamePairing
  <2>7. game(i) = [BookOf(l.of) EXCEPT !.commence = rows[i].start]
    BY <2>3
  <2> HIDE DEF game, Newest
  <2>8. /\ game(i) \in PostedGame /\ game(i).id = l.of /\ game(i).commence = rows[i].start
        /\ SamePairing(game(i), BookOf(l.of))
    BY <2>4, <2>5, <2>6, <2>7
  <2>9. QED
    BY <2>1, <2>2, <2>3, <2>8
<1> HIDE DEF Newest, game
<1>4. usable \in SUBSET (1..Len(rows)) /\ \A i \in usable : i \in DOMAIN rows /\ rows[i].start # None
  BY <1>2
<1> HIDE DEF usable
<1>5. DOMAIN StoredBooks(store) = usable /\ \A i \in usable : StoredBooks(store)[i] = game(i)
  BY <1>1
<1>6. ASSUME NEW i \in usable
      PROVE  \E l \in lines :
                /\ l.row = i /\ FreshEnough(l)
                /\ StoredBooks(store)[i].id = l.of
                /\ StoredBooks(store)[i].commence = rows[i].start
                /\ SamePairing(StoredBooks(store)[i], BookOf(l.of))
  <2>1. StoredBooks(store)[i] = game(i)
    BY <1>5
  <2>2. QED
    BY <1>3, <2>1
<1>7. Playable(StoredBooks(store))
  BY <1>2, <1>3, <1>4, <1>5 DEF Playable
<1>8. QED
  BY <1>4, <1>5, <1>6, <1>7 DEF rows

---------------------------------------------------------------------------
(* Matching.                                                               *)

\* Of some places with numbers there is one with the smallest gap.
LEMMA NearestIsThere ==
  ASSUME NEW games, Playable(games), NEW near \in SUBSET DOMAIN games, near # {},
         NEW start \in Int
  PROVE  \E i \in near : /\ Nearest(games, near, start) = games[i]
                         /\ \A j \in near : Abs(games[i].commence - start) <= Abs(games[j].commence - start)
<1> DEFINE Gap(i) == Abs(games[i].commence - start)
           value == [i \in near |-> -Gap(i)]
           best == {i \in near : \A j \in near : Gap(i) <= Gap(j)}
<1>1. PICK n \in Nat : DOMAIN games \in SUBSET (1..n)
  BY DEF Playable
<1>2. ASSUME NEW i \in near PROVE Gap(i) \in Int
  <2>1. games[i].commence \in Int
    BY DEF Playable, PostedGame
  <2>2. QED
    BY <2>1 DEF Abs
<1> HIDE DEF Gap
<1>3. near \in SUBSET (1..n) /\ \A i \in near : value[i] = -Gap(i) /\ value[i] \in Int
  BY <1>1, <1>2
<1> HIDE DEF value
<1>4. PICK i \in near : \A j \in near : value[j] <= value[i]
  BY <1>3, HasGreatestValue
<1>5. ASSUME NEW j \in near PROVE Gap(i) <= Gap(j)
  BY <1>2, <1>3, <1>4
<1>6. best \in SUBSET Nat /\ best # {}
  BY <1>3, <1>4, <1>5
<1> HIDE DEF best
<1>7. Min(best) \in best
  BY <1>6, MinIsLeast
<1>8. Min(best) \in near /\ \A j \in near : Gap(Min(best)) <= Gap(j)
  BY <1>7 DEF best
<1>9. Nearest(games, near, start) = games[Min(best)]
  BY DEF Nearest, best, Gap
<1>10. QED
  BY <1>8, <1>9 DEF Gap

\* A market gets one of the games, or a reason.
LEMMA MatchedOrReason ==
  ASSUME NEW market, market.start \in Int \cup {None}, NEW games, Playable(games), NEW window
  PROVE  LET r == MatchOne(market, games, window)
         IN  \/ r.reason = None /\ r.game \in Range(games) /\ r.game # None
             \/ r.game = None /\ r.reason \in WhyNot /\ r.reason # None
<1> DEFINE pair == MarketPair(market)
           candidates == IF pair = None THEN {} ELSE GamesOf(games, market.league, pair)
           near == {i \in candidates : WithinLeagueWindow(market.league, market.start,
                                                         games[i].commence, window)}
           Fine(r) == \/ r.reason = None /\ r.game \in Range(games) /\ r.game # None
                      \/ r.game = None /\ r.reason \in WhyNot /\ r.reason # None
<1>1. ASSUME NEW g \in Range(games) PROVE Fine(Matched(g))
  <2>1. g \in PostedGame
    BY DEF Playable, Range
  <2>2. QED
    BY <2>1, SlateAssumption DEF Matched
<1>2. ASSUME NEW why \in WhyNot PROVE Fine(Unmatched(why))
  BY SlateAssumption DEF Unmatched
<1>3. candidates \in SUBSET DOMAIN games /\ near \in SUBSET candidates
  BY DEF GamesOf
<1>4. \E n \in Nat : DOMAIN games \in SUBSET (1..n)
  BY DEF Playable
<1>5. candidates \in SUBSET Nat
  BY <1>3, <1>4
<1>6. ASSUME candidates # {} PROVE games[Min(candidates)] \in Range(games)
  <2> HIDE DEF candidates
  <2>1. Min(candidates) \in candidates
    BY <1>5, <1>6, MinIsLeast
  <2>2. QED
    BY <1>3, <2>1 DEF Range
<1>7. ASSUME near # {}, market.start # None
      PROVE  Nearest(games, near, market.start) \in Range(games)
  <2> HIDE DEF near, candidates
  <2>1. market.start \in Int /\ near \in SUBSET DOMAIN games
    BY <1>3, <1>7
  <2>2. \E i \in near : Nearest(games, near, market.start) = games[i]
    BY <1>7, <2>1, NearestIsThere
  <2>3. QED
    BY <2>1, <2>2 DEF Range
<1>8. {"no teams", "no book game", "no start time", "different game day",
       "outside match window"} \subseteq WhyNot
  BY DEF WhyNot
<1>9. MatchOne(market, games, window) =
      IF pair = None THEN Unmatched("no teams")
      ELSE IF candidates = {} THEN Unmatched("no book game")
      ELSE IF market.start = None
           THEN IF Cardinality(candidates) = 1 THEN Matched(games[Min(candidates)])
                                               ELSE Unmatched("no start time")
      ELSE IF near # {} THEN Matched(Nearest(games, near, market.start))
      ELSE IF \E i \in candidates : Abs(games[i].commence - market.start) <= window
           THEN Unmatched("different game day")
      ELSE Unmatched("outside match window")
  BY DEF MatchOne
<1> HIDE DEF pair, candidates, near, Fine
<1>10. Fine(MatchOne(market, games, window))
  BY <1>1, <1>2, <1>6, <1>7, <1>8, <1>9
<1>11. QED
  BY <1>10 DEF Fine

---------------------------------------------------------------------------
(* Filing the markets.                                                     *)

FiledMaps == UNION {[D -> Nat] : D \in SUBSET MarketIds}
Store == [rows : Seq(GameRow), filed : FiledMaps]
Old(s, at) == IF at \in DOMAIN s.rows THEN s.rows[at]
              ELSE [event |-> None, home |-> None, away |-> None, start |-> None,
                    status |-> "scheduled"]

LEMMA StoreRows ==
  ASSUME NEW s \in Store
  PROVE  /\ s.rows \in Seq(GameRow) /\ Len(s.rows) \in Nat /\ DOMAIN s.rows = 1..Len(s.rows)
         /\ \A i \in DOMAIN s.rows : s.rows[i] \in GameRow
         /\ s.filed \in FiledMaps
<1> HIDE DEF GameRow, FiledMaps
<1>1. s.rows \in Seq(GameRow) /\ s.filed \in FiledMaps
  BY DEF Store
<1>2. QED
  BY <1>1

\* The row a market is filed under is one there is or the next.
LEMMA RowForRange ==
  ASSUME NEW s \in Store, NEW m
  PROVE  /\ RowFor(s.rows, m) \in 1..(Len(s.rows) + 1)
         /\ (\E i \in DOMAIN s.rows : s.rows[i].event = m.event) =>
               /\ RowFor(s.rows, m) \in DOMAIN s.rows
               /\ s.rows[RowFor(s.rows, m)].event = m.event
         /\ RowFor(s.rows, m) \in DOMAIN s.rows
               /\ (\A i \in DOMAIN s.rows : s.rows[i].event # m.event) =>
               /\ m.start # None /\ s.rows[RowFor(s.rows, m)].start # None
               /\ Abs(s.rows[RowFor(s.rows, m)].start - m.start) <= SameGameTolerance
               /\ s.rows[RowFor(s.rows, m)].home = MarketTeams(m)[1] /\ MarketTeams(m)[1] # None
               /\ s.rows[RowFor(s.rows, m)].away = MarketTeams(m)[2] /\ MarketTeams(m)[2] # None
<1> DEFINE teams == MarketTeams(m)
           same == {i \in DOMAIN s.rows : s.rows[i].event = m.event}
           near == {i \in DOMAIN s.rows :
                       /\ None \notin Range(teams) /\ m.start # None
                       /\ <<s.rows[i].home, s.rows[i].away>> = teams
                       /\ s.rows[i].start # None
                       /\ Abs(s.rows[i].start - m.start) <= SameGameTolerance}
<1>1. Len(s.rows) \in Nat /\ DOMAIN s.rows = 1..Len(s.rows)
  BY StoreRows
<1>2. same \in SUBSET Nat /\ near \in SUBSET Nat
  BY <1>1
<1>3. RowFor(s.rows, m) =
        IF same # {} THEN Min(same) ELSE IF near # {} THEN Min(near) ELSE Len(s.rows) + 1
  BY DEF RowFor
<1> HIDE DEF same, near
<1>4. (same # {} => Min(same) \in same) /\ (near # {} => Min(near) \in near)
  BY <1>2, MinIsLeast
<1>5. \A i : /\ i \in same => i \in DOMAIN s.rows /\ s.rows[i].event = m.event
             /\ i \in near => /\ i \in DOMAIN s.rows /\ m.start # None /\ s.rows[i].start # None
                              /\ Abs(s.rows[i].start - m.start) <= SameGameTolerance
                              /\ s.rows[i].home = teams[1] /\ teams[1] # None
                              /\ s.rows[i].away = teams[2] /\ teams[2] # None
  <2>1. \A i : /\ i \in same => i \in DOMAIN s.rows /\ s.rows[i].event = m.event
               /\ i \in near => /\ i \in DOMAIN s.rows /\ m.start # None /\ s.rows[i].start # None
                                /\ Abs(s.rows[i].start - m.start) <= SameGameTolerance
                                /\ <<s.rows[i].home, s.rows[i].away>> = teams
                                /\ None \notin Range(teams)
    BY DEF same, near
  <2>2. ASSUME NEW h, NEW a, <<h, a>> = teams, None \notin Range(teams)
        PROVE  h = teams[1] /\ h # None /\ a = teams[2] /\ a # None
    <3>1. teams[1] = h /\ teams[2] = a
      BY <2>2
    <3>2. \A i \in 1..2 : teams[i] \in Range(teams)
      BY <2>2 DEF Range
    <3>3. QED
      BY <2>2, <3>1, <3>2
  <2>3. QED
    BY <2>1, <2>2
<1>6. \A i \in DOMAIN s.rows : s.rows[i].event = m.event => i \in same
  BY DEF same
<1> HIDE DEF teams
<1>7. CASE same # {}
  BY <1>1, <1>3, <1>4, <1>5, <1>6, <1>7
<1>8. CASE same = {} /\ near # {}
  BY <1>1, <1>3, <1>4, <1>5, <1>6, <1>8 DEF teams
<1>9. CASE same = {} /\ near = {}
  <2>1. RowFor(s.rows, m) = Len(s.rows) + 1
    BY <1>3, <1>9
  <2>2. RowFor(s.rows, m) \notin DOMAIN s.rows /\ RowFor(s.rows, m) \in 1..(Len(s.rows) + 1)
    BY <1>1, <2>1
  <2>3. QED
    BY <1>6, <1>9, <2>2
<1>10. QED
  BY <1>7, <1>8, <1>9

\* What one upsert leaves and what it writes.
LEMMA UpsertWrites ==
  ASSUME NEW s \in Store, NEW m \in Range(Listing), slateNow \in Int
  PROVE  LET u == Upsert(s, m)
             at == RowFor(s.rows, m)
             start == RowStart(Old(s, at).start, m)
         IN  /\ u \in Store /\ at \in DOMAIN u.rows
             /\ DOMAIN u.rows = DOMAIN s.rows \cup {at}
             /\ \A i \in DOMAIN s.rows : i # at => u.rows[i] = s.rows[i]
             /\ u.rows[at].event = m.event /\ u.rows[at].start = start
             /\ u.rows[at].home \in {Old(s, at).home, MarketTeams(m)[1]}
             /\ u.rows[at].away \in {Old(s, at).away, MarketTeams(m)[2]}
             /\ u.rows[at].status = KeptStatus(Old(s, at).status, GameStatus(m, start, slateNow))
             /\ DOMAIN u.filed = DOMAIN s.filed \cup {m.id} /\ u.filed[m.id] = at
             /\ \A a \in DOMAIN s.filed : a # m.id => u.filed[a] = s.filed[a]
<1> DEFINE u == Upsert(s, m)
           at == RowFor(s.rows, m)
           teams == MarketTeams(m)
           old == Old(s, at)
           start == RowStart(old.start, m)
           status == KeptStatus(old.status, GameStatus(m, start, slateNow))
           new == [event |-> m.event,
                   home |-> IF teams[1] = None THEN old.home ELSE teams[1],
                   away |-> IF teams[2] = None THEN old.away ELSE teams[2],
                   start |-> start, status |-> status]
           rows == IF at \in DOMAIN s.rows THEN [s.rows EXCEPT ![at] = new]
                                            ELSE Append(s.rows, new)
           map == [id \in DOMAIN s.filed \cup {m.id} |-> IF id = m.id THEN at ELSE s.filed[id]]
<1>1. u = [rows |-> rows, filed |-> map]
  BY DEF Upsert, Old
<1>2. /\ s.rows \in Seq(GameRow) /\ Len(s.rows) \in Nat /\ DOMAIN s.rows = 1..Len(s.rows)
      /\ \A i \in DOMAIN s.rows : s.rows[i] \in GameRow
  BY StoreRows
<1>3. at \in 1..(Len(s.rows) + 1)
  BY RowForRange
<1>4. /\ old.home \in Names /\ old.away \in Names /\ old.start \in Int \cup {None}
      /\ old.status \in {"scheduled", "live", "final"}
  BY <1>2 DEF Old, GameRow, Names
<1>5. teams[1] \in Names /\ teams[2] \in Names
  <2>1. m.home \in Names /\ m.away \in Names /\ m.keys[1] \in Names /\ m.keys[2] \in Names
    BY SlateAssumption
  <2>2. teams \in {<<m.home, m.away>>, <<m.keys[2], m.keys[1]>>}
    BY DEF MarketTeams
  <2>3. QED
    BY <2>1, <2>2
<1>6. start \in Int \cup {None}
  <2>1. m.start \in Int \cup {None}
    BY ListingType
  <2>2. QED
    BY <1>4, <2>1 DEF RowStart
<1>7. status \in {"scheduled", "live", "final"}
  BY <1>4 DEF KeptStatus, GameStatus
<1>8. m.event \in Events /\ m.id \in MarketIds
  BY DEF Events, MarketIds
<1> HIDE DEF teams, old, start, status
<1>9. new \in GameRow
  BY <1>4, <1>5, <1>6, <1>7, <1>8 DEF GameRow
<1>10. /\ new.event = m.event /\ new.start = start /\ new.status = status
       /\ new.home \in {old.home, teams[1]} /\ new.away \in {old.away, teams[2]}
  OBVIOUS
<1> HIDE DEF new, at
<1>11. /\ rows \in Seq(GameRow) /\ DOMAIN rows = DOMAIN s.rows \cup {at} /\ rows[at] = new
       /\ \A i \in DOMAIN s.rows : i # at => rows[i] = s.rows[i]
  <2>1. CASE at \in DOMAIN s.rows
    <3> HIDE DEF GameRow
    <3>1. QED
      BY <1>2, <1>9, <2>1
  <2>2. CASE at \notin DOMAIN s.rows
    <3>1. at = Len(s.rows) + 1
      BY <1>2, <1>3, <2>2
    <3>2. rows = Append(s.rows, new)
      BY <2>2
    <3> HIDE DEF GameRow, rows
    <3>3. rows \in Seq(GameRow) /\ DOMAIN rows = 1..(Len(s.rows) + 1) /\ rows[Len(s.rows) + 1] = new
          /\ \A i \in 1..Len(s.rows) : rows[i] = s.rows[i]
      BY <1>2, <1>9, <3>2
    <3>4. 1..(Len(s.rows) + 1) = (1..Len(s.rows)) \cup {Len(s.rows) + 1}
      BY <1>2
    <3>5. QED
      BY <1>2, <3>1, <3>3, <3>4
  <2>3. QED
    BY <2>1, <2>2
<1>12. map \in FiledMaps
  <2>1. PICK D \in SUBSET MarketIds : s.filed \in [D -> Nat]
    BY StoreRows DEF FiledMaps
  <2>2. at \in Nat
    BY <1>2, <1>3
  <2>3. map \in [D \cup {m.id} -> Nat]
    BY <2>1, <2>2
  <2>4. D \cup {m.id} \in SUBSET MarketIds
    BY <1>8
  <2>5. QED
    BY <2>3, <2>4 DEF FiledMaps
<1>13. /\ DOMAIN map = DOMAIN s.filed \cup {m.id} /\ map[m.id] = at
       /\ \A a \in DOMAIN s.filed : a # m.id => map[a] = s.filed[a]
  OBVIOUS
<1> HIDE DEF rows, map
<1>14. u.rows = rows /\ u.filed = map /\ u \in Store
  BY <1>1, <1>11, <1>12 DEF Store
<1> HIDE DEF u
<1>15. /\ u \in Store /\ at \in DOMAIN u.rows
       /\ DOMAIN u.rows = DOMAIN s.rows \cup {at}
       /\ \A i \in DOMAIN s.rows : i # at => u.rows[i] = s.rows[i]
       /\ u.rows[at].event = m.event /\ u.rows[at].start = start /\ u.rows[at].status = status
       /\ u.rows[at].home \in {old.home, teams[1]} /\ u.rows[at].away \in {old.away, teams[2]}
       /\ DOMAIN u.filed = DOMAIN s.filed \cup {m.id} /\ u.filed[m.id] = at
       /\ \A a \in DOMAIN s.filed : a # m.id => u.filed[a] = s.filed[a]
  BY <1>10, <1>11, <1>13, <1>14
<1>16. QED
  BY <1>15 DEF u, at, start, status, old, teams

\* What the recursive definition of the upserts does with the n-th market.
UpsertListed(s, n) == IF Listing[n] \notin ListedMarkets THEN s ELSE Upsert(s, Listing[n])

\* The recursive definition of the upserts.
LEMMA UpsertedUnfolds ==
  ASSUME gameRows \in Seq(GameRow), filed \in FiledMaps, slateNow \in Int
  PROVE  /\ \A n \in 0..Len(Listing) : UpsertedTo[n] \in Store
         /\ UpsertedTo[0] = [rows |-> gameRows, filed |-> filed]
         /\ \A n \in 1..Len(Listing) : UpsertedTo[n] = UpsertListed(UpsertedTo[n - 1], n)
<1> DEFINE N == Len(Listing)
           first == [rows |-> gameRows, filed |-> filed]
           next == [p \in Nat \X Store |-> IF p[1] \in 1..N THEN UpsertListed(p[2], p[1])
                                                          ELSE p[2]]
<1>1. N \in Nat /\ \A n \in 1..N : Listing[n] \in Range(Listing)
  BY ListingType
<1>2. \A n \in 1..N, s \in Store : UpsertListed(s, n) \in Store
  BY <1>1, UpsertWrites DEF UpsertListed
<1>3. first \in Store
  BY DEF Store
<1> HIDE DEF N, first
<1>4. next \in [Nat \X Store -> Store]
  BY <1>2
<1>5. ASSUME NEW i \in 1..N, NEW s \in Store PROVE next[<<i, s>>] = UpsertListed(s, i)
  <2>1. <<i, s>> \in Nat \X Store
    BY <1>1
  <2>2. QED
    BY <2>1
<1> HIDE DEF next
<1>6. PICK f : Recurses(f, Store, first, next)
  BY <1>3, <1>4, RecursionExists
<1>7. f[0] = first /\ \A i \in 0..N : f[i] \in Store
  BY <1>1, <1>6 DEF Recurses
<1>8. ASSUME NEW i \in 1..N PROVE f[i] = UpsertListed(f[i - 1], i)
  <2>1. i \in Nat \ {0} /\ i - 1 \in 0..N
    BY <1>1
  <2>2. f[i] = next[<<i, f[i - 1]>>]
    BY <1>6, <2>1 DEF Recurses
  <2>3. QED
    BY <1>5, <1>7, <2>1, <2>2
<1> DEFINE g == [n \in 0..N |-> f[n]]
<1>9. g = [n \in 0..N |-> IF n = 0 THEN first ELSE UpsertListed(g[n - 1], n)]
  <2>1. ASSUME NEW n \in 0..N PROVE g[n] = IF n = 0 THEN first ELSE UpsertListed(g[n - 1], n)
    <3>1. CASE n = 0
      BY <1>7, <3>1
    <3>2. CASE n # 0
      <4>1. n \in 1..N /\ n - 1 \in 0..N
        BY <1>1, <3>2
      <4>2. QED
        BY <1>8, <3>2, <4>1
    <3>3. QED
      BY <3>1, <3>2
  <2>2. QED
    BY <2>1
<1> HIDE DEF g
<1>10. UpsertedTo = [n \in 0..N |-> IF n = 0 THEN first
                                   ELSE UpsertListed(UpsertedTo[n - 1], n)]
  BY <1>9 DEF UpsertedTo, UpsertListed, N, first
<1>11. 0 \in 0..N /\ UpsertedTo[0] = first
  BY <1>1, <1>10
<1>12. \A n \in 1..N : n \in 0..N /\ n # 0 /\ n - 1 \in 0..N
  BY <1>1
<1>13. \A n \in 1..N : UpsertedTo[n] = UpsertListed(UpsertedTo[n - 1], n)
  BY <1>10, <1>12
<1> DEFINE bad == {n \in 0..N : UpsertedTo[n] \notin Store}
<1>14. bad = {}
  <2>1. SUFFICES ASSUME bad # {} PROVE FALSE
    OBVIOUS
  <2>2. bad \in SUBSET Nat
    BY <1>1
  <2>3. PICK k \in bad : \A l \in bad : k <= l
    <3> HIDE DEF bad
    <3>1. QED
      BY <2>1, <2>2, HasLeast
  <2>4. k # 0
    BY <1>3, <1>11
  <2>5. k \in 1..N /\ k - 1 \in 0..N /\ ~(k <= k - 1)
    BY <1>1, <2>4
  <2>6. UpsertedTo[k - 1] \in Store
    BY <2>3, <2>5
  <2>7. UpsertedTo[k] \in Store
    BY <1>2, <1>13, <2>5, <2>6
  <2>8. QED
    BY <2>3, <2>7
<1>15. QED
  BY <1>11, <1>13, <1>14 DEF N, first

---------------------------------------------------------------------------
(* Rows and events.                                                        *)

\* Each event has one row, with a kickoff and teams its markets stated, and each
\* market is filed under the row of its event.
Placed(s) ==
    /\ \A i \in DOMAIN s.rows : /\ s.rows[i].home \in HomesOf(s.rows[i].event) \cup {None}
                               /\ s.rows[i].away \in AwaysOf(s.rows[i].event) \cup {None}
    /\ \A i, j \in DOMAIN s.rows : s.rows[i].event = s.rows[j].event => i = j
    /\ \A i \in DOMAIN s.rows : s.rows[i].start # None =>
          \E m \in Range(Listing) : m.event = s.rows[i].event /\ m.start = s.rows[i].start
    /\ \A a \in DOMAIN s.filed : /\ a \in MarketIds /\ s.filed[a] \in DOMAIN s.rows
                                 /\ s.rows[s.filed[a]].event = MarketOf(a).event

\* The rows there were are still there, of the same events.
StillThere(rows, later) ==
    \A i \in DOMAIN rows : i \in DOMAIN later /\ later[i].event = rows[i].event

LEMMA StatedTeams ==
  ASSUME NEW m \in Range(Listing)
  PROVE  /\ MarketTeams(m)[1] \in HomesOf(m.event) \cup {None}
         /\ MarketTeams(m)[2] \in AwaysOf(m.event) \cup {None}
BY DEF HomesOf, AwaysOf

\* A market is never filed under the row of another event.
LEMMA RowIsOwn ==
  ASSUME EventsApart, NEW s \in Store, Placed(s), NEW m \in Range(Listing)
  PROVE  IF RowFor(s.rows, m) \in DOMAIN s.rows
         THEN s.rows[RowFor(s.rows, m)].event = m.event
         ELSE \A i \in DOMAIN s.rows : s.rows[i].event # m.event
<1> DEFINE at == RowFor(s.rows, m)
<1>1. CASE \E i \in DOMAIN s.rows : s.rows[i].event = m.event
  BY <1>1, RowForRange
<1>2. CASE \A i \in DOMAIN s.rows : s.rows[i].event # m.event
  <2>1. SUFFICES ASSUME at \in DOMAIN s.rows PROVE FALSE
    BY <1>2
  <2>2. /\ m.start # None /\ s.rows[at].start # None
        /\ Abs(s.rows[at].start - m.start) <= SameGameTolerance
        /\ s.rows[at].home = MarketTeams(m)[1] /\ MarketTeams(m)[1] # None
        /\ s.rows[at].away = MarketTeams(m)[2] /\ MarketTeams(m)[2] # None
    BY <1>2, <2>1, RowForRange
  <2> HIDE DEF at
  <2>3. PICK k \in Range(Listing) : k.event = s.rows[at].event /\ k.start = s.rows[at].start
    BY <2>1, <2>2 DEF Placed
  <2>4. k.event # m.event
    BY <1>2, <2>1, <2>3
  <2>5. SameTeams(k.event, m.event)
    <3>1. MarketTeams(m)[1] \in HomesOf(m.event) /\ MarketTeams(m)[2] \in AwaysOf(m.event)
      BY <2>2, StatedTeams
    <3>2. MarketTeams(m)[1] \in HomesOf(k.event) /\ MarketTeams(m)[2] \in AwaysOf(k.event)
      BY <2>1, <2>2, <2>3 DEF Placed
    <3>3. QED
      BY <3>1, <3>2 DEF SameTeams
  <2>6. Abs(k.start - m.start) > SameGameTolerance
    BY <2>2, <2>3, <2>4, <2>5 DEF EventsApart
  <2>7. k.start \in Int /\ m.start \in Int
    BY <2>2, <2>3, ListingType
  <2>8. QED
    BY <2>2, <2>3, <2>6, <2>7 DEF Abs, SameGameTolerance
<1>3. QED
  BY <1>1, <1>2

LEMMA PlacedStep ==
  ASSUME EventsApart, slateNow \in Int,
         NEW s \in Store, Placed(s), NEW m \in Range(Listing)
  PROVE  /\ Placed(Upsert(s, m)) /\ StillThere(s.rows, Upsert(s, m).rows)
         /\ DOMAIN Upsert(s, m).filed = DOMAIN s.filed \cup {m.id}
<1> DEFINE u == Upsert(s, m)
           at == RowFor(s.rows, m)
<1>1. /\ DOMAIN u.rows = DOMAIN s.rows \cup {at}
      /\ \A i \in DOMAIN s.rows : i # at => u.rows[i] = s.rows[i]
      /\ u.rows[at].event = m.event /\ u.rows[at].start = RowStart(Old(s, at).start, m)
      /\ u.rows[at].home \in {Old(s, at).home, MarketTeams(m)[1]}
      /\ u.rows[at].away \in {Old(s, at).away, MarketTeams(m)[2]}
      /\ DOMAIN u.filed = DOMAIN s.filed \cup {m.id} /\ u.filed[m.id] = at
      /\ \A a \in DOMAIN s.filed : a # m.id => u.filed[a] = s.filed[a]
  BY UpsertWrites
<1>2. IF at \in DOMAIN s.rows THEN s.rows[at].event = m.event
      ELSE \A i \in DOMAIN s.rows : s.rows[i].event # m.event
  BY RowIsOwn
<1>3. /\ Old(s, at).start = IF at \in DOMAIN s.rows THEN s.rows[at].start ELSE None
      /\ Old(s, at).home = IF at \in DOMAIN s.rows THEN s.rows[at].home ELSE None
      /\ Old(s, at).away = IF at \in DOMAIN s.rows THEN s.rows[at].away ELSE None
  BY DEF Old
<1>4. m.id \in MarketIds /\ MarketOf(m.id) = m
  BY ListingType
<1> HIDE DEF u, at
<1>5. \A i \in DOMAIN s.rows : i \in DOMAIN u.rows /\ u.rows[i].event = s.rows[i].event
  BY <1>1, <1>2
<1>6. ASSUME NEW i \in DOMAIN u.rows, NEW j \in DOMAIN u.rows, u.rows[i].event = u.rows[j].event
      PROVE  i = j
  <2>1. CASE i \in DOMAIN s.rows /\ j \in DOMAIN s.rows
    BY <1>5, <1>6, <2>1 DEF Placed
  <2>2. CASE i \notin DOMAIN s.rows /\ j \in DOMAIN s.rows
    BY <1>1, <1>2, <1>5, <1>6, <2>2
  <2>3. CASE i \in DOMAIN s.rows /\ j \notin DOMAIN s.rows
    BY <1>1, <1>2, <1>5, <1>6, <2>3
  <2>4. QED
    BY <1>1, <2>1, <2>2, <2>3
<1>7. ASSUME NEW i \in DOMAIN u.rows, u.rows[i].start # None
      PROVE  \E k \in Range(Listing) : k.event = u.rows[i].event /\ k.start = u.rows[i].start
  <2>1. CASE i # at
    BY <1>1, <1>7, <2>1 DEF Placed
  <2>2. CASE i = at /\ u.rows[at].start = m.start
    BY <1>1, <2>2
  <2>3. CASE i = at /\ u.rows[at].start = Old(s, at).start
    <3>1. at \in DOMAIN s.rows /\ s.rows[at].start # None /\ s.rows[at].event = m.event
          /\ u.rows[at].start = s.rows[at].start
      BY <1>2, <1>3, <1>7, <2>3
    <3>2. QED
      BY <1>1, <2>3, <3>1 DEF Placed
  <2>4. RowStart(Old(s, at).start, m) \in {m.start, Old(s, at).start}
    BY DEF RowStart
  <2>5. QED
    BY <1>1, <2>1, <2>2, <2>3, <2>4
<1>8. ASSUME NEW a \in DOMAIN u.filed
      PROVE  /\ a \in MarketIds /\ u.filed[a] \in DOMAIN u.rows
             /\ u.rows[u.filed[a]].event = MarketOf(a).event
  <2>1. CASE a = m.id
    BY <1>1, <1>4, <2>1
  <2>2. CASE a # m.id
    BY <1>1, <1>5, <2>2 DEF Placed
  <2>3. QED
    BY <2>1, <2>2
<1>9. ASSUME NEW i \in DOMAIN u.rows
      PROVE  /\ u.rows[i].home \in HomesOf(u.rows[i].event) \cup {None}
             /\ u.rows[i].away \in AwaysOf(u.rows[i].event) \cup {None}
  <2>1. CASE i # at
    BY <1>1, <2>1 DEF Placed
  <2>2. CASE i = at
    <3>1. /\ MarketTeams(m)[1] \in HomesOf(m.event) \cup {None}
          /\ MarketTeams(m)[2] \in AwaysOf(m.event) \cup {None}
      BY StatedTeams
    <3>2. /\ Old(s, at).home \in HomesOf(m.event) \cup {None}
          /\ Old(s, at).away \in AwaysOf(m.event) \cup {None}
      BY <1>2, <1>3 DEF Placed
    <3>3. QED
      BY <1>1, <2>2, <3>1, <3>2
  <2>3. QED
    BY <2>1, <2>2
<1>10. Placed(u)
  BY <1>6, <1>7, <1>8, <1>9 DEF Placed
<1>11. StillThere(s.rows, u.rows)
  BY <1>5 DEF StillThere
<1>12. QED
  BY <1>1, <1>10, <1>11 DEF u

---------------------------------------------------------------------------
(* The status of a row.                                                    *)

\* Events of which one of the first n markets is listed as closed.
ClosedUpto(n) == {Listing[i].event : i \in {j \in 1..n : ListedClosed(Listing[j])}}

Timely(row) ==
    /\ row.status = "live" => row.start # None /\ row.start <= slateNow
    /\ row.status = "scheduled" /\ row.start # None => row.start > slateNow

\* The final rows are those of closed events, which have one, and the rows of those of
\* the first n markets that are listed agree with the scan's clock.
Statuses(s, n) ==
    /\ \A i \in DOMAIN s.rows :
          s.rows[i].status = "final" <=> s.rows[i].event \in seenClosed \cup ClosedUpto(n)
    /\ \A e \in seenClosed \cup ClosedUpto(n) : \E i \in DOMAIN s.rows : s.rows[i].event = e
    /\ \A i \in DOMAIN s.rows, k \in 1..n :
          Listing[k] \in ListedMarkets /\ Listing[k].event = s.rows[i].event
             => Timely(s.rows[i])

LEMMA StatusesStep ==
  ASSUME EventsApart, slateNow \in Int, NEW s \in Store, Placed(s),
         NEW n \in 1..Len(Listing), Statuses(s, n - 1)
  PROVE  Statuses(Upsert(s, Listing[n]), n)
<1> DEFINE m == Listing[n]
           u == Upsert(s, m)
           at == RowFor(s.rows, m)
           start == RowStart(Old(s, at).start, m)
           gone == seenClosed \cup ClosedUpto(n - 1)
           goneNow == seenClosed \cup ClosedUpto(n)
<1>1. Len(Listing) \in Nat /\ n \in Nat /\ n - 1 \in Nat
  BY ListingType
<1>2. m \in Range(Listing)
  BY ListingType
<1>3. /\ DOMAIN u.rows = DOMAIN s.rows \cup {at}
      /\ \A i \in DOMAIN s.rows : i # at => u.rows[i] = s.rows[i]
      /\ u.rows[at].event = m.event /\ u.rows[at].start = start
      /\ u.rows[at].status = KeptStatus(Old(s, at).status, GameStatus(m, start, slateNow))
  BY <1>2, UpsertWrites
<1>4. IF at \in DOMAIN s.rows THEN s.rows[at].event = m.event
      ELSE \A i \in DOMAIN s.rows : s.rows[i].event # m.event
  BY <1>2, RowIsOwn
<1>5. /\ Old(s, at).status = IF at \in DOMAIN s.rows THEN s.rows[at].status ELSE "scheduled"
      /\ Old(s, at).start = IF at \in DOMAIN s.rows THEN s.rows[at].start ELSE None
  BY DEF Old
<1>6. start \in Int \cup {None}
  <2>1. m.start \in Int \cup {None}
    BY <1>2, ListingType
  <2>2. at \in DOMAIN s.rows => s.rows[at].start \in Int \cup {None}
    BY StoreRows DEF GameRow
  <2>3. QED
    BY <1>5, <2>1, <2>2 DEF RowStart
<1>7. \A e : e \in goneNow <=> e \in gone \/ (e = m.event /\ ListedClosed(m))
  <2>1. \A j : j \in 1..n <=> j \in 1..(n - 1) \/ j = n
    BY <1>1
  <2>2. QED
    BY <2>1 DEF ClosedUpto
<1>8. /\ \A i \in DOMAIN s.rows : s.rows[i].status = "final" <=> s.rows[i].event \in gone
      /\ \A e \in gone : \E i \in DOMAIN s.rows : s.rows[i].event = e
      /\ \A i \in DOMAIN s.rows, k \in 1..(n - 1) :
            Listing[k] \in ListedMarkets /\ Listing[k].event = s.rows[i].event
               => Timely(s.rows[i])
  BY DEF Statuses
<1> HIDE DEF u, gone, goneNow, start, at
<1>9. \A i \in DOMAIN s.rows : i # at => s.rows[i].event # m.event
  BY <1>4 DEF Placed
<1>10. GameStatus(m, start, slateNow) = "final" <=> ListedClosed(m)
  BY DEF GameStatus
<1>11. u.rows[at].status = "final" <=> m.event \in goneNow
  <2>1. Old(s, at).status = "final" <=> m.event \in gone
    BY <1>4, <1>5, <1>8
  <2>2. QED
    BY <1>3, <1>7, <1>10, <2>1 DEF KeptStatus
<1>12. Timely(u.rows[at])
  <2>1. CASE Old(s, at).status = "final"
    BY <1>3, <2>1 DEF KeptStatus, Timely
  <2>2. CASE Old(s, at).status # "final"
    <3>1. u.rows[at].status = GameStatus(m, start, slateNow) /\ u.rows[at].start = start
      BY <1>3, <2>2 DEF KeptStatus
    <3>2. QED
      BY <1>6, <3>1 DEF GameStatus, Timely
  <2>3. QED
    BY <2>1, <2>2
<1>13. ASSUME NEW i \in DOMAIN u.rows
       PROVE  u.rows[i].status = "final" <=> u.rows[i].event \in goneNow
  BY <1>3, <1>7, <1>8, <1>9, <1>11
<1>14. ASSUME NEW e \in goneNow PROVE \E i \in DOMAIN u.rows : u.rows[i].event = e
  <2>1. CASE e = m.event
    BY <1>3, <2>1
  <2>2. CASE e # m.event
    <3>1. PICK i \in DOMAIN s.rows : s.rows[i].event = e
      BY <1>7, <1>8, <2>2
    <3>2. i \in DOMAIN u.rows /\ (i # at => u.rows[i].event = e)
      BY <1>3, <3>1
    <3>3. i # at
      BY <1>4, <2>2, <3>1
    <3>4. QED
      BY <3>2, <3>3
  <2>3. QED
    BY <2>1, <2>2
<1>15. ASSUME NEW i \in DOMAIN u.rows, NEW k \in 1..n, Listing[k] \in ListedMarkets,
              Listing[k].event = u.rows[i].event
       PROVE  Timely(u.rows[i])
  <2>1. CASE i = at
    BY <1>12, <2>1
  <2>2. CASE i # at
    <3>1. i \in DOMAIN s.rows /\ u.rows[i] = s.rows[i] /\ s.rows[i].event # m.event
      BY <1>3, <1>9, <2>2
    <3>2. k # n
      BY <1>15, <3>1
    <3>3. k \in 1..(n - 1)
      BY <1>1, <3>2
    <3>4. QED
      BY <1>8, <1>15, <3>1, <3>3
  <2>3. QED
    BY <2>1, <2>2
<1>16. Statuses(u, n)
  BY <1>13, <1>14, <1>15 DEF Statuses, goneNow
<1>17. QED
  BY <1>16 DEF u

\* A market that is not listed leaves the statuses as they are.
LEMMA StatusesRest ==
  ASSUME NEW s, NEW n \in 1..Len(Listing), Statuses(s, n - 1), Listing[n] \notin ListedMarkets
  PROVE  Statuses(s, n)
<1>1. n \in Nat /\ \A k \in 1..n : k \in 1..(n - 1) \/ k = n
  BY ListingType
<1>2. 1..(n - 1) \subseteq 1..n
  BY <1>1
<1>3. ~ListedClosed(Listing[n])
  BY ListingType DEF ListedMarkets, ListedClosed
<1>4. ClosedUpto(n) = ClosedUpto(n - 1)
  BY <1>1, <1>2, <1>3 DEF ClosedUpto
<1>5. QED
  BY <1>1, <1>4 DEF Statuses

\* What the upserts of a whole listing leave.
LEMMA UpsertedFiled ==
  ASSUME EventsApart, slateNow \in Int, gameRows \in Seq(GameRow), filed \in FiledMaps,
         Placed([rows |-> gameRows, filed |-> filed]),
         \A i \in DOMAIN gameRows :
            gameRows[i].status = "final" <=> gameRows[i].event \in seenClosed,
         \A e \in seenClosed : \E i \in DOMAIN gameRows : gameRows[i].event = e
  PROVE  /\ Placed(Upserted) /\ Statuses(Upserted, Len(Listing))
         /\ StillThere(gameRows, Upserted.rows)
         /\ \A m \in ListedMarkets : m.id \in DOMAIN Upserted.filed
<1> DEFINE N == Len(Listing)
           Good(n) == /\ Placed(UpsertedTo[n]) /\ Statuses(UpsertedTo[n], n)
                      /\ StillThere(gameRows, UpsertedTo[n].rows)
                      /\ \A k \in 1..n : Listing[k] \in ListedMarkets
                            => Listing[k].id \in DOMAIN UpsertedTo[n].filed
           bad == {n \in 0..N : ~Good(n)}
<1>1. N \in Nat
  BY ListingType
<1>2. /\ \A n \in 0..N : UpsertedTo[n] \in Store
      /\ UpsertedTo[0] = [rows |-> gameRows, filed |-> filed]
      /\ \A n \in 1..N : UpsertedTo[n] = UpsertListed(UpsertedTo[n - 1], n)
  BY UpsertedUnfolds
<1>3. Good(0)
  <2>1. ClosedUpto(0) = {}
    BY DEF ClosedUpto
  <2>2. \A k \in 1..0 : FALSE
    OBVIOUS
  <2>3. UpsertedTo[0].rows = gameRows
    BY <1>2
  <2>4. QED
    BY <1>2, <2>1, <2>2, <2>3 DEF Statuses, StillThere
<1>4. ASSUME NEW n \in 1..N, Good(n - 1) PROVE Good(n)
  <2>1. n - 1 \in 0..N
    BY <1>1
  <2>2. UpsertedTo[n - 1] \in Store /\ Placed(UpsertedTo[n - 1]) /\ Statuses(UpsertedTo[n - 1], n - 1)
    BY <1>2, <1>4, <2>1
  <2>3. Listing[n] \in Range(Listing)
    BY ListingType
  <2>4. CASE Listing[n] \notin ListedMarkets
    <3>1. UpsertedTo[n] = UpsertedTo[n - 1]
      BY <1>2, <2>4 DEF UpsertListed
    <3>2. Statuses(UpsertedTo[n], n)
      BY <2>2, <2>4, <3>1, StatusesRest
    <3>3. \A k \in 1..n : k = n \/ k \in 1..(n - 1)
      BY <1>1
    <3>4. QED
      BY <1>4, <2>4, <3>1, <3>2, <3>3
  <2>5. CASE Listing[n] \in ListedMarkets
    <3> DEFINE u == Upsert(UpsertedTo[n - 1], Listing[n])
    <3>1. UpsertedTo[n] = u
      BY <1>2, <2>5 DEF UpsertListed
    <3>2. /\ Placed(u) /\ StillThere(UpsertedTo[n - 1].rows, u.rows)
          /\ DOMAIN u.filed = DOMAIN UpsertedTo[n - 1].filed \cup {Listing[n].id}
      BY <2>2, <2>3, PlacedStep
    <3>3. Statuses(u, n)
      BY <2>2, StatusesStep
    <3> HIDE DEF u
    <3>4. StillThere(gameRows, u.rows)
      BY <1>4, <3>2 DEF StillThere
    <3>5. \A k \in 1..n : k = n \/ k \in 1..(n - 1)
      BY <1>1
    <3>6. \A k \in 1..n : Listing[k] \in ListedMarkets => Listing[k].id \in DOMAIN u.filed
      BY <1>4, <3>2, <3>5
    <3>7. QED
      BY <3>1, <3>2, <3>3, <3>4, <3>6
  <2>6. QED
    BY <2>4, <2>5
<1> HIDE DEF Good
<1>5. bad = {}
  <2>1. SUFFICES ASSUME bad # {} PROVE FALSE
    OBVIOUS
  <2>2. bad \in SUBSET Nat
    BY <1>1
  <2>3. PICK k \in bad : \A l \in bad : k <= l
    <3> HIDE DEF bad
    <3>1. QED
      BY <2>1, <2>2, HasLeast
  <2>4. k # 0
    BY <1>3
  <2>5. k \in 1..N /\ k - 1 \in 0..N /\ ~(k <= k - 1)
    BY <1>1, <2>4
  <2>6. Good(k - 1)
    BY <2>3, <2>5
  <2>7. QED
    BY <1>4, <2>3, <2>5, <2>6
<1>6. N \in 0..N
  BY <1>1
<1>7. Good(N)
  BY <1>5, <1>6
<1>8. \A m \in ListedMarkets : m.id \in DOMAIN UpsertedTo[N].filed
  BY <1>7, ListingType DEF Good, ListedMarkets
<1>9. QED
  BY <1>7, <1>8 DEF Good, Upserted, N

---------------------------------------------------------------------------
(* The matches.                                                            *)

LEMMA TradableMarkets ==
  ASSUME NEW m \in Tradable, slateNow \in Int
  PROVE  /\ m \in ListedMarkets /\ m \in Range(Listing)
         /\ m.id \in MarketIds /\ MarketOf(m.id) = m
         /\ listed[m.id] = "open"
         /\ m.start # None => m.start > slateNow
<1>1. m \in ListedMarkets /\ m \in Range(Listing) /\ SkipReason(m) = None
  BY DEF Tradable, ListedMarkets
<1>2. None \notin {"market closed", "market paused", "game started"}
  BY SlateAssumption DEF WhyNot
<1>3. /\ ~ListedClosed(m) /\ ListedOpen(m)
      /\ ~(m.start # None /\ m.start <= slateNow)
  BY <1>1, <1>2 DEF SkipReason
<1>4. m.start \in Int \cup {None} /\ m.id \in MarketIds /\ MarketOf(m.id) = m
  BY <1>1, ListingType
<1>5. QED
  BY <1>1, <1>3, <1>4 DEF ListedOpen

LEMMA MatchesAre ==
  ASSUME NEW games, Playable(games), slateNow \in Int
  PROVE  LET matched == MatchGames(Tradable, games, MatchWindow)
             One(m) == MatchOne(m, games, MatchWindow)
         IN  /\ \A id \in DOMAIN matched :
                   /\ \E m \in Tradable : m.id = id /\ matched[id] = One(m).game
                   /\ matched[id] \in Range(games)
             /\ \A m \in Tradable : m.id \in DOMAIN matched <=> One(m).game # None
<1> DEFINE One(m) == MatchOne(m, games, MatchWindow)
           tried == {[id |-> m.id, game |-> One(m).game] : m \in Tradable}
           hits == {x \in tried : x.game # None}
           matched == MatchGames(Tradable, games, MatchWindow)
           pick(i) == CHOOSE x \in hits : x.id = i
<1>1. matched = [i \in {x.id : x \in hits} |-> pick(i).game]
  BY DEF MatchGames
<1>2. ASSUME NEW x \in hits
      PROVE  \E m \in Tradable : m.id = x.id /\ x.game = One(m).game /\ One(m).game # None
  <2> HIDE DEF One
  <2>1. QED
    OBVIOUS
<1>3. ASSUME NEW m \in Tradable, One(m).game # None
      PROVE  \E x \in hits : x.id = m.id
  <2>1. [id |-> m.id, game |-> One(m).game] \in hits
    BY <1>3
  <2>2. QED
    BY <2>1
<1>4. ASSUME NEW m \in Tradable, One(m).game # None PROVE One(m).game \in Range(games)
  <2>1. m.start \in Int \cup {None}
    BY TradableMarkets, ListingType
  <2>2. QED
    BY <1>4, <2>1, MatchedOrReason
<1>5. \A m, k \in Tradable : m.id = k.id => m = k
  BY TradableMarkets
<1> HIDE DEF hits, One, matched
<1>6. ASSUME NEW id \in DOMAIN matched
      PROVE  /\ \E m \in Tradable : m.id = id /\ matched[id] = One(m).game
             /\ matched[id] \in Range(games)
  <2>1. \E x \in hits : x.id = id
    BY <1>1
  <2>2. pick(id) \in hits /\ pick(id).id = id
    BY <2>1
  <2>3. matched[id] = pick(id).game
    BY <1>1
  <2> HIDE DEF pick
  <2>4. PICK m \in Tradable : m.id = id /\ pick(id).game = One(m).game /\ One(m).game # None
    BY <1>2, <2>2
  <2>5. QED
    BY <1>4, <2>3, <2>4
<1>7. ASSUME NEW m \in Tradable PROVE m.id \in DOMAIN matched <=> One(m).game # None
  <2>1. ASSUME m.id \in DOMAIN matched PROVE One(m).game # None
    <3>1. PICK x \in hits : x.id = m.id
      BY <1>1, <2>1
    <3>2. PICK k \in Tradable : k.id = m.id /\ One(k).game # None
      BY <1>2, <3>1
    <3>3. QED
      BY <1>5, <3>2
  <2>2. ASSUME One(m).game # None PROVE m.id \in DOMAIN matched
    BY <1>1, <1>3, <2>2
  <2>3. QED
    BY <2>1, <2>2
<1>8. QED
  BY <1>6, <1>7 DEF One, matched

\* Each market has one reason or is priced.
LEMMA OneReason ==
  ASSUME NEW games, Playable(games), slateNow \in Int, NEW kept, NEW priced, NEW id \in MarketIds,
         kept = NotUnderWay(MatchGames(Tradable, games, MatchWindow)), priced \subseteq kept
  PROVE  Cardinality({r \in Reasons(MatchGames(Tradable, games, MatchWindow), kept, kept \ priced)
                               \cup UnmatchedReasons(Tradable, games, MatchWindow) : r.id = id})
         = IF id \in priced \/ listed[id] = "unlisted" THEN 0 ELSE 1
<1> DEFINE matched == MatchGames(Tradable, games, MatchWindow)
           One(m) == MatchOne(m, games, MatchWindow)
           all == Reasons(matched, kept, kept \ priced)
                      \cup UnmatchedReasons(Tradable, games, MatchWindow)
           mine == {r \in all : r.id = id}
           m == MarketOf(id)
           note(why) == [id |-> id, reason |-> why]
<1>1. m \in Range(Listing) /\ m.id = id
  <2>1. PICK k \in Range(Listing) : k.id = id
    BY DEF MarketIds
  <2>2. QED
    BY <2>1, ListingType
<1>2. \A k \in Range(Listing) : k.id = id => k = m
  BY ListingType
<1>3. /\ \A i \in DOMAIN matched : \E k \in Tradable : k.id = i /\ matched[i] = One(k).game
      /\ \A k \in Tradable : k.id \in DOMAIN matched <=> One(k).game # None
  BY MatchesAre
<1>4. \A k \in Tradable : k \in Range(Listing)
  BY TradableMarkets
<1>5. kept \subseteq DOMAIN matched
  BY DEF NotUnderWay
<1>6. m \in Tradable => (One(m).game = None <=> One(m).reason # None)
  <2>1. m.start \in Int \cup {None}
    BY <1>1, ListingType
  <2>2. QED
    BY <2>1, MatchedOrReason
<1>7. m \in ListedMarkets <=> listed[id] # "unlisted"
  BY <1>1 DEF ListedMarkets
<1>8. Tradable \subseteq ListedMarkets
  BY DEF Tradable
<1> HIDE DEF matched, One, m
<1>9. ASSUME NEW r
      PROVE  r \in mine <=> \/ m \in ListedMarkets \ Tradable /\ r = note(SkipReason(m))
                            \/ id \in DOMAIN matched \ kept /\ r = note("game started")
                            \/ id \in kept \ priced /\ r = note("no book at line")
                            \/ m \in Tradable /\ One(m).reason # None /\ r = note(One(m).reason)
  <2> DEFINE Skips == {[id |-> k.id, reason |-> SkipReason(k)] : k \in ListedMarkets \ Tradable}
             Noted(why, S) == {[id |-> i, reason |-> why] : i \in S}
             Misses == {x \in {[id |-> k.id, reason |-> One(k).reason] : k \in Tradable} :
                           x.reason # None}
  <2>1. r \in Skips /\ r.id = id <=> m \in ListedMarkets \ Tradable /\ r = note(SkipReason(m))
    BY <1>1, <1>2 DEF ListedMarkets
  <2>2. ASSUME NEW S, NEW why
        PROVE  r \in Noted(why, S) /\ r.id = id <=> id \in S /\ r = note(why)
    OBVIOUS
  <2>3. r \in Misses /\ r.id = id
        <=> m \in Tradable /\ One(m).reason # None /\ r = note(One(m).reason)
    BY <1>1, <1>2, <1>4
  <2> HIDE DEF note
  <2>4. UnmatchedReasons(Tradable, games, MatchWindow) = Misses
    BY DEF UnmatchedReasons, One
  <2>5. Reasons(matched, kept, kept \ priced) =
          Skips \cup Noted("game started", DOMAIN matched \ kept)
                \cup Noted("no book at line", kept \ priced)
    BY DEF Reasons
  <2> HIDE DEF Skips, Noted, Misses
  <2>6. r \in mine <=> /\ r.id = id
                      /\ \/ r \in Skips \/ r \in Noted("game started", DOMAIN matched \ kept)
                         \/ r \in Noted("no book at line", kept \ priced) \/ r \in Misses
    BY <2>4, <2>5
  <2>7. /\ r \in Noted("game started", DOMAIN matched \ kept) /\ r.id = id
           <=> id \in DOMAIN matched \ kept /\ r = note("game started")
        /\ r \in Noted("no book at line", kept \ priced) /\ r.id = id
           <=> id \in kept \ priced /\ r = note("no book at line")
    BY <2>2
  <2> HIDE DEF mine
  <2>8. QED
    BY <2>1, <2>3, <2>6, <2>7
<1> HIDE DEF mine, note
<1>10. m \notin Tradable => id \notin DOMAIN matched
  BY <1>2, <1>3, <1>4
<1>11. m \in Tradable => (id \in DOMAIN matched <=> One(m).reason = None)
  BY <1>1, <1>3, <1>6
<1>12. ASSUME id \in priced PROVE mine = {}
  BY <1>5, <1>9, <1>10, <1>11, <1>12
<1>13. ASSUME listed[id] = "unlisted" PROVE mine = {}
  BY <1>5, <1>9, <1>10, <1>7, <1>8, <1>13
<1>14. ASSUME id \notin priced, listed[id] # "unlisted" PROVE \E r : mine = {r}
  <2>1. CASE m \notin Tradable
    <3>1. \A r : r \in mine <=> r = note(SkipReason(m))
      BY <1>5, <1>9, <1>10, <1>14, <1>7, <2>1
    <3>2. mine = {note(SkipReason(m))}
      BY <3>1
    <3>3. QED
      BY <3>2
  <2>2. CASE m \in Tradable /\ id \notin DOMAIN matched
    <3>1. \A r : r \in mine <=> r = note(One(m).reason)
      BY <1>5, <1>9, <1>11, <2>2
    <3>2. mine = {note(One(m).reason)}
      BY <3>1
    <3>3. QED
      BY <3>2
  <2>3. CASE m \in Tradable /\ id \in DOMAIN matched /\ id \notin kept
    <3>1. \A r : r \in mine <=> r = note("game started")
      BY <1>5, <1>9, <1>11, <2>3
    <3>2. mine = {note("game started")}
      BY <3>1
    <3>3. QED
      BY <3>2
  <2>4. CASE m \in Tradable /\ id \in kept
    <3>1. \A r : r \in mine <=> r = note("no book at line")
      BY <1>5, <1>9, <1>11, <1>14, <2>4
    <3>2. mine = {note("no book at line")}
      BY <3>1
    <3>3. QED
      BY <3>2
  <2>5. QED
    BY <2>1, <2>2, <2>3, <2>4
<1>15. Cardinality(mine) = IF id \in priced \/ listed[id] = "unlisted" THEN 0 ELSE 1
  <2>1. CASE id \in priced \/ listed[id] = "unlisted"
    BY <1>12, <1>13, <2>1, FS_EmptySet
  <2>2. CASE id \notin priced /\ listed[id] # "unlisted"
    <3>1. PICK r : mine = {r}
      BY <1>14, <2>2
    <3>2. QED
      BY <2>2, <3>1, FS_Singleton
  <2>3. QED
    BY <2>1, <2>2
<1>16. QED
  BY <1>15 DEF mine, matched

---------------------------------------------------------------------------
(* A scan prices.                                                          *)

\* The lines a scan stores are of posted games, one for each row.
LEMMA StoredLinesOK ==
  ASSUME NEW games, Playable(games), slateNow \in Int, NEW kept, NEW rowOf,
         kept = NotUnderWay(MatchGames(Tradable, games, MatchWindow))
  PROVE  LET stored == StoredLines(MatchGames(Tradable, games, MatchWindow), kept, rowOf)
         IN  /\ \A l \in stored : l.of \in BookIds /\ l.at = slateNow
             /\ \A l \in stored :
                   /\ l.by \in kept /\ rowOf[l.by] = l.row
                   /\ l.of = MatchGames(Tradable, games, MatchWindow)[l.by].id
             /\ \A l, x \in stored : l.row = x.row => l = x
<1> DEFINE matched == MatchGames(Tradable, games, MatchWindow)
           Of(row) == {i \in DOMAIN Listing : Listing[i].id \in kept /\ rowOf[Listing[i].id] = row}
           First(row) == Listing[Min(Of(row))].id
           rows == {rowOf[id] : id \in kept}
           stored == StoredLines(matched, kept, rowOf)
<1>1. stored = {[row |-> r, of |-> matched[First(r)].id, by |-> First(r), at |-> slateNow] :
                   r \in rows}
  BY DEF StoredLines
<1>2. ASSUME NEW id \in kept
      PROVE  /\ id \in DOMAIN matched /\ matched[id] \in Range(games)
             /\ \E i \in DOMAIN Listing : Listing[i].id = id
  <2>1. id \in DOMAIN matched
    BY DEF NotUnderWay
  <2>2. matched[id] \in Range(games) /\ \E m \in Tradable : m.id = id
    BY <2>1, MatchesAre
  <2>3. QED
    BY <2>1, <2>2, ListingType, TradableMarkets
<1>3. ASSUME NEW g \in Range(games) PROVE g.id \in BookIds
  <2>1. g \in PostedGame
    BY DEF Range, Playable
  <2>2. QED
    BY <2>1 DEF PostedGame
<1> HIDE DEF matched, stored
<1>4. ASSUME NEW r \in rows PROVE First(r) \in kept /\ rowOf[First(r)] = r
  <2>1. PICK id \in kept : r = rowOf[id]
    OBVIOUS
  <2>2. PICK i \in DOMAIN Listing : Listing[i].id = id
    BY <1>2
  <2>3. i \in Of(r)
    BY <2>1, <2>2
  <2>4. Of(r) \in SUBSET Nat
    BY ListingType
  <2> HIDE DEF Of
  <2>5. Min(Of(r)) \in Of(r)
    BY <2>3, <2>4, MinIsLeast
  <2>6. QED
    BY <2>5 DEF Of
<1> HIDE DEF First, rows
<1>5. ASSUME NEW l \in stored
      PROVE  /\ l.of \in BookIds /\ l.at = slateNow
             /\ l.by \in kept /\ rowOf[l.by] = l.row /\ l.of = matched[l.by].id
  <2>1. PICK r \in rows : l = [row |-> r, of |-> matched[First(r)].id, by |-> First(r),
                               at |-> slateNow]
    BY <1>1
  <2>2. QED
    BY <1>2, <1>3, <1>4, <2>1
<1>6. \A l, x \in stored : l.row = x.row => l = x
  BY <1>1
<1>7. QED
  BY <1>5, <1>6 DEF stored, matched

\* The lines a market is priced from were fetched just now or are fresh enough.
LEMMA SourceAt ==
  ASSUME slateNow \in Int, LinesOK, NEW id, NEW store, store.rows \in Seq(GameRow), NEW fresh,
         NEW games, games = IF fresh = None THEN StoredBooks(store) ELSE fresh,
         NEW game \in Range(games), StaleHours > 0
  PROVE  Source(id, store, fresh, games, game).at >= slateNow - StaleHours
<1>1. CASE fresh # None
  <2>1. Source(id, store, fresh, games, game).at = slateNow
    BY <1>1 DEF Source
  <2>2. QED
    BY <2>1, SlateAssumption
<1>2. CASE fresh = None
  <2> DEFINE Fit(x) == /\ x.row \in DOMAIN games
                       /\ x.of = game.id /\ FreshEnough(x)
                       /\ store.rows[x.row].start = game.commence
             l == CHOOSE x \in lines : Fit(x)
  <2>1. PICK i \in DOMAIN games : game = games[i]
    BY DEF Range
  <2>2. \E x \in lines : Fit(x)
    BY <1>2, <2>1, StoredPlayable
  <2>3. Source(id, store, fresh, games, game).at = l.at
    BY <1>2 DEF Source
  <2> HIDE DEF Fit
  <2>4. l \in lines /\ Fit(l)
    BY <2>2
  <2> HIDE DEF l
  <2>5. FreshEnough(l) /\ StaleHours # 0
    BY <2>4, SlateAssumption DEF Fit
  <2>6. QED
    BY <2>3, <2>5 DEF FreshEnough
<1>3. QED
  BY <1>1, <1>2

\* What the rest of a scan leaves, whatever was out of reach.
LEMMA PricesStep ==
  ASSUME NEW out, SlatePrice(out), LinesOK, slateNow \in Int,
         gameRows \in Seq(GameRow), filed \in FiledMaps
  PROVE  LinesOK' /\ PricedPregame' /\ EveryMarketAccounted'
<1> DEFINE fresh == FetchBooks(out)
           store == Upserted
           games == IF fresh = None THEN StoredBooks(store) ELSE fresh
           matched == MatchGames(Tradable, games, MatchWindow)
           kept == NotUnderWay(matched)
           priced == {f \in FairsOf(matched, kept) : HasFair(f.both[1]) \/ HasFair(f.both[2])}
           pricedIds == {f.id : f \in priced}
           stored == StoredLines(matched, kept, store.filed)
<1>1. /\ lines' = IF fresh = None THEN lines
                  ELSE {l \in lines : \A n \in stored : n.row # l.row} \cup stored
      /\ report'.priced =
            {[id |-> f.id, fairs |-> f.both, commence |-> matched[f.id].commence,
              from |-> Source(f.id, store, fresh, games, matched[f.id])] : f \in priced}
      /\ report'.reasons = Reasons(matched, kept, kept \ pricedIds)
                           \cup UnmatchedReasons(Tradable, games, MatchWindow)
  BY DEF SlatePrice, PriceWith, PriceKept, PriceMatched
<1>2. UNCHANGED <<listed, slateNow>>
  BY DEF SlatePrice
<1>3. store \in Store
  BY UpsertedUnfolds, ListingType DEF Upserted
<1>4. store.rows \in Seq(GameRow)
  BY <1>3, StoreRows
<1> HIDE DEF fresh, store
<1>5. Playable(games)
  BY <1>4, FetchedPlayable, StoredPlayable DEF fresh
<1>6. pricedIds \subseteq kept
  BY DEF FairsOf
<1>7. games = IF fresh = None THEN StoredBooks(store) ELSE fresh
  OBVIOUS
<1> HIDE DEF games
<1>8. /\ \A l \in stored : l.of \in BookIds /\ l.at = slateNow
      /\ \A l, x \in stored : l.row = x.row => l = x
  BY <1>5, StoredLinesOK
<1>9. ASSUME NEW id \in kept
      PROVE  /\ matched[id].commence > slateNow /\ matched[id] \in Range(games)
             /\ listed[id] = "open"
             /\ MarketOf(id).start # None => MarketOf(id).start > slateNow
  <2>1. id \in DOMAIN matched /\ matched[id].commence > slateNow
    BY DEF NotUnderWay
  <2>2. matched[id] \in Range(games) /\ \E m \in Tradable : m.id = id
    BY <1>5, <2>1, MatchesAre
  <2>3. QED
    BY <2>1, <2>2, TradableMarkets
<1>10. \A id \in MarketIds :
          Cardinality({r \in Reasons(matched, kept, kept \ pricedIds)
                              \cup UnmatchedReasons(Tradable, games, MatchWindow) : r.id = id})
          = IF id \in pricedIds \/ listed[id] = "unlisted" THEN 0 ELSE 1
  <2> HIDE DEF pricedIds
  <2>1. QED
    BY <1>5, <1>6, OneReason
<1> HIDE DEF matched, kept, stored
<1>11. LinesOK'
  <2>1. ASSUME NEW l \in lines' PROVE l.of \in BookIds /\ l.at \in Int
    BY <1>1, <1>8, <2>1 DEF LinesOK
  <2>2. ASSUME NEW l \in lines', NEW x \in lines', l.row = x.row PROVE l = x
    BY <1>1, <1>8, <2>2 DEF LinesOK
  <2>3. QED
    BY <2>1, <2>2 DEF LinesOK
<1>12. \A p \in report'.priced : \E f \in priced :
          /\ p.id = f.id /\ p.commence = matched[f.id].commence
          /\ p.from = Source(f.id, store, fresh, games, matched[f.id])
  <2> HIDE DEF priced
  <2>1. QED
    BY <1>1
<1>13. \A f \in priced : f.id \in kept
  BY <1>6
<1>14. {p.id : p \in report'.priced} = pricedIds
  <2> HIDE DEF priced
  <2>1. ASSUME NEW f \in priced PROVE \E p \in report'.priced : p.id = f.id
    <3>1. [id |-> f.id, fairs |-> f.both, commence |-> matched[f.id].commence,
           from |-> Source(f.id, store, fresh, games, matched[f.id])] \in report'.priced
      BY <1>1
    <3>2. QED
      BY <3>1
  <2>2. QED
    BY <1>12, <2>1
<1> HIDE DEF priced, pricedIds
<1>15. PricedPregame'
  <2>1. ASSUME NEW p \in report'.priced
        PROVE  /\ listed[p.id] = "open"
               /\ MarketOf(p.id).start # None => MarketOf(p.id).start > slateNow
               /\ p.commence > slateNow
               /\ StaleHours > 0 => p.from.at >= slateNow - StaleHours
    <3>1. PICK f \in priced : /\ p.id = f.id /\ p.commence = matched[f.id].commence
                              /\ p.from = Source(f.id, store, fresh, games, matched[f.id])
      BY <1>12
    <3>2. f.id \in kept
      BY <1>13
    <3>3. StaleHours > 0 => p.from.at >= slateNow - StaleHours
      BY <1>4, <1>7, <1>9, <3>1, <3>2, SourceAt
    <3>4. QED
      BY <1>9, <3>1, <3>2, <3>3
  <2>2. QED
    BY <1>2, <2>1 DEF PricedPregame
<1>16. EveryMarketAccounted'
  <2>1. \A id \in MarketIds : listed[id] = "unlisted" => id \notin pricedIds
    BY <1>6, <1>9 DEF pricedIds
  <2>2. QED
    BY <1>1, <1>2, <1>10, <1>14, <2>1 DEF EveryMarketAccounted, Priced
<1>17. QED
  BY <1>11, <1>15, <1>16

---------------------------------------------------------------------------
(* The invariant.                                                          *)

\* A finite set of hours has a first one.
LEMMA FirstHour ==
  ASSUME NEW S, IsFiniteSet(S), S # {}, S \subseteq Int
  PROVE  Min(S) \in S
<1> DEFINE n == Cardinality(S)
<1>1. n \in Nat /\ \E f : f \in Bijection(1..n, S)
  BY FS_CardinalityType, FS_NatBijection DEF ExistsBijection
<1>2. PICK f : f \in Bijection(1..n, S)
  BY <1>1
<1>3. f \in [1..n -> S] /\ \A x \in S : \E i \in 1..n : f[i] = x
  BY <1>2 DEF Bijection, Injection, Surjection, IsInjective
<1> DEFINE value == [i \in 1..n |-> -f[i]]
<1>4. \A i \in 1..n : f[i] \in S /\ f[i] \in Int
  BY <1>3
<1> HIDE DEF n
<1>5. (\A i \in 1..n : value[i] = -f[i] /\ value[i] \in Int) /\ 1..n # {}
  <2>1. \A i \in 1..n : value[i] = -f[i]
    OBVIOUS
  <2> HIDE DEF value
  <2>2. \A i \in 1..n : value[i] \in Int
    BY <1>4, <2>1
  <2>3. 1..n # {}
    BY <1>3
  <2>4. QED
    BY <2>1, <2>2, <2>3
<1> HIDE DEF value
<1>6. PICK i \in 1..n : \A j \in 1..n : value[j] <= value[i]
  BY <1>1, <1>5, HasGreatestValue
<1>7. ASSUME NEW x \in S PROVE f[i] <= x
  <2>1. PICK j \in 1..n : f[j] = x
    BY <1>3
  <2>2. value[j] <= value[i]
    BY <1>6
  <2>3. QED
    BY <1>4, <1>5, <2>1, <2>2
<1>8. \E x \in S : \A y \in S : x <= y
  BY <1>4, <1>7
<1>9. QED
  BY <1>8 DEF Min

\* The clock, the tables and what the last scan made of each market.
SlateTypes ==
    /\ hour \in Hours /\ slateNow \in Hours
    /\ gameRows \in Seq(GameRow) /\ filed \in FiledMaps
SlateInv == SlateTypes /\ LinesOK /\ PricedPregame /\ EveryMarketAccounted

LEMMA HourPassesStep ==
  ASSUME SlateInv, HourPasses
  PROVE  SlateInv'
<1>1. hour' \in Hours
  <2> DEFINE later == {h \in Hours : h > hour}
  <2>1. later # {} /\ later \subseteq Hours /\ hour' = Min(later)
    BY DEF HourPasses
  <2> HIDE DEF later
  <2>2. IsFiniteSet(later) /\ later \subseteq Int
    BY <2>1, SlateAssumption, FS_Subset
  <2>3. QED
    BY <2>1, <2>2, FirstHour
<1>2. UNCHANGED <<slateNow, gameRows, filed, lines, report>> /\ UNCHANGED <<slatePc, slateScans, listed>>
  BY DEF HourPasses
<1>3. QED
  BY <1>1, <1>2 DEF SlateInv, SlateTypes, LinesOK, PricedPregame, EveryMarketAccounted, Done, Priced

LEMMA SlateListStep ==
  ASSUME SlateInv, NEW k, NEW missing, SlateList(k, missing)
  PROVE  SlateInv'
<1>1. /\ slatePc' = "listed" /\ slateNow' = hour /\ report'.priced = {}
      /\ UNCHANGED <<hour, gameRows, filed, lines>>
  BY DEF SlateList, NoReport
<1>2. SlateTypes' /\ LinesOK'
  BY <1>1 DEF SlateInv, SlateTypes, LinesOK
<1>3. PricedPregame'
  BY <1>1 DEF PricedPregame
<1>4. EveryMarketAccounted'
  BY <1>1 DEF EveryMarketAccounted, Done
<1>5. QED
  BY <1>2, <1>3, <1>4 DEF SlateInv

LEMMA SlatePriceStep ==
  ASSUME SlateInv, NEW out, SlatePrice(out)
  PROVE  SlateInv'
<1>1. slateNow \in Int /\ gameRows \in Seq(GameRow) /\ filed \in FiledMaps /\ LinesOK
  BY SlateAssumption DEF SlateInv, SlateTypes
<1>2. LinesOK' /\ PricedPregame' /\ EveryMarketAccounted'
  BY <1>1, PricesStep
<1>3. Upserted \in Store
  BY <1>1, UpsertedUnfolds, ListingType DEF Upserted
<1>4. Upserted.rows \in Seq(GameRow) /\ Upserted.filed \in FiledMaps
  BY <1>3, StoreRows
<1>5. gameRows' = Upserted.rows /\ filed' = Upserted.filed /\ UNCHANGED <<hour, slateNow>>
  BY DEF SlatePrice
<1>6. QED
  BY <1>2, <1>4, <1>5 DEF SlateInv, SlateTypes

LEMMA SlateStep ==
  ASSUME SlateInv, [SlateNext]_slateVars
  PROVE  SlateInv'
<1>1. ASSUME \/ \E id \in MarketIds, flag \in BoardStates : VenueChanges(id, flag)
             \/ \E id \in BookIds : BooksChange(id)
             \/ UNCHANGED slateVars
      PROVE  SlateInv'
  <2>1. UNCHANGED <<hour, slateNow, gameRows, filed>> /\ UNCHANGED <<lines, report, listed>>
        /\ UNCHANGED <<slatePc, slateScans>>
    BY <1>1 DEF VenueChanges, BooksChange, slateVars
  <2>2. QED
    BY <2>1 DEF SlateInv, SlateTypes, LinesOK, PricedPregame, EveryMarketAccounted, Done, Priced
<1>2. QED
  BY <1>1, HourPassesStep, SlateListStep, SlatePriceStep DEF SlateNext

LEMMA EmptyTables ==
  ASSUME SlateInit
  PROVE  SlateTypes /\ gameRows = <<>> /\ DOMAIN gameRows = {} /\ DOMAIN filed = {}
<1>1. Min(Hours) \in Hours
  BY SlateAssumption, FirstHour
<1>2. gameRows \in Seq(GameRow)
  <2> HIDE DEF GameRow
  <2>1. QED
    BY DEF SlateInit
<1>3. <<>> \in [{} -> Nat]
  OBVIOUS
<1>4. filed \in FiledMaps
  BY <1>3 DEF SlateInit, FiledMaps
<1>5. QED
  BY <1>1, <1>2, <1>4 DEF SlateInit, SlateTypes

LEMMA SlateInvariant == SlateSpec => []SlateInv
<1>1. SlateInit => SlateInv
  <2>1. ASSUME SlateInit PROVE lines = {} /\ report.priced = {} /\ slateScans = 0
    BY <2>1 DEF SlateInit, NoReport
  <2>2. QED
    BY <2>1, EmptyTables DEF SlateInv, LinesOK, PricedPregame, EveryMarketAccounted, Done
<1>2. QED
  BY <1>1, SlateStep, PTL DEF SlateSpec

---------------------------------------------------------------------------
(* Quotients and sums.                                                     *)

\* Rounded quotients of two numbers and of their sum.
LEMMA Quotients ==
  ASSUME NEW a \in Int, NEW b \in Int, NEW w \in Nat \ {0}, NEW lo \in Int, NEW hi \in Int,
         lo * w <= a + b, a + b <= hi * w
  PROVE  /\ a \div w \in Int /\ b \div w \in Int
         /\ lo - 1 <= a \div w + b \div w /\ a \div w + b \div w <= hi
<1> DEFINE q == a \div w
           r == b \div w
<1>1. ASSUME NEW x \in Int PROVE x \div w \in Int /\ (x \div w) * w <= x /\ x < (x \div w) * w + w
  OBVIOUS
<1>2. q \in Int /\ q * w <= a /\ a < q * w + w /\ r \in Int /\ r * w <= b /\ b < r * w + w
  BY <1>1
<1> HIDE DEF q, r
<1>3. ASSUME NEW x \in Int, NEW y \in Int, x * w < y * w PROVE x < y
  <2>1. SUFFICES ASSUME y <= x PROVE FALSE
    BY DEF q
  <2>2. x - y \in Nat /\ (x - y) * w \in Nat
    BY <2>1
  <2>3. (x - y) * w = x * w - y * w
    OBVIOUS
  <2>4. x * w \in Int /\ y * w \in Int
    OBVIOUS
  <2>5. QED
    BY <1>3, <2>2, <2>3, <2>4
<1>4. (q + r) * w = q * w + r * w /\ (q + r + 2) * w = q * w + r * w + 2 * w
      /\ (hi + 1) * w = hi * w + w
  BY <1>2
<1>5. q * w \in Int /\ r * w \in Int /\ lo * w \in Int /\ hi * w \in Int
  BY <1>2
<1>6. (q + r) * w < (hi + 1) * w /\ lo * w < (q + r + 2) * w
  BY <1>2, <1>4, <1>5
<1>7. q + r < hi + 1 /\ lo < q + r + 2
  BY <1>2, <1>3, <1>6
<1>8. QED
  BY <1>2, <1>7 DEF q, r

\* Complementary terms have complementary sums.
LEMMA SumsComplement ==
  ASSUME NEW n \in Nat, NEW D \in SUBSET (1..n), D # {}, NEW f, NEW g, NEW w,
         NEW lo \in Int, NEW hi \in Int,
         DOMAIN f = D, DOMAIN g = D, DOMAIN w = D,
         \A i \in D : /\ f[i] \in Int /\ g[i] \in Int /\ w[i] = 1
                      /\ lo <= f[i] + g[i] /\ f[i] + g[i] <= hi
  PROVE  /\ SumOf(f) \in Int /\ SumOf(g) \in Int /\ SumOf(w) \in Nat \ {0}
         /\ lo * SumOf(w) <= SumOf(f) + SumOf(g)
         /\ SumOf(f) + SumOf(g) <= hi * SumOf(w)
<1>1. n \in 0..n /\ \A i \in D : i <= n
  OBVIOUS
<1>2. /\ \A i \in D : f[i] \in Int
      /\ \A i \in D : g[i] \in Int
      /\ \A i \in D : w[i] \in Int
  OBVIOUS
<1>3. PICK u : AddsUp(u, f, D, n)
  BY <1>2, SumOfUnfolds, Zenon
<1>4. PICK v : AddsUp(v, g, D, n)
  BY <1>2, SumOfUnfolds, Zenon
<1>5. PICK x : AddsUp(x, w, D, n)
  BY <1>2, SumOfUnfolds, Zenon
<1> DEFINE Between(k) == /\ x[k] >= 0 /\ (k \in D => x[k] >= 1)
                         /\ (\E i \in D : i <= k) => x[k] >= 1
                         /\ lo * x[k] <= u[k] + v[k] /\ u[k] + v[k] <= hi * x[k]
           bad == {k \in 0..n : ~Between(k)}
<1>6. bad = {}
  <2>1. SUFFICES ASSUME bad # {} PROVE FALSE
    OBVIOUS
  <2>2. bad \in SUBSET Nat
    BY <1>1
  <2>3. PICK k \in bad : \A j \in bad : k <= j
    <3> HIDE DEF bad
    <3>1. QED
      BY <2>1, <2>2, HasLeast
  <2>4. k \in 0..n /\ ~Between(k)
    BY <2>3
  <2>5. k # 0
    <3>1. 0 \notin D /\ \A i \in D : ~(i <= 0)
      OBVIOUS
    <3>2. Between(0)
      BY <1>3, <1>4, <1>5, <3>1 DEF AddsUp
    <3>3. QED
      BY <2>4, <3>2
  <2>6. k \in 1..n /\ k - 1 \in 0..n /\ k - 1 \notin bad /\ k \in Nat
    BY <1>1, <2>3, <2>4, <2>5
  <2>7. Between(k - 1)
    BY <2>6
  <2>8. /\ u[k - 1] \in Int /\ v[k - 1] \in Int /\ x[k - 1] \in Int
        /\ u[k] = u[k - 1] + (IF k \in D THEN f[k] ELSE 0)
        /\ v[k] = v[k - 1] + (IF k \in D THEN g[k] ELSE 0)
        /\ x[k] = x[k - 1] + (IF k \in D THEN w[k] ELSE 0)
    BY <1>3, <1>4, <1>5, <2>6 DEF AddsUp
  <2> HIDE DEF bad
  <2>9. CASE k \in D
    <3>1. u[k] = u[k - 1] + f[k] /\ v[k] = v[k - 1] + g[k] /\ x[k] = x[k - 1] + 1
      BY <2>8, <2>9
    <3>2. /\ f[k] \in Int /\ g[k] \in Int
          /\ lo <= f[k] + g[k] /\ f[k] + g[k] <= hi
      BY <2>9
    <3>3. lo * x[k] = lo * x[k - 1] + lo /\ hi * x[k] = hi * x[k - 1] + hi
      <4>1. ASSUME NEW y \in Int, NEW c \in Int PROVE c * (y + 1) = c * y + c
        OBVIOUS
      <4>2. QED
        BY <2>8, <3>1, <4>1
    <3>4. lo * x[k - 1] \in Int /\ hi * x[k - 1] \in Int
      BY <2>8
    <3>5. Between(k)
      BY <2>7, <2>8, <3>1, <3>2, <3>3, <3>4
    <3>6. QED
      BY <2>4, <3>5
  <2>10. CASE k \notin D
    <3>1. u[k] = u[k - 1] /\ v[k] = v[k - 1] /\ x[k] = x[k - 1]
      BY <2>8, <2>10
    <3>2. ASSUME NEW i \in D, i <= k PROVE i <= k - 1
      <4>1. i \in Nat /\ i # k
        BY <2>10
      <4>2. QED
        BY <2>6, <3>2, <4>1
    <3>3. Between(k)
      BY <2>7, <2>8, <2>10, <3>1, <3>2
    <3>4. QED
      BY <2>4, <3>3
  <2>11. QED
    BY <2>9, <2>10
<1>7. Between(n)
  <2>1. n \in 0..n
    BY <1>1
  <2>2. QED
    BY <1>6, <2>1
<1>8. n \in 0..n /\ \E i \in D : i <= n
  <2>1. PICK i \in D : TRUE
    OBVIOUS
  <2>2. QED
    BY <1>1, <2>1
<1>9. QED
  BY <1>3, <1>4, <1>5, <1>7, <1>8 DEF AddsUp

---------------------------------------------------------------------------
(* The two sides of a market.                                              *)

\* What is taken off the two prices of a book leaves parts that complement each other.
LEMMA DevigComplement ==
  ASSUME NEW raw, NEW back, NEW method, raw[1] \in Nat, raw[2] \in Nat, raw[1] > 0,
         back[1] = raw[2], back[2] = raw[1]
  PROVE  LET p == Devig(raw, method)[1]
             q == Devig(back, method)[1]
         IN  p \in Int /\ q \in Int /\ 9999 <= p + q /\ p + q <= 10001
<1> DEFINE sum == raw[1] + raw[2]
<1>1. sum \in Nat \ {0} /\ back[1] + back[2] = sum
  OBVIOUS
<1>2. /\ MultiplicativeDevig(raw)[1] = (raw[1] * 10000) \div sum
      /\ MultiplicativeDevig(back)[1] = (raw[2] * 10000) \div sum
  BY <1>1 DEF MultiplicativeDevig, Unit
<1>3. /\ AdditiveDevig(raw)[1] = raw[1] - (sum - 10000) \div 2
      /\ AdditiveDevig(back)[1] = raw[2] - (sum - 10000) \div 2
  BY <1>1 DEF AdditiveDevig, Unit
<1>4. CASE method = "multiplicative"
  <2> DEFINE a == raw[1] * 10000
             b == raw[2] * 10000
  <2>1. a \in Int /\ b \in Int /\ a + b = 10000 * sum
    OBVIOUS
  <2> HIDE DEF a, b, sum
  <2>2. /\ a \div sum \in Int /\ b \div sum \in Int
        /\ 10000 - 1 <= a \div sum + b \div sum /\ a \div sum + b \div sum <= 10000
    <3>1. 10000 * sum <= a + b /\ a + b <= 10000 * sum
      BY <1>1, <2>1
    <3>2. QED
      BY <1>1, <2>1, <3>1, Quotients
  <2>3. Devig(raw, method)[1] = a \div sum /\ Devig(back, method)[1] = b \div sum
    BY <1>2, <1>4 DEF Devig, a, b
  <2>4. QED
    BY <2>2, <2>3
<1>5. CASE method # "multiplicative"
  <2> DEFINE h == (sum - 10000) \div 2
  <2>1. h \in Int /\ 2 * h <= sum - 10000 /\ sum - 10000 <= 2 * h + 1
    BY <1>1
  <2>2. Devig(raw, method)[1] = raw[1] - h /\ Devig(back, method)[1] = raw[2] - h
    BY <1>3, <1>5 DEF Devig
  <2> HIDE DEF h
  <2>3. QED
    BY <2>1, <2>2
<1>6. QED
  BY <1>4, <1>5

\* Both sides of a market are quoted by the same two quotes of a book.
Swapped(a, b) == a = <<b[2], b[1]>>

LEMMA PairsMirror ==
  ASSUME SidesApart, NEW m \in Range(Listing), m.type \in DOMAIN BookKey,
         m.keys[1] # None, m.keys[2] # None, NEW game, NEW outcomes
  PROVE  Swapped(PairForBook(m, 2, game, outcomes), PairForBook(m, 1, game, outcomes))
<1> DEFINE this == m.keys[1]
           other == m.keys[2]
           Quote(who, point) == QuoteOf(outcomes, who, point, TRUE)
           pair == PairForBook(m, 1, game, outcomes)
           back == PairForBook(m, 2, game, outcomes)
<1>1. /\ this # other /\ m.line \in Int \cup {None} /\ None \notin Int
      /\ m.type = "total" => this \in {"over", "under"} /\ other \in {"over", "under"}
  BY SlateAssumption DEF SidesApart
<1>2. m.type \in {"moneyline", "spread", "total"} /\ 3 - 1 = 2 /\ 3 - 2 = 1
  BY DEF BookKey
<1>3. CASE m.type = "moneyline"
  <2>1. \A who, p, q : QuoteOf(outcomes, who, p, FALSE) = QuoteOf(outcomes, who, q, FALSE)
    BY DEF QuoteOf
  <2> DEFINE any(who) == QuoteOf(outcomes, who, None, FALSE)
  <2>2. pair = <<any(this), any(other)>> /\ back = <<any(other), any(this)>>
    BY <1>2, <1>3, <2>1 DEF PairForBook
  <2> HIDE DEF pair, back, any
  <2>3. QED
    BY <2>2 DEF Swapped, pair, back
<1>4. CASE m.type = "total"
  <2>1. OtherSide(this) = other /\ OtherSide(other) = this
    BY <1>1, <1>4 DEF OtherSide
  <2>2. CASE m.line = None
    <3>1. pair = <<None, None>> /\ back = <<None, None>>
      BY <1>4, <2>2 DEF PairForBook
    <3> HIDE DEF pair, back, Quote
    <3>2. QED
      BY <3>1 DEF Swapped, pair, back
  <2>3. CASE m.line # None
    <3>1. /\ pair = <<Quote(this, m.line), Quote(other, m.line)>>
          /\ back = <<Quote(other, m.line), Quote(this, m.line)>>
      BY <1>2, <1>4, <2>1, <2>3 DEF PairForBook
    <3> HIDE DEF pair, back, Quote
    <3>2. QED
      BY <3>1 DEF Swapped, pair, back
  <2>4. QED
    BY <2>2, <2>3
<1>5. CASE m.type = "spread"
  <2> DEFINE mine == RequiredPoint(m, this, other)
             theirs == RequiredPoint(m, other, this)
             bad == m.line = None \/ m.lineTeam = None \/ mine = None
  <2>1. /\ pair = IF bad THEN <<None, None>> ELSE <<Quote(this, mine), Quote(other, -mine)>>
        /\ back = IF m.line = None \/ m.lineTeam = None \/ theirs = None THEN <<None, None>>
                  ELSE <<Quote(other, theirs), Quote(this, -theirs)>>
    BY <1>2, <1>5 DEF PairForBook
  <2>2. ASSUME m.line # None
        PROVE  \/ mine = None /\ theirs = None
               \/ mine \in Int /\ theirs = -mine /\ -theirs = mine
    <3>1. m.line \in Int /\ -m.line \in Int /\ -(-m.line) = m.line
      BY <1>1, <2>2
    <3>2. QED
      BY <1>1, <3>1 DEF RequiredPoint
  <2> HIDE DEF mine, theirs, pair, back, Quote
  <2>3. CASE bad
    <3>1. bad /\ (m.line = None \/ m.lineTeam = None \/ theirs = None)
      BY <1>1, <2>2, <2>3
    <3>2. pair = <<None, None>> /\ back = <<None, None>>
      BY <2>1, <3>1
    <3>3. QED
      BY <3>2 DEF pair, back, Swapped
  <2>4. CASE ~bad
    <3>1. mine \in Int /\ theirs = -mine /\ -theirs = mine /\ theirs # None
      BY <1>1, <2>2, <2>4
    <3>2. /\ pair = <<Quote(this, mine), Quote(other, -mine)>>
          /\ back = <<Quote(other, -mine), Quote(this, mine)>>
      BY <2>1, <2>4, <3>1
    <3>3. QED
      BY <3>2 DEF pair, back, Swapped
  <2>5. QED
    BY <2>3, <2>4
<1>6. QED
  BY <1>2, <1>3, <1>4, <1>5

\* A quote that is found is one of them, and a valid price has a probability.
LEMMA QuoteFound ==
  ASSUME NEW outcomes \in Seq(Quotes), NEW who, NEW point, NEW exact
  PROVE  QuoteOf(outcomes, who, point, exact) \in Quotes \cup {None}
<1> DEFINE at == {i \in DOMAIN outcomes :
                     outcomes[i].who = who /\ (exact => outcomes[i].point = point)}
           q == QuoteOf(outcomes, who, point, exact)
<1>1. DOMAIN outcomes \subseteq Nat /\ \A i \in DOMAIN outcomes : outcomes[i] \in Quotes
  <2> HIDE DEF Quotes
  <2>1. QED
    OBVIOUS
<1>2. q = IF at = {} THEN None ELSE outcomes[Min(at)]
  BY DEF QuoteOf
<1>3. at \in SUBSET Nat /\ at \subseteq DOMAIN outcomes
  BY <1>1
<1> HIDE DEF at, q
<1>4. at # {} => Min(at) \in DOMAIN outcomes
  BY <1>3, MinIsLeast
<1>5. QED
  BY <1>1, <1>2, <1>4 DEF q

LEMMA QuotePays ==
  ASSUME NEW q \in Quotes, ValidAmerican(q.price)
  PROVE  AmericanToProb(q.price) \in Nat \ {0}
<1>1. q.price \in Int /\ AmericanToProb(q.price) > 0
  BY DEF Quotes
<1>2. CASE q.price > 0
  BY <1>1, <1>2 DEF AmericanToProb, Unit
<1>3. CASE ~(q.price > 0)
  BY <1>1, <1>3 DEF AmericanToProb, Unit
<1>4. QED
  BY <1>2, <1>3

TwoQuotes(pair) ==
    /\ pair = <<pair[1], pair[2]>>
    /\ pair[1] \in Quotes \cup {None} /\ pair[2] \in Quotes \cup {None}

LEMMA PairsQuoted ==
  ASSUME NEW m, NEW index, NEW game, NEW outcomes \in Seq(Quotes)
  PROVE  TwoQuotes(PairForBook(m, index, game, outcomes))
<1> DEFINE pair == PairForBook(m, index, game, outcomes)
<1>1. \A a, b : a \in Quotes \cup {None} /\ b \in Quotes \cup {None} => TwoQuotes(<<a, b>>)
  <2> HIDE DEF Quotes
  <2>1. QED
    BY DEF TwoQuotes
<1>2. \E who, p, e, facing, q, h :
         pair \in {<<None, None>>, <<QuoteOf(outcomes, who, p, e), QuoteOf(outcomes, facing, q, h)>>}
  BY DEF PairForBook
<1> HIDE DEF pair, TwoQuotes
<1>3. TwoQuotes(pair)
  BY <1>1, <1>2, QuoteFound
<1>4. QED
  BY <1>3 DEF pair

\* A market whose side is not named is not priced.
LEMMA UnnamedUnquoted ==
  ASSUME NEW m, NEW index, m.keys[index] = None, NEW game, NEW outcomes, NEW method
  PROVE  ~Usable(PairForBook(m, index, game, outcomes), method)
<1>1. PairForBook(m, index, game, outcomes) = <<None, None>>
  BY DEF PairForBook
<1>2. None \in Range(<<None, None>>)
  BY DEF Range
<1>3. QED
  BY <1>1, <1>2 DEF Usable

\* What a usable pair gives both sides.
LEMMA SidesOfAPair ==
  ASSUME NEW pair, NEW back, TwoQuotes(pair), Swapped(back, pair), NEW method
  PROVE  /\ Usable(back, method) <=> Usable(pair, method)
         /\ Usable(pair, method) =>
               /\ Devig(RawOf(pair), method)[1] \in Int /\ Devig(RawOf(back), method)[1] \in Int
               /\ 9999 <= Devig(RawOf(pair), method)[1] + Devig(RawOf(back), method)[1]
               /\ Devig(RawOf(pair), method)[1] + Devig(RawOf(back), method)[1] <= 10001
<1> DEFINE raw == RawOf(pair)
           turned == RawOf(back)
           Sound == /\ None \notin {pair[1], pair[2]}
                    /\ ValidAmerican(pair[1].price) /\ ValidAmerican(pair[2].price)
<1>1. back[1] = pair[2] /\ back[2] = pair[1]
  BY DEF Swapped
<1>2. Range(pair) = {pair[1], pair[2]} /\ Range(back) = {pair[1], pair[2]}
  BY DEF Swapped, TwoQuotes, Range
<1>3. /\ Usable(pair, method) <=> Sound /\ ~Rejected(raw, method)
      /\ Usable(back, method) <=> Sound /\ ~Rejected(turned, method)
  BY <1>1, <1>2 DEF Usable
<1>4. /\ raw[1] = AmericanToProb(pair[1].price) /\ raw[2] = AmericanToProb(pair[2].price)
      /\ turned[1] = raw[2] /\ turned[2] = raw[1]
  BY <1>1 DEF RawOf
<1>5. ASSUME Sound PROVE raw[1] \in Nat /\ raw[2] \in Nat /\ raw[1] > 0
  <2>1. pair[1] \in Quotes /\ pair[2] \in Quotes
    BY <1>5 DEF TwoQuotes
  <2>2. raw[1] \in Nat \ {0} /\ raw[2] \in Nat \ {0}
    BY <1>4, <1>5, <2>1, QuotePays
  <2>3. QED
    BY <2>2
<1> HIDE DEF raw, turned, Sound
<1>6. ASSUME Sound PROVE Rejected(turned, method) <=> Rejected(raw, method)
  BY <1>4, <1>5, <1>6 DEF Rejected
<1>7. ASSUME Sound
      PROVE  LET p == Devig(raw, method)[1]
                 q == Devig(turned, method)[1]
             IN  p \in Int /\ q \in Int /\ 9999 <= p + q /\ p + q <= 10001
  BY <1>4, <1>5, <1>7, DevigComplement
<1>8. QED
  BY <1>3, <1>6, <1>7 DEF raw, turned

\* Without weights a consensus is the mean of the samples.
LEMMA PlainConsensus ==
  ASSUME NEW D, D # {}, NEW samples, DOMAIN samples = D, \A i \in D : samples[i].prob \in Int,
         HasFair(Consensus(samples, <<>>))
  PROVE  /\ Consensus(samples, <<>>).value =
               SumOf([i \in D |-> samples[i].prob]) \div SumOf([i \in D |-> 1])
         /\ Consensus(samples, <<>>).books = {samples[i].book : i \in D}
<1> DEFINE used == {i \in DOMAIN samples : Weight(<<>>, samples[i].book) > 0}
           weight == [i \in used |-> Weight(<<>>, samples[i].book)]
           share == [i \in used |-> samples[i].prob * weight[i]]
           mean == [value |-> SumOf(share) \div SumOf(weight), books |-> {samples[i].book : i \in used}]
<1>1. \A book : Weight(<<>>, book) = 1
  BY DEF Weight
<1>2. used = D
  BY <1>1
<1>3. weight = [i \in D |-> 1]
  BY <1>1, <1>2
<1>4. share = [i \in D |-> samples[i].prob]
  <2> HIDE DEF used, weight
  <2>1. \A i \in D : samples[i].prob * weight[i] = samples[i].prob
    BY <1>3
  <2>2. QED
    BY <1>2, <2>1
<1>5. Consensus(samples, <<>>) =
        IF \E i \in DOMAIN samples : samples[i].prob \notin 1..(Unit - 1)
        THEN [value |-> None, books |-> {}]
        ELSE IF used = {} THEN None ELSE mean
  BY DEF Consensus
<1> HIDE DEF used, weight, share
<1>6. Consensus(samples, <<>>) = mean
  BY <1>5 DEF HasFair
<1>7. QED
  BY <1>2, <1>3, <1>4, <1>6

\* The fair values of a market's two sides, from the same game.
Complements(fair, facing) ==
    /\ fair.value \in Int /\ facing.value \in Int
    /\ fair.books = facing.books
    /\ Abs(fair.value + facing.value - Unit) <= 2

LEMMA SidesComplement ==
  ASSUME SidesApart, NEW m \in Range(Listing), NEW game \in PostedGame,
         HasFair(FairForOutcome(m, 1, game, <<>>, Method)),
         HasFair(FairForOutcome(m, 2, game, <<>>, Method))
  PROVE  Complements(FairForOutcome(m, 1, game, <<>>, Method),
                     FairForOutcome(m, 2, game, <<>>, Method))
<1> DEFINE outcomes(i) == game.books[i].quotes[BookKey[m.type]]
           pair(i) == PairForBook(m, 1, game, outcomes(i))
           back(i) == PairForBook(m, 2, game, outcomes(i))
           quoting == {i \in DOMAIN game.books : Usable(pair(i), Method)}
           facing == {i \in DOMAIN game.books : Usable(back(i), Method)}
           mine == [i \in quoting |-> [book |-> game.books[i].name,
                                       prob |-> Devig(RawOf(pair(i)), Method)[1]]]
           theirs == [i \in facing |-> [book |-> game.books[i].name,
                                        prob |-> Devig(RawOf(back(i)), Method)[1]]]
           fair == FairForOutcome(m, 1, game, <<>>, Method)
           turned == FairForOutcome(m, 2, game, <<>>, Method)
<1>1. /\ fair = IF m.type \notin DOMAIN BookKey \/ quoting = {} THEN None
                ELSE Consensus(mine, <<>>)
      /\ turned = IF m.type \notin DOMAIN BookKey \/ facing = {} THEN None
                  ELSE Consensus(theirs, <<>>)
  BY DEF FairForOutcome
<1>2. HasFair(fair) /\ HasFair(turned)
  OBVIOUS
<1> HIDE DEF fair, turned
<1>3. /\ m.type \in DOMAIN BookKey /\ quoting # {} /\ facing # {}
      /\ fair = Consensus(mine, <<>>) /\ turned = Consensus(theirs, <<>>)
  <2> HIDE DEF quoting, facing, mine, theirs
  <2>1. QED
    BY <1>1, <1>2 DEF HasFair
<1>4. m.keys[1] # None /\ m.keys[2] # None
  <2>1. ASSUME m.keys[1] = None PROVE quoting = {}
    BY <2>1, UnnamedUnquoted
  <2>2. ASSUME m.keys[2] = None PROVE facing = {}
    BY <2>2, UnnamedUnquoted
  <2> HIDE DEF quoting, facing
  <2>3. QED
    BY <1>3, <2>1, <2>2
<1>5. ASSUME NEW i \in DOMAIN game.books
      PROVE  TwoQuotes(pair(i)) /\ Swapped(back(i), pair(i))
  <2>1. game.books \in Seq(PostedBooks)
    BY DEF PostedGame
  <2>2. game.books[i] \in PostedBooks
    <3> HIDE DEF PostedBooks
    <3>1. QED
      BY <2>1
  <2>3. BookKey[m.type] \in Range(BookKey)
    BY <1>3 DEF Range
  <2>4. outcomes(i) \in Seq(Quotes)
    <3> HIDE DEF PostedBooks, BookKey, Quotes
    <3>1. QED
      BY <2>2, <2>3, SlateAssumption
  <2> HIDE DEF outcomes
  <2>5. QED
    BY <1>3, <1>4, <2>4, PairsQuoted, PairsMirror
<1>6. game.books \in Seq(PostedBooks)
  BY DEF PostedGame
<1>7. Len(game.books) \in Nat /\ DOMAIN game.books = 1..Len(game.books)
  <2> HIDE DEF PostedBooks
  <2>1. QED
    BY <1>6
<1> HIDE DEF pair, back
<1>8. facing = quoting
  BY <1>5, SidesOfAPair
<1>9. quoting \in SUBSET (1..Len(game.books))
  BY <1>7
<1>10. ASSUME NEW i \in quoting
       PROVE  /\ mine[i].prob \in Int /\ theirs[i].prob \in Int
              /\ 9999 <= mine[i].prob + theirs[i].prob /\ mine[i].prob + theirs[i].prob <= 10001
              /\ mine[i].book = theirs[i].book
  <2>1. Usable(pair(i), Method) /\ i \in DOMAIN game.books
    OBVIOUS
  <2>2. /\ mine[i] = [book |-> game.books[i].name, prob |-> Devig(RawOf(pair(i)), Method)[1]]
        /\ theirs[i] = [book |-> game.books[i].name, prob |-> Devig(RawOf(back(i)), Method)[1]]
    BY <1>8
  <2> HIDE DEF mine, theirs, quoting, facing
  <2>3. /\ mine[i].prob = Devig(RawOf(pair(i)), Method)[1]
        /\ theirs[i].prob = Devig(RawOf(back(i)), Method)[1]
        /\ mine[i].book = theirs[i].book
    BY <2>2
  <2>4. QED
    BY <1>5, <2>1, <2>3, SidesOfAPair
<1>11. DOMAIN mine = quoting /\ DOMAIN theirs = quoting
  BY <1>8
<1> HIDE DEF mine, theirs, quoting, facing, outcomes
<1> DEFINE f == [i \in quoting |-> mine[i].prob]
           g == [i \in quoting |-> theirs[i].prob]
           one == [i \in quoting |-> 1]
<1>12. /\ fair.value = SumOf(f) \div SumOf(one) /\ fair.books = {mine[i].book : i \in quoting}
       /\ turned.value = SumOf(g) \div SumOf(one)
       /\ turned.books = {theirs[i].book : i \in quoting}
  <2>1. /\ HasFair(Consensus(mine, <<>>)) /\ HasFair(Consensus(theirs, <<>>))
        /\ \A i \in quoting : mine[i].prob \in Int /\ theirs[i].prob \in Int
    BY <1>2, <1>3, <1>10
  <2>2. QED
    BY <1>3, <1>8, <1>11, <2>1, PlainConsensus
<1>13. fair.books = turned.books
  <2>1. \A i \in quoting : mine[i].book = theirs[i].book
    BY <1>10
  <2>2. {mine[i].book : i \in quoting} = {theirs[i].book : i \in quoting}
    BY <2>1
  <2>3. QED
    BY <1>12, <2>2
<1>14. ASSUME NEW lo \in Int, NEW hi \in Int,
              \A i \in quoting : lo <= mine[i].prob + theirs[i].prob
                               /\ mine[i].prob + theirs[i].prob <= hi
       PROVE  /\ SumOf(f) \in Int /\ SumOf(g) \in Int /\ SumOf(one) \in Nat \ {0}
              /\ lo * SumOf(one) <= SumOf(f) + SumOf(g) /\ SumOf(f) + SumOf(g) <= hi * SumOf(one)
  <2>1. DOMAIN f = quoting /\ DOMAIN g = quoting /\ DOMAIN one = quoting
    OBVIOUS
  <2>2. \A i \in quoting : mine[i].prob \in Int /\ theirs[i].prob \in Int
    BY <1>10
  <2>3. \A i \in quoting : /\ f[i] \in Int /\ g[i] \in Int /\ one[i] = 1
                            /\ lo <= f[i] + g[i] /\ f[i] + g[i] <= hi
    BY <1>14, <2>2
  <2> HIDE DEF f, g, one
  <2>4. quoting # {} /\ Len(game.books) \in Nat
    BY <1>3, <1>7
  <2>5. QED
    BY <1>9, <2>1, <2>3, <2>4, SumsComplement
<1> HIDE DEF f, g, one
<1>15. /\ fair.value \in Int /\ turned.value \in Int
       /\ 9999 - 1 <= fair.value + turned.value /\ fair.value + turned.value <= 10001
  <2>1. PICK lo \in Int : lo = 9999
    OBVIOUS
  <2>2. PICK hi \in Int : hi = 10001
    OBVIOUS
  <2>3. \A i \in quoting : lo <= mine[i].prob + theirs[i].prob
                            /\ mine[i].prob + theirs[i].prob <= hi
    BY <1>10, <2>1, <2>2
  <2>4. /\ SumOf(f) \in Int /\ SumOf(g) \in Int /\ SumOf(one) \in Nat \ {0}
        /\ lo * SumOf(one) <= SumOf(f) + SumOf(g) /\ SumOf(f) + SumOf(g) <= hi * SumOf(one)
    BY <1>14, <2>3
  <2>5. /\ fair.value \in Int /\ turned.value \in Int
        /\ lo - 1 <= fair.value + turned.value /\ fair.value + turned.value <= hi
    BY <1>12, <2>4, Quotients
  <2>6. QED
    BY <2>1, <2>2, <2>5
<1>16. Abs(fair.value + turned.value - Unit) <= 2
  BY <1>15 DEF Abs, Unit
<1>17. QED
  BY <1>13, <1>15, <1>16 DEF Complements, fair, turned

\* What a scan reports and suggests is of listed markets, each against one posted
\* game: a side is suggested at the fair value reported for it.
SideFair(id, i, game) == FairForOutcome(MarketOf(id), i, game, <<>>, Method)
LEMMA SidesReported ==
  ASSUME SlateInv, NEW out, SlatePrice(out)
  PROVE  \E matched :
           /\ \A p \in report'.priced :
                 /\ MarketOf(p.id) \in Range(Listing) /\ matched[p.id] \in PostedGame
                 /\ \A i \in 1..2 : p.fairs[i] = SideFair(p.id, i, matched[p.id])
           /\ \A id, i : <<id, i>> \in report'.opps =>
                 /\ MarketOf(id) \in Range(Listing) /\ matched[id] \in PostedGame
                 /\ Worth(id, SlateAsks[id][i], SideFair(id, i, matched[id]))
<1> DEFINE fresh == FetchBooks(out)
           store == Upserted
           games == IF fresh = None THEN StoredBooks(store) ELSE fresh
           matched == MatchGames(Tradable, games, MatchWindow)
           kept == NotUnderWay(matched)
           priced == {f \in FairsOf(matched, kept) : HasFair(f.both[1]) \/ HasFair(f.both[2])}
<1>1. /\ report'.priced =
           {[id |-> f.id, fairs |-> f.both, commence |-> matched[f.id].commence,
             from |-> Source(f.id, store, fresh, games, matched[f.id])] : f \in priced}
      /\ report'.opps = {<<x[1], x[2]>> : x \in Opportunities(out, priced)}
  BY DEF SlatePrice, PriceWith, PriceKept, PriceMatched
<1>2. slateNow \in Int /\ gameRows \in Seq(GameRow) /\ filed \in FiledMaps /\ LinesOK
  BY SlateAssumption DEF SlateInv, SlateTypes
<1>3. store \in Store
  BY <1>2, UpsertedUnfolds, ListingType DEF Upserted
<1>4. store.rows \in Seq(GameRow)
  BY <1>3, StoreRows
<1> HIDE DEF fresh, store
<1>5. Playable(games)
  BY <1>2, <1>4, FetchedPlayable, StoredPlayable DEF fresh
<1> HIDE DEF games
<1>6. ASSUME NEW id \in kept
      PROVE  MarketOf(id) \in Range(Listing) /\ matched[id] \in PostedGame
  <2>1. id \in DOMAIN matched
    BY DEF NotUnderWay
  <2>2. matched[id] \in Range(games) /\ \E m \in Tradable : m.id = id
    BY <1>2, <1>5, <2>1, MatchesAre
  <2>3. MarketOf(id) \in Range(Listing)
    BY <1>2, <2>2, TradableMarkets
  <2>4. matched[id] \in PostedGame
    BY <1>5, <2>2 DEF Playable, Range
  <2>5. QED
    BY <2>3, <2>4
<1>7. \A f \in priced : f.id \in kept /\ f.both = BothFairs(MarketOf(f.id), matched[f.id])
  BY DEF FairsOf
<1> HIDE DEF matched, kept, priced
<1>8. \A f \in priced : /\ MarketOf(f.id) \in Range(Listing) /\ matched[f.id] \in PostedGame
                        /\ \A i \in 1..2 : f.both[i] = SideFair(f.id, i, matched[f.id])
  BY <1>6, <1>7 DEF BothFairs, SideFair
<1>9. ASSUME NEW p \in report'.priced
      PROVE  /\ MarketOf(p.id) \in Range(Listing) /\ matched[p.id] \in PostedGame
             /\ \A i \in 1..2 : p.fairs[i] = SideFair(p.id, i, matched[p.id])
  <2>1. PICK f \in priced : p.id = f.id /\ p.fairs = f.both
    BY <1>1
  <2>2. QED
    BY <1>8, <2>1
<1>10. ASSUME NEW id, NEW i, <<id, i>> \in report'.opps
       PROVE  /\ MarketOf(id) \in Range(Listing) /\ matched[id] \in PostedGame
              /\ Worth(id, SlateAsks[id][i], SideFair(id, i, matched[id]))
  <2>1. PICK x \in Opportunities(out, priced) : <<x[1], x[2]>> = <<id, i>>
    BY <1>1, <1>10
  <2>2. PICK f \in priced, j \in 1..2 : x = <<f.id, j, f.both[j]>>
    BY <2>1 DEF Opportunities
  <2>3. id = f.id /\ i = j /\ Worth(f.id, SlateAsks[f.id][j], f.both[j])
    BY <2>1, <2>2 DEF Opportunities
  <2>4. QED
    BY <1>8, <2>3
<1>11. QED
  BY <1>9, <1>10

LEMMA FairsPricedStep ==
  ASSUME SidesApart, SlateInv, NEW out, SlatePrice(out)
  PROVE  FairsComplement'
<1>1. ASSUME NEW p \in report'.priced, HasFair(p.fairs[1]), HasFair(p.fairs[2])
      PROVE  Complements(p.fairs[1], p.fairs[2])
  <2>1. PICK game \in PostedGame :
           /\ MarketOf(p.id) \in Range(Listing)
           /\ p.fairs[1] = SideFair(p.id, 1, game) /\ p.fairs[2] = SideFair(p.id, 2, game)
    BY SidesReported
  <2>2. QED
    BY <1>1, <2>1, SidesComplement DEF SideFair
<1>2. QED
  BY <1>1 DEF FairsComplement, Complements

\* A side worth showing leaves the minimum edge at a best ask that is there.
LEMMA LeastAsk ==
  ASSUME NEW asks \in Seq(AskLevels), Sellable(asks) # {}
  PROVE  BestAsk(asks) \in 1..99
<1> DEFINE prices == {asks[i].price : i \in Sellable(asks)}
<1>1. \A i \in Sellable(asks) : asks[i] \in AskLevels
  <2> HIDE DEF AskLevels
  <2>1. QED
    BY DEF Sellable
<1>2. prices \subseteq 1..99 /\ prices # {}
  BY <1>1 DEF AskLevels
<1>3. BestAsk(asks) = Min(prices)
  BY DEF BestAsk
<1> HIDE DEF prices
<1>4. prices \in SUBSET Nat
  BY <1>2
<1>5. QED
  BY <1>2, <1>3, <1>4, MinIsLeast

LEMMA PricesCost ==
  ASSUME NEW price \in 1..99, NEW rate \in Nat
  PROVE  EffectivePrice(price, rate) \in Nat \ {0}
<1>1. rate * price \in Nat /\ 100 - price \in Nat
  OBVIOUS
<1>2. (rate * price) * (100 - price) \in Nat
  BY <1>1
<1>3. ASSUME NEW x \in Nat PROVE x \div 100 \in Nat
  OBVIOUS
<1>4. (rate * price * (100 - price)) \div 100 \in Nat
  BY <1>2, <1>3
<1>5. QED
  BY <1>4 DEF EffectivePrice

LEMMA WorthLeavesEdge ==
  ASSUME NEW id, MarketOf(id) \in Range(Listing), NEW asks \in Seq(AskLevels), NEW fair,
         fair.value \in Int, Worth(id, asks, fair)
  PROVE  LET cost == EffectivePrice(BestAsk(asks), ResolveFeeRate(MarketOf(id).fee, SlatePrefs))
         IN  cost \in Int /\ fair.value - cost >= SlatePrefs.minEdge
<1> DEFINE m == MarketOf(id)
           rate == ResolveFeeRate(m.fee, SlatePrefs)
<1>1. m.fee \in Nat \cup {None} /\ SlatePrefs \in OwnerPrefs
  <2> HIDE DEF OwnerPrefs
  <2>1. QED
    BY SlateAssumption
<1>2. Flagged(id).fee = m.fee
  BY DEF Flagged
<1>3. rate \in Nat
  BY <1>1 DEF OwnerPrefs, ResolveFeeRate
<1>4. Sellable(asks) # {} /\ ~(fair.value - EffectivePrice(BestAsk(asks), rate) < SlatePrefs.minEdge)
  BY <1>2 DEF Worth, BuildOpportunity
<1>5. EffectivePrice(BestAsk(asks), rate) \in Nat \ {0}
  BY <1>3, <1>4, LeastAsk, PricesCost
<1>6. SlatePrefs.minEdge \in Int
  BY <1>1 DEF OwnerPrefs
<1> HIDE DEF rate
<1>7. QED
  BY <1>4, <1>5, <1>6 DEF rate

LEMMA EdgesPricedStep ==
  ASSUME SidesApart, SlateInv, NEW out, SlatePrice(out)
  PROVE  BothSidesLeaveTheEdge'
<1> SUFFICES ASSUME NEW id \in MarketIds, {<<id, 1>>, <<id, 2>>} \subseteq report'.opps
             PROVE  LET rate == ResolveFeeRate(MarketOf(id).fee, SlatePrefs)
                        Cost(i) == EffectivePrice(BestAsk(SlateAsks[id][i]), rate)
                    IN  Cost(1) + Cost(2) + 2 * SlatePrefs.minEdge <= Unit + 2
  BY DEF BothSidesLeaveTheEdge
<1> DEFINE rate == ResolveFeeRate(MarketOf(id).fee, SlatePrefs)
           Cost(i) == EffectivePrice(BestAsk(SlateAsks[id][i]), rate)
<1>1. PICK game \in PostedGame :
         /\ MarketOf(id) \in Range(Listing)
         /\ Worth(id, SlateAsks[id][1], SideFair(id, 1, game))
         /\ Worth(id, SlateAsks[id][2], SideFair(id, 2, game))
  BY SidesReported
<1>2. HasFair(SideFair(id, 1, game)) /\ HasFair(SideFair(id, 2, game))
  BY <1>1 DEF Worth
<1>3. Complements(SideFair(id, 1, game), SideFair(id, 2, game))
  BY <1>1, <1>2, SidesComplement DEF SideFair
<1>4. SlateAsks[id][1] \in Seq(AskLevels) /\ SlateAsks[id][2] \in Seq(AskLevels)
  <2> HIDE DEF AskLevels
  <2>1. SlateAsks[id] \in Seq(AskLevels) \X Seq(AskLevels)
    BY SlateAssumption
  <2>2. QED
    BY <2>1
<1>5. /\ Cost(1) \in Int /\ SideFair(id, 1, game).value - Cost(1) >= SlatePrefs.minEdge
      /\ Cost(2) \in Int /\ SideFair(id, 2, game).value - Cost(2) >= SlatePrefs.minEdge
  BY <1>1, <1>3, <1>4, WorthLeavesEdge DEF Complements
<1>6. SlatePrefs.minEdge \in Int
  BY SlateAssumption DEF OwnerPrefs
<1> HIDE DEF Cost
<1>7. Cost(1) + Cost(2) + 2 * SlatePrefs.minEdge <= Unit + 2
  BY <1>3, <1>5, <1>6 DEF Complements, Abs, Unit
<1>8. QED
  BY <1>7 DEF Cost

---------------------------------------------------------------------------
(* The tables, when no two events are taken for one.                       *)

\* The final rows are those of the events a scan has seen a closed market of, and
\* between scans each row of an event the last one listed agrees with its clock.
RowsInv ==
    /\ Placed([rows |-> gameRows, filed |-> filed])
    /\ \A i \in DOMAIN gameRows :
          gameRows[i].status = "final" <=> gameRows[i].event \in seenClosed
    /\ \A e \in seenClosed : \E i \in DOMAIN gameRows : gameRows[i].event = e
    /\ Done => \A i \in DOMAIN gameRows :
          gameRows[i].event \in {m.event : m \in ListedMarkets} => Timely(gameRows[i])

LEMMA RowsPricedStep ==
  ASSUME EventsApart, SlateInv, RowsInv, NEW out, SlatePrice(out)
  PROVE  RowsInv'
<1> DEFINE n == Len(Listing)
<1>1. slateNow \in Int /\ gameRows \in Seq(GameRow) /\ filed \in FiledMaps
  BY SlateAssumption DEF SlateInv, SlateTypes
<1>2. Placed(Upserted) /\ Statuses(Upserted, n)
  BY <1>1, UpsertedFiled DEF RowsInv
<1>3. n \in Nat /\ Upserted \in Store
  BY <1>1, UpsertedUnfolds, ListingType DEF Upserted
<1>4. /\ gameRows' = Upserted.rows /\ filed' = Upserted.filed /\ UNCHANGED <<slateNow, listed>>
      /\ seenClosed' = seenClosed \cup {m.event : m \in {x \in Range(Listing) : ListedClosed(x)}}
  BY DEF SlatePrice
<1>5. seenClosed' = seenClosed \cup ClosedUpto(n)
  <2>1. {m.event : m \in {x \in Range(Listing) : ListedClosed(x)}} = ClosedUpto(n)
    BY ListingType DEF ClosedUpto
  <2>2. QED
    BY <1>4, <2>1
<1>6. ASSUME NEW i \in DOMAIN Upserted.rows, NEW m \in ListedMarkets,
             Upserted.rows[i].event = m.event
      PROVE  Timely(Upserted.rows[i])
  <2>1. PICK k \in 1..n : Listing[k] = m
    BY ListingType DEF ListedMarkets
  <2>2. QED
    BY <1>2, <1>6, <2>1 DEF Statuses
<1>7. Placed([rows |-> gameRows, filed |-> filed])'
  BY <1>2, <1>4 DEF Placed
<1>8. (\A i \in DOMAIN gameRows :
         gameRows[i].event \in {m.event : m \in ListedMarkets} => Timely(gameRows[i]))'
  BY <1>4, <1>6 DEF Timely, ListedMarkets
<1>9. QED
  BY <1>2, <1>4, <1>5, <1>7, <1>8 DEF RowsInv, Statuses

LEMMA RowsStep ==
  ASSUME EventsApart, SlateInv, RowsInv, [SlateNext]_slateVars
  PROVE  RowsInv'
<1>1. ASSUME \/ HourPasses
             \/ \E id \in MarketIds, flag \in BoardStates : VenueChanges(id, flag)
             \/ \E id \in BookIds : BooksChange(id)
             \/ UNCHANGED slateVars
      PROVE  RowsInv'
  <2>1. UNCHANGED <<slateNow, gameRows, filed, seenClosed>> /\ UNCHANGED <<slatePc, slateScans, listed>>
    BY <1>1 DEF HourPasses, VenueChanges, BooksChange, slateVars
  <2>2. QED
    BY <2>1 DEF RowsInv, Placed, Timely, Done, ListedMarkets
<1>2. ASSUME NEW k, NEW missing, SlateList(k, missing) PROVE RowsInv'
  <2>1. UNCHANGED <<gameRows, filed, seenClosed>> /\ slatePc' = "listed"
    BY <1>2 DEF SlateList
  <2>2. QED
    BY <2>1 DEF RowsInv, Placed, Done
<1>3. QED
  BY <1>1, <1>2, RowsPricedStep DEF SlateNext

LEMMA RowsInvariant ==
  ASSUME EventsApart
  PROVE  SlateSpec => []RowsInv
<1>1. SlateInit => RowsInv
  <2>1. ASSUME SlateInit PROVE seenClosed = {} /\ slateScans = 0
    BY <2>1 DEF SlateInit
  <2>2. QED
    BY <2>1, EmptyTables DEF RowsInv, Placed, Done
<1>2. SlateInv /\ RowsInv /\ [SlateNext]_slateVars => RowsInv'
  BY RowsStep
<1>3. QED
  BY <1>1, <1>2, SlateInvariant, PTL DEF SlateSpec

---------------------------------------------------------------------------
(* A market's own game.                                                    *)

\* A game of a market's league and teams, at a time the market may be compared with.
Suits(m, g) ==
    /\ g.league = m.league /\ MarketPair(m) # None /\ {g.home, g.away} = MarketPair(m)
    /\ m.start # None => WithinLeagueWindow(m.league, m.start, g.commence, MatchWindow)

LEMMA MatchSuits ==
  ASSUME NEW m, m.start \in Int \cup {None}, NEW games, Playable(games),
         MatchOne(m, games, MatchWindow).game # None
  PROVE  \E i \in DOMAIN games : MatchOne(m, games, MatchWindow).game = games[i] /\ Suits(m, games[i])
<1> DEFINE pair == MarketPair(m)
           candidates == IF pair = None THEN {} ELSE GamesOf(games, m.league, pair)
           near == {i \in candidates : WithinLeagueWindow(m.league, m.start, games[i].commence, MatchWindow)}
           one == MatchOne(m, games, MatchWindow)
<1>1. one = IF pair = None THEN Unmatched("no teams")
            ELSE IF candidates = {} THEN Unmatched("no book game")
            ELSE IF m.start = None
                 THEN IF Cardinality(candidates) = 1 THEN Matched(games[Min(candidates)])
                                                     ELSE Unmatched("no start time")
            ELSE IF near # {} THEN Matched(Nearest(games, near, m.start))
            ELSE IF \E i \in candidates : Abs(games[i].commence - m.start) <= MatchWindow
                 THEN Unmatched("different game day")
            ELSE Unmatched("outside match window")
  BY DEF MatchOne
<1>2. /\ candidates \in SUBSET DOMAIN games /\ near \in SUBSET candidates
      /\ \A i \in candidates : /\ pair # None /\ games[i].league = m.league
                               /\ {games[i].home, games[i].away} = pair
      /\ \A i \in near : WithinLeagueWindow(m.league, m.start, games[i].commence, MatchWindow)
  BY DEF GamesOf
<1>3. candidates \in SUBSET Nat
  BY <1>2 DEF Playable
<1>4. \A why : Unmatched(why).game = None
  BY DEF Unmatched
<1>5. \A g : Matched(g).game = g
  BY DEF Matched
<1>6. one.game # None
  OBVIOUS
<1> HIDE DEF one, near, candidates, pair
<1>7. \/ m.start = None /\ candidates # {} /\ one = Matched(games[Min(candidates)])
      \/ m.start # None /\ near # {} /\ one = Matched(Nearest(games, near, m.start))
  BY <1>1, <1>4, <1>6
<1>8. ASSUME NEW i \in candidates, m.start # None => i \in near PROVE Suits(m, games[i])
  BY <1>2, <1>8 DEF Suits, pair
<1>9. CASE m.start = None /\ candidates # {} /\ one = Matched(games[Min(candidates)])
  <2>1. Min(candidates) \in candidates
    BY <1>3, <1>9, MinIsLeast
  <2>2. one.game = games[Min(candidates)]
    BY <1>5, <1>9
  <2>3. QED
    BY <1>2, <1>8, <1>9, <2>1, <2>2 DEF one
<1>10. CASE m.start # None /\ near # {} /\ one = Matched(Nearest(games, near, m.start))
  <2>1. near \in SUBSET DOMAIN games /\ m.start \in Int
    BY <1>2, <1>10
  <2>2. PICK i \in near : Nearest(games, near, m.start) = games[i]
    BY <1>10, <2>1, NearestIsThere
  <2>3. one.game = games[i]
    BY <1>5, <1>10, <2>2
  <2>4. QED
    BY <1>2, <1>8, <2>1, <2>2, <2>3 DEF one
<1>11. QED
  BY <1>7, <1>9, <1>10

\* If it suits the market and every other game of these teams is further off, it is the
\* one that is picked, if any is.
LEMMA OwnIsPicked ==
  ASSUME NEW m, m.start \in Int \cup {None}, NEW games, Playable(games),
         NEW i \in DOMAIN games, Suits(m, games[i]),
         \A j \in DOMAIN games \ {i} :
            SamePairing(games[j], games[i]) /\ m.start # None =>
            Abs(games[i].commence - m.start) < Abs(games[j].commence - m.start),
         MatchOne(m, games, MatchWindow).game # None
  PROVE  MatchOne(m, games, MatchWindow).game = games[i]
<1> DEFINE pair == MarketPair(m)
           candidates == GamesOf(games, m.league, pair)
           near == {j \in candidates : WithinLeagueWindow(m.league, m.start, games[j].commence, MatchWindow)}
           one == MatchOne(m, games, MatchWindow)
           Gap(j) == Abs(games[j].commence - m.start)
<1>1. pair # None /\ i \in candidates /\ candidates \in SUBSET DOMAIN games
      /\ near \in SUBSET candidates /\ (m.start # None => i \in near)
  BY DEF Suits, GamesOf
<1>2. one = IF m.start = None
            THEN IF Cardinality(candidates) = 1 THEN Matched(games[Min(candidates)])
                                                ELSE Unmatched("no start time")
            ELSE Matched(Nearest(games, near, m.start))
  BY <1>1 DEF MatchOne
<1>3. one.game # None
  OBVIOUS
<1>4. (\A why : Unmatched(why).game = None) /\ \A g : Matched(g).game = g
  BY DEF Unmatched, Matched
<1>5. \A j \in candidates : SamePairing(games[j], games[i])
  BY <1>1 DEF GamesOf, SamePairing
<1>6. \A j \in DOMAIN games : games[j].commence \in Int /\ (m.start # None => Gap(j) \in Int)
  BY DEF Playable, PostedGame, Abs
<1>7. \A j \in DOMAIN games \ {i} : SamePairing(games[j], games[i]) /\ m.start # None => Gap(i) < Gap(j)
  OBVIOUS
<1>8. \E n \in Nat : DOMAIN games \in SUBSET (1..n)
  BY DEF Playable
<1> HIDE DEF one, near, candidates, pair
<1>9. CASE m.start = None
  <2>1. Cardinality(candidates) = 1 /\ one = Matched(games[Min(candidates)])
    BY <1>2, <1>3, <1>4, <1>9
  <2>2. candidates = {i}
    <3>1. IsFiniteSet(candidates)
      <4>1. PICK n \in Nat : DOMAIN games \in SUBSET (1..n)
        BY <1>8
      <4>2. QED
        BY <1>1, <4>1, FS_Interval, FS_Subset
    <3>2. \E x : candidates = {x}
      BY <2>1, <3>1, FS_Singleton
    <3>3. QED
      BY <1>1, <3>2
  <2>3. i \in Nat /\ {i} \in SUBSET Nat /\ {i} # {}
    BY <1>8
  <2>4. Min({i}) = i
    BY <2>3, MinIsLeast
  <2>5. QED
    BY <1>4, <2>1, <2>2, <2>4 DEF one
<1>10. CASE m.start # None
  <2>1. near \in SUBSET DOMAIN games /\ near # {} /\ i \in near /\ m.start \in Int
    BY <1>1, <1>10
  <2>2. PICK k \in near : /\ Nearest(games, near, m.start) = games[k]
                          /\ \A j \in near : Abs(games[k].commence - m.start) <= Abs(games[j].commence - m.start)
    BY <2>1, NearestIsThere
  <2>3. Gap(k) <= Gap(i)
    BY <2>1, <2>2
  <2> HIDE DEF Gap
  <2>4. k = i
    BY <1>1, <1>5, <1>6, <1>7, <1>10, <2>1, <2>3
  <2>5. QED
    BY <1>2, <1>4, <1>10, <2>2, <2>4 DEF one
<1>11. QED
  BY <1>9, <1>10

\* A fetched game is a posted one, but for the books whose prices it has.
LEMMA FetchedGames ==
  ASSUME NEW out, FetchBooks(out) # None, NEW i \in DOMAIN FetchBooks(out)
  PROVE  LET g == FetchBooks(out)[i]
         IN  /\ i \in DOMAIN BookGames /\ g.id = BookGames[i].id /\ g.commence = BookGames[i].commence
             /\ g.league = BookGames[i].league /\ g.home = BookGames[i].home /\ g.away = BookGames[i].away
             /\ g.id \in BookIds /\ BookOf(g.id) = BookGames[i]
<1>1. /\ DOMAIN PostedGames \subseteq DOMAIN BookGames
      /\ \A j \in DOMAIN PostedGames : PostedGames[j] = BookGames[j]
  BY DEF PostedGames
<1>2. \A j \in DOMAIN BookGames : BookGames[j] \in PostedGame
  <2> HIDE DEF PostedGame
  <2>1. QED
    BY SlateAssumption
<1>3. DOMAIN EspnGames = DOMAIN PostedGames
      /\ \A j \in DOMAIN PostedGames :
            EspnGames[j] = [PostedGames[j] EXCEPT !.books = IF @ = <<>> THEN @ ELSE <<Head(@)>>]
  BY DEF EspnGames
<1>4. ASSUME NEW g \in PostedGame, NEW h, h = [g EXCEPT !.books = IF @ = <<>> THEN @ ELSE <<Head(@)>>]
      PROVE  /\ h.id = g.id /\ h.commence = g.commence
             /\ h.league = g.league /\ h.home = g.home /\ h.away = g.away
  BY <1>4 DEF PostedGame
<1>5. FetchBooks(out) = PostedGames \/ FetchBooks(out) = EspnGames
  BY DEF FetchBooks
<1> DEFINE g == FetchBooks(out)[i]
<1>6. /\ i \in DOMAIN BookGames /\ g.id = BookGames[i].id /\ g.commence = BookGames[i].commence
      /\ g.league = BookGames[i].league /\ g.home = BookGames[i].home /\ g.away = BookGames[i].away
  <2>1. CASE FetchBooks(out) = PostedGames
    BY <1>1, <2>1
  <2>2. CASE FetchBooks(out) = EspnGames
    <3>1. i \in DOMAIN PostedGames /\ i \in DOMAIN BookGames /\ PostedGames[i] = BookGames[i]
      BY <1>1, <1>3, <2>2
    <3>2. PostedGames[i] \in PostedGame
      BY <1>2, <3>1
    <3>3. g = [PostedGames[i] EXCEPT !.books = IF @ = <<>> THEN @ ELSE <<Head(@)>>]
      BY <1>3, <2>2, <3>1
    <3>4. QED
      BY <1>4, <3>1, <3>2, <3>3
  <2>3. QED
    BY <1>5, <2>1, <2>2
<1> HIDE DEF g
<1>7. g.id \in BookIds /\ BookOf(g.id) = BookGames[i]
  BY <1>6, PostedBook
<1>8. QED
  BY <1>6, <1>7 DEF g

LEMMA EventsOwn ==
  ASSUME OwnGamesNearest, NEW e \in Events
  PROVE  /\ OwnGame[e] \in BookIds /\ OwnOf(e) \in PostedGame /\ OwnOf(e).id = OwnGame[e]
         /\ OwnOf(e) \in Range(BookGames) /\ OwnOf(e).commence \in Int
         /\ TimesOf(e) \subseteq Int /\ RivalTimes(e) \subseteq Int
<1>1. PICK m \in Range(Listing) : m.event = e
  BY DEF Events
<1>2. OwnGame[e] \in BookIds
  BY <1>1 DEF OwnGamesNearest
<1>3. OwnOf(e) \in PostedGame /\ OwnOf(e).id = OwnGame[e]
  BY <1>2, BookOfType DEF OwnOf
<1>4. OwnOf(e) \in Range(BookGames)
  BY <1>2 DEF OwnOf, BookOf, BookIds
<1>5. \A f : TimesOf(f) \subseteq Int
  BY ListingType DEF TimesOf
<1>6. \A g \in Range(BookGames) : g.commence \in Int
  <2>1. ASSUME NEW g \in Range(BookGames) PROVE g \in PostedGame
    <3> HIDE DEF PostedGame
    <3>1. QED
      BY SlateAssumption DEF Range
  <2>2. QED
    BY <2>1 DEF PostedGame
<1>7. QED
  BY <1>2, <1>3, <1>4, <1>5, <1>6 DEF RivalTimes

\* Game days are kept apart: what a market may be compared with is of its event's day.
LEMMA SameDay ==
  ASSUME OwnGamesNearest, NEW e \in Events, NEW t \in TimesOf(e), NEW u,
         \/ u \in TimesOf(e) \cup {OwnOf(e).commence}
         \/ u \in RivalTimes(e) /\ WithinLeagueWindow(OwnOf(e).league, t, u, MatchWindow)
  PROVE  GameDay(u) = GameDay(t)
<1> DEFINE league == OwnOf(e).league
           gap == Abs(u - t)
<1>1. CASE u \in TimesOf(e) \cup {OwnOf(e).commence}
  BY <1>1 DEF OwnGamesNearest
<1>2. CASE u \in RivalTimes(e) /\ WithinLeagueWindow(league, t, u, MatchWindow)
  <2>1. SUFFICES ASSUME GameDay(u) # GameDay(t) PROVE FALSE
    OBVIOUS
  <2>2. TooFar(league, t, u)
    BY <1>2, <2>1 DEF OwnGamesNearest
  <2>3. gap \in Int
    BY <1>2, EventsOwn DEF Abs
  <2>4. gap <= MatchWindow /\ (league \in DOMAIN SeriesWindow => gap <= SeriesWindow[league])
    BY <1>2, <2>1 DEF WithinLeagueWindow
  <2>5. \/ gap > MatchWindow
        \/ league \in DOMAIN SeriesWindow /\ gap > SeriesWindow[league]
    BY <2>2 DEF TooFar
  <2>6. MatchWindow \in Int /\ (league \in DOMAIN SeriesWindow => SeriesWindow[league] \in Int)
    BY SlateAssumption DEF Range
  <2> HIDE DEF gap, league
  <2>7. QED
    BY <2>3, <2>4, <2>5, <2>6
<1>3. QED
  BY <1>1, <1>2

\* A game of a market's event's teams, posted or with the kickoff of one of their rows,
\* is its own or a rival.
LEMMA OwnSuits ==
  ASSUME OwnGamesNearest, NEW m \in Range(Listing)
  PROVE  /\ m.event \in Events /\ (m.start # None => m.start \in TimesOf(m.event))
         /\ OwnOf(m.event).league = m.league
         /\ \A g : Suits(m, g) => SamePairing(g, OwnOf(m.event))
         /\ \A g, t : /\ SamePairing(g, OwnOf(m.event)) /\ MarketPair(m) # None
                      /\ g.commence \in TimesOf(m.event) \cup {OwnOf(m.event).commence}
                      => Suits(m, g)
<1> DEFINE own == OwnOf(m.event)
<1>1. m.event \in Events /\ (m.start # None => m.start \in TimesOf(m.event))
  BY DEF Events, TimesOf
<1>2. own.league = m.league /\ MarketPair(m) \in {None, {own.home, own.away}}
  BY DEF OwnGamesNearest
<1>3. \A g : Suits(m, g) => SamePairing(g, own)
  BY <1>2 DEF Suits, SamePairing
<1>4. ASSUME NEW g, SamePairing(g, own), MarketPair(m) # None, m.start # None,
             g.commence \in TimesOf(m.event) \cup {own.commence}
      PROVE  WithinLeagueWindow(m.league, m.start, g.commence, MatchWindow)
  <2>1. /\ GameDay(g.commence) = GameDay(m.start)
        /\ Abs(g.commence - m.start) <= MatchWindow
    BY <1>1, <1>4 DEF OwnGamesNearest
  <2>2. QED
    BY <2>1 DEF WithinLeagueWindow
<1>5. \A g : /\ SamePairing(g, own) /\ MarketPair(m) # None
             /\ g.commence \in TimesOf(m.event) \cup {own.commence}
             => Suits(m, g)
  BY <1>2, <1>4 DEF Suits, SamePairing
<1>6. QED
  BY <1>1, <1>2, <1>3, <1>5

\* What NeighbourOnlyWithoutOwn says of one market.
PricedFrom(id, commence, from) ==
    LET m == MarketOf(id)
        by == MarketOf(from.by)
        lent == BookOf(from.of)
    IN  /\ from.stray => ~from.had
        /\ m.start # None => WithinLeagueWindow(m.league, m.start, commence, MatchWindow)
        /\ by.start # None => WithinLeagueWindow(by.league, by.start, lent.commence, MatchWindow)
        /\ from.of # OwnGame[m.event] /\ m.start # None /\ by.start # None =>
           GameDay(lent.commence) = GameDay(OwnOf(m.event).commence)

\* From what was fetched just now.
LEMMA FreshSource ==
  ASSUME OwnGamesNearest, NEW out, FetchBooks(out) # None, NEW m \in Range(Listing), NEW store,
         MatchOne(m, FetchBooks(out), MatchWindow).game # None
  PROVE  LET game == MatchOne(m, FetchBooks(out), MatchWindow).game
         IN  PricedFrom(m.id, game.commence, Source(m.id, store, FetchBooks(out), FetchBooks(out), game))
<1> DEFINE games == FetchBooks(out)
           game == MatchOne(m, games, MatchWindow).game
           own == OwnOf(m.event)
           from == Source(m.id, store, games, games, game)
<1>1. Playable(games) /\ m.start \in Int \cup {None} /\ MarketOf(m.id) = m
  BY FetchedPlayable, ListingType
<1>2. PICK i \in DOMAIN games : game = games[i] /\ Suits(m, games[i])
  BY <1>1, MatchSuits
<1>3. /\ m.event \in Events /\ (m.start # None => m.start \in TimesOf(m.event))
      /\ own.league = m.league /\ SamePairing(game, own) /\ MarketPair(m) # None
  BY <1>2, OwnSuits DEF Suits
<1>4. /\ OwnGame[m.event] \in BookIds /\ own \in PostedGame /\ own.id = OwnGame[m.event]
      /\ own.commence \in Int
  BY <1>3, EventsOwn
<1>5. /\ from.of = game.id /\ from.by = m.id /\ from.stray = (game.id # OwnGame[m.event])
      /\ from.had = \E g \in Range(games) : g.id = OwnGame[m.event]
  BY <1>1 DEF Source
<1>6. \A j \in DOMAIN games : /\ j \in DOMAIN BookGames /\ BookOf(games[j].id) = BookGames[j]
                              /\ games[j].commence = BookGames[j].commence
                              /\ SamePairing(games[j], BookGames[j])
                              /\ BookGames[j] \in Range(BookGames)
  BY FetchedGames, PostedBook DEF SamePairing
<1>7. ASSUME NEW j \in DOMAIN games, SamePairing(games[j], own)
      PROVE  games[j].id = OwnGame[m.event] \/ games[j].commence \in RivalTimes(m.event)
  <2>1. BookGames[j] # own => games[j].commence \in RivalTimes(m.event)
    <3>1. SamePairing(BookGames[j], own)
      BY <1>6, <1>7 DEF SamePairing
    <3>2. QED
      BY <1>6, <3>1 DEF RivalTimes
  <2>2. BookGames[j] = own => games[j].id = OwnGame[m.event]
    BY <1>4, FetchedGames
  <2>3. QED
    BY <2>1, <2>2
<1>8. from.stray => ~from.had
  <2>1. SUFFICES ASSUME NEW g \in Range(games), g.id = OwnGame[m.event] PROVE game.id = OwnGame[m.event]
    BY <1>5
  <2>2. PICK k \in DOMAIN games : g = games[k]
    BY DEF Range
  <2>3. BookGames[k] = own /\ games[k].commence = own.commence /\ SamePairing(games[k], own)
    BY <1>6, <2>1, <2>2 DEF OwnOf
  <2>4. Suits(m, games[k])
    BY <1>3, <2>3, OwnSuits
  <2>5. ASSUME NEW j \in DOMAIN games \ {k}, SamePairing(games[j], games[k]), m.start # None
        PROVE  Abs(games[k].commence - m.start) < Abs(games[j].commence - m.start)
    <3>1. SamePairing(games[j], own)
      BY <2>3, <2>5 DEF SamePairing
    <3>2. games[j].id # OwnGame[m.event]
      <4>1. games[j].id = BookGames[j].id /\ BookGames[k].id = OwnGame[m.event]
        BY <1>4, <2>3, FetchedGames
      <4>2. QED
        BY <1>6, <2>5, <4>1, SlateAssumption
    <3>3. games[j].commence \in RivalTimes(m.event)
      BY <1>7, <3>1, <3>2
    <3>4. QED
      BY <1>3, <2>3, <2>5, <3>3 DEF OwnGamesNearest
  <2>6. game = games[k]
    BY <1>1, <2>4, <2>5, OwnIsPicked
  <2>7. QED
    BY <2>1, <2>2, <2>6
<1>9. m.start # None => WithinLeagueWindow(m.league, m.start, game.commence, MatchWindow)
  BY <1>2 DEF Suits
<1>10. BookOf(game.id).commence = game.commence
  BY <1>2, <1>6
<1>11. ASSUME game.id # OwnGame[m.event], m.start # None
       PROVE  GameDay(game.commence) = GameDay(own.commence)
  <2>1. game.commence \in RivalTimes(m.event)
    BY <1>2, <1>3, <1>7, <1>11
  <2>2. GameDay(game.commence) = GameDay(m.start)
    BY <1>3, <1>9, <1>11, <2>1, SameDay
  <2>3. GameDay(own.commence) = GameDay(m.start)
    BY <1>3, <1>11, SameDay
  <2>4. QED
    BY <2>2, <2>3
<1> HIDE DEF from, game, own
<1>12. PricedFrom(m.id, game.commence, from)
  BY <1>1, <1>5, <1>8, <1>9, <1>10, <1>11 DEF PricedFrom, own
<1>13. QED
  BY <1>12 DEF from, game

\* Each stored line is of a game that suited the market it was fetched for, which is
\* filed under the line's row.
LinesFiled(rows) ==
    \A l \in lines :
        /\ l.row \in DOMAIN rows /\ l.by \in MarketIds
        /\ MarketOf(l.by).event = rows[l.row].event /\ Suits(MarketOf(l.by), BookOf(l.of))

\* From what is stored.
LEMMA StoredSource ==
  ASSUME OwnGamesNearest, NEW store \in Store, Placed(store), LinesOK, LinesFiled(store.rows),
         NEW m \in Range(Listing), m.id \in DOMAIN store.filed,
         MatchOne(m, StoredBooks(store), MatchWindow).game # None
  PROVE  LET games == StoredBooks(store)
             game == MatchOne(m, games, MatchWindow).game
         IN  PricedFrom(m.id, game.commence, Source(m.id, store, None, games, game))
<1> DEFINE rows == store.rows
           games == StoredBooks(store)
           game == MatchOne(m, games, MatchWindow).game
           own == OwnOf(m.event)
           from == Source(m.id, store, None, games, game)
           Fit(x) == /\ x.row \in DOMAIN games
                     /\ x.of = game.id /\ FreshEnough(x) /\ rows[x.row].start = game.commence
           l == CHOOSE x \in lines : Fit(x)
           time(i) == rows[i].start
<1>1. rows \in Seq(GameRow) /\ \A i \in DOMAIN rows : rows[i] \in GameRow
  BY StoreRows
<1>2. /\ Playable(games) /\ m.start \in Int \cup {None} /\ MarketOf(m.id) = m
      /\ \A i \in DOMAIN games : \E x \in lines :
            /\ x.row = i /\ FreshEnough(x) /\ games[i].id = x.of /\ games[i].commence = time(i)
            /\ SamePairing(games[i], BookOf(x.of))
      /\ \A i \in DOMAIN games : i \in DOMAIN rows /\ time(i) # None
  BY <1>1, StoredPlayable, ListingType
<1>3. PICK i \in DOMAIN games : game = games[i] /\ Suits(m, games[i])
  BY <1>2, MatchSuits
<1>4. /\ m.event \in Events /\ (m.start # None => m.start \in TimesOf(m.event))
      /\ own.league = m.league /\ SamePairing(game, own) /\ MarketPair(m) # None
  BY <1>3, OwnSuits DEF Suits
\* A row's kickoff is its event's, and the lines stored for it are of its teams.
<1>5. ASSUME NEW j \in DOMAIN rows, time(j) # None
      PROVE  rows[j].event \in Events /\ time(j) \in TimesOf(rows[j].event)
  <2>1. \E k \in Range(Listing) : k.event = rows[j].event /\ k.start = time(j)
    BY <1>5 DEF Placed
  <2>2. QED
    BY <1>5, <2>1 DEF TimesOf, Events
<1>6. ASSUME NEW x \in lines
      PROVE  /\ x.row \in DOMAIN rows /\ MarketOf(x.by) \in Range(Listing)
             /\ MarketOf(x.by).event = rows[x.row].event /\ Suits(MarketOf(x.by), BookOf(x.of))
             /\ SamePairing(BookOf(x.of), OwnOf(rows[x.row].event))
             /\ BookOf(x.of) \in Range(BookGames) /\ BookOf(x.of).id = x.of
  <2>1. /\ x.row \in DOMAIN rows /\ x.by \in MarketIds
        /\ MarketOf(x.by).event = rows[x.row].event /\ Suits(MarketOf(x.by), BookOf(x.of))
    BY DEF LinesFiled
  <2>2. MarketOf(x.by) \in Range(Listing)
    BY <2>1, ListingType DEF MarketIds
  <2>3. SamePairing(BookOf(x.of), OwnOf(rows[x.row].event))
    BY <2>1, <2>2, OwnSuits
  <2>4. BookOf(x.of) \in Range(BookGames) /\ BookOf(x.of).id = x.of
    BY DEF LinesOK, BookIds, BookOf
  <2>5. QED
    BY <2>1, <2>2, <2>3, <2>4
\* Two rows of this pairing with one kickoff are one row.
<1>7. ASSUME NEW j \in DOMAIN rows, NEW k \in DOMAIN rows, j # k, time(j) # None, time(k) # None,
             SamePairing(OwnOf(rows[j].event), own), SamePairing(OwnOf(rows[k].event), own)
      PROVE  time(k) \in RivalTimes(rows[j].event)
  <2>1. rows[k].event \in Events \ {rows[j].event} /\ time(k) \in TimesOf(rows[k].event)
    BY <1>5, <1>7 DEF Placed
  <2>2. SamePairing(OwnOf(rows[k].event), OwnOf(rows[j].event))
    BY <1>7 DEF SamePairing
  <2>3. QED
    BY <2>1, <2>2 DEF RivalTimes
<1>8. ASSUME NEW j \in DOMAIN rows, NEW k \in DOMAIN rows, time(j) # None, time(k) = time(j),
             SamePairing(OwnOf(rows[j].event), own), SamePairing(OwnOf(rows[k].event), own)
      PROVE  j = k
  <2>1. SUFFICES ASSUME j # k PROVE FALSE
    OBVIOUS
  <2>2. rows[j].event \in Events /\ time(j) \in TimesOf(rows[j].event)
        /\ time(j) \in RivalTimes(rows[j].event)
    BY <1>5, <1>7, <1>8, <2>1
  <2>3. Abs(time(j) - time(j)) < Abs(time(j) - time(j))
    BY <2>2 DEF OwnGamesNearest
  <2>4. time(j) \in Int
    BY <2>2, EventsOwn
  <2>5. QED
    BY <2>3, <2>4 DEF Abs
<1> HIDE DEF games, time
\* The line a market is priced from is that of the row it was matched with.
<1>9. l \in lines /\ Fit(l) /\ l.row = i
  <2>1. PICK x \in lines : /\ x.row = i /\ FreshEnough(x) /\ games[i].id = x.of
                           /\ games[i].commence = time(i) /\ SamePairing(games[i], BookOf(x.of))
    BY <1>2
  <2>2. Fit(x)
    BY <1>3, <2>1 DEF time
  <2> HIDE DEF Fit
  <2>3. l \in lines /\ Fit(l)
    BY <2>2
  <2> HIDE DEF l
  <2>4. l.of = x.of /\ time(l.row) = time(i)
    BY <1>3, <2>1, <2>3 DEF Fit, time
  <2>5. SamePairing(BookOf(x.of), own)
    BY <1>3, <1>4, <2>1 DEF SamePairing
  <2>6. SamePairing(OwnOf(rows[l.row].event), own) /\ SamePairing(OwnOf(rows[i].event), own)
        /\ l.row \in DOMAIN rows
    BY <1>6, <2>1, <2>3, <2>4, <2>5 DEF SamePairing
  <2>7. l.row = i
    BY <1>2, <1>8, <2>4, <2>6
  <2>8. QED
    BY <2>3, <2>7
<1>10. /\ from.of = l.of /\ from.by = l.by /\ from.stray = (l.row # store.filed[m.id])
       /\ from.had = (store.filed[m.id] \in DOMAIN games)
  BY DEF Source
<1> HIDE DEF Fit, l
<1>11. /\ SamePairing(BookOf(l.of), own) /\ SamePairing(OwnOf(rows[i].event), own)
       /\ time(i) = game.commence /\ i \in DOMAIN rows /\ time(i) # None
  <2>1. l.of = games[i].id /\ time(i) = game.commence
    BY <1>3, <1>9 DEF Fit, time
  <2>2. PICK x \in lines : x.row = i /\ games[i].id = x.of /\ SamePairing(games[i], BookOf(x.of))
    BY <1>2
  <2>3. SamePairing(BookOf(l.of), own)
    BY <1>3, <1>4, <2>1, <2>2 DEF SamePairing
  <2>4. QED
    BY <1>2, <1>6, <1>9, <2>1, <2>3 DEF SamePairing
<1>12. from.stray => ~from.had
  <2> DEFINE k == store.filed[m.id]
  <2>1. SUFFICES ASSUME k \in DOMAIN games PROVE i = k
    BY <1>9, <1>10
  <2>2. rows[k].event = m.event /\ k \in DOMAIN rows /\ time(k) # None
    BY <1>2, <2>1 DEF Placed
  <2> HIDE DEF k
  <2>3. PICK x \in lines : /\ x.row = k /\ games[k].id = x.of /\ games[k].commence = time(k)
                           /\ SamePairing(games[k], BookOf(x.of))
    BY <1>2, <2>1
  <2>4. SamePairing(games[k], own) /\ SamePairing(BookOf(x.of), own)
    BY <1>6, <2>2, <2>3 DEF SamePairing
  <2>5. time(k) \in TimesOf(m.event)
    BY <1>5, <2>2
  <2>6. Suits(m, games[k])
    BY <1>4, <2>3, <2>4, <2>5, OwnSuits
  <2>7. ASSUME NEW j \in DOMAIN games \ {k}, SamePairing(games[j], games[k]), m.start # None
        PROVE  Abs(games[k].commence - m.start) < Abs(games[j].commence - m.start)
    <3>1. PICK y \in lines : /\ y.row = j /\ games[j].commence = time(j)
                             /\ SamePairing(games[j], BookOf(y.of))
      BY <1>2
    <3>2. SamePairing(OwnOf(rows[j].event), own)
      BY <1>6, <2>4, <2>7, <3>1 DEF SamePairing
    <3>3. SamePairing(OwnOf(rows[k].event), own)
      BY <2>2 DEF SamePairing
    <3>4. time(j) \in RivalTimes(m.event)
      BY <1>2, <1>7, <2>2, <2>7, <3>2, <3>3
    <3>5. QED
      BY <1>4, <2>3, <2>5, <2>7, <3>1, <3>4 DEF OwnGamesNearest
  <2>8. game = games[k]
    <3>1. MatchOne(m, games, MatchWindow).game # None
      BY DEF games
    <3>2. QED
      BY <1>2, <2>1, <2>6, <2>7, <3>1, OwnIsPicked
  <2>9. time(i) = time(k) /\ SamePairing(OwnOf(rows[k].event), own)
    BY <1>11, <2>2, <2>3, <2>8 DEF SamePairing
  <2>10. QED
    BY <1>8, <1>11, <2>2, <2>9
<1>13. /\ m.start # None => WithinLeagueWindow(m.league, m.start, game.commence, MatchWindow)
       /\ MarketOf(l.by).start # None =>
             WithinLeagueWindow(MarketOf(l.by).league, MarketOf(l.by).start, BookOf(l.of).commence,
                                MatchWindow)
  BY <1>3, <1>6, <1>9 DEF Suits
<1>14. ASSUME m.start # None, MarketOf(l.by).start # None
       PROVE  GameDay(BookOf(l.of).commence) = GameDay(own.commence)
  <2> DEFINE by == MarketOf(l.by)
             f == rows[i].event
  <2>1. by \in Range(Listing) /\ by.event = f /\ Suits(by, BookOf(l.of))
        /\ BookOf(l.of) \in Range(BookGames)
    BY <1>6, <1>9
  <2>2. f \in Events /\ time(i) \in TimesOf(f) /\ by.start \in TimesOf(f) /\ OwnOf(f).league = by.league
    BY <1>5, <1>11, <1>14, <2>1, OwnSuits
  <2>3. SamePairing(BookOf(l.of), OwnOf(f)) /\ SamePairing(OwnOf(f), own)
    BY <1>11 DEF SamePairing
  <2> HIDE DEF by, f
  <2>4. GameDay(BookOf(l.of).commence) = GameDay(by.start)
    <3>1. CASE BookOf(l.of) = OwnOf(f)
      BY <2>2, <3>1, SameDay
    <3>2. CASE BookOf(l.of) # OwnOf(f)
      <4>1. BookOf(l.of).commence \in RivalTimes(f)
        BY <2>1, <2>3, <3>2 DEF RivalTimes
      <4>2. WithinLeagueWindow(by.league, by.start, BookOf(l.of).commence, MatchWindow)
        BY <1>13, <1>14 DEF by
      <4>3. QED
        BY <2>2, <4>1, <4>2, SameDay
    <3>3. QED
      BY <3>1, <3>2
  <2>5. GameDay(time(i)) = GameDay(by.start)
    BY <2>2, SameDay
  <2>6. GameDay(time(i)) = GameDay(m.start)
    <3>1. CASE f = m.event
      BY <1>4, <1>14, <2>2, <3>1, SameDay
    <3>2. CASE f # m.event
      <4>1. time(i) \in RivalTimes(m.event)
        BY <1>4, <2>2, <2>3, <3>2 DEF RivalTimes
      <4>2. WithinLeagueWindow(m.league, m.start, time(i), MatchWindow)
        BY <1>11, <1>13, <1>14
      <4>3. QED
        BY <1>4, <1>14, <4>1, <4>2, SameDay
    <3>3. QED
      BY <3>1, <3>2
  <2>7. GameDay(own.commence) = GameDay(m.start)
    BY <1>4, <1>14, SameDay
  <2>8. QED
    BY <2>4, <2>5, <2>6, <2>7
<1> HIDE DEF from, game, own
<1>15. PricedFrom(m.id, game.commence, from)
  BY <1>2, <1>10, <1>12, <1>13, <1>14 DEF PricedFrom, own
<1>16. QED
  BY <1>15 DEF from, game, games, rows

\* A scan files what it stores, and prices from it.
LEMMA NeighbourPricedStep ==
  ASSUME EventsApart, OwnGamesNearest, SlateInv, RowsInv, LinesFiled(gameRows), NEW out, SlatePrice(out)
  PROVE  LinesFiled(gameRows)' /\ NeighbourOnlyWithoutOwn'
<1> DEFINE fresh == FetchBooks(out)
           store == Upserted
           games == IF fresh = None THEN StoredBooks(store) ELSE fresh
           matched == MatchGames(Tradable, games, MatchWindow)
           kept == NotUnderWay(matched)
           priced == {f \in FairsOf(matched, kept) : HasFair(f.both[1]) \/ HasFair(f.both[2])}
           stored == StoredLines(matched, kept, store.filed)
<1>1. /\ lines' = IF fresh = None THEN lines
                  ELSE {l \in lines : \A n \in stored : n.row # l.row} \cup stored
      /\ report'.priced =
            {[id |-> f.id, fairs |-> f.both, commence |-> matched[f.id].commence,
              from |-> Source(f.id, store, fresh, games, matched[f.id])] : f \in priced}
      /\ gameRows' = store.rows
  BY DEF SlatePrice, PriceWith, PriceKept, PriceMatched
<1>2. slateNow \in Int /\ gameRows \in Seq(GameRow) /\ filed \in FiledMaps /\ LinesOK
  BY SlateAssumption DEF SlateInv, SlateTypes
<1>3. store \in Store
  BY <1>2, UpsertedUnfolds, ListingType DEF Upserted
<1>4. /\ Placed(store) /\ StillThere(gameRows, store.rows)
      /\ \A m \in ListedMarkets : m.id \in DOMAIN store.filed
  BY <1>2, UpsertedFiled DEF RowsInv
<1>5. store.rows \in Seq(GameRow)
  BY <1>3, StoreRows
<1>6. LinesFiled(store.rows)
  BY <1>4 DEF LinesFiled, StillThere
<1> HIDE DEF fresh, store
<1>7. Playable(games)
  BY <1>2, <1>5, FetchedPlayable, StoredPlayable DEF fresh
<1>8. (fresh = None => games = StoredBooks(store)) /\ (fresh # None => games = fresh)
  OBVIOUS
<1> HIDE DEF games
<1>9. ASSUME NEW id \in kept
      PROVE  \E m \in Range(Listing) :
                /\ m \in ListedMarkets
                /\ m.id = id /\ MarketOf(id) = m /\ m.start \in Int \cup {None}
                /\ matched[id] = MatchOne(m, games, MatchWindow).game /\ matched[id] # None
  <2>1. id \in DOMAIN matched
    BY DEF NotUnderWay
  <2>2. PICK m \in Tradable : m.id = id /\ matched[id] = MatchOne(m, games, MatchWindow).game
    BY <1>2, <1>7, <2>1, MatchesAre
  <2>3. matched[id] # None
    <3>1. matched[id] \in Range(games)
      BY <1>2, <1>7, <2>1, MatchesAre
    <3>2. matched[id] \in PostedGame
      BY <1>7, <3>1 DEF Playable, Range
    <3>3. QED
      BY <3>2, SlateAssumption
  <2>4. m \in Range(Listing) /\ m \in ListedMarkets /\ MarketOf(id) = m
    BY <1>2, <2>2, TradableMarkets
  <2>5. QED
    BY <2>2, <2>3, <2>4, ListingType
<1>10. \A l \in stored : /\ l.by \in kept /\ store.filed[l.by] = l.row /\ l.of = matched[l.by].id
  BY <1>2, <1>7, StoredLinesOK
<1>11. \A f \in priced : f.id \in kept
  BY DEF FairsOf
<1> HIDE DEF matched, kept, stored
<1>12. ASSUME NEW l \in stored, fresh # None
       PROVE  /\ l.row \in DOMAIN store.rows /\ l.by \in MarketIds
              /\ MarketOf(l.by).event = store.rows[l.row].event
              /\ Suits(MarketOf(l.by), BookOf(l.of))
  <2>1. PICK m \in Range(Listing) :
           /\ m \in ListedMarkets /\ m.id = l.by /\ MarketOf(l.by) = m /\ m.start \in Int \cup {None}
           /\ matched[l.by] = MatchOne(m, games, MatchWindow).game /\ matched[l.by] # None
    BY <1>9, <1>10
  <2>2. l.by \in MarketIds /\ l.row \in DOMAIN store.rows /\ m.event = store.rows[l.row].event
    BY <1>4, <1>10, <2>1, ListingType DEF Placed
  <2>3. PICK i \in DOMAIN games : matched[l.by] = games[i] /\ Suits(m, games[i])
    BY <1>7, <2>1, MatchSuits
  <2>4. /\ BookOf(games[i].id) = BookGames[i] /\ games[i].commence = BookGames[i].commence
        /\ games[i].league = BookGames[i].league /\ games[i].home = BookGames[i].home
        /\ games[i].away = BookGames[i].away
    BY <1>8, <1>12, FetchedGames DEF fresh
  <2>5. Suits(m, BookOf(l.of))
    BY <1>10, <2>3, <2>4 DEF Suits
  <2>6. QED
    BY <2>1, <2>2, <2>5
<1>13. LinesFiled(gameRows)'
  <2>1. ASSUME NEW l \in lines'
        PROVE  /\ l.row \in DOMAIN store.rows /\ l.by \in MarketIds
               /\ MarketOf(l.by).event = store.rows[l.row].event
               /\ Suits(MarketOf(l.by), BookOf(l.of))
    <3>1. l \in lines \/ (fresh # None /\ l \in stored)
      BY <1>1, <2>1
    <3>2. QED
      BY <1>6, <1>12, <3>1 DEF LinesFiled
  <2>2. QED
    BY <1>1, <2>1 DEF LinesFiled
<1>14. ASSUME NEW p \in report'.priced
       PROVE  PricedFrom(p.id, p.commence, p.from)
  <2>1. PICK f \in priced : /\ p.id = f.id /\ p.commence = matched[f.id].commence
                            /\ p.from = Source(f.id, store, fresh, games, matched[f.id])
    <3> HIDE DEF priced
    <3>1. QED
      BY <1>1
  <2>2. PICK m \in Range(Listing) :
           /\ m \in ListedMarkets /\ m.id = f.id /\ m.start \in Int \cup {None}
           /\ matched[f.id] = MatchOne(m, games, MatchWindow).game /\ matched[f.id] # None
    BY <1>9, <1>11
  <2>3. CASE fresh # None
    BY <1>8, <2>1, <2>2, <2>3, FreshSource DEF fresh
  <2>4. CASE fresh = None
    BY <1>2, <1>3, <1>4, <1>6, <1>8, <2>1, <2>2, <2>4, StoredSource
  <2>5. QED
    BY <2>3, <2>4
<1>15. NeighbourOnlyWithoutOwn'
  BY <1>14 DEF NeighbourOnlyWithoutOwn, PricedFrom, Foreign, OwnOf
<1>16. QED
  BY <1>13, <1>15

LEMMA NeighbourStep ==
  ASSUME EventsApart, OwnGamesNearest, SlateInv, RowsInv, LinesFiled(gameRows), NeighbourOnlyWithoutOwn,
         [SlateNext]_slateVars
  PROVE  LinesFiled(gameRows)' /\ NeighbourOnlyWithoutOwn'
<1>1. ASSUME \/ HourPasses
             \/ \E id \in MarketIds, flag \in BoardStates : VenueChanges(id, flag)
             \/ \E id \in BookIds : BooksChange(id)
             \/ UNCHANGED slateVars
      PROVE  LinesFiled(gameRows)' /\ NeighbourOnlyWithoutOwn'
  <2>1. UNCHANGED <<lines, gameRows, report>>
    BY <1>1 DEF HourPasses, VenueChanges, BooksChange, slateVars
  <2>2. QED
    BY <2>1 DEF LinesFiled, NeighbourOnlyWithoutOwn, Foreign
<1>2. ASSUME NEW k, NEW missing, SlateList(k, missing) PROVE LinesFiled(gameRows)' /\ NeighbourOnlyWithoutOwn'
  <2>1. UNCHANGED <<lines, gameRows>> /\ report' = NoReport
    BY <1>2 DEF SlateList
  <2>2. report'.priced = {}
    BY <2>1 DEF NoReport
  <2>3. QED
    BY <2>1, <2>2 DEF LinesFiled, NeighbourOnlyWithoutOwn
<1>3. QED
  BY <1>1, <1>2, NeighbourPricedStep DEF SlateNext

---------------------------------------------------------------------------
(* The theorems about the scan.                                            *)

\* Whatever opened, paused, closed, was posted or dropped while the scan ran, what
\* it prices was open when listed and had not started at the scan's clock, and
\* neither had the books' game, whose stored lines are fresh enough.
THEOREM PricesArePregame == SlateSpec => []PricedPregame
<1>1. SlateInv => PricedPregame
  BY DEF SlateInv
<1>2. QED
  BY <1>1, SlateInvariant, PTL

\* No market is lost: after a scan each is priced or has exactly one reason why not.
THEOREM MarketsAreAccounted == SlateSpec => []EveryMarketAccounted
<1>1. SlateInv => EveryMarketAccounted
  BY DEF SlateInv
<1>2. QED
  BY <1>1, SlateInvariant, PTL

\* Doubleheaders and series are told apart: two markets share a game row exactly if
\* they share an event, in whatever order a listing names them, when no two
\* events of the same teams have kickoffs within SAME_GAME_TOLERANCE.
THEOREM RowsAreEvents ==
  ASSUME EventsApart
  PROVE  SlateSpec => []OneRowPerEvent
<1>1. RowsInv => OneRowPerEvent
  BY DEF RowsInv, Placed, OneRowPerEvent
<1>2. QED
  BY <1>1, RowsInvariant, PTL

\* Under the same condition a row's status says whether a scan saw its event
\* closed and, if not, whether its kickoff had passed.
THEOREM StatusesAreTimely ==
  ASSUME EventsApart
  PROVE  SlateSpec => []StatusFollowsKickoff
<1>1. RowsInv => StatusFollowsKickoff
  BY DEF RowsInv, Timely, StatusFollowsKickoff
<1>2. QED
  BY <1>1, RowsInvariant, PTL

\* A market is priced from lines of another game, or stored for another game's row, only
\* when its own were not there (NeighbourOnlyWithoutOwn), and then from a game of the
\* same day if the markets involved state kickoffs, whatever opened, closed, was posted,
\* dropped or grew stale in between: for listings whose events are apart and whose
\* kickoffs are nearest to their own games.
THEOREM NeighboursStandIn ==
  ASSUME EventsApart, OwnGamesNearest
  PROVE  SlateSpec => []NeighbourOnlyWithoutOwn
<1> DEFINE Inv == LinesFiled(gameRows) /\ NeighbourOnlyWithoutOwn
<1>1. SlateInit => Inv
  BY DEF SlateInit, NoReport, LinesFiled, NeighbourOnlyWithoutOwn
<1>2. SlateInv /\ RowsInv /\ Inv /\ [SlateNext]_slateVars => Inv'
  BY NeighbourStep
<1>3. SlateSpec => []RowsInv
  BY RowsInvariant
<1>4. QED
  BY <1>1, <1>2, <1>3, SlateInvariant, PTL DEF SlateSpec

\* The two sides of a market are priced from the same books, and add up to one
\* within the rounding, whatever the books quote, post and drop, when no market's
\* outcomes read as the same team or side.
THEOREM SidesAddUp ==
  ASSUME SidesApart
  PROVE  SlateSpec => []FairsComplement
<1>1. SlateInit => FairsComplement
  BY DEF SlateInit, NoReport, FairsComplement
<1>2. ASSUME SlateInv, FairsComplement, [SlateNext]_slateVars PROVE FairsComplement'
  <2>1. ASSUME \/ HourPasses
               \/ \E id \in MarketIds, flag \in BoardStates : VenueChanges(id, flag)
               \/ \E id \in BookIds : BooksChange(id)
               \/ UNCHANGED slateVars
        PROVE  FairsComplement'
    <3>1. UNCHANGED report
      BY <2>1 DEF HourPasses, VenueChanges, BooksChange, slateVars
    <3>2. QED
      BY <1>2, <3>1 DEF FairsComplement
  <2>2. ASSUME NEW k, NEW missing, SlateList(k, missing) PROVE FairsComplement'
    BY <2>2 DEF SlateList, NoReport, FairsComplement
  <2>3. QED
    BY <1>2, <2>1, <2>2, FairsPricedStep DEF SlateNext
<1>3. QED
  BY <1>1, <1>2, SlateInvariant, PTL DEF SlateSpec

\* Nor does a scan ever suggest both sides of a market when their asks together, fee
\* included, leave less than twice the owner's minimum edge.
THEOREM PairsLeaveTheEdge ==
  ASSUME SidesApart
  PROVE  SlateSpec => []BothSidesLeaveTheEdge
<1>1. SlateInit => BothSidesLeaveTheEdge
  BY DEF SlateInit, NoReport, BothSidesLeaveTheEdge
<1>2. ASSUME SlateInv, BothSidesLeaveTheEdge, [SlateNext]_slateVars PROVE BothSidesLeaveTheEdge'
  <2>1. ASSUME \/ HourPasses
               \/ \E id \in MarketIds, flag \in BoardStates : VenueChanges(id, flag)
               \/ \E id \in BookIds : BooksChange(id)
               \/ UNCHANGED slateVars
        PROVE  BothSidesLeaveTheEdge'
    <3>1. UNCHANGED report
      BY <2>1 DEF HourPasses, VenueChanges, BooksChange, slateVars
    <3>2. QED
      BY <1>2, <3>1 DEF BothSidesLeaveTheEdge
  <2>2. ASSUME NEW k, NEW missing, SlateList(k, missing) PROVE BothSidesLeaveTheEdge'
    BY <2>2 DEF SlateList, NoReport, BothSidesLeaveTheEdge
  <2>3. QED
    BY <1>2, <2>1, <2>2, EdgesPricedStep DEF SlateNext
<1>3. QED
  BY <1>1, <1>2, SlateInvariant, PTL DEF SlateSpec

---------------------------------------------------------------------------
(* Ladders.                                                                *)

\* More levels hold more money.
LEMMA MoreLevels ==
  ASSUME NEW asks \in Seq(AskLevels), NEW rate \in Nat, NEW D \in SUBSET DOMAIN asks,
         NEW C \in SUBSET D
  PROVE  /\ CostOfLevels(asks, C, rate) \in Nat /\ CostOfLevels(asks, D, rate) \in Nat
         /\ CostOfLevels(asks, C, rate) <= CostOfLevels(asks, D, rate)
<1>1. Len(asks) \in Nat /\ DOMAIN asks = 1..Len(asks) /\ \A i \in DOMAIN asks : asks[i] \in AskLevels
  <2> HIDE DEF AskLevels
  <2>1. QED
    OBVIOUS
<1>2. ASSUME NEW i \in D PROVE LevelCost(asks[i], rate) \in Nat
  <2>1. asks[i].price \in 1..99 /\ asks[i].size \in Nat
    BY <1>1 DEF AskLevels
  <2>2. EffectivePrice(asks[i].price, rate) \in Nat
    BY <2>1, PricesCost
  <2>3. QED
    BY <2>1, <2>2 DEF LevelCost
<1> DEFINE f == [i \in C |-> LevelCost(asks[i], rate)]
           g == [i \in D |-> LevelCost(asks[i], rate)]
<1>3. /\ DOMAIN f = C /\ DOMAIN g = D /\ \A i \in C : f[i] = g[i]
      /\ \A i \in D : g[i] \in Nat
  BY <1>2
<1>4. CostOfLevels(asks, C, rate) = SumOf(f) /\ CostOfLevels(asks, D, rate) = SumOf(g)
  BY DEF CostOfLevels
<1> HIDE DEF f, g
<1>5. D \in SUBSET (1..Len(asks)) /\ Len(asks) \in Nat
  BY <1>1
<1>6. SumOf(f) \in Nat /\ SumOf(g) \in Nat /\ SumOf(f) <= SumOf(g)
  BY <1>3, <1>5, PartOfSum, Zenon
<1>7. QED
  BY <1>4, <1>6

LEMMA LevelsSell ==
  ASSUME NEW asks \in Seq(AskLevels), NEW D \in SUBSET DOMAIN asks
  PROVE  SharesOfLevels(asks, D) \in Nat
<1>1. Len(asks) \in Nat /\ DOMAIN asks = 1..Len(asks) /\ \A i \in DOMAIN asks : asks[i] \in AskLevels
  <2> HIDE DEF AskLevels
  <2>1. QED
    OBVIOUS
<1> DEFINE f == [i \in D |-> asks[i].size]
<1>2. DOMAIN f = D /\ \A i \in D : f[i] \in Nat
  BY <1>1 DEF AskLevels
<1>3. SharesOfLevels(asks, D) = 100 * SumOf(f)
  BY DEF SharesOfLevels
<1> HIDE DEF f
<1>4. D \in SUBSET (1..Len(asks)) /\ D \in SUBSET D /\ \A i \in D : f[i] = f[i]
  BY <1>1
<1>5. SumOf(f) \in Nat
  BY <1>1, <1>2, <1>4, PartOfSum, Zenon
<1>6. QED
  BY <1>3, <1>5

\* What a walk up the ladder spends, and what it leaves when the ladder runs out.
Walked(walk, usd, held, all) ==
    /\ held \in Nat /\ walk.full \in BOOLEAN /\ walk.shares \in Int
    /\ walk.full => usd <= held
    /\ ~walk.full => walk.spent = held /\ walk.shares = all
    /\ usd > held => walk.shares = all

LEMMA WalkSpends ==
  ASSUME NEW asks \in Seq(AskLevels), NEW rate \in Nat, NEW usd \in Nat
  PROVE  Walked(WalkAsks(asks, usd, rate), usd, CostOfLevels(asks, Sellable(asks), rate),
                SharesOfLevels(asks, Sellable(asks)))
<1> DEFINE Upto(i) == {j \in Sellable(asks) : asks[j].price <= asks[i].price}
           whole == {i \in Sellable(asks) : CostOfLevels(asks, Upto(i), rate) < usd}
           left == usd - CostOfLevels(asks, whole, rate)
           beyond == {asks[i].price : i \in Sellable(asks) \ whole}
           walk == WalkAsks(asks, usd, rate)
           held == CostOfLevels(asks, Sellable(asks), rate)
<1>1. walk = IF beyond = {}
             THEN [shares |-> SharesOfLevels(asks, whole), spent |-> CostOfLevels(asks, whole, rate),
                   full |-> usd = 0]
             ELSE [shares |-> SharesOfLevels(asks, whole)
                              + (left * 100) \div EffectivePrice(Min(beyond), rate),
                   spent |-> usd, full |-> TRUE]
  BY DEF WalkAsks
<1>2. Sellable(asks) \subseteq DOMAIN asks /\ \A i : Upto(i) \subseteq Sellable(asks)
  BY DEF Sellable
<1> HIDE DEF Upto
<1>3. held \in Nat /\ \A i : /\ CostOfLevels(asks, Upto(i), rate) \in Nat
                             /\ CostOfLevels(asks, Upto(i), rate) <= held
  BY <1>2, MoreLevels
<1>4. beyond = {} => whole = Sellable(asks)
  OBVIOUS
<1>5. usd > held => beyond = {}
  BY <1>3
<1>6. beyond # {} => usd <= held
  BY <1>3
<1>7. whole \subseteq DOMAIN asks /\ \A i \in Sellable(asks) \ whole : asks[i] \in AskLevels
  <2> HIDE DEF AskLevels
  <2>1. QED
    BY <1>2
<1>8. SharesOfLevels(asks, Sellable(asks)) \in Nat /\ SharesOfLevels(asks, whole) \in Nat
       /\ CostOfLevels(asks, whole, rate) \in Nat
  <2> HIDE DEF whole
  <2>1. QED
    BY <1>2, <1>7, LevelsSell, MoreLevels
<1>9. beyond # {} => EffectivePrice(Min(beyond), rate) \in Nat \ {0}
  <2>1. beyond \subseteq 1..99
    <3> HIDE DEF whole
    <3>1. QED
      BY <1>7 DEF AskLevels
  <2> HIDE DEF beyond
  <2>2. beyond # {} => Min(beyond) \in beyond
    BY <2>1, MinIsLeast
  <2>3. QED
    BY <2>1, <2>2, PricesCost
<1>10. left \in Int
  BY <1>8
<1> HIDE DEF walk, held, whole, beyond, left
<1>11. CASE beyond = {}
  <2>1. walk.shares = SharesOfLevels(asks, whole) /\ walk.full = (usd = 0)
        /\ walk.spent = CostOfLevels(asks, whole, rate)
    BY <1>1, <1>11
  <2>2. walk.spent = held
    BY <1>4, <1>11, <2>1 DEF held
  <2>3. walk.full \in BOOLEAN /\ (walk.full => usd = 0) /\ held \in Nat
    BY <1>3, <2>1
  <2>4. walk.shares = SharesOfLevels(asks, Sellable(asks))
    BY <1>4, <1>11, <2>1
  <2>5. Walked(walk, usd, held, SharesOfLevels(asks, Sellable(asks)))
    BY <1>8, <2>2, <2>3, <2>4 DEF Walked
  <2>6. QED
    BY <2>5 DEF walk, held
<1>12. CASE beyond # {}
  <2>1. walk.full = TRUE
    BY <1>1, <1>12
  <2>2. usd <= held /\ ~(usd > held)
    BY <1>3, <1>6, <1>12
  <2>3. walk.shares \in Int
    <3>1. walk.shares = SharesOfLevels(asks, whole)
                        + (left * 100) \div EffectivePrice(Min(beyond), rate)
      BY <1>1, <1>12
    <3>2. left * 100 \in Int /\ \A a \in Int, b \in Nat \ {0} : a \div b \in Int
      BY <1>10
    <3>3. QED
      BY <1>12, <1>8, <1>9, <3>1, <3>2
  <2>4. Walked(walk, usd, held, SharesOfLevels(asks, Sellable(asks)))
    BY <1>3, <2>1, <2>2, <2>3 DEF Walked
  <2>5. QED
    BY <2>4 DEF walk, held
<1>13. QED
  BY <1>11, <1>12

\* The money that clears an edge is on levels cheaper than any that does not.
LEMMA DepthClears ==
  ASSUME NEW asks \in Seq(AskLevels), NEW rate \in Nat, NEW fair, NEW minEdge
  PROVE  LET depth == EdgeClearingDepth(asks, fair, minEdge, rate)
         IN  /\ depth.usd \in Nat /\ depth.usd <= CostOfLevels(asks, Sellable(asks), rate)
             /\ \A i \in Sellable(asks) : ~Clears(asks[i], fair, minEdge, rate) =>
                   /\ ~depth.exhausted
                   /\ depth.usd <= CostOfLevels(asks, {j \in Sellable(asks) : asks[j].price < asks[i].price}, rate)
<1> DEFINE depth == EdgeClearingDepth(asks, fair, minEdge, rate)
           dear == {i \in Sellable(asks) : ~Clears(asks[i], fair, minEdge, rate)}
           taken == {i \in Sellable(asks) : \A j \in dear : asks[i].price < asks[j].price}
           cheaper(i) == {j \in Sellable(asks) : asks[j].price < asks[i].price}
<1>1. depth.usd = CostOfLevels(asks, taken, rate) /\ depth.exhausted = (dear = {})
  BY DEF EdgeClearingDepth
<1>2. Sellable(asks) \subseteq DOMAIN asks
  BY DEF Sellable
<1>3. /\ CostOfLevels(asks, taken, rate) \in Nat
      /\ CostOfLevels(asks, taken, rate) <= CostOfLevels(asks, Sellable(asks), rate)
  <2>1. taken \in SUBSET Sellable(asks)
    OBVIOUS
  <2> HIDE DEF taken
  <2>2. QED
    BY <1>2, <2>1, MoreLevels
<1>4. ASSUME NEW i \in dear
      PROVE  dear # {} /\ CostOfLevels(asks, taken, rate) <= CostOfLevels(asks, cheaper(i), rate)
  <2>1. taken \in SUBSET cheaper(i) /\ cheaper(i) \in SUBSET DOMAIN asks
    BY <1>2
  <2> HIDE DEF taken, cheaper
  <2>2. QED
    BY <1>4, <2>1, MoreLevels
<1>5. \A i \in Sellable(asks) : ~Clears(asks[i], fair, minEdge, rate) => i \in dear
  OBVIOUS
<1> HIDE DEF taken, dear
<1>6. QED
  BY <1>1, <1>3, <1>4, <1>5

---------------------------------------------------------------------------
(* Stakes.                                                                 *)

LEMMA LeastOfTwo ==
  ASSUME NEW a \in Int, NEW b \in Int
  PROVE  Min({a, b}) \in Int /\ Min({a, b}) <= a /\ Min({a, b}) <= b
<1>1. \E x \in {a, b} : \A y \in {a, b} : x <= y
  <2>1. a <= b \/ b <= a
    OBVIOUS
  <2>2. QED
    BY <2>1
<1>2. Min({a, b}) \in {a, b} /\ \A y \in {a, b} : Min({a, b}) <= y
  BY <1>1 DEF Min
<1>3. QED
  BY <1>2

LEMMA KellyType ==
  ASSUME NEW fair \in Int, NEW cost \in Int
  PROVE  KellyFraction(fair, cost) \in Int
<1>1. CASE cost >= Unit
  BY <1>1 DEF KellyFraction
<1>2. CASE ~(cost >= Unit)
  <2> DEFINE x == ((fair - cost) * Unit) \div (Unit - cost)
  <2>1. x \in Int
    <3>1. Unit - cost \in Nat \ {0} /\ (fair - cost) * Unit \in Int
      BY <1>2 DEF Unit
    <3>2. \A a \in Int, b \in Nat \ {0} : a \div b \in Int
      OBVIOUS
    <3>3. QED
      BY <3>1, <3>2
  <2> HIDE DEF x
  <2>2. \E y \in {0, x} : \A z \in {0, x} : y >= z
    <3>1. 0 >= x \/ x >= 0
      BY <2>1
    <3>2. QED
      BY <2>1, <3>1
  <2>3. Max({0, x}) \in {0, x}
    BY <2>2 DEF Max
  <2>4. KellyFraction(fair, cost) = Max({0, x})
    BY <1>2 DEF KellyFraction, x
  <2>5. QED
    BY <2>1, <2>3, <2>4
<1>3. QED
  BY <1>1, <1>2

LEMMA StakesAreCapped ==
  ASSUME NEW prefs \in OwnerPrefs, NEW kelly \in Int
  PROVE  /\ StakeFor(prefs, kelly) \in Nat
         /\ StakeFor(prefs, kelly) # 0 => StakeFor(prefs, kelly) <= prefs.bankroll * prefs.maxPct
<1> DEFINE raw == (prefs.bankroll * kelly * prefs.kelly) \div Unit
           cap == prefs.bankroll * prefs.maxPct
<1>1. prefs.bankroll \in Nat /\ prefs.kelly \in Nat /\ prefs.maxPct \in Nat
  BY DEF OwnerPrefs
<1>2. cap \in Int
  BY <1>1
<1>3. raw \in Int
  <2>1. prefs.bankroll * kelly \in Int
    BY <1>1
  <2>2. prefs.bankroll * kelly * prefs.kelly \in Int
    BY <1>1, <2>1
  <2>3. QED
    BY <2>2 DEF Unit
<1>4. StakeFor(prefs, kelly) = IF Min({raw, cap}) >= MinStake THEN Min({raw, cap}) ELSE 0
  BY DEF StakeFor
<1> HIDE DEF raw, cap
<1>5. Min({raw, cap}) \in Int /\ Min({raw, cap}) <= cap
  BY <1>2, <1>3, LeastOfTwo
<1>6. /\ StakeFor(prefs, kelly) \in Nat
      /\ StakeFor(prefs, kelly) # 0 => StakeFor(prefs, kelly) <= cap
  BY <1>2, <1>4, <1>5 DEF MinStake
<1>7. QED
  BY <1>6 DEF cap

\* What a plan promises of its stake: it is the owner's cap at most and reaches no
\* level that does not clear the edge; what it says will fill is there, and buys
\* the minimum.
Kept(asks, stake, cap, fair, minEdge, rate) ==
    /\ stake \in Nat /\ stake <= cap
    /\ \A i \in Sellable(asks) : ~Clears(asks[i], fair, minEdge, rate) =>
          stake * 100 <= CostOfLevels(asks, {j \in Sellable(asks) : asks[j].price < asks[i].price}, rate)
Filled(asks, plan, rate, minOrder) ==
    LET filled == IF plan.fillUsd = None THEN plan.stake ELSE plan.fillUsd
    IN  /\ filled * 100 <= CostOfLevels(asks, Sellable(asks), rate) + 50
        /\ minOrder # None =>
              \E extra \in {0, 50} : WalkAsks(asks, filled * 100 + extra, rate).shares >= minOrder * 100

LEMMA FillsAreThere ==
  ASSUME NEW asks \in Seq(AskLevels), NEW rate \in Nat, NEW stake \in Nat, NEW capped \in BOOLEAN,
         NEW minOrder \in Nat \cup {None}, None \notin Int,
         capped => stake * 100 <= CostOfLevels(asks, Sellable(asks), rate)
  PROVE  LET plan == FillOf(asks, stake, rate, minOrder, capped)
         IN  \/ plan.stake = 0
             \/ plan.stake = stake /\ Filled(asks, plan, rate, minOrder)
<1> DEFINE walk == WalkAsks(asks, stake * 100, rate)
           held == CostOfLevels(asks, Sellable(asks), rate)
           all == SharesOfLevels(asks, Sellable(asks))
           plan == FillOf(asks, stake, rate, minOrder, capped)
           few == minOrder # None /\ walk.shares < minOrder * 100
<1>1. plan = IF few THEN NoStake("minimum order")
             ELSE IF capped THEN Plan(stake, AveragePrice(walk), FALSE, stake, "edge capped")
             ELSE Plan(stake, AveragePrice(walk), walk.full,
                       IF walk.full THEN None ELSE ToTheCent(walk.spent), None)
  BY DEF FillOf
<1>2. Walked(walk, stake * 100, held, all)
  BY WalkSpends
<1>3. stake * 100 + 0 = stake * 100
  OBVIOUS
<1> HIDE DEF plan
<1>4. CASE few
  <2>1. plan.stake = 0
    BY <1>1, <1>4 DEF NoStake, Plan
  <2>2. QED
    BY <2>1 DEF plan
<1>5. CASE ~few /\ (capped \/ walk.full)
  <2>1. plan.stake = stake /\ (plan.fillUsd = None \/ plan.fillUsd = stake)
    BY <1>1, <1>5 DEF Plan
  <2>2. stake * 100 <= held + 50
    <3> HIDE DEF walk, held
    <3>1. stake * 100 <= held /\ held \in Nat
      BY <1>2, <1>5 DEF Walked, held
    <3>2. QED
      BY <3>1
  <2>3. minOrder # None => WalkAsks(asks, stake * 100 + 0, rate).shares >= minOrder * 100
    <3>1. walk.shares \in Int /\ (minOrder # None => minOrder * 100 \in Int)
      BY <1>2 DEF Walked
    <3>2. QED
      BY <1>3, <1>5, <3>1
  <2>4. Filled(asks, plan, rate, minOrder)
    BY <2>1, <2>2, <2>3 DEF Filled
  <2>5. QED
    BY <2>1, <2>4 DEF plan
<1>6. CASE ~few /\ ~capped /\ ~walk.full
  <2> DEFINE filled == ToTheCent(walk.spent)
  <2>1. plan.stake = stake /\ plan.fillUsd = filled
    BY <1>1, <1>6 DEF Plan
  <2>2. walk.spent = held /\ held \in Nat /\ walk.shares = all
    BY <1>2, <1>6 DEF Walked
  <2> HIDE DEF held, all, walk
  <2>3. filled \in Nat /\ filled * 100 <= held + 50 /\ filled * 100 + 50 > held
    BY <2>2 DEF ToTheCent
  <2>4. filled # None
    BY <2>3
  <2> HIDE DEF filled
  <2>5. WalkAsks(asks, filled * 100 + 50, rate).shares = all
    <3>1. filled * 100 + 50 \in Nat
      BY <2>3
    <3>2. Walked(WalkAsks(asks, filled * 100 + 50, rate), filled * 100 + 50, held, all)
      BY <3>1, WalkSpends DEF held, all
    <3>3. QED
      BY <2>3, <3>2 DEF Walked
  <2>6. minOrder # None => all >= minOrder * 100
    <3>1. minOrder # None => ~(all < minOrder * 100) /\ minOrder * 100 \in Int
      BY <1>6, <2>2
    <3>2. all \in Int
      BY <1>2, <2>2 DEF Walked
    <3>3. QED
      BY <3>1, <3>2
  <2>7. Filled(asks, plan, rate, minOrder)
    BY <2>1, <2>3, <2>4, <2>5, <2>6 DEF Filled, held
  <2>8. QED
    BY <2>1, <2>7 DEF plan
<1>7. QED
  BY <1>4, <1>5, <1>6

LEMMA PlansAreKept ==
  ASSUME NEW asks \in Seq(AskLevels), NEW rate \in Nat, NEW fair \in Int, NEW kelly \in Int,
         NEW prefs \in OwnerPrefs, NEW minOrder \in Nat \cup {None}, None \notin Int,
         PlanStake(asks, fair, kelly, rate, prefs, minOrder).stake > 0
  PROVE  /\ Kept(asks, PlanStake(asks, fair, kelly, rate, prefs, minOrder).stake,
                 prefs.bankroll * prefs.maxPct, fair, prefs.minEdge, rate)
         /\ Filled(asks, PlanStake(asks, fair, kelly, rate, prefs, minOrder), rate, minOrder)
<1> DEFINE wanted == StakeFor(prefs, kelly)
           depth == EdgeClearingDepth(asks, fair, prefs.minEdge, rate)
           capped == ~depth.exhausted /\ wanted * 100 > depth.usd
           stake == IF capped THEN depth.usd \div 100 ELSE wanted
           plan == PlanStake(asks, fair, kelly, rate, prefs, minOrder)
           cap == prefs.bankroll * prefs.maxPct
           held == CostOfLevels(asks, Sellable(asks), rate)
           Below(i) == CostOfLevels(asks, {j \in Sellable(asks) : asks[j].price < asks[i].price}, rate)
<1>1. plan = IF wanted = 0 THEN NoStake(None)
             ELSE IF capped /\ stake < MinStake THEN NoStake("no edge depth")
             ELSE FillOf(asks, stake, rate, minOrder, capped)
  BY DEF PlanStake
<1>2. \A note : NoStake(note).stake = 0
  BY DEF NoStake, Plan
<1>3. wanted \in Nat /\ (wanted # 0 => wanted <= cap)
  BY StakesAreCapped
<1>4. cap \in Nat
  BY DEF OwnerPrefs
<1>5. /\ depth.usd \in Nat /\ depth.usd <= held
      /\ \A i \in Sellable(asks) : ~Clears(asks[i], fair, prefs.minEdge, rate) =>
            ~depth.exhausted /\ depth.usd <= Below(i)
  BY DepthClears
<1>6. plan.stake > 0 /\ wanted # 0 /\ plan = FillOf(asks, stake, rate, minOrder, capped)
  <2>1. plan.stake > 0
    OBVIOUS
  <2> HIDE DEF plan, wanted, capped, stake
  <2>2. ASSUME NEW note, plan = NoStake(note) PROVE FALSE
    <3>1. plan.stake = 0
      BY <1>2, <2>2
    <3>2. QED
      BY <2>1, <3>1
  <2>3. CASE wanted = 0
    BY <1>1, <2>2, <2>3
  <2>4. CASE wanted # 0 /\ capped /\ stake < MinStake
    BY <1>1, <2>2, <2>4
  <2>5. CASE wanted # 0 /\ ~(capped /\ stake < MinStake)
    BY <1>1, <2>1, <2>5
  <2>6. QED
    BY <2>3, <2>4, <2>5
<1>7. held \in Nat /\ \A i \in Sellable(asks) : Below(i) \in Nat
  <2>1. Sellable(asks) \in SUBSET DOMAIN asks
    BY DEF Sellable
  <2>2. \A i : {j \in Sellable(asks) : asks[j].price < asks[i].price} \in SUBSET DOMAIN asks
    BY <2>1
  <2>3. QED
    BY <2>1, <2>2, MoreLevels
<1> HIDE DEF plan, wanted, depth, cap, held, Below
<1>8. stake \in Nat /\ stake <= cap
  BY <1>3, <1>4, <1>5, <1>6
<1>9. capped => stake * 100 <= held
  BY <1>5, <1>7
<1>10. ASSUME NEW i \in Sellable(asks), ~Clears(asks[i], fair, prefs.minEdge, rate)
       PROVE  stake * 100 <= Below(i)
  <2>1. ~depth.exhausted /\ depth.usd <= Below(i) /\ Below(i) \in Nat
    BY <1>5, <1>7, <1>10
  <2>2. QED
    BY <1>3, <1>5, <2>1
<1> HIDE DEF stake
<1>11. capped \in BOOLEAN
  OBVIOUS
<1> HIDE DEF capped
<1>12. plan.stake = stake /\ Filled(asks, plan, rate, minOrder)
  BY <1>6, <1>8, <1>9, <1>11, FillsAreThere DEF held
<1>13. Kept(asks, plan.stake, cap, fair, prefs.minEdge, rate)
  BY <1>8, <1>10, <1>12 DEF Kept, Below
<1>14. QED
  BY <1>12, <1>13 DEF plan, cap

\* A resting limit price is below the ask and clears the edge.
LEMMA LimitsRest ==
  ASSUME NEW fair \in Int, NEW minEdge \in Int, NEW ask \in Int, NEW tick \in Nat \ {0},
         RestingLimitPrice(fair, minEdge, ask, tick) # None
  PROVE  LET limit == RestingLimitPrice(fair, minEdge, ask, tick)
         IN  limit < ask /\ fair - limit * 100 >= minEdge
<1> DEFINE room == (fair - minEdge) \div 100
           price == (room \div tick) * tick
           limit == RestingLimitPrice(fair, minEdge, ask, tick)
<1>1. room \in Int /\ room * 100 <= fair - minEdge
  OBVIOUS
<1> HIDE DEF room
<1>2. \A x \in Int : (x \div tick) * tick \in Int /\ (x \div tick) * tick <= x
  OBVIOUS
<1>3. price \in Int /\ price <= room
  BY <1>1, <1>2
<1>4. limit = Min({price, ask - tick})
  BY DEF RestingLimitPrice, room
<1> HIDE DEF price, limit
<1>5. limit \in Int /\ limit <= price /\ limit <= ask - tick
  BY <1>3, <1>4, LeastOfTwo
<1>6. limit < ask /\ fair - limit * 100 >= minEdge
  BY <1>1, <1>3, <1>5
<1>7. QED
  BY <1>6 DEF limit

---------------------------------------------------------------------------
(* The theorems about suggestions.                                         *)

\* What is offered is what build_opportunity makes of what is quoted.
PricingInv ==
    offer # None =>
    \E market \in OfferMarkets, asks \in Ladders : \E fair \in Fairs, prefs \in PrefChoices :
        /\ quote = [market |-> market, asks |-> asks, fair |-> fair, prefs |-> prefs]
        /\ offer = BuildOpportunity(market, asks, fair, prefs, 0)

LEMMA PricingInvariant == PricingSpec => []PricingInv
<1>1. PricingInit => PricingInv
  BY DEF PricingInit, PricingInv
<1>2. ASSUME PricingInv, [PricingNext]_pricingVars PROVE PricingInv'
  <2>1. ASSUME NEW market \in OfferMarkets, NEW asks \in Ladders, NEW fair \in Fairs,
               NEW prefs \in PrefChoices, PriceQuote(market, asks, fair, prefs)
        PROVE  PricingInv'
    BY <2>1 DEF PriceQuote, PricingInv
  <2>2. ASSUME UNCHANGED pricingVars PROVE PricingInv'
    BY <1>2, <2>2 DEF pricingVars, PricingInv
  <2>3. QED
    BY <1>2, <2>1, <2>2 DEF PricingNext
<1>3. QED
  BY <1>1, <1>2, PTL DEF PricingSpec

\* An offer, taken apart.
LEMMA OffersAre ==
  ASSUME PricingInv, Suggested
  PROVE  /\ Kept(quote.asks, offer.plan.stake, quote.prefs.bankroll * quote.prefs.maxPct,
                 quote.fair, quote.prefs.minEdge, QuoteRate)
         /\ Filled(quote.asks, offer.plan, QuoteRate, quote.market.minOrder)
         /\ offer.limit # None => /\ offer.limit < offer.ask
                                  /\ quote.fair - offer.limit * 100 >= quote.prefs.minEdge
<1>1. PICK market \in OfferMarkets, asks \in Ladders :
         \E fair \in Fairs, prefs \in PrefChoices :
            /\ quote = [market |-> market, asks |-> asks, fair |-> fair, prefs |-> prefs]
            /\ offer = BuildOpportunity(market, asks, fair, prefs, 0)
  BY DEF PricingInv, Suggested
<1>2. PICK fair \in Fairs, prefs \in PrefChoices :
         /\ quote = [market |-> market, asks |-> asks, fair |-> fair, prefs |-> prefs]
         /\ offer = BuildOpportunity(market, asks, fair, prefs, 0)
  BY <1>1
<1> DEFINE ask == BestAsk(asks)
           rate == ResolveFeeRate(market.fee, prefs)
           cost == EffectivePrice(ask, rate)
           kelly == KellyFraction(fair, cost)
           tick == IF market.tick = None THEN DefaultTick ELSE market.tick
<1>3. /\ quote.market = market /\ quote.asks = asks /\ quote.fair = fair /\ quote.prefs = prefs
      /\ QuoteRate = rate
  BY <1>2 DEF QuoteRate
<1>4. /\ asks \in Seq(AskLevels) /\ fair \in Int /\ prefs \in OwnerPrefs /\ None \notin Int
      /\ market \in Terms
  <2> HIDE DEF AskLevels, OwnerPrefs, Terms
  <2>1. QED
    BY PricingAssumption
<1>5. /\ prefs.fee \in Nat /\ prefs.minEdge \in Int /\ market.fee \in Nat \cup {None}
      /\ market.minOrder \in Nat \cup {None} /\ market.tick \in (Nat \ {0}) \cup {None}
  BY <1>4 DEF Terms, OwnerPrefs
<1>6. /\ Sellable(asks) # {} /\ offer.ask = ask
      /\ offer.plan = PlanStake(asks, fair, kelly, rate, prefs, market.minOrder)
      /\ offer.limit = RestingLimitPrice(fair, prefs.minEdge, ask, tick)
  BY <1>2 DEF BuildOpportunity, Suggested
<1>7. rate \in Nat /\ tick \in Nat \ {0}
  BY <1>5 DEF ResolveFeeRate, DefaultTick
<1>8. ask \in 1..99
  <2> HIDE DEF AskLevels
  <2>1. QED
    BY <1>4, <1>6, LeastAsk
<1> HIDE DEF ask, rate, tick
<1>9. cost \in Int
  <2>1. EffectivePrice(ask, rate) \in Nat
    BY <1>7, <1>8, PricesCost
  <2>2. QED
    BY <2>1
<1> HIDE DEF cost
<1>10. kelly \in Int
  BY <1>4, <1>9, KellyType
<1> HIDE DEF kelly
<1>11. offer.plan.stake > 0
  BY DEF Suggested
<1>12. /\ Kept(asks, offer.plan.stake, prefs.bankroll * prefs.maxPct, fair, prefs.minEdge, rate)
       /\ Filled(asks, offer.plan, rate, market.minOrder)
  <2> DEFINE plan == PlanStake(asks, fair, kelly, rate, prefs, market.minOrder)
  <2>1. plan.stake > 0
    BY <1>6, <1>11
  <2>2. asks \in Seq(AskLevels) /\ prefs \in OwnerPrefs /\ market.minOrder \in Nat \cup {None}
    BY <1>4, <1>5
  <2>3. rate \in Nat /\ fair \in Int /\ kelly \in Int /\ None \notin Int
    BY <1>4, <1>7, <1>10
  <2>4. /\ Kept(asks, plan.stake, prefs.bankroll * prefs.maxPct, fair, prefs.minEdge, rate)
        /\ Filled(asks, plan, rate, market.minOrder)
    BY <2>1, <2>2, <2>3, PlansAreKept, Zenon
  <2> HIDE DEF plan
  <2>5. offer.plan = plan
    BY <1>6 DEF plan
  <2>6. QED
    BY <2>4, <2>5
<1>13. offer.limit # None => offer.limit < offer.ask /\ fair - offer.limit * 100 >= prefs.minEdge
  BY <1>4, <1>5, <1>6, <1>7, <1>8, LimitsRest
<1>14. QED
  BY <1>3, <1>12, <1>13

\* A suggested stake never reaches, on any ladder, a level that does not clear the
\* owner's minimum edge.
THEOREM SharesAreWorthIt == PricingSpec => []SharesBoughtClear
<1>1. PricingInv => SharesBoughtClear
  BY OffersAre DEF SharesBoughtClear, Kept
<1>2. QED
  BY <1>1, PricingInvariant, PTL

\* A suggestion keeps the owner's cap, fills from the ladder, buys the market's
\* minimum, and its limit price rests and clears the edge.
THEOREM SuggestionsArePlaceable == PricingSpec => []SuggestionPlaceable
<1>1. PricingInv => SuggestionPlaceable
  BY OffersAre DEF SuggestionPlaceable, Kept, Filled
<1>2. QED
  BY <1>1, PricingInvariant, PTL
=============================================================================
