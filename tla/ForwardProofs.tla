--------------------------- MODULE ForwardProofs ---------------------------
(***************************************************************************)
(* Theorems about the forward test, for every set of markets and every     *)
(* bound.                                                                  *)
(***************************************************************************)
EXTENDS Forward, SequenceTheorems, NumberLemmas, TLAPS

---------------------------------------------------------------------------
(* The inductive invariant.  A scan works on a copy of the table and       *)
(* commits it or throws it away, so what holds of the committed table has  *)
(* to hold of the copy; T stands for either.                               *)

\* A grade is the result of the market in the listing l, which has one.
GradesMatch(T, l) ==
    \A m \in Markets : \A i \in DOMAIN T[m] :
        Graded(T[m][i]) =>
            /\ l[m] \in Outcomes
            /\ T[m][i].won = (T[m][i].token = l[m])

\* A market's samples have their grades all or none.
AllOrNone(T) ==
    \A m \in Markets : \A i, j \in DOMAIN T[m] :
        Graded(T[m][i]) => Graded(T[m][j])

\* Sample j is the last one of its outcome.
IsLast(rows, j) == \A k \in DOMAIN rows : rows[k].token = rows[j].token => k <= j

\* The rows of a market whose kickoff is k and has not moved: each was stored
\* with k, none is priced unless the game is due, and a closing price is the
\* ask of the last row of its outcome.
RowsClosed(rows, k, due) ==
    /\ \A i \in DOMAIN rows : rows[i].start = k
    /\ \A i \in DOMAIN rows : rows[i].closing # None => due
    /\ \A i, j \in DOMAIN rows :
         (rows[i].closing # None /\ rows[i].token = rows[j].token /\ IsLast(rows, j))
             => rows[i].closing = rows[j].ask

\* The game is due by the clock, and by that of the scan that runs, which may
\* sample the market otherwise.
GameDue(m) ==
    /\ kickoff[m] # None
    /\ kickoff[m] + SettleAfter <= clock
    /\ pc # "idle" => kickoff[m] + SettleAfter <= now

\* A row that keeps what it was recorded with, and the grade and the price it
\* was given.
RowKept(old, new) ==
    /\ new.token = old.token /\ new.ask = old.ask /\ new.start = old.start
    /\ old.won # None => new.won = old.won
    /\ old.closing # None => new.closing = old.closing

TableKept(S, T) ==
    \A m \in Markets :
        /\ Len(S[m]) <= Len(T[m])
        /\ \A i \in DOMAIN S[m] : RowKept(S[m][i], T[m][i])

\* A result a scan has seen is the market's, for good.
FoundStands ==
    \A m \in Markets : found[m] \in Resolved => found[m] = listing[m]

GradeInv == /\ FoundStands
            /\ GradesMatch(saved, listing) /\ GradesMatch(samples, listing)
            /\ AllOrNone(saved) /\ AllOrNone(samples)
KeptInv == TableKept(saved, samples)
CloseInv ==
    /\ now <= clock
    /\ \A m \in Markets : moves[m] = 0 =>
         /\ RowsClosed(saved[m], kickoff[m], GameDue(m))
         /\ RowsClosed(samples[m], kickoff[m], GameDue(m))

---------------------------------------------------------------------------
(* Lemmas about the operators.                                             *)

\* Putting rows behind a table's: what stays and where a row comes from.
LEMMA Appended ==
  ASSUME NEW S \in Seq(Sample), NEW R \in Seq(Sample)
  PROVE  /\ S \o R \in Seq(Sample)
         /\ Len(S \o R) = Len(S) + Len(R)
         /\ DOMAIN S \subseteq DOMAIN (S \o R)
         /\ \A i \in DOMAIN S : (S \o R)[i] = S[i]
         /\ \A i \in DOMAIN (S \o R) : i \notin DOMAIN S =>
                /\ i - Len(S) \in DOMAIN R
                /\ (S \o R)[i] = R[i - Len(S)]
  BY ConcatProperties, LenProperties

\* What one scan stores of a market: rows of its outcomes, with the kickoff of
\* the day, neither graded nor priced.
LEMMA NewRowsFresh ==
  ASSUME NEW m \in Markets, kickoff[m] \in Kickoffs \cup {None},
         NEW ask \in [Tokens -> Asks \cup {None}]
  PROVE  /\ NewRows(m, ask) \in Seq(Sample)
         /\ \A i \in DOMAIN NewRows(m, ask) :
                LET row == NewRows(m, ask)[i]
                IN row.start = kickoff[m] /\ row.won = None /\ row.closing = None
<1> DEFINE row(t) == [token |-> t, ask |-> ask[t], start |-> kickoff[m],
                      won |-> None, closing |-> None]
           Fresh(r) == r.start = kickoff[m] /\ r.won = None /\ r.closing = None
           rowsOf(t) == IF t \in Tokens /\ ask[t] # None THEN <<row(t)>> ELSE <<>>
<1>1. ASSUME NEW t \in Outcomes
      PROVE  rowsOf(t) \in Seq(Sample) /\ \A i \in DOMAIN rowsOf(t) : Fresh(rowsOf(t)[i])
  <2>1. CASE t \in Tokens /\ ask[t] # None
    <3>1. row(t) \in Sample /\ Fresh(row(t))
      BY <2>1 DEF Sample
    <3>2. rowsOf(t) = <<row(t)>>
      BY <2>1
    <3> HIDE DEF row, rowsOf, Fresh
    <3>3. QED
      BY <3>1, <3>2
  <2>2. CASE ~(t \in Tokens /\ ask[t] # None)
    <3>1. rowsOf(t) = <<>>
      BY <2>2
    <3>2. QED
      BY <3>1
  <2>3. QED
    BY <2>1, <2>2
<1>2. NewRows(m, ask) = rowsOf("A") \o rowsOf("B")
  BY DEF NewRows
<1>3. "A" \in Outcomes /\ "B" \in Outcomes
  BY DEF Outcomes
<1> HIDE DEF rowsOf, Fresh
<1>4. \A i \in DOMAIN (rowsOf("A") \o rowsOf("B")) : Fresh((rowsOf("A") \o rowsOf("B"))[i])
  BY <1>1, <1>3, Appended
<1>5. rowsOf("A") \o rowsOf("B") \in Seq(Sample)
  BY <1>1, <1>3, Appended
<1>6. QED
  BY <1>2, <1>4, <1>5 DEF Fresh

\* Grading touches the grades of ungraded rows alone.
LEMMA GradeRows ==
  ASSUME NEW rows \in Seq(Sample), NEW result
  PROVE  /\ Grade(rows, result) \in Seq(Sample)
         /\ DOMAIN Grade(rows, result) = DOMAIN rows
         /\ Len(Grade(rows, result)) = Len(rows)
         /\ \A i \in DOMAIN rows :
              LET old == rows[i] new == Grade(rows, result)[i]
              IN /\ new.token = old.token /\ new.ask = old.ask /\ new.start = old.start
                 /\ new.closing = old.closing
                 /\ new.won = IF old.won = None /\ result \in Outcomes
                              THEN (old.token = result) ELSE old.won
<1>1. \A i \in DOMAIN rows : rows[i] \in Sample
  OBVIOUS
<1>2. ASSUME NEW i \in DOMAIN rows
      PROVE  /\ Grade(rows, result)[i] \in Sample
             /\ LET old == rows[i] new == Grade(rows, result)[i]
                IN /\ new.token = old.token /\ new.ask = old.ask /\ new.start = old.start
                   /\ new.closing = old.closing
                   /\ new.won = IF old.won = None /\ result \in Outcomes
                                THEN (old.token = result) ELSE old.won
  BY <1>1 DEF Grade, Sample
<1>3. DOMAIN Grade(rows, result) = 1..Len(rows)
  BY DEF Grade
<1>4. Grade(rows, result) \in Seq(Sample)
  BY <1>2, <1>3, SeqDef DEF Grade
<1>5. QED
  BY <1>2, <1>3, <1>4, LenProperties

\* An outcome with a sample has a last ask: that of its last sample.
LEMMA LastAskOfLast ==
  ASSUME NEW rows \in Seq(Sample), NEW j \in DOMAIN rows, IsLast(rows, j)
  PROVE  LastAsk(rows, rows[j].token) = rows[j].ask
<1> DEFINE P(i) == /\ rows[i].token = rows[j].token
                   /\ \A k \in DOMAIN rows : rows[k].token = rows[j].token => k <= i
           last == CHOOSE i \in DOMAIN rows : P(i)
<1>1. P(j)
  BY DEF IsLast
<1>2. last \in DOMAIN rows /\ P(last)
  BY <1>1
<1>3. last = j
  BY <1>1, <1>2
<1>4. LastAsk(rows, rows[j].token) = rows[last].ask
  BY DEF LastAsk
<1>5. QED
  BY <1>3, <1>4

LEMMA HasLast ==
  ASSUME NEW rows \in Seq(Sample), NEW i \in DOMAIN rows
  PROVE  \E j \in DOMAIN rows : rows[j].token = rows[i].token /\ IsLast(rows, j)
<1> DEFINE S == {k \in DOMAIN rows : rows[k].token = rows[i].token}
<1>1. S \in SUBSET (0..Len(rows)) /\ S # {} /\ Len(rows) \in Nat
  BY LenProperties
<1>2. PICK j \in S : \A k \in S : k <= j
  BY <1>1, HasGreatest
<1>3. QED
  BY <1>2 DEF IsLast

\* Pricing touches the closing prices of unpriced rows alone.
LEMMA CloseRows ==
  ASSUME NEW rows \in Seq(Sample)
  PROVE  /\ Close(rows) \in Seq(Sample)
         /\ DOMAIN Close(rows) = DOMAIN rows
         /\ Len(Close(rows)) = Len(rows)
         /\ \A i \in DOMAIN rows :
              LET old == rows[i] new == Close(rows)[i]
              IN /\ new.token = old.token /\ new.ask = old.ask /\ new.start = old.start
                 /\ new.won = old.won
                 /\ new.closing = IF old.closing = None
                                  THEN LastAsk(rows, old.token) ELSE old.closing
<1>1. ASSUME NEW i \in DOMAIN rows PROVE LastAsk(rows, rows[i].token) \in Asks
  <2>1. PICK j \in DOMAIN rows : rows[j].token = rows[i].token /\ IsLast(rows, j)
    BY HasLast
  <2>2. LastAsk(rows, rows[i].token) = rows[j].ask
    BY <2>1, LastAskOfLast
  <2>3. rows[j] \in Sample
    OBVIOUS
  <2>4. QED
    BY <2>2, <2>3 DEF Sample
<1>2. ASSUME NEW i \in DOMAIN rows
      PROVE  /\ Close(rows)[i] \in Sample
             /\ LET old == rows[i] new == Close(rows)[i]
                IN /\ new.token = old.token /\ new.ask = old.ask /\ new.start = old.start
                   /\ new.won = old.won
                   /\ new.closing = IF old.closing = None
                                    THEN LastAsk(rows, old.token) ELSE old.closing
  <2>1. rows[i] \in Sample
    OBVIOUS
  <2>2. Close(rows)[i] = IF rows[i].closing = None
            THEN [rows[i] EXCEPT !.closing = LastAsk(rows, rows[i].token)] ELSE rows[i]
    BY DEF Close
  <2>3. QED
    BY <1>1, <2>1, <2>2 DEF Sample
<1>3. DOMAIN Close(rows) = 1..Len(rows)
  BY DEF Close
<1>4. Close(rows) \in Seq(Sample)
  BY <1>2, <1>3, SeqDef DEF Close
<1>5. QED
  BY <1>2, <1>3, <1>4, LenProperties

---------------------------------------------------------------------------
(* What the two steps that write samples do, market by market.             *)

\* The listing of the leagues puts fresh rows behind those of the markets a
\* scan may price; every result it sees is the venue's.
LEMMA LeaguesStep ==
  ASSUME TypeOK, ScanLeagues
  PROVE  /\ found' \in [Markets -> Listing \cup {"unseen"}]
         /\ \A m \in Markets : found'[m] \in {"unseen", listing[m]}
         /\ samples' \in [Markets -> Seq(Sample)]
         /\ \A m \in Markets : samples'[m] # samples[m] =>
               /\ Priceable(m)
               /\ \E R \in Seq(Sample) :
                    /\ samples'[m] = samples[m] \o R
                    /\ \A i \in DOMAIN R :
                         R[i].start = kickoff[m] /\ R[i].won = None /\ R[i].closing = None
<1>1. PICK seen \in SUBSET Markets :
        /\ found' = [m \in Markets |-> IF m \in seen THEN listing[m] ELSE "unseen"]
        /\ \E priced \in SUBSET {m \in seen : Priceable(m)} :
             \E ask \in [priced -> [Tokens -> Asks \cup {None}]] :
                samples' = [m \in Markets |->
                              IF m \in priced THEN samples[m] \o NewRows(m, ask[m])
                              ELSE samples[m]]
  BY DEF ScanLeagues
<1> PICK priced \in SUBSET {m \in seen : Priceable(m)} :
        \E ask \in [priced -> [Tokens -> Asks \cup {None}]] :
           samples' = [m \in Markets |->
                         IF m \in priced THEN samples[m] \o NewRows(m, ask[m]) ELSE samples[m]]
  BY <1>1
<1>2. PICK ask \in [priced -> [Tokens -> Asks \cup {None}]] :
           samples' = [m \in Markets |->
                         IF m \in priced THEN samples[m] \o NewRows(m, ask[m]) ELSE samples[m]]
  OBVIOUS
<1>3. ASSUME NEW m \in Markets, m \in priced
      PROVE  /\ samples[m] \in Seq(Sample)
             /\ NewRows(m, ask[m]) \in Seq(Sample)
             /\ \A i \in DOMAIN NewRows(m, ask[m]) :
                  LET row == NewRows(m, ask[m])[i]
                  IN row.start = kickoff[m] /\ row.won = None /\ row.closing = None
             /\ samples[m] \o NewRows(m, ask[m]) \in Seq(Sample)
  <2>1. ask[m] \in [Tokens -> Asks \cup {None}]
    BY <1>3
  <2>2. samples[m] \in Seq(Sample) /\ kickoff[m] \in Kickoffs \cup {None}
    BY DEF TypeOK
  <2>3. QED
    BY <2>1, <2>2, NewRowsFresh, Appended
<1>4. found' \in [Markets -> Listing \cup {"unseen"}]
  BY <1>1 DEF TypeOK
<1>5. samples' \in [Markets -> Seq(Sample)]
  BY <1>2, <1>3 DEF TypeOK
<1>6. ASSUME NEW m \in Markets, samples'[m] # samples[m]
      PROVE  /\ Priceable(m)
             /\ \E R \in Seq(Sample) :
                  /\ samples'[m] = samples[m] \o R
                  /\ \A i \in DOMAIN R :
                       R[i].start = kickoff[m] /\ R[i].won = None /\ R[i].closing = None
  <2>1. m \in priced /\ samples'[m] = samples[m] \o NewRows(m, ask[m])
    BY <1>2, <1>6
  <2>2. Priceable(m)
    BY <2>1
  <2>3. QED
    BY <1>3, <2>1, <2>2
<1>7. QED
  BY <1>1, <1>4, <1>5, <1>6

\* The last step of a scan grades by the results it has seen, prices the
\* markets that were due, and commits.
LEMMA ForwardStep ==
  ASSUME TypeOK, ScanForward
  PROVE  \E seen \in [Markets -> Listing \cup {"unseen"}] :
         /\ \A m \in Markets : seen[m] \in {found[m], listing[m]}
         /\ saved' = samples'
         /\ samples' \in [Markets -> Seq(Sample)]
         /\ \A m \in Markets :
              \/ samples'[m] \in {samples[m], Grade(samples[m], seen[m])}
              \/ /\ Due(m)
                 /\ samples'[m] = Close(Grade(samples[m], seen[m]))
<1> DEFINE ids == PendingMarketIds
           wanted == {m \in ids : found[m] = "unseen"}
           Seen(got) == [m \in Markets |-> IF m \in got THEN listing[m] ELSE found[m]]
           GradedT(seen, steps) == [m \in Markets |->
                    IF steps >= 1 THEN Grade(samples[m], seen[m]) ELSE samples[m]]
           PricedT(graded, steps) == [m \in Markets |->
                    IF steps = 2 /\ m \in ids THEN Close(graded[m]) ELSE graded[m]]
<1>1. PICK got \in SUBSET wanted, steps \in 0..2 :
        samples' = PricedT(GradedT(Seen(got), steps), steps) /\ saved' = samples'
  BY DEF ScanForward
<1> DEFINE seen == Seen(got)
           graded == GradedT(seen, steps)
<1>2. seen \in [Markets -> Listing \cup {"unseen"}]
  BY DEF TypeOK
<1>3. \A m \in Markets : seen[m] \in {found[m], listing[m]}
  OBVIOUS
<1>4. ASSUME NEW m \in Markets
      PROVE  /\ samples[m] \in Seq(Sample) /\ Grade(samples[m], seen[m]) \in Seq(Sample)
             /\ Close(Grade(samples[m], seen[m])) \in Seq(Sample)
             /\ graded[m] \in {samples[m], Grade(samples[m], seen[m])}
             /\ steps = 2 => graded[m] = Grade(samples[m], seen[m])
  <2>1. samples[m] \in Seq(Sample)
    BY DEF TypeOK
  <2> HIDE DEF seen
  <2>2. QED
    BY <2>1, GradeRows, CloseRows
<1>5. \A m \in ids : Due(m)
  BY DEF PendingMarketIds
<1>6. samples' = [m \in Markets |->
          IF steps = 2 /\ m \in ids THEN Close(graded[m]) ELSE graded[m]]
  BY <1>1
<1> HIDE DEF seen, graded, ids
<1>7. samples' \in [Markets -> Seq(Sample)]
  BY <1>4, <1>6
<1>8. \A m \in Markets :
         \/ samples'[m] \in {samples[m], Grade(samples[m], seen[m])}
         \/ /\ Due(m)
            /\ samples'[m] = Close(Grade(samples[m], seen[m]))
  BY <1>4, <1>5, <1>6
<1>9. QED
  BY <1>1, <1>2, <1>3, <1>7, <1>8

---------------------------------------------------------------------------
(* Type correctness.                                                       *)

\* Every variable of the forward test stays in its type.
THEOREM TypeCorrect == Spec => []TypeOK
<1>1. Init => TypeOK
  BY ConstantsOK DEF Init, TypeOK, Times, Listing, Unseen
<1>2. TypeOK /\ [Next]_vars => TypeOK'
  <2> SUFFICES ASSUME TypeOK, [Next]_vars PROVE TypeOK'
    OBVIOUS
  <2> USE DEF venueVars, scanVars, Goto
  <2>1. CASE Tick
    BY <2>1, ConstantsOK DEF TypeOK, Tick, Times
  <2>2. ASSUME NEW m \in Markets, NEW t \in Kickoffs, Postpone(m, t) PROVE TypeOK'
    BY <2>2, ConstantsOK DEF TypeOK, Postpone
  <2>3. ASSUME NEW m \in Markets, NEW l \in Resolved, Resolve(m, l) PROVE TypeOK'
    BY <2>3 DEF TypeOK, Resolve, Listing
  <2>4. CASE ScanBegin
    BY <2>4 DEF TypeOK, ScanBegin
  <2>5. CASE ScanLeagues
    BY <2>5, LeaguesStep DEF TypeOK, ScanLeagues
  <2>6. CASE ScanOthers
    <3>1. PICK got \in SUBSET {m \in BetMarkets : found[m] = "unseen"} :
             found' = [m \in Markets |-> IF m \in got THEN listing[m] ELSE found[m]]
      BY <2>6 DEF ScanOthers
    <3>2. found' \in [Markets -> Listing \cup {"unseen"}]
      BY <3>1 DEF TypeOK
    <3>3. saved' \in [Markets -> Seq(Sample)]
      BY <2>6 DEF TypeOK, ScanOthers
    <3>4. QED
      BY <2>6, <3>2, <3>3 DEF TypeOK, ScanOthers
  <2>7. CASE ScanForward
    <3>1. samples' \in [Markets -> Seq(Sample)] /\ saved' = samples'
      BY <2>7, ForwardStep
    <3>2. faults' \in 0..MaxFaults
      BY <2>7, ConstantsOK DEF TypeOK, ScanForward, Fault
    <3>3. now' \in Times /\ found' \in [Markets -> Listing \cup {"unseen"}]
      BY <2>7, ConstantsOK DEF ScanForward, Forget, Unseen, Times
    <3>4. QED
      BY <2>7, <3>1, <3>2, <3>3 DEF TypeOK, ScanForward
  <2>8. CASE ScanAbort
    BY <2>8, ConstantsOK DEF TypeOK, ScanAbort, Fault, Forget, Unseen, Times
  <2>9. CASE UNCHANGED vars
    BY <2>9 DEF TypeOK, vars
  <2>10. QED
    BY <2>1, <2>2, <2>3, <2>4, <2>5, <2>6, <2>7, <2>8, <2>9 DEF Next, ScanStep
<1>3. QED
  BY <1>1, <1>2, PTL DEF Spec

---------------------------------------------------------------------------
(* The grades.                                                             *)

\* A result never changes, and what a scan has found of it stays true.
LEMMA ListingStands ==
  ASSUME TypeOK, [Next]_vars
  PROVE  \A m \in Markets : listing[m] \in Resolved => listing'[m] = listing[m]
<1> USE DEF venueVars, scanVars, Goto
<1>1. ASSUME NEW m \in Markets, NEW t \in Kickoffs, Postpone(m, t) PROVE listing' = listing
  BY <1>1 DEF Postpone
<1>2. ASSUME NEW m \in Markets, NEW l \in Resolved, Resolve(m, l)
      PROVE  \A n \in Markets : listing[n] \in Resolved => listing'[n] = listing[n]
  BY <1>2 DEF Resolve, TypeOK, Resolved, Outcomes
<1>3. QED
  BY <1>1, <1>2 DEF Next, Tick, ScanBegin, ScanStep, ScanLeagues, ScanOthers, ScanForward,
     ScanAbort, vars

\* Two tables that grade the same markets alike: what the grades of T say
\* holds of U when each market of U is graded as one of T, or by its result.
LEMMA GradedTable ==
  ASSUME NEW T \in [Markets -> Seq(Sample)], NEW U \in [Markets -> Seq(Sample)],
         GradesMatch(T, listing), AllOrNone(T),
         \A m \in Markets : listing[m] \in Resolved => listing'[m] = listing[m],
         \A m \in Markets :
            \/ U[m] = T[m]
            \/ /\ listing[m] \in Outcomes
               /\ DOMAIN U[m] = DOMAIN T[m]
               /\ \A i \in DOMAIN T[m] :
                    /\ U[m][i].token = T[m][i].token
                    /\ U[m][i].won = IF T[m][i].won = None
                                     THEN (T[m][i].token = listing[m]) ELSE T[m][i].won
            \/ /\ DOMAIN U[m] = DOMAIN T[m]
               /\ \A i \in DOMAIN T[m] : U[m][i].token = T[m][i].token /\ U[m][i].won = T[m][i].won
            \/ /\ listing[m] \notin Outcomes
               /\ \A i \in DOMAIN U[m] :
                    \/ i \in DOMAIN T[m] /\ U[m][i] = T[m][i]
                    \/ U[m][i].won = None
  PROVE  GradesMatch(U, listing') /\ AllOrNone(U)
<1> SUFFICES ASSUME NEW m \in Markets
             PROVE  /\ \A i \in DOMAIN U[m] :
                         Graded(U[m][i]) => /\ listing'[m] \in Outcomes
                                            /\ U[m][i].won = (U[m][i].token = listing'[m])
                    /\ \A i, j \in DOMAIN U[m] : Graded(U[m][i]) => Graded(U[m][j])
  BY DEF AllOrNone, GradesMatch
<1>0. listing[m] \in Outcomes => listing'[m] = listing[m]
  BY DEF Resolved
<1>1. CASE U[m] = T[m]
  BY <1>0, <1>1 DEF GradesMatch, AllOrNone
<1>2. CASE /\ listing[m] \in Outcomes
           /\ DOMAIN U[m] = DOMAIN T[m]
           /\ \A i \in DOMAIN T[m] :
                /\ U[m][i].token = T[m][i].token
                /\ U[m][i].won = IF T[m][i].won = None
                                 THEN (T[m][i].token = listing[m]) ELSE T[m][i].won
  <2>1. ASSUME NEW i \in DOMAIN U[m] PROVE U[m][i].won = (U[m][i].token = listing[m])
    <3>1. CASE T[m][i].won = None
      BY <1>2, <3>1
    <3>2. CASE T[m][i].won # None
      BY <1>2, <3>2 DEF GradesMatch, Graded
    <3>3. QED
      BY <3>1, <3>2
  <2>2. \A i \in DOMAIN U[m] : Graded(U[m][i])
    BY <2>1, ConstantsOK DEF Graded
  <2>3. QED
    BY <1>0, <1>2, <2>1, <2>2
<1>3. CASE /\ DOMAIN U[m] = DOMAIN T[m]
           /\ \A i \in DOMAIN T[m] : U[m][i].token = T[m][i].token /\ U[m][i].won = T[m][i].won
  <2>1. \A i \in DOMAIN U[m] : Graded(U[m][i]) <=> Graded(T[m][i])
    BY <1>3 DEF Graded
  <2>2. ASSUME NEW i \in DOMAIN U[m], Graded(U[m][i])
        PROVE  /\ listing'[m] \in Outcomes
               /\ U[m][i].won = (U[m][i].token = listing'[m])
    <3>1. /\ listing[m] \in Outcomes
          /\ T[m][i].won = (T[m][i].token = listing[m])
      BY <1>3, <2>1, <2>2 DEF GradesMatch
    <3>2. U[m][i].token = T[m][i].token /\ U[m][i].won = T[m][i].won
      BY <1>3
    <3>3. QED
      BY <1>0, <3>1, <3>2
  <2>3. QED
    BY <1>3, <2>1, <2>2 DEF AllOrNone
<1>4. CASE /\ listing[m] \notin Outcomes
           /\ \A i \in DOMAIN U[m] :
                \/ i \in DOMAIN T[m] /\ U[m][i] = T[m][i]
                \/ U[m][i].won = None
  <2>1. \A i \in DOMAIN T[m] : ~Graded(T[m][i])
    BY <1>4 DEF GradesMatch
  <2>2. \A i \in DOMAIN U[m] : ~Graded(U[m][i])
    BY <1>4, <2>1 DEF Graded
  <2>3. QED
    BY <2>2
<1>5. QED
  BY <1>1, <1>2, <1>3, <1>4

\* The grades stay right, in the committed table and in the scan's copy.
LEMMA GradeStep ==
  ASSUME TypeOK, TypeOK', GradeInv, [Next]_vars
  PROVE  GradeInv'
<1> USE DEF venueVars, scanVars, Goto
<1>1. \A m \in Markets : listing[m] \in Resolved => listing'[m] = listing[m]
  BY ListingStands
<1>2. /\ saved \in [Markets -> Seq(Sample)] /\ samples \in [Markets -> Seq(Sample)]
      /\ saved' \in [Markets -> Seq(Sample)] /\ samples' \in [Markets -> Seq(Sample)]
  BY DEF TypeOK
<1>3. SUFFICES ASSUME ~GradeInv'
      PROVE  /\ FoundStands'
             /\ GradesMatch(saved', listing') /\ AllOrNone(saved')
             /\ GradesMatch(samples', listing') /\ AllOrNone(samples')
  BY DEF GradeInv, GradesMatch, AllOrNone
<1>4. ASSUME saved' \in {saved, samples}
      PROVE  GradesMatch(saved', listing') /\ AllOrNone(saved')
  <2>1. CASE saved' = saved
    BY <1>1, <1>2, <2>1, GradedTable DEF GradeInv
  <2>2. CASE saved' = samples
    BY <1>1, <1>2, <2>2, GradedTable DEF GradeInv
  <2>3. QED
    BY <1>4, <2>1, <2>2
<1>5. ASSUME samples' \in {saved, samples}
      PROVE  GradesMatch(samples', listing') /\ AllOrNone(samples')
  <2>1. CASE samples' = saved
    BY <1>1, <1>2, <2>1, GradedTable DEF GradeInv
  <2>2. CASE samples' = samples
    BY <1>1, <1>2, <2>2, GradedTable DEF GradeInv
  <2>3. QED
    BY <1>5, <2>1, <2>2
<1>6. ASSUME UNCHANGED <<found, saved, samples>>
      PROVE  GradeInv'
  BY <1>1, <1>3, <1>4, <1>5, <1>6 DEF GradeInv, FoundStands
<1>7. CASE ScanLeagues
  <2>1. FoundStands'
    BY <1>7, LeaguesStep DEF FoundStands, ScanLeagues, Resolved, Outcomes
  <2>2. ASSUME NEW m \in Markets, samples'[m] # samples[m]
        PROVE  /\ listing[m] \notin Outcomes
               /\ \A i \in DOMAIN samples'[m] :
                    \/ i \in DOMAIN samples[m] /\ samples'[m][i] = samples[m][i]
                    \/ samples'[m][i].won = None
    <3>1. PICK R \in Seq(Sample) :
            /\ samples'[m] = samples[m] \o R
            /\ \A i \in DOMAIN R : R[i].won = None
      BY <1>7, <2>2, LeaguesStep
    <3>2. listing[m] = "open"
      BY <1>7, <2>2, LeaguesStep DEF Priceable
    <3>3. samples[m] \in Seq(Sample)
      BY <1>2
    <3>4. QED
      BY <3>1, <3>2, <3>3, Appended DEF Outcomes
  <2>3. GradesMatch(samples', listing') /\ AllOrNone(samples')
    BY <1>1, <1>2, <2>2, GradedTable DEF GradeInv
  <2>4. saved' = saved
    BY <1>7 DEF ScanLeagues
  <2>5. QED
    BY <1>3, <1>4, <2>1, <2>3, <2>4
<1>8. CASE ScanOthers
  <2>1. FoundStands'
    BY <1>8 DEF FoundStands, ScanOthers, Resolved, Outcomes, GradeInv
  <2>2. saved' \in {saved, samples} /\ samples' = samples
    BY <1>8 DEF ScanOthers
  <2>3. QED
    BY <1>3, <1>4, <1>5, <2>1, <2>2
<1>9. CASE ScanForward
  <2>1. FoundStands'
    BY <1>9 DEF ScanForward, Forget, Unseen, FoundStands, Resolved, Outcomes
  <2>2. PICK seen \in [Markets -> Listing \cup {"unseen"}] :
         /\ \A m \in Markets : seen[m] \in {found[m], listing[m]}
         /\ saved' = samples'
         /\ \A m \in Markets :
              \/ samples'[m] \in {samples[m], Grade(samples[m], seen[m])}
              \/ samples'[m] = Close(Grade(samples[m], seen[m]))
    BY <1>9, ForwardStep
  <2>3. ASSUME NEW m \in Markets, samples'[m] # samples[m]
        PROVE  \/ /\ listing[m] \in Outcomes
                  /\ DOMAIN samples'[m] = DOMAIN samples[m]
                  /\ \A i \in DOMAIN samples[m] :
                       /\ samples'[m][i].token = samples[m][i].token
                       /\ samples'[m][i].won = IF samples[m][i].won = None
                              THEN (samples[m][i].token = listing[m]) ELSE samples[m][i].won
               \/ /\ DOMAIN samples'[m] = DOMAIN samples[m]
                  /\ \A i \in DOMAIN samples[m] :
                       /\ samples'[m][i].token = samples[m][i].token
                       /\ samples'[m][i].won = samples[m][i].won
    <3> DEFINE g == Grade(samples[m], seen[m])
    <3>1. /\ samples[m] \in Seq(Sample) /\ g \in Seq(Sample)
          /\ DOMAIN g = DOMAIN samples[m]
          /\ \A i \in DOMAIN samples[m] :
               /\ g[i].token = samples[m][i].token
               /\ g[i].won = IF samples[m][i].won = None /\ seen[m] \in Outcomes
                             THEN (samples[m][i].token = seen[m]) ELSE samples[m][i].won
      BY <1>2, GradeRows
    <3>2. /\ DOMAIN samples'[m] = DOMAIN g
          /\ \A i \in DOMAIN g :
               samples'[m][i].token = g[i].token /\ samples'[m][i].won = g[i].won
      <4> HIDE DEF g
      <4>1. samples'[m] = g \/ samples'[m] = Close(g)
        BY <2>2, <2>3 DEF g
      <4>2. QED
        BY <3>1, <4>1, CloseRows
    <3>3. seen[m] \in Outcomes => listing[m] = seen[m]
      BY <2>2 DEF GradeInv, FoundStands, Resolved
    <3> HIDE DEF g
    <3>4. QED
      BY <3>1, <3>2, <3>3
  <2>4. GradesMatch(samples', listing') /\ AllOrNone(samples')
    BY <1>1, <1>2, <2>3, GradedTable DEF GradeInv
  <2>5. GradesMatch(saved', listing') /\ AllOrNone(saved')
    BY <2>2, <2>4 DEF GradesMatch, AllOrNone
  <2>6. QED
    BY <1>3, <2>1, <2>4, <2>5
<1>10. CASE ScanAbort
  <2>1. FoundStands'
    BY <1>10 DEF ScanAbort, Forget, Unseen, FoundStands, Resolved, Outcomes
  <2>2. saved' = saved /\ samples' = saved
    BY <1>10 DEF ScanAbort
  <2>3. QED
    BY <1>3, <1>4, <1>5, <2>1, <2>2
<1>11. QED
  BY <1>3, <1>6, <1>7, <1>8, <1>9, <1>10
  DEF Next, Tick, Postpone, Resolve, ScanBegin, ScanStep, vars

LEMMA GradeInvariant == Spec => [](TypeOK /\ GradeInv)
<1>1. Init => GradeInv
  BY DEF Init, GradeInv, FoundStands, GradesMatch, AllOrNone, Unseen, Resolved, Outcomes
<1>2. TypeOK /\ TypeOK' /\ GradeInv /\ [Next]_vars => GradeInv'
  BY GradeStep
<1>3. QED
  BY <1>1, <1>2, TypeCorrect, PTL DEF Spec

\* Every grade in the table is the venue's result for the sample's outcome,
\* whenever and on whose behalf the market was looked up.
THEOREM GradesAreResults == Spec => []GradedAsResolved
<1>1. TypeOK /\ GradeInv => GradedAsResolved
  BY DEF TypeOK, GradeInv, GradesMatch, GradedAsResolved
<1>2. QED
  BY <1>1, GradeInvariant, PTL

\* A market's samples are graded all at once.
THEOREM GradesComeTogether == Spec => []GradedTogether
<1>1. GradeInv => GradedTogether
  BY DEF GradeInv, AllOrNone, GradedTogether
<1>2. QED
  BY <1>1, GradeInvariant, PTL

---------------------------------------------------------------------------
(* The record.                                                             *)

LEMMA RowKeptTransitive ==
  ASSUME NEW a, NEW b, NEW c, RowKept(a, b), RowKept(b, c)
  PROVE  RowKept(a, c)
  BY DEF RowKept

LEMMA TableKeptReflexive ==
  ASSUME NEW T \in [Markets -> Seq(Sample)]
  PROVE  TableKept(T, T)
  BY LenProperties DEF TableKept, RowKept

LEMMA TableKeptTransitive ==
  ASSUME NEW S \in [Markets -> Seq(Sample)], NEW T \in [Markets -> Seq(Sample)],
         NEW U \in [Markets -> Seq(Sample)], TableKept(S, T), TableKept(T, U)
  PROVE  TableKept(S, U)
<1> SUFFICES ASSUME NEW m \in Markets
             PROVE  /\ Len(S[m]) <= Len(U[m])
                    /\ \A i \in DOMAIN S[m] : RowKept(S[m][i], U[m][i])
  BY DEF TableKept
<1>1. S[m] \in Seq(Sample) /\ T[m] \in Seq(Sample) /\ U[m] \in Seq(Sample)
  OBVIOUS
<1>2. DOMAIN S[m] \subseteq DOMAIN T[m] /\ Len(S[m]) <= Len(U[m])
  BY <1>1, LenProperties DEF TableKept
<1>3. \A i \in DOMAIN S[m] : RowKept(S[m][i], T[m][i]) /\ RowKept(T[m][i], U[m][i])
  BY <1>2 DEF TableKept
<1>4. QED
  BY <1>2, <1>3, RowKeptTransitive

\* The two steps that write samples keep the scan's copy.
LEMMA LeaguesKeep ==
  ASSUME TypeOK, ScanLeagues
  PROVE  TableKept(samples, samples')
<1> SUFFICES ASSUME NEW m \in Markets
             PROVE  /\ Len(samples[m]) <= Len(samples'[m])
                    /\ \A i \in DOMAIN samples[m] : RowKept(samples[m][i], samples'[m][i])
  BY DEF TableKept
<1>1. samples[m] \in Seq(Sample)
  BY DEF TypeOK
<1>2. CASE samples'[m] = samples[m]
  BY <1>1, <1>2, LenProperties DEF RowKept
<1>3. CASE samples'[m] # samples[m]
  <2>1. PICK R \in Seq(Sample) : samples'[m] = samples[m] \o R
    BY <1>3, LeaguesStep
  <2>2. Len(samples[m]) <= Len(samples'[m])
    BY <1>1, <2>1, Appended, LenProperties
  <2>3. \A i \in DOMAIN samples[m] : samples'[m][i] = samples[m][i]
    BY <1>1, <2>1, Appended
  <2>4. QED
    BY <2>2, <2>3 DEF RowKept
<1>4. QED
  BY <1>2, <1>3

LEMMA ForwardKeeps ==
  ASSUME TypeOK, ScanForward
  PROVE  TableKept(samples, samples')
<1> SUFFICES ASSUME NEW m \in Markets
             PROVE  /\ Len(samples[m]) <= Len(samples'[m])
                    /\ \A i \in DOMAIN samples[m] : RowKept(samples[m][i], samples'[m][i])
  BY DEF TableKept
<1>1. PICK seen \in [Markets -> Listing \cup {"unseen"}] :
        \/ samples'[m] \in {samples[m], Grade(samples[m], seen[m])}
        \/ samples'[m] = Close(Grade(samples[m], seen[m]))
  BY ForwardStep
<1> DEFINE g == Grade(samples[m], seen[m])
<1>2. /\ samples[m] \in Seq(Sample) /\ g \in Seq(Sample)
      /\ DOMAIN g = DOMAIN samples[m] /\ Len(g) = Len(samples[m])
      /\ \A i \in DOMAIN samples[m] : RowKept(samples[m][i], g[i])
  BY GradeRows DEF TypeOK, RowKept
<1> HIDE DEF g
<1>3. /\ Len(Close(g)) = Len(g)
      /\ \A i \in DOMAIN g : RowKept(g[i], Close(g)[i])
  BY <1>2, CloseRows DEF RowKept
<1>4. Len(samples[m]) <= Len(samples'[m])
  BY <1>1, <1>2, <1>3, LenProperties DEF g
<1>5. ASSUME NEW i \in DOMAIN samples[m] PROVE RowKept(samples[m][i], samples'[m][i])
  <2>1. RowKept(samples[m][i], samples[m][i])
    BY DEF RowKept
  <2>2. RowKept(samples[m][i], g[i]) /\ RowKept(samples[m][i], Close(g)[i])
    BY <1>2, <1>3, RowKeptTransitive
  <2>3. QED
    BY <1>1, <2>1, <2>2 DEF g
<1>6. QED
  BY <1>4, <1>5

\* The committed table is kept in the copy of the scan.
LEMMA KeptStep ==
  ASSUME TypeOK, TypeOK', KeptInv, [Next]_vars
  PROVE  KeptInv' /\ TableKept(saved, saved')
<1> USE DEF venueVars, scanVars, Goto
<1>1. /\ saved \in [Markets -> Seq(Sample)] /\ samples \in [Markets -> Seq(Sample)]
      /\ saved' \in [Markets -> Seq(Sample)] /\ samples' \in [Markets -> Seq(Sample)]
  BY DEF TypeOK
<1>2. ASSUME saved' = saved, TableKept(samples, samples')
      PROVE  TableKept(saved', samples') /\ TableKept(saved, saved')
  BY <1>1, <1>2, TableKeptReflexive, TableKeptTransitive DEF KeptInv
<1>3. ASSUME saved' = samples', TableKept(samples, samples')
      PROVE  TableKept(saved', samples') /\ TableKept(saved, saved')
  BY <1>1, <1>3, TableKeptReflexive, TableKeptTransitive DEF KeptInv
<1>4. TableKept(samples, samples) /\ TableKept(saved, saved)
  BY <1>1, TableKeptReflexive
<1>5. CASE ScanLeagues
  BY <1>2, <1>5, LeaguesKeep DEF ScanLeagues, KeptInv, TableKept
<1>6. CASE ScanOthers
  BY <1>2, <1>3, <1>4, <1>6 DEF ScanOthers, KeptInv, TableKept
<1>7. CASE ScanForward
  <2>1. saved' = samples'
    BY <1>7, ForwardStep
  <2>2. QED
    BY <1>3, <1>7, <2>1, ForwardKeeps DEF KeptInv, TableKept
<1>8. CASE ScanAbort
  BY <1>4, <1>8 DEF ScanAbort, KeptInv, TableKept
<1>9. CASE UNCHANGED <<saved, samples>>
  BY <1>2, <1>4, <1>9 DEF KeptInv, TableKept
<1>10. QED
  BY <1>5, <1>6, <1>7, <1>8, <1>9
  DEF Next, Tick, Postpone, Resolve, ScanBegin, ScanStep, vars

\* No scan, failure or crash drops or reorders samples, or replaces a grade or
\* a closing price once stored.
THEOREM TheRecordIsKept == Spec => RecordKept
<1>1. Init => KeptInv
  BY DEF Init, KeptInv, TableKept, RowKept
<1>2. TypeOK /\ TypeOK' /\ KeptInv /\ [Next]_vars => KeptInv' /\ TableKept(saved, saved')
  BY KeptStep
<1>3. TableKept(saved, saved') =>
        \A m \in Markets :
          /\ Len(saved[m]) <= Len(saved'[m])
          /\ \A i \in DOMAIN saved[m] :
              LET old == saved[m][i] new == saved'[m][i]
              IN /\ new.token = old.token /\ new.ask = old.ask /\ new.start = old.start
                 /\ old.won # None => new.won = old.won
                 /\ old.closing # None => new.closing = old.closing
  BY DEF TableKept, RowKept
<1>4. QED
  BY <1>1, <1>2, <1>3, TypeCorrect, PTL DEF Spec, RecordKept

---------------------------------------------------------------------------
(* The closing prices.                                                     *)

\* Rows that differ in their grades alone have the same closing facts, and
\* what was due stays due.
LEMMA SameClosed ==
  ASSUME NEW rows \in Seq(Sample), NEW new \in Seq(Sample), NEW k, NEW due, NEW dueThen,
         RowsClosed(rows, k, due), due => dueThen,
         DOMAIN new = DOMAIN rows,
         \A i \in DOMAIN rows :
            /\ new[i].token = rows[i].token /\ new[i].ask = rows[i].ask
            /\ new[i].start = rows[i].start /\ new[i].closing = rows[i].closing
  PROVE  RowsClosed(new, k, dueThen)
<1>1. \A j \in DOMAIN new : IsLast(new, j) <=> IsLast(rows, j)
  BY DEF IsLast
<1>2. QED
  BY <1>1 DEF RowsClosed

\* Fresh rows disturb nothing where nothing is priced.
LEMMA AppendedClosed ==
  ASSUME NEW rows \in Seq(Sample), NEW R \in Seq(Sample), NEW k, NEW due,
         RowsClosed(rows, k, FALSE),
         \A i \in DOMAIN R : R[i].start = k /\ R[i].closing = None
  PROVE  RowsClosed(rows \o R, k, due)
<1>1. \A i \in DOMAIN (rows \o R) :
         (rows \o R)[i].start = k /\ (rows \o R)[i].closing = None
  BY Appended DEF RowsClosed
<1>2. QED
  BY <1>1 DEF RowsClosed

\* Pricing rows that are due gives each the last ask of its outcome.
LEMMA PricedClosed ==
  ASSUME NEW rows \in Seq(Sample), NEW k, NEW due, RowsClosed(rows, k, due)
  PROVE  RowsClosed(Close(rows), k, TRUE)
<1> DEFINE new == Close(rows)
<1>1. /\ DOMAIN new = DOMAIN rows
      /\ \A i \in DOMAIN rows :
           /\ new[i].token = rows[i].token /\ new[i].ask = rows[i].ask
           /\ new[i].start = rows[i].start
           /\ new[i].closing = IF rows[i].closing = None
                               THEN LastAsk(rows, rows[i].token) ELSE rows[i].closing
  BY CloseRows
<1> HIDE DEF new
<1>2. \A j \in DOMAIN new : IsLast(new, j) <=> IsLast(rows, j)
  BY <1>1 DEF IsLast
<1>3. ASSUME NEW i \in DOMAIN new, NEW j \in DOMAIN new,
             new[i].token = new[j].token, IsLast(new, j)
      PROVE  new[i].closing = new[j].ask
  <2>1. rows[i].token = rows[j].token /\ IsLast(rows, j)
    BY <1>1, <1>2, <1>3
  <2>2. LastAsk(rows, rows[j].token) = rows[j].ask
    BY <1>1, <2>1, LastAskOfLast
  <2>3. CASE rows[i].closing = None
    BY <1>1, <2>1, <2>2, <2>3
  <2>4. CASE rows[i].closing # None
    BY <1>1, <2>1, <2>4 DEF RowsClosed
  <2>5. QED
    BY <2>3, <2>4
<1>4. \A i \in DOMAIN new : new[i].start = k
  BY <1>1 DEF RowsClosed
<1>5. RowsClosed(new, k, TRUE)
  BY <1>3, <1>4 DEF RowsClosed
<1>6. QED
  BY <1>5 DEF new

\* A market that has not moved had not moved before, and what was due is.
LEMMA Unmoved ==
  ASSUME TypeOK, now <= clock, [Next]_vars, NEW m \in Markets, moves'[m] = 0
  PROVE  moves[m] = 0 /\ kickoff'[m] = kickoff[m] /\ (GameDue(m) => GameDue(m)')
<1> USE DEF venueVars, scanVars, Goto
<1>1. /\ kickoff[m] \in Kickoffs \cup {None} /\ moves[m] \in Nat
      /\ clock \in Int /\ now \in Int /\ SettleAfter \in Int
  BY ConstantsOK DEF TypeOK, Times
<1>2. \A k \in Kickoffs : k \in Int
  BY ConstantsOK DEF Kickoffs
<1>3. ASSUME NEW n \in Markets, NEW t \in Kickoffs, Postpone(n, t)
      PROVE  moves[m] = 0 /\ kickoff'[m] = kickoff[m] /\ clock' = clock /\ now' = now /\ pc' = pc
  BY <1>1, <1>3 DEF Postpone, TypeOK
<1>4. CASE UNCHANGED <<moves, kickoff>> /\ clock' \in {clock, clock + 1}
           /\ (pc' = "idle" \/ (now' = now /\ pc # "idle"))
  BY <1>1, <1>2, <1>4 DEF GameDue
<1>5. CASE ScanBegin
  BY <1>1, <1>2, <1>5 DEF ScanBegin, GameDue
<1>6. CASE UNCHANGED <<moves, kickoff, pc, now>> /\ clock' \in {clock, clock + 1}
  BY <1>1, <1>2, <1>6 DEF GameDue
<1>7. CASE ScanLeagues \/ ScanOthers \/ ScanForward \/ ScanAbort
  BY <1>4, <1>7 DEF ScanLeagues, ScanOthers, ScanForward, ScanAbort
<1>8. CASE Tick \/ (\E n \in Markets, l \in Resolved : Resolve(n, l)) \/ UNCHANGED vars
  BY <1>6, <1>8 DEF Tick, Resolve, vars
<1>9. CASE \E n \in Markets, t \in Kickoffs : Postpone(n, t)
  BY <1>3, <1>9 DEF GameDue
<1>10. QED
  BY <1>5, <1>7, <1>8, <1>9 DEF Next, ScanStep

LEMMA CloseStep ==
  ASSUME TypeOK, TypeOK', CloseInv, [Next]_vars
  PROVE  CloseInv'
<1> USE DEF venueVars, scanVars, Goto
<1>1. now' <= clock'
  BY ConstantsOK DEF TypeOK, Times, CloseInv, Next, Tick, Postpone, Resolve, ScanBegin,
     ScanStep, ScanLeagues, ScanOthers, ScanForward, ScanAbort, Forget, vars
<1> SUFFICES ASSUME NEW m \in Markets, moves'[m] = 0
             PROVE  /\ RowsClosed(saved'[m], kickoff[m], GameDue(m)')
                    /\ RowsClosed(samples'[m], kickoff[m], GameDue(m)')
  BY <1>1, Unmoved DEF CloseInv, RowsClosed
<1>2. /\ moves[m] = 0 /\ kickoff'[m] = kickoff[m]
      /\ GameDue(m) => GameDue(m)'
  BY Unmoved DEF CloseInv
<1>3. /\ RowsClosed(saved[m], kickoff[m], GameDue(m))
      /\ RowsClosed(samples[m], kickoff[m], GameDue(m))
      /\ saved[m] \in Seq(Sample) /\ samples[m] \in Seq(Sample)
  BY <1>2 DEF CloseInv, TypeOK
<1>4. /\ RowsClosed(saved[m], kickoff[m], GameDue(m)')
      /\ RowsClosed(samples[m], kickoff[m], GameDue(m)')
  BY <1>2, <1>3 DEF RowsClosed
<1>5. CASE saved'[m] \in {saved[m], samples[m]} /\ samples'[m] \in {saved[m], samples[m]}
  BY <1>4, <1>5
<1>6. CASE ScanLeagues
  <2>1. saved' = saved /\ pc = "leagues"
    BY <1>6 DEF ScanLeagues
  <2>2. CASE samples'[m] # samples[m]
    <3>1. PICK R \in Seq(Sample) :
            /\ samples'[m] = samples[m] \o R
            /\ \A i \in DOMAIN R : R[i].start = kickoff[m] /\ R[i].closing = None
      BY <1>6, <2>2, LeaguesStep
    <3>2. kickoff[m] = None \/ kickoff[m] > now
      BY <1>6, <2>2, LeaguesStep DEF Priceable
    <3>3. ~GameDue(m)
      BY <2>1, <3>2, ConstantsOK DEF GameDue, TypeOK, Times, Kickoffs
    <3>4. RowsClosed(samples[m], kickoff[m], FALSE)
      BY <1>3, <3>3 DEF RowsClosed
    <3>5. RowsClosed(samples'[m], kickoff[m], GameDue(m)')
      BY <1>3, <3>1, <3>4, AppendedClosed
    <3>6. QED
      BY <1>4, <2>1, <3>5
  <2>3. QED
    BY <1>5, <2>1, <2>2
<1>7. CASE ScanForward
  <2>1. PICK seen \in [Markets -> Listing \cup {"unseen"}] :
          /\ saved' = samples'
          /\ \/ samples'[m] \in {samples[m], Grade(samples[m], seen[m])}
             \/ /\ Due(m)
                /\ samples'[m] = Close(Grade(samples[m], seen[m]))
    BY <1>7, ForwardStep
  <2> DEFINE g == Grade(samples[m], seen[m])
  <2>2. g \in Seq(Sample) /\ RowsClosed(g, kickoff[m], GameDue(m)')
    <3>1. /\ g \in Seq(Sample) /\ DOMAIN g = DOMAIN samples[m]
          /\ \A i \in DOMAIN samples[m] :
               /\ g[i].token = samples[m][i].token /\ g[i].ask = samples[m][i].ask
               /\ g[i].start = samples[m][i].start /\ g[i].closing = samples[m][i].closing
      BY <1>3, GradeRows
    <3> HIDE DEF g
    <3>2. QED
      BY <1>3, <1>4, <3>1, SameClosed
  <2> HIDE DEF g
  <2>3. ASSUME Due(m) PROVE GameDue(m)'
    <3>1. PICK i \in DOMAIN samples[m] : /\ samples[m][i].start # None
                                        /\ samples[m][i].start + SettleAfter <= now
      BY <2>3 DEF Due
    <3>2. kickoff[m] # None /\ kickoff[m] + SettleAfter <= now
      BY <1>3, <3>1 DEF RowsClosed
    <3>3. kickoff[m] \in Int /\ now \in Int /\ clock \in Int /\ SettleAfter \in Int
      BY <3>2, ConstantsOK DEF TypeOK, Times, Kickoffs
    <3>4. clock' = clock /\ pc' = "idle"
      BY <1>7 DEF ScanForward
    <3>5. QED
      BY <1>2, <3>2, <3>3, <3>4 DEF GameDue, CloseInv
  <2>4. ASSUME Due(m) PROVE RowsClosed(Close(g), kickoff[m], GameDue(m)')
    <3>1. RowsClosed(Close(g), kickoff[m], TRUE)
      BY <2>2, PricedClosed
    <3>2. GameDue(m)'
      BY <2>3, <2>4
    <3>3. QED
      BY <3>1, <3>2 DEF RowsClosed
  <2>5. RowsClosed(samples'[m], kickoff[m], GameDue(m)')
    BY <1>4, <2>1, <2>2, <2>4 DEF g
  <2>6. QED
    BY <2>1, <2>5
<1>8. CASE ScanOthers \/ ScanAbort
  BY <1>5, <1>8 DEF ScanOthers, ScanAbort
<1>9. QED
  BY <1>5, <1>6, <1>7, <1>8
  DEF Next, Tick, Postpone, Resolve, ScanBegin, ScanStep, vars

\* The closing price of a sample is the last ask recorded for its outcome, as
\* long as the kickoff has not moved.
THEOREM ClosingIsTheLastAsk == Spec => []ClosingIsLastAsk
<1>1. Init => CloseInv
  BY ConstantsOK DEF Init, CloseInv, RowsClosed
<1>2. TypeOK /\ TypeOK' /\ CloseInv /\ [Next]_vars => CloseInv'
  BY CloseStep
<1>3. TypeOK /\ CloseInv => ClosingIsLastAsk
  <2> SUFFICES ASSUME TypeOK, CloseInv, NEW m \in Markets, moves[m] = 0,
                      NEW i \in DOMAIN saved[m], NEW j \in DOMAIN saved[m],
                      {k \in DOMAIN saved[m] : k > j /\ saved[m][k].token = saved[m][j].token} = {},
                      saved[m][i].closing # None, saved[m][i].token = saved[m][j].token
               PROVE  saved[m][i].closing = saved[m][j].ask
    BY DEF ClosingIsLastAsk
  <2>1. DOMAIN saved[m] \subseteq Int
    BY DEF TypeOK
  <2>2. IsLast(saved[m], j)
    BY <2>1 DEF IsLast
  <2>3. QED
    BY <2>2 DEF CloseInv, RowsClosed
<1>4. QED
  BY <1>1, <1>2, <1>3, TypeCorrect, PTL DEF Spec

============================================================================
