--------------------------- MODULE BacktestProofs ---------------------------
(***************************************************************************)
(* Theorems about the back-test harvest, for every history of markets and  *)
(* trades, every COMMIT_EVERY and every way the runs are cut off, and      *)
(* about the bake-off, for every table of samples and every shuffle.       *)
(***************************************************************************)
EXTENDS Harvest, Bakeoff, NumberLemmas, FiniteSetTheorems, TLAPS

---------------------------------------------------------------------------
(* Closing trades.                                                         *)

LEMMA HistoryType ==
  /\ Len(History) \in Nat /\ DOMAIN History = 1..Len(History)
  /\ \A i \in DOMAIN History :
        /\ History[i].trades \in Seq(Trades) /\ History[i].id \in HistoryIds
        /\ \A j \in DOMAIN History : History[i].id = History[j].id => i = j
  /\ TradeLimit \in Nat \ {0} /\ CommitEvery \in Nat \ {0} /\ Limits \subseteq Nat \cup {None}
  /\ None \notin Int /\ None \notin Trades
<1> DEFINE Market == [id : HistoryIds, kickoff : Int, winner : OutcomeIndexes,
                      trades : Seq(Trades)]
<1>1. History \in Seq(Market)
  BY HarvestAssumption
<1>2. \A i \in DOMAIN History : History[i] \in Market
  <2> HIDE DEF Market
  <2>1. QED
    BY <1>1
<1>3. \A m \in Market : m.trades \in Seq(Trades) /\ m.id \in HistoryIds
  OBVIOUS
<1>4. Len(History) \in Nat /\ DOMAIN History = 1..Len(History)
  <2> HIDE DEF Market
  <2>1. QED
    BY <1>1
<1>5. QED
  BY <1>2, <1>3, <1>4, HarvestAssumption

LEMMA PregameIsSeen ==
  ASSUME NEW m, NEW side
  PROVE  Pregame(m, side) = SeenBeforeGame(m, side)
BY DEF Pregame, Returned, SeenBeforeGame, BeforeGame

\* A side that traded before the game closes at the latest of those trades.
LEMMA ClosesAtTheLatest ==
  ASSUME NEW i \in DOMAIN History, NEW side, SeenBeforeGame(History[i], side) # {}
  PROVE  /\ ClosingTrade(History[i], side) # None
         /\ \E k \in SeenBeforeGame(History[i], side) :
               /\ ClosingTrade(History[i], side) = History[i].trades[k]
               /\ \A j \in SeenBeforeGame(History[i], side) :
                     History[i].trades[j].when <= History[i].trades[k].when
<1> DEFINE trades == History[i].trades
           P == SeenBeforeGame(History[i], side)
           latest == {k \in P : \A j \in P : trades[j].when <= trades[k].when}
<1>1. trades \in Seq(Trades)
  BY HistoryType
<1> HIDE DEF trades
<1>2. Len(trades) \in Nat /\ DOMAIN trades = 1..Len(trades)
      /\ \A k \in DOMAIN trades : trades[k] \in Trades
  BY <1>1
<1>3. P \in SUBSET (1..Len(trades)) /\ P # {}
  BY <1>2 DEF SeenBeforeGame, BeforeGame, trades
<1>4. \A k \in P : trades[k] \in Trades
  BY <1>2, <1>3
<1> HIDE DEF P
<1>5. \E k \in P : \A j \in P : trades[j].when <= trades[k].when
  <2> DEFINE value == [k \in P |-> trades[k].when]
  <2>1. \A k \in P : value[k] = trades[k].when /\ value[k] \in Int
    BY <1>4 DEF Trades
  <2> HIDE DEF value
  <2>2. \E k \in P : \A j \in P : value[j] <= value[k]
    BY <1>2, <1>3, <2>1, HasGreatestValue
  <2>3. QED
    BY <2>1, <2>2
<1>6. latest # {} /\ latest \in SUBSET Nat
  <2>1. P \subseteq Nat
    BY <1>2, <1>3
  <2>2. QED
    BY <1>5, <2>1
<1>7. Min(latest) \in latest
  <2> HIDE DEF latest
  <2>1. QED
    BY <1>6, MinIsLeast
<1>8. ClosingTrade(History[i], side) = trades[Min(latest)]
  BY <1>6, PregameIsSeen DEF ClosingTrade, P, trades
<1>9. Min(latest) \in P /\ \A j \in P : trades[j].when <= trades[Min(latest)].when
  BY <1>7
<1> HIDE DEF latest
<1>10. trades[Min(latest)] # None
  BY <1>4, <1>9, HistoryType
<1>11. QED
  BY <1>8, <1>9, <1>10 DEF P, trades

LEMMA ClosesIfTraded ==
  ASSUME NEW i \in DOMAIN History, NEW side
  PROVE  ClosingTrade(History[i], side) # None <=> SeenBeforeGame(History[i], side) # {}
<1>1. SeenBeforeGame(History[i], side) = {} => ClosingTrade(History[i], side) = None
  BY PregameIsSeen DEF ClosingTrade
<1>2. QED
  BY <1>1, ClosesAtTheLatest

---------------------------------------------------------------------------
(* The samples of a market.                                                *)

\* The sample of a side, the sides that have one, and the samples run number r
\* stores for the i-th market.
SampleOf(i, s, r) ==
    [market |-> History[i].id, side |-> s, price |-> ClosingTrade(History[i], s).price,
     trades |-> Cardinality(Pregame(History[i], s)), won |-> History[i].winner = s, run |-> r]
TradedSides(i) == {s \in OutcomeIndexes : SeenBeforeGame(History[i], s) # {}}
Batch(i, r) == {SampleOf(i, s, r) : s \in TradedSides(i)}

LEMMA SamplesAreABatch ==
  ASSUME NEW i \in DOMAIN History
  PROVE  SamplesOf(History[i]) = Batch(i, harvests)
<1>1. {x \in OutcomeIndexes : ClosingTrade(History[i], x) # None} = TradedSides(i)
  BY ClosesIfTraded DEF TradedSides
<1>2. QED
  BY <1>1 DEF SamplesOf, Batch, SampleOf

\* A batch has a sample for each side that traded, at most two.
LEMMA BatchCounted ==
  ASSUME NEW i, NEW r
  PROVE  /\ IsFiniteSet(Batch(i, r)) /\ IsFiniteSet(TradedSides(i))
         /\ Cardinality(Batch(i, r)) = Cardinality(TradedSides(i))
         /\ \A s \in Batch(i, r) : s.market = History[i].id
         /\ {s.side : s \in Batch(i, r)} = TradedSides(i)
<1>1. IsFiniteSet({0} \cup {1}) /\ TradedSides(i) \subseteq {0} \cup {1}
  BY FS_AddElement, FS_Singleton DEF TradedSides, OutcomeIndexes
<1>2. IsFiniteSet(TradedSides(i))
  BY <1>1, FS_Subset
<1> DEFINE f == [s \in TradedSides(i) |-> SampleOf(i, s, r)]
<1>3. \A s, u \in TradedSides(i) : SampleOf(i, s, r) = SampleOf(i, u, r) => s = u
  BY DEF SampleOf
<1>4. f \in Bijection(TradedSides(i), Batch(i, r))
  <2>1. f \in [TradedSides(i) -> Batch(i, r)]
    BY DEF Batch
  <2>2. \A s, u \in TradedSides(i) : f[s] = f[u] => s = u
    BY <1>3
  <2>3. \A x \in Batch(i, r) : \E s \in TradedSides(i) : f[s] = x
    BY DEF Batch
  <2> HIDE DEF f
  <2>4. QED
    BY <2>1, <2>2, <2>3 DEF Bijection, Injection, Surjection, IsInjective
<1>5. IsFiniteSet(Batch(i, r)) /\ Cardinality(Batch(i, r)) = Cardinality(TradedSides(i))
  <2>1. ExistsBijection(TradedSides(i), Batch(i, r))
    BY <1>4 DEF ExistsBijection
  <2>2. QED
    BY <1>2, <2>1, FS_Bijection
<1>6. \A s \in TradedSides(i) :
         SampleOf(i, s, r).market = History[i].id /\ SampleOf(i, s, r).side = s
  BY DEF SampleOf
<1>7. QED
  BY <1>2, <1>5, <1>6 DEF Batch

---------------------------------------------------------------------------
(* The inductive invariant.                                                *)

\* What a table has of a market is one run's batch.
Whole(table) ==
    \A x \in table : \E i \in DOMAIN History, r \in Nat :
        x \in Batch(i, r) /\ {y \in table : y.market = x.market} = Batch(i, r)

Apart(a, b) == \A x \in a, y \in b : x.market # y.market

\* The i-th market has nothing to store, or it is stored or added.
Accounted(i, table) ==
    (\A side \in OutcomeIndexes : SeenBeforeGame(History[i], side) = {})
    \/ \E s \in table : s.market = History[i].id

HarvestTypes ==
    /\ harvestPc \in {"idle", "walking"} /\ walked \in 0..Len(History)
    /\ stored \in Nat /\ lastCommit \in Nat /\ harvests \in Nat

\* What is committed and what is added is whole, and of different markets.
WholeInv ==
    /\ Whole(samples) /\ Whole(added) /\ Apart(samples, added)
    /\ harvestPc = "idle" => added = {}

\* While a run walks: it knows every market of both, and only those and such as
\* have nothing to store; what is added is what was stored since the last commit,
\* fewer than a commit's worth, and nothing if the limit is reached.
WalkInv ==
    harvestPc = "walking" =>
        /\ \A s \in samples \cup added : s.market \in known
        /\ \A i \in DOMAIN History : History[i].id \in known => Accounted(i, samples \cup added)
        /\ IsFiniteSet(added) /\ stored = lastCommit + Cardinality(added)
        /\ Cardinality(added) < CommitEvery
        /\ limit # None /\ stored >= limit => added = {}
        /\ resolvedAtStart \subseteq resolved
        /\ \A i \in 1..walked :
              History[i].id \notin resolvedAtStart \/ Accounted(i, samples \cup added)

HarvestInv == HarvestTypes /\ WholeInv /\ WalkInv

\* Tables of different markets are whole together.
LEMMA WholeTogether ==
  ASSUME NEW a, NEW b, Whole(a), Whole(b), Apart(a, b)
  PROVE  Whole(a \cup b)
<1>1. ASSUME NEW x \in a
      PROVE  {y \in a \cup b : y.market = x.market} = {y \in a : y.market = x.market}
  BY DEF Apart
<1>2. ASSUME NEW x \in b
      PROVE  {y \in a \cup b : y.market = x.market} = {y \in b : y.market = x.market}
  BY DEF Apart
<1>3. QED
  BY <1>1, <1>2 DEF Whole

LEMMA BatchWhole ==
  ASSUME NEW i \in DOMAIN History, NEW r \in Nat
  PROVE  Whole(Batch(i, r))
<1>1. ASSUME NEW x \in Batch(i, r)
      PROVE  {y \in Batch(i, r) : y.market = x.market} = Batch(i, r)
  BY BatchCounted
<1>2. QED
  BY <1>1 DEF Whole

\* A batch that is empty has nothing to store.
LEMMA BatchAccounts ==
  ASSUME NEW i \in DOMAIN History, NEW r, NEW table, Batch(i, r) \subseteq table
  PROVE  Accounted(i, table)
<1>1. CASE TradedSides(i) = {}
  BY <1>1 DEF TradedSides, Accounted
<1>2. CASE TradedSides(i) # {}
  <2>1. PICK s \in TradedSides(i) : SampleOf(i, s, r) \in table
    BY <1>2 DEF Batch
  <2>2. QED
    BY <2>1 DEF Accounted, SampleOf
<1>3. QED
  BY <1>1, <1>2

---------------------------------------------------------------------------
(* The steps.                                                              *)

LEMMA StartsStep ==
  ASSUME HarvestInv, NEW n \in Limits, HarvestStarts(n)
  PROVE  HarvestInv'
<1>1. /\ harvestPc' = "walking" /\ added' = {} /\ samples' = samples /\ walked' = 0
      /\ stored' = 0 /\ lastCommit' = 0 /\ known' = {s.market : s \in samples}
      /\ resolvedAtStart' = resolved' /\ harvests' = harvests + 1
  BY DEF HarvestStarts, KnownInTable
<1>2. IsFiniteSet(added') /\ Cardinality(added') = 0
  BY <1>1, FS_EmptySet
<1>3. HarvestTypes'
  BY <1>1, HistoryType DEF HarvestInv, HarvestTypes
<1>4. WholeInv'
  BY <1>1 DEF HarvestInv, WholeInv, Whole, Apart
<1>5. WalkInv'
  <2>1. \A s \in samples' \cup added' : s.market \in known'
    BY <1>1
  <2>2. ASSUME NEW i \in DOMAIN History, History[i].id \in known'
        PROVE  Accounted(i, samples' \cup added')
    BY <1>1, <2>2 DEF Accounted
  <2>3. stored' = lastCommit' + Cardinality(added') /\ Cardinality(added') < CommitEvery
    BY <1>1, <1>2, HistoryType
  <2>4. 1..walked' = {}
    BY <1>1
  <2>5. QED
    BY <1>1, <1>2, <2>1, <2>2, <2>3, <2>4 DEF WalkInv, Accounted
<1>6. QED
  BY <1>3, <1>4, <1>5 DEF HarvestInv

\* A market that is passed over is not resolved, or it is known.
LEMMA PassedStep ==
  ASSUME HarvestInv, MarketPassedOver
  PROVE  HarvestInv'
<1>1. /\ harvestPc = "walking" /\ walked < Len(History) /\ walked' = walked + 1
      /\ History[walked + 1].id \notin resolved \/ History[walked + 1].id \in known
      /\ UNCHANGED <<resolved, harvestPc, known, limit, stored, lastCommit, added, samples,
                     resolvedAtStart, harvests>>
  BY DEF MarketPassedOver, InWalk, Wanted, NextMarket
<1>2. /\ Len(History) \in Nat /\ walked + 1 \in DOMAIN History /\ walked + 1 \in 0..Len(History)
      /\ \A i \in 1..(walked + 1) : i \in 1..walked \/ i = walked + 1
  BY <1>1, HistoryType DEF HarvestInv, HarvestTypes
<1>3. HarvestTypes' /\ WholeInv'
  BY <1>1, <1>2 DEF HarvestInv, HarvestTypes, WholeInv, Whole, Apart
<1>4. ASSUME NEW i \in 1..(walked + 1)
      PROVE  History[i].id \notin resolvedAtStart \/ Accounted(i, samples \cup added)
  <2>1. CASE i \in 1..walked
    BY <1>1, <2>1 DEF HarvestInv, WalkInv
  <2>2. CASE i = walked + 1
    BY <1>1, <1>2, <2>2 DEF HarvestInv, WalkInv
  <2>3. QED
    BY <1>2, <2>1, <2>2
<1>5. WalkInv'
  BY <1>1, <1>4 DEF HarvestInv, WalkInv, Accounted
<1>6. QED
  BY <1>3, <1>5 DEF HarvestInv

\* What a market adds is whole, of a market that was not known, and it is
\* committed once it is a commit's worth.
LEMMA HarvestedStep ==
  ASSUME HarvestInv, MarketHarvested
  PROVE  HarvestInv'
<1> DEFINE new == SamplesOf(NextMarket)
           n == stored + Cardinality(new)
           full == limit # None /\ n >= limit
           commit == new # {} /\ (CommitDue(n) \/ full)
           m == walked + 1
<1>1. /\ harvestPc = "walking" /\ walked < Len(History) /\ walked' = walked + 1
      /\ NextMarket.id \in resolved /\ NextMarket.id \notin known
      /\ known' = known \cup {NextMarket.id} /\ stored' = n
      /\ samples' = (IF commit THEN samples \cup added \cup new ELSE samples)
      /\ added' = (IF commit THEN {} ELSE added \cup new)
      /\ lastCommit' = (IF commit THEN n ELSE lastCommit)
      /\ harvestPc' = (IF full THEN "idle" ELSE "walking")
      /\ UNCHANGED <<resolved, resolvedAtStart, harvests>>
  BY DEF MarketHarvested, InWalk, Wanted
<1>2. /\ Len(History) \in Nat /\ m \in DOMAIN History /\ m \in 0..Len(History)
      /\ \A i \in 1..m : i \in 1..walked \/ i = m
      /\ NextMarket = History[m] /\ harvests \in Nat
  BY <1>1, HistoryType DEF HarvestInv, HarvestTypes, NextMarket
<1>3. new = Batch(m, harvests)
  BY <1>2, SamplesAreABatch
<1>4. /\ IsFiniteSet(new) /\ Cardinality(new) \in Nat
      /\ \A s \in new : s.market = History[m].id
      /\ Whole(new) /\ (new = {} => Cardinality(new) = 0) /\ (new # {} => Cardinality(new) # 0)
  BY <1>2, <1>3, BatchCounted, BatchWhole, FS_CardinalityType, FS_EmptySet
<1>5. /\ Whole(samples) /\ Whole(added) /\ Apart(samples, added)
      /\ \A s \in samples \cup added : s.market \in known
      /\ IsFiniteSet(added) /\ stored = lastCommit + Cardinality(added)
      /\ Cardinality(added) < CommitEvery /\ Cardinality(added) \in Nat
      /\ stored \in Nat /\ lastCommit \in Nat
  BY <1>1, FS_CardinalityType DEF HarvestInv, WholeInv, WalkInv, HarvestTypes
<1>6. Apart(samples, new) /\ Apart(added, new) /\ added \cap new = {}
  BY <1>1, <1>2, <1>4, <1>5 DEF Apart
<1>7. Whole(added \cup new) /\ Apart(samples, added \cup new)
      /\ Whole(samples \cup (added \cup new))
  <2>1. Whole(added \cup new)
    BY <1>4, <1>5, <1>6, WholeTogether
  <2>2. Apart(samples, added \cup new)
    BY <1>5, <1>6 DEF Apart
  <2>3. QED
    BY <1>5, <2>1, <2>2, WholeTogether
<1>8. /\ IsFiniteSet(added \cup new)
      /\ Cardinality(added \cup new) = Cardinality(added) + Cardinality(new)
  BY <1>4, <1>5, <1>6, FS_Union, FS_EmptySet
<1>9. n \in Nat /\ stored' \in Nat /\ lastCommit' \in Nat
  BY <1>1, <1>4, <1>5
<1>10. ~commit /\ full => added \cup new = {}
  BY <1>1, <1>4, <1>5 DEF HarvestInv, WalkInv
<1>11. samples' \cup added' = samples \cup added \cup new
  BY <1>1
<1>12. UNCHANGED limit
  BY DEF MarketHarvested
<1>13. ~commit => Cardinality(added \cup new) < CommitEvery
  <2>1. CASE new = {}
    BY <1>5, <2>1
  <2>2. CASE new # {} /\ ~CommitDue(n)
    BY <1>4, <1>5, <1>8, <1>9, <2>2, HistoryType DEF CommitDue
  <2>3. QED
    BY <2>1, <2>2
<1>14. ASSUME NEW i \in DOMAIN History, Accounted(i, samples \cup added)
       PROVE  Accounted(i, samples \cup added \cup new)
  BY <1>14 DEF Accounted
<1>15. Accounted(m, samples \cup added \cup new)
  BY <1>2, <1>3, BatchAccounts
<1> HIDE DEF new, full
<1>16. HarvestTypes'
  BY <1>1, <1>2, <1>9 DEF HarvestTypes
<1>17. WholeInv'
  <2>1. CASE commit
    <3>1. samples' = samples \cup (added \cup new) /\ added' = {}
      BY <1>1, <2>1
    <3>2. QED
      BY <1>7, <3>1 DEF WholeInv, Whole, Apart
  <2>2. CASE ~commit
    <3>1. samples' = samples /\ added' = added \cup new /\ (harvestPc' = "idle" => added' = {})
      BY <1>1, <1>10, <2>2
    <3>2. QED
      BY <1>5, <1>7, <3>1 DEF WholeInv, Whole, Apart
  <2>3. QED
    BY <2>1, <2>2
<1>18. ASSUME harvestPc' = "walking"
       PROVE  /\ \A s \in samples' \cup added' : s.market \in known'
              /\ \A i \in DOMAIN History :
                    History[i].id \in known' => Accounted(i, samples' \cup added')
              /\ \A i \in 1..walked' :
                    History[i].id \notin resolvedAtStart \/ Accounted(i, samples' \cup added')
  <2>1. \A s \in samples \cup added \cup new : s.market \in known'
    BY <1>1, <1>2, <1>4, <1>5
  <2>2. ASSUME NEW i \in DOMAIN History, History[i].id \in known'
        PROVE  Accounted(i, samples \cup added \cup new)
    <3>1. CASE i = m
      BY <1>15, <3>1
    <3>2. CASE i # m
      <4>1. History[i].id \in known
        BY <1>1, <1>2, <2>2, <3>2, HistoryType
      <4>2. QED
        BY <1>1, <1>14, <4>1 DEF HarvestInv, WalkInv
    <3>3. QED
      BY <3>1, <3>2
  <2>3. ASSUME NEW i \in 1..m
        PROVE  History[i].id \notin resolvedAtStart \/ Accounted(i, samples \cup added \cup new)
    <3>1. i \in DOMAIN History
      BY <1>2, HistoryType
    <3>2. CASE i = m
      BY <1>15, <3>2
    <3>3. CASE i \in 1..walked
      BY <1>1, <1>14, <3>1, <3>3 DEF HarvestInv, WalkInv
    <3>4. QED
      BY <1>2, <3>2, <3>3
  <2>4. QED
    BY <1>1, <1>11, <2>1, <2>2, <2>3
<1>19. ASSUME harvestPc' = "walking"
       PROVE  /\ IsFiniteSet(added') /\ stored' = lastCommit' + Cardinality(added')
              /\ Cardinality(added') < CommitEvery
              /\ limit' # None /\ stored' >= limit' => added' = {}
  <2>1. ~full
    BY <1>1, <1>19
  <2>2. CASE commit
    <3>1. added' = {} /\ stored' = n /\ lastCommit' = n
      BY <1>1, <2>2
    <3>2. Cardinality(added') = 0 /\ IsFiniteSet(added')
      BY <3>1, FS_EmptySet
    <3>3. QED
      BY <1>9, <3>1, <3>2, HistoryType
  <2>3. CASE ~commit
    <3>1. added' = added \cup new /\ stored' = n /\ lastCommit' = lastCommit
      BY <1>1, <2>3
    <3>2. ~(limit # None /\ n >= limit)
      BY <2>1 DEF full
    <3>3. QED
      BY <1>4, <1>5, <1>8, <1>12, <1>13, <2>3, <3>1, <3>2
  <2>4. QED
    BY <2>2, <2>3
<1>20. WalkInv'
  BY <1>1, <1>18, <1>19 DEF HarvestInv, WalkInv, Accounted
<1>21. QED
  BY <1>16, <1>17, <1>20 DEF HarvestInv

\* A run that is cut off, or ends, leaves what it added behind or commits it whole.
CutOff ==
    /\ harvestPc' = "idle" /\ added' = {}
    /\ samples' \in {samples, samples \cup added}
    /\ UNCHANGED <<walked, stored, lastCommit, harvests>>

LEMMA CutOffStep ==
  ASSUME HarvestInv, CutOff
  PROVE  HarvestInv'
<1>1. Whole(samples \cup added) /\ Whole(samples)
  BY WholeTogether DEF HarvestInv, WholeInv
<1>2. Whole(samples') /\ Whole(added') /\ Apart(samples', added')
  BY <1>1 DEF CutOff, Whole, Apart
<1>3. WholeInv' /\ WalkInv'
  BY <1>2 DEF CutOff, WholeInv, WalkInv, Whole, Apart
<1>4. HarvestTypes'
  BY DEF CutOff, HarvestInv, HarvestTypes
<1>5. QED
  BY <1>3, <1>4 DEF HarvestInv

LEMMA NothingMoves ==
  ASSUME HarvestInv,
         UNCHANGED <<harvestPc, added>>, UNCHANGED <<resolved, walked, known, limit, stored>>,
         UNCHANGED <<lastCommit, samples, resolvedAtStart, harvests>>
  PROVE  HarvestInv'
<1>1. HarvestTypes'
  BY DEF HarvestInv, HarvestTypes
<1>2. WholeInv'
  BY DEF HarvestInv, WholeInv, Whole, Apart
<1>3. WalkInv'
  BY DEF HarvestInv, WalkInv, Accounted
<1>4. QED
  BY <1>1, <1>2, <1>3 DEF HarvestInv

LEMMA LimitedStep ==
  ASSUME HarvestInv, RateLimited
  PROVE  HarvestInv'
<1>1. CASE harvestPc' = "idle"
  <2>1. CutOff
    BY <1>1 DEF RateLimited, InWalk, CutOff
  <2>2. QED
    BY <2>1, CutOffStep
<1>2. CASE harvestPc' # "idle"
  <2>1. /\ UNCHANGED <<harvestPc, added>> /\ UNCHANGED <<resolved, walked, known, limit, stored>>
        /\ UNCHANGED <<lastCommit, samples, resolvedAtStart, harvests>>
    BY <1>2 DEF RateLimited, InWalk
  <2>2. QED
    BY <2>1, NothingMoves
<1>3. QED
  BY <1>1, <1>2

LEMMA HarvestInvariant == HarvestSpec => []HarvestInv
<1>1. HarvestInit => HarvestInv
  BY HistoryType
  DEF HarvestInit, HarvestInv, HarvestTypes, WholeInv, WalkInv, Whole, Apart
<1>2. ASSUME HarvestInv, [HarvestNext]_harvestVars PROVE HarvestInv'
  <2>1. ASSUME NEW x \in HistoryIds \ resolved, MarketResolves(x) PROVE HarvestInv'
    <3>1. /\ UNCHANGED <<harvestPc, walked, known, limit, stored, lastCommit, added, samples,
                         resolvedAtStart, harvests>>
          /\ resolved \subseteq resolved'
      BY <2>1 DEF MarketResolves
    <3>2. HarvestTypes'
      BY <1>2, <3>1 DEF HarvestInv, HarvestTypes
    <3>3. WholeInv'
      BY <1>2, <3>1 DEF HarvestInv, WholeInv, Whole, Apart
    <3>4. WalkInv'
      BY <1>2, <3>1 DEF HarvestInv, WalkInv, Accounted
    <3>5. QED
      BY <3>2, <3>3, <3>4 DEF HarvestInv
  <2>2. CASE UNCHANGED harvestVars
    BY <1>2, <2>2, NothingMoves DEF harvestVars
  <2>3. ASSUME HarvestDies \/ HarvestEnds PROVE HarvestInv'
    <3>1. CutOff
      BY <2>3 DEF HarvestDies, HarvestEnds, CutOff
    <3>2. QED
      BY <1>2, <3>1, CutOffStep
  <2>4. QED
    BY <1>2, <2>1, <2>2, <2>3, StartsStep, PassedStep, HarvestedStep, LimitedStep
    DEF HarvestNext
<1>3. QED
  BY <1>1, <1>2, PTL DEF HarvestSpec

---------------------------------------------------------------------------
(* The theorems.                                                           *)

\* However the runs were cut off, a market in the table has each side seen to trade
\* before the game, once, and a loser to its winner.
THEOREM MarketsAreStoredWhole == HarvestSpec => []MarketsStoredWhole
<1>1. ASSUME HarvestInv, NEW i \in DOMAIN History
      PROVE  LET mine == {s \in samples : s.market = History[i].id}
                 traded == {side \in OutcomeIndexes : SeenBeforeGame(History[i], side) # {}}
             IN  mine # {} => /\ {s.side : s \in mine} = traded
                              /\ Cardinality(mine) = Cardinality(traded)
                              /\ \A s \in mine : s.won <=> History[i].winner = s.side
  <2> DEFINE mine == {s \in samples : s.market = History[i].id}
  <2>1. SUFFICES ASSUME mine # {}
                 PROVE  /\ {s.side : s \in mine} = TradedSides(i)
                        /\ Cardinality(mine) = Cardinality(TradedSides(i))
                        /\ \A s \in mine : s.won <=> History[i].winner = s.side
    BY DEF TradedSides
  <2>2. PICK x \in samples : x.market = History[i].id
    BY <2>1
  <2>3. PICK j \in DOMAIN History : \E r \in Nat :
           x \in Batch(j, r) /\ {y \in samples : y.market = x.market} = Batch(j, r)
    BY <1>1, <2>2 DEF HarvestInv, WholeInv, Whole
  <2>4. PICK r \in Nat :
           x \in Batch(j, r) /\ {y \in samples : y.market = x.market} = Batch(j, r)
    BY <2>3
  <2>5. j = i
    <3>1. x.market = History[j].id
      BY <2>4, BatchCounted
    <3>2. QED
      BY <2>2, <3>1, HistoryType
  <2>6. mine = Batch(i, r)
    BY <2>2, <2>4, <2>5
  <2>7. ASSUME NEW s \in Batch(i, r) PROVE s.won <=> History[i].winner = s.side
    <3>1. PICK side \in TradedSides(i) : s = SampleOf(i, side, r)
      BY DEF Batch
    <3>2. s.side = side /\ s.won = (History[i].winner = side)
      BY <3>1 DEF SampleOf
    <3>3. QED
      BY <3>2
  <2> HIDE DEF mine
  <2>8. QED
    BY <2>6, <2>7, BatchCounted
<1>2. HarvestInv => MarketsStoredWhole
  <2>1. SUFFICES ASSUME HarvestInv, NEW m \in Range(History)
                 PROVE  LET mine == {s \in samples : s.market = m.id}
                            traded == {side \in OutcomeIndexes : SeenBeforeGame(m, side) # {}}
                        IN  mine # {} => /\ {s.side : s \in mine} = traded
                                         /\ Cardinality(mine) = Cardinality(traded)
                                         /\ \A s \in mine : s.won <=> m.winner = s.side
    BY DEF MarketsStoredWhole
  <2>2. PICK i \in DOMAIN History : m = History[i]
    BY DEF Range
  <2>3. QED
    BY <1>1, <2>1, <2>2
<1>3. QED
  BY <1>2, HarvestInvariant, PTL

\* Of trades listed newest first, the latest seen before the game is the latest
\* there was: what the request cut off is older than all it returned.
LEMMA CutOffIsOlder ==
  ASSUME NEW i \in DOMAIN History, NewestFirst(History[i]), NEW side,
         NEW k \in SeenBeforeGame(History[i], side),
         \A j \in SeenBeforeGame(History[i], side) :
            History[i].trades[j].when <= History[i].trades[k].when
  PROVE  \A j \in BeforeGame(History[i], side) :
            History[i].trades[j].when <= History[i].trades[k].when
<1> DEFINE trades == History[i].trades
<1>1. trades \in Seq(Trades)
  BY HistoryType
<1> HIDE DEF trades
<1>2. DOMAIN trades = 1..Len(trades) /\ Len(trades) \in Nat
  BY <1>1
<1>3. k \in DOMAIN trades /\ k <= TradeLimit
  BY DEF SeenBeforeGame, BeforeGame, trades
<1>4. SUFFICES ASSUME NEW j \in BeforeGame(History[i], side)
               PROVE  trades[j].when <= trades[k].when
  BY DEF trades
<1>5. j \in DOMAIN trades
  BY DEF BeforeGame, trades
<1>6. CASE j <= TradeLimit
  BY <1>6 DEF SeenBeforeGame, trades
<1>7. CASE ~(j <= TradeLimit)
  <2>1. k < j
    BY <1>2, <1>3, <1>5, <1>7, HistoryType
  <2>2. QED
    BY <1>3, <1>5, <2>1 DEF NewestFirst, trades
<1>8. QED
  BY <1>6, <1>7

\* A stored closing price is that of the last trade seen before the game, which is
\* the last there was when the venue lists newest first, and the number of trades
\* stored with it is how many were seen.
THEOREM ClosesAreLastPregame == HarvestSpec => []CloseIsLastPregame
<1>1. ASSUME HarvestInv, NEW x \in samples
      PROVE  LET m == CHOOSE y \in Range(History) : y.id = x.market
                 seen == SeenBeforeGame(m, x.side)
             IN  \E k \in seen :
                    /\ m.trades[k].price = x.price
                    /\ \A j \in seen : m.trades[j].when <= m.trades[k].when
                    /\ NewestFirst(m) =>
                          \A j \in BeforeGame(m, x.side) : m.trades[j].when <= m.trades[k].when
                    /\ x.trades = Cardinality(seen)
  <2>1. PICK i \in DOMAIN History : \E r \in Nat : x \in Batch(i, r)
    BY <1>1 DEF HarvestInv, WholeInv, Whole
  <2>2. PICK r \in Nat : x \in Batch(i, r)
    BY <2>1
  <2>3. PICK s \in TradedSides(i) : x = SampleOf(i, s, r)
    BY <2>2 DEF Batch
  <2>4. /\ x.market = History[i].id /\ x.side = s
        /\ x.price = ClosingTrade(History[i], s).price
        /\ x.trades = Cardinality(SeenBeforeGame(History[i], s))
    BY <2>3, PregameIsSeen DEF SampleOf
  <2>5. (CHOOSE y \in Range(History) : y.id = x.market) = History[i]
    <3>1. History[i] \in Range(History) /\ \A y \in Range(History) : y.id = x.market => y = History[i]
      BY <2>4, HistoryType DEF Range
    <3>2. QED
      BY <2>4, <3>1
  <2>6. PICK k \in SeenBeforeGame(History[i], s) :
           /\ ClosingTrade(History[i], s) = History[i].trades[k]
           /\ \A j \in SeenBeforeGame(History[i], s) :
                 History[i].trades[j].when <= History[i].trades[k].when
    BY <2>3, ClosesAtTheLatest DEF TradedSides
  <2>7. NewestFirst(History[i]) =>
           \A j \in BeforeGame(History[i], s) :
              History[i].trades[j].when <= History[i].trades[k].when
    BY <2>6, CutOffIsOlder
  <2>8. History[i].trades[k].price = x.price
    BY <2>4, <2>6
  <2> DEFINE m == CHOOSE y \in Range(History) : y.id = x.market
  <2>9. m = History[i] /\ x.side = s
    BY <2>4, <2>5
  <2> HIDE DEF m
  <2>10. /\ k \in SeenBeforeGame(m, x.side)
         /\ m.trades[k].price = x.price
         /\ \A j \in SeenBeforeGame(m, x.side) : m.trades[j].when <= m.trades[k].when
         /\ NewestFirst(m) =>
               \A j \in BeforeGame(m, x.side) : m.trades[j].when <= m.trades[k].when
         /\ x.trades = Cardinality(SeenBeforeGame(m, x.side))
    BY <2>4, <2>6, <2>7, <2>8, <2>9
  <2>11. QED
    BY <2>10 DEF m
<1>2. HarvestInv => CloseIsLastPregame
  BY <1>1 DEF CloseIsLastPregame
<1>3. QED
  BY <1>2, HarvestInvariant, PTL

\* The table the replays read has whole markets at their closing prices.
THEOREM TheSamplesAreSound == HarvestSpec => []SamplesAreSound
BY MarketsAreStoredWhole, ClosesAreLastPregame, PTL DEF SamplesAreSound

\* A run that is cut off loses fewer than COMMIT_EVERY samples, and what it has
\* walked past is in the table or among those.
THEOREM HarvestsKeepTheirPlace == HarvestSpec => []HarvestKeepsItsPlace
<1>1. HarvestInv => HarvestKeepsItsPlace
  <2>1. SUFFICES ASSUME HarvestInv, harvestPc = "walking", NEW i \in 1..walked
                 PROVE  /\ Cardinality(added) < CommitEvery
                        /\ \/ History[i].id \notin resolvedAtStart
                           \/ \A side \in OutcomeIndexes : SeenBeforeGame(History[i], side) = {}
                           \/ \E s \in samples \cup added : s.market = History[i].id
    BY DEF HarvestKeepsItsPlace, HarvestInv, WalkInv
  <2>2. QED
    BY <2>1 DEF HarvestInv, WalkInv, Accounted
<1>2. QED
  BY <1>1, HarvestInvariant, PTL

---------------------------------------------------------------------------
(* The bake-off.                                                           *)

\* The rows a run may use are rows of the table.
TableRows(rows) ==
    /\ DOMAIN rows \in SUBSET (DOMAIN HistoryRows)
    /\ \A i \in DOMAIN rows : rows[i] = HistoryRows[i]

LEMMA HistoryRowsType ==
  /\ Len(HistoryRows) \in Nat /\ DOMAIN HistoryRows = 1..Len(HistoryRows)
  /\ \A i \in DOMAIN HistoryRows : HistoryRows[i] \in Samples
<1> DEFINE R == Samples
<1>1. HistoryRows \in Seq(R)
  BY BakeoffAssumption
<1> HIDE DEF R
<1>2. /\ Len(HistoryRows) \in Nat /\ DOMAIN HistoryRows = 1..Len(HistoryRows)
      /\ \A i \in DOMAIN HistoryRows : HistoryRows[i] \in R
  BY <1>1
<1>3. QED
  BY <1>2 DEF R

LEMMA RowsOfTable ==
  ASSUME NEW markets
  PROVE  TableRows(RowsOf(markets))
<1>1. ASSUME NEW rows, TableRows(rows), NEW D \in SUBSET (DOMAIN rows)
      PROVE  TableRows(Restrict(rows, D))
  <2>1. DOMAIN Restrict(rows, D) = D /\ \A i \in D : Restrict(rows, D)[i] = rows[i]
    BY DEF Restrict
  <2>2. QED
    BY <1>1, <2>1 DEF TableRows
<1>2. TableRows(HistoryRows)
  BY DEF TableRows
<1>3. ASSUME NEW D \in SUBSET (DOMAIN HistoryRows) PROVE TableRows(PairedOnly(Restrict(HistoryRows, D)))
  <2>1. TableRows(Restrict(HistoryRows, D))
    BY <1>1, <1>2
  <2>2. QED
    BY <1>1, <2>1 DEF PairedOnly
<1>4. QED
  BY <1>3 DEF RowsOf

\* The rules look at the rows and never at their results, so a shuffle changes
\* no rule's picks.
Reshuffled(rows, wons) == [i \in DOMAIN rows |-> [rows[i] EXCEPT !.won = wons[i]]]

LEMMA ReshuffledRows ==
  ASSUME NEW rows, TableRows(rows), NEW wons \in [DOMAIN rows -> BOOLEAN]
  PROVE  /\ DOMAIN Reshuffled(rows, wons) = DOMAIN rows
         /\ RealWons(Reshuffled(rows, wons)) = wons
         /\ \A i \in DOMAIN rows : Reshuffled(rows, wons)[i].price = rows[i].price
         /\ \A rule \in Rules : Picks(rule, Reshuffled(rows, wons)) = Picks(rule, rows)
<1> DEFINE other == Reshuffled(rows, wons)
<1>1. \A i \in DOMAIN rows : rows[i] \in Samples
  BY HistoryRowsType DEF TableRows
<1>2. DOMAIN other = DOMAIN rows /\ \A i \in DOMAIN rows : other[i] = [rows[i] EXCEPT !.won = wons[i]]
  BY DEF Reshuffled
<1> HIDE DEF other
<1>3. ASSUME NEW i \in DOMAIN rows
      PROVE  /\ other[i].won = wons[i] /\ other[i].price = rows[i].price
             /\ other[i].type = rows[i].type /\ other[i].side = rows[i].side
             /\ other[i].league = rows[i].league /\ other[i].trades = rows[i].trades
  BY <1>1, <1>2 DEF Samples
<1>4. RealWons(other) = wons
  BY <1>2, <1>3 DEF RealWons
<1>5. ASSUME NEW rule \in Rules, NEW i \in DOMAIN rows
      PROVE  Selects(rule, other[i]) = Selects(rule, rows[i])
  BY <1>3 DEF Selects, Favorite, Underdog, Liquid, Thin
<1>6. \A rule \in Rules : Picks(rule, other) = Picks(rule, rows)
  BY <1>2, <1>5 DEF Picks
<1>7. QED
  BY <1>2, <1>3, <1>4, <1>6 DEF other

\* The best of a run is the best the null would report for the results as they are.
LEMMA RunIsItsNull ==
  ASSUME NEW rows
  PROVE  RealBest(rows) = PermutationNull(rows, RealWons(rows))
<1> DEFINE wons == RealWons(rows)
           roi(picked) == Roi(picked, rows, wons)
<1>1. \A rule : /\ ScoreOf(rule, rows, wons).n = Cardinality(Picks(rule, rows))
                /\ ScoreOf(rule, rows, wons).roi = roi(Picks(rule, rows))
  BY DEF ScoreOf
<1> DEFINE scores == {s.roi : s \in {s \in BakeoffScores(rows) : s.n >= MinN}}
           draws == {roi(picked) : picked \in
                        {p \in {Picks(rule, rows) : rule \in Rules} : Cardinality(p) >= MinN}}
<1> HIDE DEF roi
<1>2. scores = draws
  BY <1>1 DEF BakeoffScores
<1>3. QED
  BY <1>2 DEF RealBest, PermutationNull, roi

LEMMA NullOfReshuffled ==
  ASSUME NEW rows, TableRows(rows), NEW wons \in [DOMAIN rows -> BOOLEAN]
  PROVE  PermutationNull(Reshuffled(rows, wons), wons) = PermutationNull(rows, wons)
<1> DEFINE other == Reshuffled(rows, wons)
<1>1. /\ \A i \in DOMAIN rows : other[i].price = rows[i].price
      /\ \A rule \in Rules : Picks(rule, other) = Picks(rule, rows)
  BY ReshuffledRows
<1> HIDE DEF other
<1>2. ASSUME NEW picked \in SUBSET (DOMAIN rows)
      PROVE  Roi(picked, other, wons) = Roi(picked, rows, wons)
  <2>1. [i \in picked |-> PnlPerDollar(other[i].price, wons[i])]
           = [i \in picked |-> PnlPerDollar(rows[i].price, wons[i])]
    BY <1>1
  <2>2. QED
    BY <2>1 DEF Roi
<1>3. \A rule : Picks(rule, rows) \in SUBSET (DOMAIN rows)
  BY DEF Picks
<1> DEFINE eligible(x) == {p \in {Picks(rule, x) : rule \in Rules} : Cardinality(p) >= MinN}
<1>4. eligible(other) = eligible(rows)
  BY <1>1
<1>5. {Roi(picked, other, wons) : picked \in eligible(rows)}
         = {Roi(picked, rows, wons) : picked \in eligible(rows)}
  BY <1>2, <1>3
<1>6. QED
  BY <1>4, <1>5 DEF PermutationNull, other

\* A league with a dated row has a date that cuts it: the first by which more than
\* half of its dated rows have started.
LEMMA CutIsInt ==
  ASSUME NEW rows, TableRows(rows), NEW i \in DOMAIN rows, rows[i].start # None
  PROVE  Cut(rows, rows[i].league) \in Int
<1> DEFINE n == Len(HistoryRows)
           D == Dated(rows, rows[i].league)
           at == [j \in D |-> rows[j].start]
           UpTo(t) == {j \in D : rows[j].start <= t}
           cuts == {j \in D : Cardinality(UpTo(at[j])) > Cardinality(D) \div 2}
           value == [j \in D |-> -at[j]]
<1>1. n \in Nat /\ D \in SUBSET (1..n) /\ i \in D
  BY HistoryRowsType DEF TableRows, Dated
<1>2. \A j \in D : rows[j].start \in Int
  BY HistoryRowsType DEF TableRows, Dated, Samples
<1>3. \A j \in D : at[j] = rows[j].start /\ at[j] \in Int
  BY <1>2
<1>4. IsFiniteSet(D) /\ Cardinality(D) \in Nat \ {0}
  <2>1. IsFiniteSet(1..n)
    BY <1>1, FS_Interval
  <2>2. IsFiniteSet(D)
    BY <1>1, <2>1, FS_Subset
  <2>3. QED
    BY <1>1, <2>2, FS_CardinalityType, FS_EmptySet
<1> DEFINE S == {t \in {rows[j].start : j \in D} : Cardinality(UpTo(t)) > Cardinality(D) \div 2}
<1>5. S = {at[j] : j \in cuts}
  BY <1>3
<1>6. Cut(rows, rows[i].league) = Min(S)
  BY DEF Cut
<1> HIDE DEF n, at, D
<1>7. cuts # {}
  <2>1. PICK j \in D : \A k \in D : at[k] <= at[j]
    BY <1>1, <1>3, HasGreatestValue
  <2>2. UpTo(at[j]) = D
    BY <1>3, <2>1
  <2>3. Cardinality(D) > Cardinality(D) \div 2
    BY <1>4
  <2>4. QED
    BY <2>2, <2>3
<1>8. \A j \in D : value[j] = -at[j] /\ value[j] \in Int
  <2>1. \A j \in D : value[j] = -at[j]
    OBVIOUS
  <2>2. QED
    BY <1>3, <2>1
<1>9. cuts \in SUBSET (1..n) /\ cuts \subseteq D
  BY <1>1
<1> HIDE DEF cuts, value, S
<1>10. PICK j \in cuts : \A k \in cuts : value[k] <= value[j]
  BY <1>1, <1>7, <1>8, <1>9, HasGreatestValue
<1>11. at[j] \in S /\ at[j] \in Int /\ \A t \in S : t \in Int /\ at[j] <= t
  BY <1>3, <1>5, <1>8, <1>9, <1>10
<1>12. Min(S) \in S
  BY <1>11 DEF Min
<1>13. QED
  BY <1>6, <1>11, <1>12

\* Rows of one league and start are on one side of the cut, early rows before the rest.
LEMMA HalvesAreOrdered ==
  ASSUME NEW rows, TableRows(rows),
         NEW i \in EarlyHalf(rows), NEW j \in DOMAIN rows \ EarlyHalf(rows)
  PROVE  /\ rows[i].market # rows[j].market
         /\ rows[i].league = rows[j].league /\ rows[j].start # None =>
            rows[i].start < rows[j].start
<1> DEFINE cut == Cut(rows, rows[i].league)
<1>1. i \in DOMAIN rows /\ rows[i].start # None /\ rows[i].start < cut
  BY DEF EarlyHalf
<1>2. /\ i \in DOMAIN HistoryRows /\ rows[i] = HistoryRows[i]
      /\ j \in DOMAIN HistoryRows /\ rows[j] = HistoryRows[j]
  BY <1>1 DEF TableRows
<1>3. cut \in Int
  BY <1>1, CutIsInt
<1>4. rows[i].start \in Int /\ (rows[j].start # None => rows[j].start \in Int)
  BY <1>1, <1>2, HistoryRowsType DEF Samples
<1>5. ASSUME rows[i].league = rows[j].league, rows[j].start # None
      PROVE  ~(rows[j].start < cut)
  BY <1>5 DEF EarlyHalf
<1> HIDE DEF cut
<1>6. rows[i].league = rows[j].league /\ rows[j].start # None => rows[i].start < rows[j].start
  BY <1>1, <1>3, <1>4, <1>5
<1>7. ASSUME rows[i].market = rows[j].market PROVE FALSE
  <2>1. rows[i].league = rows[j].league /\ rows[i].start = rows[j].start
    BY <1>2, <1>7, BakeoffAssumption
  <2>2. QED
    BY <1>1, <1>4, <1>6, <2>1
<1>8. QED
  BY <1>6, <1>7

\* What run returned is about the rows it read.
BakeoffInv ==
    verdict # None =>
    /\ TableRows(pool) /\ verdict.drawn \in [DOMAIN pool -> BOOLEAN]
    /\ verdict.null = PermutationNull(pool, verdict.drawn)
    /\ verdict.best = RealBest(pool) /\ verdict.early = EarlyHalf(pool)

LEMMA BakeoffInvHolds == BakeoffSpec => []BakeoffInv
<1>1. BakeoffInit => BakeoffInv
  BY DEF BakeoffInit, BakeoffInv
<1>2. ASSUME BakeoffInv, [BakeoffNext]_bakeoffVars PROVE BakeoffInv'
  <2>1. CASE BakeoffNext
    <3>1. PICK markets : \E wons \in ShuffledWins(RowsOf(markets)) :
             StrategyBakeoff(RowsOf(markets), wons, EarlyHalf(RowsOf(markets)))
      BY <2>1 DEF BakeoffNext
    <3> DEFINE rows == RowsOf(markets)
    <3>2. TableRows(rows)
      BY RowsOfTable
    <3> HIDE DEF rows
    <3>3. PICK wons \in ShuffledWins(rows) : StrategyBakeoff(rows, wons, EarlyHalf(rows))
      BY <3>1 DEF rows
    <3>4. wons \in [DOMAIN rows -> BOOLEAN]
      BY <3>3 DEF ShuffledWins
    <3>5. /\ pool' = rows /\ verdict'.drawn = wons /\ verdict'.null = PermutationNull(rows, wons)
          /\ verdict'.best = RealBest(rows) /\ verdict'.early = EarlyHalf(rows)
      BY <3>3 DEF StrategyBakeoff
    <3>6. QED
      BY <3>2, <3>4, <3>5 DEF BakeoffInv
  <2>2. CASE UNCHANGED bakeoffVars
    BY <1>2, <2>2 DEF BakeoffInv, bakeoffVars
  <2>3. QED
    BY <1>2, <2>1, <2>2
<1>3. QED
  BY <1>1, <1>2, PTL DEF BakeoffSpec

\* A bake-off is honest (BakeoffIsHonest), for every table of samples, age limit,
\* fee and least number of picks, and every draw of the shuffle: what the null
\* reports is what run would have reported had the drawn results been the real
\* ones, and a rule is judged on rows whose games start after those it was chosen on.
THEOREM BakeoffsAreHonest == BakeoffSpec => []BakeoffIsHonest
<1>1. BakeoffInv => BakeoffIsHonest
  <2>1. SUFFICES ASSUME BakeoffInv, verdict # None PROVE NullIsTheSearch /\ HoldoutIsLater
    BY DEF BakeoffIsHonest
  <2>2. /\ TableRows(pool) /\ verdict.drawn \in [DOMAIN pool -> BOOLEAN]
        /\ verdict.null = PermutationNull(pool, verdict.drawn)
        /\ verdict.best = RealBest(pool) /\ verdict.early = EarlyHalf(pool)
    BY <2>1 DEF BakeoffInv
  <2> DEFINE other == Reshuffled(pool, verdict.drawn)
  <2>3. verdict.null = RealBest(other)
    <3>1. RealBest(other) = PermutationNull(other, RealWons(other))
      BY RunIsItsNull
    <3>2. RealWons(other) = verdict.drawn
      BY <2>2, ReshuffledRows
    <3>3. PermutationNull(other, verdict.drawn) = PermutationNull(pool, verdict.drawn)
      BY <2>2, NullOfReshuffled
    <3>4. QED
      BY <2>2, <3>1, <3>2, <3>3
  <2>4. verdict.drawn = RealWons(pool) => verdict.null = verdict.best
    BY <2>2, RunIsItsNull
  <2>5. NullIsTheSearch
    BY <2>3, <2>4 DEF NullIsTheSearch, Reshuffled
  <2>6. HoldoutIsLater
    BY <2>2, HalvesAreOrdered DEF HoldoutIsLater
  <2>7. QED
    BY <2>5, <2>6
<1>2. QED
  BY <1>1, BakeoffInvHolds, PTL
=============================================================================
