----------------------------- MODULE ScanProofs -----------------------------
(***************************************************************************)
(* Theorems about what is read page by page while it changes: the wallet   *)
(* import from a feed of trades that grows, and the list of open events    *)
(* that a scan and a settlement fetch.                                     *)
(***************************************************************************)
EXTENDS Fills, Feed, NumberLemmas, FiniteSetTheorems, SequenceTheorems, TLAPS

---------------------------------------------------------------------------
(* The feed of trades.                                                     *)

LEMMA TransactionsType ==
  /\ Len(Transactions) \in Nat /\ DOMAIN Transactions = 1..Len(Transactions)
  /\ \A t \in DOMAIN Transactions :
        /\ Len(Transactions[t]) \in Nat /\ DOMAIN Transactions[t] = 1..Len(Transactions[t])
        /\ \A n \in DOMAIN Transactions[t] : RowOf(t, n) \in TradeRows
<1> DEFINE OneTx == Seq(TradeFills)
<1>1. Transactions \in Seq(OneTx)
  BY FillsAssumption
<1>2. \A x \in OneTx : Len(x) \in Nat /\ DOMAIN x = 1..Len(x) /\ \A n \in DOMAIN x : x[n] \in TradeFills
  <2> HIDE DEF TradeFills
  <2>1. QED
    OBVIOUS
<1> HIDE DEF OneTx
<1>3. Len(Transactions) \in Nat /\ DOMAIN Transactions = 1..Len(Transactions)
      /\ \A t \in DOMAIN Transactions : Transactions[t] \in OneTx
  BY <1>1
<1>4. ASSUME NEW t \in DOMAIN Transactions, NEW n \in DOMAIN Transactions[t]
      PROVE  RowOf(t, n) \in TradeRows
  <2>1. Transactions[t][n] \in TradeFills /\ t \in Nat
    BY <1>2, <1>3
  <2>2. QED
    BY <2>1 DEF RowOf, TradeRows, TradeFills
<1>5. QED
  BY <1>2, <1>3, <1>4

LEMMA RowsOfTxType ==
  ASSUME NEW t \in DOMAIN Transactions
  PROVE  /\ RowsOfTx(t) \in Seq(TradeRows) /\ Len(RowsOfTx(t)) = Len(Transactions[t])
         /\ \A n \in 1..Len(Transactions[t]) : RowsOfTx(t)[n] = RowOf(t, n)
<1> DEFINE k == Len(Transactions[t])
<1>1. k \in Nat /\ DOMAIN Transactions[t] = 1..k /\ \A n \in 1..k : RowOf(t, n) \in TradeRows
  BY TransactionsType
<1>2. RowsOfTx(t) = [n \in 1..k |-> RowOf(t, n)]
  BY <1>1 DEF RowsOfTx
<1> HIDE DEF k
<1>3. RowsOfTx(t) \in [1..k -> TradeRows]
  BY <1>1, <1>2
<1>4. RowsOfTx(t) \in Seq(TradeRows) /\ Len(RowsOfTx(t)) = k
  <2> HIDE DEF TradeRows
  <2>1. QED
    BY <1>1, <1>3
<1>5. QED
  BY <1>2, <1>4 DEF k

\* The recursive definition of the feed defines a list of rows: those of the
\* newest transaction, then the feed as it was before.
LEMMA FeedUnfolds ==
  /\ \A t \in 0..Len(Transactions) : FeedOf[t] \in Seq(TradeRows)
  /\ FeedOf[0] = <<>>
  /\ \A t \in 1..Len(Transactions) : FeedOf[t] = RowsOfTx(t) \o FeedOf[t - 1]
<1> DEFINE N == Len(Transactions)
           rows == Seq(TradeRows)
           next == [p \in Nat \X rows |-> IF p[1] \in 1..N THEN RowsOfTx(p[1]) \o p[2] ELSE p[2]]
<1>1. N \in Nat /\ DOMAIN Transactions = 1..N
  BY TransactionsType
<1>2. \A t \in 1..N, x \in rows : RowsOfTx(t) \o x \in rows
  <2>1. \A t \in 1..N : RowsOfTx(t) \in rows
    BY <1>1, RowsOfTxType
  <2> HIDE DEF TradeRows
  <2>2. QED
    BY <2>1
<1>3. <<>> \in rows
  OBVIOUS
<1> HIDE DEF rows, N
<1>4. next \in [Nat \X rows -> rows]
  BY <1>2
<1>5. ASSUME NEW i \in 1..N, NEW x \in rows PROVE next[<<i, x>>] = RowsOfTx(i) \o x
  <2>1. <<i, x>> \in Nat \X rows
    BY <1>1
  <2>2. QED
    BY <2>1
<1> HIDE DEF next
<1>6. PICK f : Recurses(f, rows, <<>>, next)
  BY <1>3, <1>4, RecursionExists
<1>7. \A i \in 0..N : f[i] \in rows
  BY <1>1, <1>6 DEF Recurses
<1>8. ASSUME NEW i \in 1..N PROVE f[i] = RowsOfTx(i) \o f[i - 1]
  <2>1. i \in Nat \ {0} /\ i - 1 \in 0..N
    BY <1>1
  <2>2. f[i] = next[<<i, f[i - 1]>>]
    BY <1>6, <2>1 DEF Recurses
  <2>3. QED
    BY <1>5, <1>7, <2>1, <2>2
<1> DEFINE g == [t \in 0..N |-> f[t]]
<1>9. g = [t \in 0..N |-> IF t = 0 THEN <<>> ELSE RowsOfTx(t) \o g[t - 1]]
  <2>1. ASSUME NEW t \in 0..N PROVE g[t] = IF t = 0 THEN <<>> ELSE RowsOfTx(t) \o g[t - 1]
    <3>1. CASE t = 0
      BY <1>6, <3>1 DEF Recurses
    <3>2. CASE t # 0
      <4>1. t \in 1..N /\ t - 1 \in 0..N
        BY <1>1, <3>2
      <4>2. QED
        BY <1>8, <3>2, <4>1
    <3>3. QED
      BY <3>1, <3>2
  <2>2. QED
    BY <2>1
<1> HIDE DEF g
<1>10. FeedOf = [t \in 0..N |-> IF t = 0 THEN <<>> ELSE RowsOfTx(t) \o FeedOf[t - 1]]
  BY <1>9 DEF FeedOf, N
<1>11. \A t \in 0..N : FeedOf[t] = f[t]
  <2> DEFINE bad == {t \in 0..N : FeedOf[t] # f[t]}
  <2>1. SUFFICES ASSUME bad # {} PROVE FALSE
    OBVIOUS
  <2>2. bad \in SUBSET Nat
    BY <1>1
  <2>3. PICK t \in bad : \A j \in bad : t <= j
    <3> HIDE DEF bad
    <3>1. QED
      BY <2>1, <2>2, HasLeast
  <2>4. t # 0
    <3>1. FeedOf[0] = f[0]
      BY <1>1, <1>6, <1>10 DEF Recurses
    <3>2. QED
      BY <2>3, <3>1
  <2>5. t \in 1..N /\ t - 1 \in 0..N /\ t - 1 \notin bad
    BY <1>1, <2>3, <2>4
  <2>6. QED
    BY <1>8, <1>10, <2>3, <2>4, <2>5
<1>12. \A t \in 0..N : FeedOf[t] \in rows
  BY <1>7, <1>11
<1>13. FeedOf[0] = <<>>
  BY <1>1, <1>10
<1>14. ASSUME NEW t \in 1..N PROVE FeedOf[t] = RowsOfTx(t) \o FeedOf[t - 1]
  <2>1. t \in 0..N /\ t # 0
    BY <1>1
  <2>2. QED
    BY <1>10, <2>1, Zenon
<1>15. QED
  BY <1>12, <1>13, <1>14 DEF N, rows

LEMMA Joined ==
  ASSUME NEW S, NEW a \in Seq(S), NEW b \in Seq(S)
  PROVE  /\ Len(b) \in Nat /\ Len(a \o b) = Len(a) + Len(b)
         /\ \A p \in 1..Len(a) : (a \o b)[p] = a[p]
         /\ \A p \in 1..Len(b) : (a \o b)[Len(a) + p] = b[p]
<1>1. Len(a) \in Nat /\ Len(b) \in Nat /\ Len(a \o b) = Len(a) + Len(b)
  OBVIOUS
<1>2. \A p \in 1..Len(a) : (a \o b)[p] = a[p]
  BY <1>1
<1>3. ASSUME NEW p \in 1..Len(b) PROVE (a \o b)[Len(a) + p] = b[p]
  <2>1. Len(a) + p \in 1..(Len(a) + Len(b)) /\ ~(Len(a) + p <= Len(a))
        /\ Len(a) + p - Len(a) = p
    BY <1>1
  <2>2. QED
    BY <1>1, <2>1
<1>4. QED
  BY <1>1, <1>2, <1>3

LEMMA Ranged ==
  ASSUME NEW S, NEW s \in Seq(S)
  PROVE  /\ Len(s) \in Nat
         /\ \A i \in 1..Len(s) : s[i] \in S /\ s[i] \in Range(s)
         /\ \A r \in Range(s) : r \in S /\ (\E i \in 1..Len(s) : r = s[i])
<1>1. Len(s) \in Nat /\ DOMAIN s = 1..Len(s) /\ \A i \in 1..Len(s) : s[i] \in S
  OBVIOUS
<1>2. ASSUME NEW i \in 1..Len(s) PROVE s[i] \in Range(s)
  BY <1>1 DEF Range
<1>3. ASSUME NEW r \in Range(s) PROVE r \in S /\ \E i \in 1..Len(s) : r = s[i]
  <2>1. PICK i \in 1..Len(s) : r = s[i]
    BY <1>1 DEF Range
  <2>2. QED
    BY <1>1, <2>1
<1>4. QED
  BY <1>1, <1>2, <1>3

LEMMA JoinedRange ==
  ASSUME NEW S, NEW a \in Seq(S), NEW b \in Seq(S)
  PROVE  /\ a \o b \in Seq(S)
         /\ \A r \in Range(a) : r \in Range(a \o b)
         /\ \A q \in 1..Len(b) : b[q] \in Range(a \o b)
         /\ \A r \in Range(a \o b) : r \in Range(a) \/ \E q \in 1..Len(b) : r = b[q]
<1>1. /\ a \o b \in Seq(S) /\ Len(a) \in Nat /\ Len(b) \in Nat /\ Len(a \o b) = Len(a) + Len(b)
      /\ DOMAIN (a \o b) = 1..Len(a \o b)
      /\ DOMAIN a = 1..Len(a) /\ DOMAIN b = 1..Len(b)
  OBVIOUS
<1>2. ASSUME NEW i \in 1..Len(a) PROVE (a \o b)[i] = a[i] /\ i \in 1..Len(a \o b)
  BY <1>1, Joined
<1>3. ASSUME NEW q \in 1..Len(b)
      PROVE  (a \o b)[Len(a) + q] = b[q] /\ Len(a) + q \in 1..Len(a \o b)
  BY <1>1, Joined
<1>4. ASSUME NEW i \in 1..Len(a \o b)
      PROVE  i \in 1..Len(a) \/ (i - Len(a) \in 1..Len(b) /\ i = Len(a) + (i - Len(a)))
  BY <1>1
<1> DEFINE c == a \o b
<1> HIDE DEF c
<1>5. \A r \in Range(a) : r \in Range(c)
  BY <1>1, <1>2 DEF Range, c
<1>6. \A q \in 1..Len(b) : b[q] \in Range(c)
  BY <1>1, <1>3 DEF Range, c
<1>7. ASSUME NEW r \in Range(c) PROVE r \in Range(a) \/ \E q \in 1..Len(b) : r = b[q]
  <2>1. PICK i \in 1..Len(a \o b) : r = (a \o b)[i]
    BY <1>1, <1>7 DEF Range, c
  <2>2. CASE i \in 1..Len(a)
    BY <1>1, <1>2, <2>1, <2>2 DEF Range
  <2>3. CASE i - Len(a) \in 1..Len(b) /\ i = Len(a) + (i - Len(a))
    BY <1>3, <2>1, <2>3
  <2>4. QED
    BY <1>4, <2>2, <2>3
<1>8. QED
  BY <1>1, <1>5, <1>6, <1>7 DEF c

\* A page of a list.
LEMMA Sliced ==
  ASSUME NEW S, NEW s \in Seq(S), NEW lo \in Nat, NEW end \in Nat, end <= Len(s),
         NEW got, got = SubSeq(s, lo + 1, end)
  PROVE  /\ got \in Seq(S)
         /\ Len(got) = IF lo + 1 <= end THEN end - lo ELSE 0
         /\ \A p \in (lo + 1)..end : p - lo \in 1..Len(got) /\ got[p - lo] = s[p]
         /\ \A q \in 1..Len(got) :
               lo + q \in 1..Len(s) /\ lo + q <= end /\ got[q] = s[lo + q]
<1>1. \A i \in (lo + 1)..end : s[i] \in S
  OBVIOUS
<1>2. lo + 1 \in Int /\ end \in Int /\ Len(s) \in Nat
  OBVIOUS
<1>3. /\ got \in Seq(S)
      /\ Len(got) = IF lo + 1 <= end THEN end - (lo + 1) + 1 ELSE 0
      /\ \A i \in 1..(end - (lo + 1) + 1) : got[i] = s[lo + 1 + i - 1]
  BY <1>1, <1>2, SubSeqProperties
<1>4. Len(got) = IF lo + 1 <= end THEN end - lo ELSE 0
  BY <1>3
<1>5. ASSUME NEW p \in (lo + 1)..end PROVE p - lo \in 1..Len(got) /\ got[p - lo] = s[p]
  <2>1. p - lo \in 1..(end - (lo + 1) + 1) /\ lo + 1 + (p - lo) - 1 = p /\ lo + 1 <= end
    BY <1>2
  <2>2. QED
    BY <1>3, <2>1
<1>6. ASSUME NEW q \in 1..Len(got)
      PROVE  lo + q \in 1..Len(s) /\ lo + q <= end /\ got[q] = s[lo + q]
  <2>1. lo + 1 <= end /\ q \in 1..(end - lo) /\ q \in Nat
    BY <1>2, <1>4
  <2>2. q \in 1..(end - (lo + 1) + 1) /\ lo + 1 + q - 1 = lo + q
    BY <2>1
  <2>3. QED
    BY <1>2, <1>3, <2>1, <2>2
<1>7. QED
  BY <1>3, <1>4, <1>5, <1>6

\* Where the rows of a feed are.
Extends(feed, old, t) ==
    LET k == Len(Transactions[t])
    IN  /\ k \in Nat /\ Len(old) \in Nat /\ Len(feed) = k + Len(old)
        /\ \A p \in 1..k : feed[p] = RowOf(t, p)
        /\ \A p \in 1..Len(old) : feed[k + p] = old[p]

LEMMA FeedShape ==
  ASSUME NEW t \in 1..Len(Transactions)
  PROVE  Extends(FeedOf[t], FeedOf[t - 1], t)
<1> DEFINE a == RowsOfTx(t)
           b == FeedOf[t - 1]
           k == Len(Transactions[t])
<1>1. t \in DOMAIN Transactions /\ t - 1 \in 0..Len(Transactions)
  BY TransactionsType
<1>2. /\ a \in Seq(TradeRows) /\ Len(a) = k /\ k \in Nat
      /\ \A n \in 1..k : a[n] = RowOf(t, n)
  BY <1>1, RowsOfTxType, TransactionsType
<1>3. b \in Seq(TradeRows) /\ FeedOf[t] = a \o b
  BY <1>1, FeedUnfolds
<1> HIDE DEF a, b, k
<1>4. /\ Len(b) \in Nat /\ Len(a \o b) = k + Len(b)
      /\ \A p \in 1..k : (a \o b)[p] = a[p]
      /\ \A p \in 1..Len(b) : (a \o b)[k + p] = b[p]
  <2>1. /\ Len(b) \in Nat /\ Len(a \o b) = Len(a) + Len(b)
        /\ \A p \in 1..Len(a) : (a \o b)[p] = a[p]
        /\ \A p \in 1..Len(b) : (a \o b)[Len(a) + p] = b[p]
    <3>1. a \in Seq(TradeRows) /\ b \in Seq(TradeRows)
      BY <1>2, <1>3
    <3>2. QED
      BY <3>1, Joined
  <2>2. QED
    BY <1>2, <2>1, Zenon
<1>5. QED
  BY <1>2, <1>3, <1>4 DEF a, b, k, Extends

\* A feed lists the rows of its transactions, all of them, newest first.
Orderly(t) ==
    LET feed == FeedOf[t]
    IN  /\ \A p \in 1..Len(feed) : feed[p].tx \in 1..t /\ feed[p].when = feed[p].tx
        /\ \A p, q \in 1..Len(feed) : p < q => feed[q].tx <= feed[p].tx
        /\ \A x \in 1..t : \A n \in DOMAIN Transactions[x] :
              \E p \in 1..Len(feed) : feed[p] = RowOf(x, n)

LEMMA FeedIsOrderly == \A t \in 0..Len(Transactions) : Orderly(t)
<1> DEFINE bad == {t \in 0..Len(Transactions) : ~Orderly(t)}
<1>1. SUFFICES ASSUME bad # {} PROVE FALSE
  OBVIOUS
<1>2. bad \in SUBSET Nat
  BY TransactionsType
<1>3. PICK t \in bad : \A j \in bad : t <= j
  <2> HIDE DEF bad
  <2>1. QED
    BY <1>1, <1>2, HasLeast
<1>4. t # 0
  <2>1. Orderly(0)
    BY FeedUnfolds DEF Orderly
  <2>2. QED
    BY <1>3, <2>1
<1>5. t \in 1..Len(Transactions) /\ t - 1 \in 0..Len(Transactions) /\ t \in Nat
  BY <1>3, <1>4, TransactionsType
<1>6. Orderly(t - 1)
  BY <1>3, <1>5
<1> DEFINE k == Len(Transactions[t])
           l == Len(FeedOf[t - 1])
           feed == FeedOf[t]
           old == FeedOf[t - 1]
<1>7. /\ k \in Nat /\ l \in Nat /\ Len(feed) = k + l
      /\ \A p \in 1..k : feed[p] = RowOf(t, p)
      /\ \A p \in 1..l : feed[k + p] = old[p]
  <2>1. Extends(FeedOf[t], FeedOf[t - 1], t)
    BY <1>5, FeedShape, Zenon
  <2>2. QED
    BY <2>1, Zenon DEF Extends
<1>8. \A n : RowOf(t, n).tx = t /\ RowOf(t, n).when = t
  BY DEF RowOf
<1>9. /\ \A p \in 1..l : old[p].tx \in 1..(t - 1) /\ old[p].when = old[p].tx
      /\ \A p, q \in 1..l : p < q => old[q].tx <= old[p].tx
      /\ \A x \in 1..(t - 1) : \A n \in DOMAIN Transactions[x] :
            \E p \in 1..l : old[p] = RowOf(x, n)
  BY <1>6 DEF Orderly
<1>10. DOMAIN Transactions[t] = 1..k
  BY <1>5, TransactionsType
<1> HIDE DEF k, l, feed, old
<1>11. ASSUME NEW p \in 1..(k + l)
       PROVE  p \in 1..k \/ (p - k \in 1..l /\ p = k + (p - k))
  BY <1>7
<1>12. ASSUME NEW p \in 1..(k + l)
       PROVE  /\ feed[p].tx \in 1..t /\ feed[p].when = feed[p].tx
              /\ p \in 1..k => feed[p].tx = t
              /\ p - k \in 1..l => feed[p].tx = old[p - k].tx
  <2>1. CASE p \in 1..k
    BY <1>5, <1>7, <1>8, <2>1
  <2>2. CASE p - k \in 1..l /\ p = k + (p - k)
    <3>1. feed[p] = old[p - k]
      BY <1>7, <2>2
    <3>2. QED
      BY <1>5, <1>7, <1>9, <2>2, <3>1
  <2>3. QED
    BY <1>11, <2>1, <2>2
<1>13. ASSUME NEW p \in 1..(k + l), NEW q \in 1..(k + l), p < q
       PROVE  feed[q].tx <= feed[p].tx
  <2>1. CASE p \in 1..k
    BY <1>5, <1>12, <2>1
  <2>2. CASE p - k \in 1..l
    <3>1. q - k \in 1..l /\ p - k < q - k
      BY <1>7, <1>13, <2>2
    <3>2. QED
      BY <1>9, <1>12, <2>2, <3>1
  <2>3. QED
    BY <1>11, <2>1, <2>2
<1>14. ASSUME NEW x \in 1..t, NEW n \in DOMAIN Transactions[x]
       PROVE  \E p \in 1..(k + l) : feed[p] = RowOf(x, n)
  <2>1. CASE x = t
    BY <1>7, <1>10, <2>1
  <2>2. CASE x # t
    <3>1. PICK p \in 1..l : old[p] = RowOf(x, n)
      BY <1>5, <1>9, <2>2
    <3>2. k + p \in 1..(k + l) /\ feed[k + p] = old[p]
      BY <1>7
    <3>3. QED
      BY <3>1, <3>2
  <2>3. QED
    BY <2>1, <2>2
<1>15. Orderly(t)
  BY <1>7, <1>12, <1>13, <1>14 DEF Orderly, feed
<1>16. QED
  BY <1>3, <1>15

---------------------------------------------------------------------------
(* The inductive invariant of the import.                                  *)

FillsTypes ==
    /\ indexed \in 0..Len(Transactions) /\ knownAtStart \in 0..indexed
    /\ pageNo \in Nat /\ importPc \in {"idle", "paging", "read"}
    /\ sampled \in SUBSET (0..indexed)
    /\ pageRows \in Seq(TradeRows)
    /\ \A r \in Range(pageRows) : r.tx \in 1..indexed

\* As the feed grows, rows move away from its top, so no row that was there when
\* the import began is ever above the next page without having been read.
PagedInv ==
    importPc = "paging" =>
    \A p \in 1..Len(TradeFeed) :
        p <= pageNo * TradesPage =>
        TradeFeed[p].tx > knownAtStart \/ TradeFeed[p] \in Range(pageRows)

\* A read that did not end at the last page it may ask for has all rows of then.
ReadInv ==
    importPc = "read" /\ pageNo < MaxTradePages =>
    \A x \in 1..knownAtStart : \A n \in DOMAIN Transactions[x] :
        x >= Lookback => RowOf(x, n) \in Range(pageRows)

\* A bet is an order that was filled, with the price known then; prices that come
\* later are of later times.
BetsInv ==
    /\ \A b, c \in walletBets : b.key = c.key => b = c
    /\ \A b \in walletBets :
          /\ b.key[1] \in 1..indexed
          /\ b.fair # None => b.fair \in Int /\ b.fair <= b.key[1]
          /\ \A t \in sampled : t < b.key[1] => b.fair # None /\ b.fair >= t

FillsInv == FillsTypes /\ PagedInv /\ ReadInv /\ BetsInv

LEMMA FillsConstants ==
  /\ FillKickoff \in Nat /\ Lookback \in Nat /\ TradesPage \in Nat \ {0}
  /\ MaxTradePages \in Nat \ {0} /\ None \notin Int /\ None \notin SkipReasons
BY FillsAssumption

\* The newest price at or before a time.
LEMMA FairAtIsNewest ==
  ASSUME FillsTypes, NEW when \in 0..indexed
  PROVE  /\ FairAt(when) # None => FairAt(when) \in Int /\ FairAt(when) <= when
         /\ \A t \in sampled : t < when => FairAt(when) # None /\ FairAt(when) >= t
<1> DEFINE past == {t \in sampled : t <= when}
<1>1. past \in SUBSET (0..indexed) /\ indexed \in Nat /\ sampled \subseteq Int /\ when \in Int
  <2>1. indexed \in Nat /\ sampled \in SUBSET (0..indexed)
    BY TransactionsType DEF FillsTypes
  <2>2. past \in SUBSET (0..indexed)
    BY <2>1
  <2>3. when \in Int
    BY <2>1
  <2>4. \A t \in 0..indexed : t \in Int
    BY <2>1
  <2>5. QED
    BY <2>1, <2>2, <2>3, <2>4
<1>2. CASE past = {}
  BY <1>1, <1>2 DEF FairAt
<1>3. CASE past # {}
  <2>1. FairAt(when) = Max(past)
    BY <1>3 DEF FairAt
  <2>2. Max(past) \in past /\ \A t \in past : t <= Max(past)
    <3> HIDE DEF past
    <3>1. QED
      BY <1>1, <1>3, MaxIsGreatest
  <2>3. Max(past) \in Int /\ Max(past) <= when /\ Max(past) # None
    BY <1>1, <2>2, FillsConstants
  <2>4. \A t \in sampled : t < when => t <= Max(past)
    BY <1>1, <2>2
  <2>5. QED
    BY <1>1, <2>1, <2>3, <2>4
<1>4. QED
  BY <1>2, <1>3

---------------------------------------------------------------------------
(* The steps.                                                              *)

\* An older feed is the bottom of a newer one.
LEMMA PlaceTradeStep ==
  ASSUME FillsInv, PlaceTrade
  PROVE  FillsInv'
<1>1. /\ indexed \in 0..Len(Transactions) /\ indexed < Len(Transactions)
      /\ indexed' = indexed + 1 /\ Len(Transactions) \in Nat
      /\ UNCHANGED <<tracked, sampled, importPc, pageNo>>
      /\ UNCHANGED <<pageRows, knownAtStart, walletBets>>
  BY TransactionsType DEF PlaceTrade, FillsInv, FillsTypes
<1>2. indexed + 1 \in 1..Len(Transactions) /\ indexed + 1 - 1 = indexed /\ indexed \in Nat
      /\ 0..indexed \subseteq 0..(indexed + 1) /\ 1..indexed \subseteq 1..(indexed + 1)
  BY <1>1
<1>3. FillsTypes'
  BY <1>1, <1>2 DEF FillsInv, FillsTypes
<1>4. PagedInv'
  <2>1. SUFFICES ASSUME importPc = "paging", NEW p \in 1..Len(FeedOf[indexed + 1]),
                        p <= pageNo * TradesPage
                 PROVE  FeedOf[indexed + 1][p].tx > knownAtStart
                        \/ FeedOf[indexed + 1][p] \in Range(pageRows)
    BY <1>1 DEF PagedInv, TradeFeed
  <2> DEFINE k == Len(Transactions[indexed + 1])
             new == FeedOf[indexed + 1]
             old == FeedOf[indexed]
  <2>2. /\ k \in Nat /\ Len(old) \in Nat /\ Len(new) = k + Len(old)
        /\ \A q \in 1..k : new[q] = RowOf(indexed + 1, q)
        /\ \A q \in 1..Len(old) : new[k + q] = old[q]
    <3>1. PICK t \in 1..Len(Transactions) : t = indexed + 1
      BY <1>2
    <3>2. Extends(FeedOf[t], FeedOf[t - 1], t)
      BY FeedShape, Zenon
    <3>3. t - 1 = indexed
      BY <1>2, <3>1
    <3>4. Extends(FeedOf[indexed + 1], FeedOf[indexed], indexed + 1)
      <4>1. Extends(FeedOf[t], FeedOf[indexed], t)
        BY <3>2, <3>3
      <4>2. QED
        BY <3>1, <4>1
    <3>5. QED
      BY <3>4, Zenon DEF Extends
  <2> HIDE DEF k, new, old
  <2>3. CASE p \in 1..k
    <3>1. new[p].tx = indexed + 1
      <4>1. new[p] = RowOf(indexed + 1, p)
        BY <2>2, <2>3
      <4>2. QED
        BY <4>1 DEF RowOf
    <3>2. QED
      BY <1>2, <3>1 DEF FillsInv, FillsTypes, new
  <2>4. CASE p \notin 1..k
    <3> DEFINE q == p - k
    <3>1. pageNo * TradesPage \in Int
      BY FillsConstants DEF FillsInv, FillsTypes
    <3>2. q \in 1..Len(old) /\ p = k + q /\ q <= pageNo * TradesPage
      BY <2>1, <2>2, <2>4, <3>1 DEF new
    <3>3. new[p] = old[q]
      BY <2>2, <3>2
    <3>4. old[q].tx > knownAtStart \/ old[q] \in Range(pageRows)
      BY <2>1, <3>2 DEF FillsInv, PagedInv, TradeFeed, old
    <3>5. QED
      BY <3>3, <3>4 DEF new
  <2>5. QED
    BY <2>3, <2>4
<1>5. ReadInv'
  BY <1>1 DEF FillsInv, ReadInv
<1>6. BetsInv'
  BY <1>1, <1>2 DEF FillsInv, BetsInv
<1>7. QED
  BY <1>3, <1>4, <1>5, <1>6 DEF FillsInv

\* A new price is of now, which is no earlier than any bet.
LEMMA PriceSampleStep ==
  ASSUME FillsInv, PriceSample
  PROVE  FillsInv'
<1>1. /\ sampled' = sampled \cup {indexed} /\ indexed \in Nat
      /\ UNCHANGED <<indexed, tracked, importPc, pageNo>>
      /\ UNCHANGED <<pageRows, knownAtStart, walletBets>>
  BY TransactionsType DEF PriceSample, FillsInv, FillsTypes
<1>2. FillsTypes'
  BY <1>1 DEF FillsInv, FillsTypes
<1>3. PagedInv' /\ ReadInv'
  BY <1>1 DEF FillsInv, PagedInv, ReadInv, TradeFeed
<1>4. ASSUME NEW b \in walletBets
      PROVE  \A t \in sampled' : t < b.key[1] => b.fair # None /\ b.fair >= t
  <2>1. ~(indexed < b.key[1])
    BY <1>1 DEF FillsInv, BetsInv
  <2>2. QED
    BY <1>1, <2>1 DEF FillsInv, BetsInv
<1>5. BetsInv'
  BY <1>1, <1>4 DEF FillsInv, BetsInv
<1>6. QED
  BY <1>2, <1>3, <1>5 DEF FillsInv

LEMMA ImportStartsStep ==
  ASSUME FillsInv, ImportStarts
  PROVE  FillsInv'
<1>1. /\ importPc' = "paging" /\ pageNo' = 0 /\ pageRows' = <<>> /\ knownAtStart' = indexed
      /\ UNCHANGED <<indexed, tracked, sampled, walletBets>>
  BY DEF ImportStarts
<1>2. Range(pageRows') = {} /\ pageRows' \in Seq(TradeRows) /\ indexed \in Nat
  BY <1>1, TransactionsType DEF Range, FillsInv, FillsTypes
<1>3. FillsTypes'
  BY <1>1, <1>2 DEF FillsInv, FillsTypes
<1>4. pageNo' * TradesPage = 0
  BY <1>1, FillsConstants
<1>5. ASSUME NEW p \in 1..Len(TradeFeed') PROVE ~(p <= pageNo' * TradesPage)
  BY <1>4
<1>6. PagedInv' /\ ReadInv'
  BY <1>1, <1>5 DEF PagedInv, ReadInv
<1>7. BetsInv'
  BY <1>1 DEF FillsInv, BetsInv
<1>8. QED
  BY <1>3, <1>6, <1>7 DEF FillsInv

\* One page: the rows at its places of the feed, however it has grown.
LEMMA PageReadStep ==
  ASSUME FillsInv, PageRead
  PROVE  FillsInv'
<1> DEFINE feed == TradeFeed
           lo == pageNo * TradesPage
           hi == (pageNo + 1) * TradesPage
           end == Min({hi, Len(feed)})
           got == SubSeq(feed, lo + 1, end)
           last == \/ Len(got) < TradesPage
                   \/ \E r \in Range(got) : r.when < Lookback
                   \/ pageNo + 1 = MaxTradePages
<1>1. /\ importPc = "paging" /\ pageRows' = pageRows \o got /\ pageNo' = pageNo + 1
      /\ importPc' = (IF last THEN "read" ELSE "paging")
      /\ UNCHANGED <<indexed, tracked, sampled, knownAtStart, walletBets>>
  BY DEF PageRead
<1>2. /\ indexed \in 0..Len(Transactions) /\ indexed \in Nat /\ pageNo \in Nat
      /\ knownAtStart \in 0..indexed /\ pageRows \in Seq(TradeRows)
  BY TransactionsType DEF FillsInv, FillsTypes
<1>3. /\ feed \in Seq(TradeRows) /\ Len(feed) \in Nat /\ DOMAIN feed = 1..Len(feed)
      /\ \A p \in 1..Len(feed) : feed[p] \in TradeRows
  <2>1. feed \in Seq(TradeRows)
    BY <1>2, FeedUnfolds DEF TradeFeed
  <2> HIDE DEF feed
  <2>2. Len(feed) \in Nat /\ DOMAIN feed = 1..Len(feed) /\ \A p \in 1..Len(feed) : feed[p] \in TradeRows
    <3> DEFINE R == TradeRows
    <3> HIDE DEF R
    <3>1. feed \in Seq(R)
      BY <2>1 DEF R
    <3>2. Len(feed) \in Nat /\ DOMAIN feed = 1..Len(feed) /\ \A p \in 1..Len(feed) : feed[p] \in R
      BY <3>1
    <3>3. QED
      BY <3>2 DEF R
  <2>3. QED
    BY <2>1, <2>2
<1>4. /\ \A p \in 1..Len(feed) : feed[p].tx \in 1..indexed /\ feed[p].when = feed[p].tx
      /\ \A p, q \in 1..Len(feed) : p < q => feed[q].tx <= feed[p].tx
      /\ \A x \in 1..indexed : \A n \in DOMAIN Transactions[x] :
            \E p \in 1..Len(feed) : feed[p] = RowOf(x, n)
  BY <1>2, FeedIsOrderly DEF Orderly, TradeFeed
<1> HIDE DEF feed
<1>5. lo \in Nat /\ hi \in Nat /\ hi = lo + TradesPage /\ TradesPage \in Nat \ {0}
  BY <1>2, FillsConstants
<1>6. pageNo' * TradesPage = hi /\ pageNo' \in Nat
  BY <1>1, <1>2
<1> HIDE DEF lo, hi
<1>7. end \in Nat /\ end <= hi /\ end <= Len(feed) /\ (end = hi \/ end = Len(feed))
  <2>1. {hi, Len(feed)} \in SUBSET Nat /\ {hi, Len(feed)} # {}
    BY <1>3, <1>5
  <2>2. end \in {hi, Len(feed)} /\ \A j \in {hi, Len(feed)} : end <= j
    BY <2>1, MinIsLeast
  <2> HIDE DEF end
  <2>3. QED
    BY <1>3, <1>5, <2>2
<1> HIDE DEF end
<1>8. /\ got \in Seq(TradeRows)
      /\ Len(got) = IF lo + 1 <= end THEN end - lo ELSE 0
      /\ \A p \in (lo + 1)..end : p - lo \in 1..Len(got) /\ got[p - lo] = feed[p]
      /\ \A q \in 1..Len(got) : lo + q \in 1..Len(feed) /\ lo + q <= end /\ got[q] = feed[lo + q]
  <2>1. feed \in Seq(TradeRows) /\ lo \in Nat /\ end \in Nat /\ end <= Len(feed)
    BY <1>3, <1>5, <1>7
  <2>2. got = SubSeq(feed, lo + 1, end)
    OBVIOUS
  <2> HIDE DEF got
  <2>3. QED
    BY <2>1, <2>2, Sliced
<1> HIDE DEF got
<1>9. /\ pageRows' \in Seq(TradeRows)
      /\ \A r \in Range(pageRows) : r \in Range(pageRows')
      /\ \A q \in 1..Len(got) : got[q] \in Range(pageRows')
      /\ \A r \in Range(pageRows') : r \in Range(pageRows) \/ \E q \in 1..Len(got) : r = got[q]
  BY <1>1, <1>2, <1>8, JoinedRange
<1>10. ASSUME NEW p \in 1..Len(feed), p <= hi
       PROVE  feed[p].tx > knownAtStart \/ feed[p] \in Range(pageRows')
  <2>1. CASE p <= lo
    <3>1. feed[p].tx > knownAtStart \/ feed[p] \in Range(pageRows)
      BY <1>1, <2>1 DEF FillsInv, PagedInv, feed, lo
    <3>2. QED
      BY <1>9, <3>1
  <2>2. CASE ~(p <= lo)
    <3>1. p \in (lo + 1)..end
      <4>1. p \in Nat /\ lo < p /\ p <= Len(feed) /\ p <= hi
        BY <1>3, <1>5, <1>10, <2>2
      <4>2. QED
        BY <1>5, <1>7, <4>1
    <3>2. QED
      BY <1>8, <1>9, <3>1
  <2>3. QED
    BY <2>1, <2>2
<1>11. FillsTypes'
  <2>1. ASSUME NEW r \in Range(pageRows') PROVE r.tx \in 1..indexed
    <3>1. CASE r \in Range(pageRows)
      BY <3>1 DEF FillsInv, FillsTypes
    <3>2. CASE \E q \in 1..Len(got) : r = got[q]
      BY <1>4, <1>8, <3>2
    <3>3. QED
      BY <1>9, <2>1, <3>1, <3>2
  <2>2. importPc' \in {"idle", "paging", "read"}
    <3> HIDE DEF last
    <3>1. QED
      BY <1>1
  <2>3. QED
    BY <1>1, <1>6, <1>9, <2>1, <2>2 DEF FillsInv, FillsTypes
<1>12. PagedInv'
  <2>1. TradeFeed' = feed
    BY <1>1 DEF TradeFeed, feed
  <2>2. QED
    BY <1>1, <1>6, <1>10, <2>1 DEF PagedInv
<1>13. ReadInv'
  <2>1. SUFFICES ASSUME importPc' = "read", pageNo' < MaxTradePages,
                        NEW x \in 1..knownAtStart, NEW n \in DOMAIN Transactions[x], x >= Lookback
                 PROVE  RowOf(x, n) \in Range(pageRows')
    BY <1>1 DEF ReadInv
  <2>2. PICK p \in 1..Len(feed) : feed[p] = RowOf(x, n)
    BY <1>2, <1>4
  <2>3. feed[p].tx = x
    BY <2>2 DEF RowOf
  <2>4. p <= hi
    <3>1. CASE Len(got) < TradesPage
      BY <1>3, <1>5, <1>7, <1>8, <3>1
    <3>2. CASE \E r \in Range(got) : r.when < Lookback
      <4>1. PICK q \in 1..Len(got) : got[q].when < Lookback
        <5>1. PICK r \in Range(got) : r.when < Lookback
          BY <3>2
        <5>2. got \in Seq(TradeRows)
          BY <1>8
        <5>3. PICK q \in 1..Len(got) : r = got[q]
          BY <5>1, <5>2, Ranged, Zenon
        <5>4. QED
          BY <5>1, <5>3
      <4>2. lo + q \in 1..Len(feed) /\ lo + q <= hi /\ feed[lo + q].tx < Lookback
            /\ feed[lo + q].tx \in Nat
        <5>1. lo + q \in 1..Len(feed) /\ lo + q <= end /\ got[q] = feed[lo + q]
          BY <1>8
        <5>2. feed[lo + q].tx \in 1..indexed /\ feed[lo + q].when = feed[lo + q].tx
          BY <1>4, <5>1
        <5>3. lo + q <= hi
          <6>1. q \in Nat
            BY <1>5, <1>7, <1>8
          <6>2. QED
            BY <1>5, <1>7, <5>1, <6>1
        <5>4. QED
          BY <1>2, <4>1, <5>1, <5>2, <5>3
      <4>3. feed[lo + q].tx < x
        BY <1>2, <2>1, <4>2, FillsConstants
      <4>4. ~(lo + q < p)
        BY <1>2, <1>4, <2>3, <4>2, <4>3
      <4>5. QED
        BY <1>3, <1>5, <4>2, <4>4
    <3>3. ~(pageNo + 1 = MaxTradePages)
      BY <1>1, <1>2, <2>1, FillsConstants
    <3>4. last
      BY <1>1, <2>1
    <3>5. QED
      BY <3>1, <3>2, <3>3, <3>4
  <2>5. feed[p].tx > knownAtStart \/ feed[p] \in Range(pageRows')
    BY <1>10, <2>4
  <2>6. QED
    BY <1>2, <2>2, <2>3, <2>5
<1>14. BetsInv'
  BY <1>1 DEF FillsInv, BetsInv
<1>15. QED
  BY <1>11, <1>12, <1>13, <1>14 DEF FillsInv

\* A failed request leaves nothing but the pages' number behind.
LEMMA PageFailsStep ==
  ASSUME FillsInv, PageFails
  PROVE  FillsInv'
<1>1. /\ importPc' = "idle" /\ pageRows' = <<>>
      /\ UNCHANGED <<indexed, tracked, sampled, pageNo>> /\ UNCHANGED <<knownAtStart, walletBets>>
  BY DEF PageFails
<1>2. Range(pageRows') = {} /\ pageRows' \in Seq(TradeRows)
  BY <1>1 DEF Range
<1>3. FillsTypes'
  BY <1>1, <1>2 DEF FillsInv, FillsTypes
<1>4. PagedInv' /\ ReadInv'
  BY <1>1 DEF PagedInv, ReadInv
<1>5. BetsInv'
  BY <1>1 DEF FillsInv, BetsInv
<1>6. QED
  BY <1>3, <1>4, <1>5 DEF FillsInv

\* The keys of the orders an import makes bets of.
WantedKeys ==
    {<<r.tx, r.asset>> : r \in {x \in Range(pageRows) :
        Parseable(x) /\ x.side = "BUY" /\ WhySkipped(ImportKey(x), "BUY") = None}}

LEMMA ImportAddsWanted ==
  ASSUME FillsImported
  PROVE  walletBets' = walletBets \cup {WalletBet(pageRows, key) : key \in WantedKeys}
<1> DEFINE groups == {<<ImportKey(f), f.side>> : f \in {r \in Range(pageRows) : Parseable(r)}}
           wanted == {g \in groups : WhySkipped(g[1], g[2]) = None}
<1>1. walletBets' = walletBets \cup {WalletBet(pageRows, g[1]) : g \in wanted}
  BY DEF FillsImported
<1>2. ASSUME NEW key \in WantedKeys PROVE \E g \in wanted : key = g[1]
  <2>1. PICK x \in Range(pageRows) : /\ Parseable(x) /\ x.side = "BUY" /\ key = ImportKey(x)
                                     /\ WhySkipped(ImportKey(x), "BUY") = None
    BY DEF WantedKeys, ImportKey
  <2>2. <<ImportKey(x), x.side>> \in wanted
    BY <2>1
  <2>3. QED
    BY <2>1, <2>2
<1>3. ASSUME NEW g \in wanted PROVE g[1] \in WantedKeys
  <2>1. PICK x \in Range(pageRows) : Parseable(x) /\ g = <<ImportKey(x), x.side>>
    OBVIOUS
  <2>2. g[1] = ImportKey(x) /\ g[2] = x.side /\ WhySkipped(g[1], g[2]) = None
    BY <2>1
  <2>3. x.side = "BUY"
    <3>1. None # "sell"
      BY FillsConstants DEF SkipReasons
    <3>2. QED
      BY <2>2, <3>1 DEF WhySkipped
  <2>4. QED
    BY <2>1, <2>2, <2>3 DEF WantedKeys, ImportKey
<1> HIDE DEF wanted
<1>4. {WalletBet(pageRows, g[1]) : g \in wanted} = {WalletBet(pageRows, key) : key \in WantedKeys}
  BY <1>2, <1>3
<1>5. QED
  BY <1>1, <1>4

\* An order that is wanted is not a bet yet.
LEMMA WantedAreNew ==
  ASSUME NEW key \in WantedKeys
  PROVE  \A b \in walletBets : b.key # key
<1>1. PICK x \in Range(pageRows) : key = ImportKey(x) /\ WhySkipped(ImportKey(x), "BUY") = None
  BY DEF WantedKeys, ImportKey
<1>2. None # "already"
  BY FillsConstants DEF SkipReasons
<1>3. QED
  BY <1>1, <1>2 DEF WhySkipped

LEMMA WantedAreFilled ==
  ASSUME FillsInv, NEW key \in WantedKeys
  PROVE  key[1] \in 1..indexed /\ key[1] \in 0..indexed
<1>1. PICK x \in Range(pageRows) : key = <<x.tx, x.asset>>
  BY DEF WantedKeys
<1>2. x.tx \in 1..indexed /\ key[1] = x.tx
  BY <1>1 DEF FillsInv, FillsTypes
<1>3. QED
  BY <1>2

LEMMA FillsImportedStep ==
  ASSUME FillsInv, FillsImported
  PROVE  FillsInv'
<1> DEFINE bet(key) == WalletBet(pageRows, key)
<1>1. /\ importPc' = "idle" /\ pageRows' = <<>>
      /\ UNCHANGED <<indexed, tracked, sampled, pageNo>> /\ UNCHANGED knownAtStart
  BY DEF FillsImported
<1>2. walletBets' = walletBets \cup {bet(key) : key \in WantedKeys}
  BY ImportAddsWanted
<1>3. \A key : bet(key).key = key /\ bet(key).fair = FairAt(key[1])
  BY DEF WalletBet
<1>4. Range(pageRows') = {} /\ pageRows' \in Seq(TradeRows)
  BY <1>1 DEF Range
<1>5. FillsTypes'
  BY <1>1, <1>4 DEF FillsInv, FillsTypes
<1>6. PagedInv' /\ ReadInv'
  BY <1>1 DEF PagedInv, ReadInv
<1> HIDE DEF bet
<1>7. ASSUME NEW b \in walletBets', NEW c \in walletBets', b.key = c.key
      PROVE  b = c
  <2>1. CASE b \in walletBets /\ c \in walletBets
    BY <1>7, <2>1 DEF FillsInv, BetsInv
  <2>2. CASE b \notin walletBets /\ c \notin walletBets
    BY <1>2, <1>3, <1>7, <2>2
  <2>3. CASE b \in walletBets /\ c \notin walletBets
    BY <1>2, <1>3, <1>7, <2>3, WantedAreNew
  <2>4. CASE b \notin walletBets /\ c \in walletBets
    BY <1>2, <1>3, <1>7, <2>4, WantedAreNew
  <2>5. QED
    BY <2>1, <2>2, <2>3, <2>4
<1>8. ASSUME NEW b \in walletBets'
      PROVE  /\ b.key[1] \in 1..indexed
             /\ b.fair # None => b.fair \in Int /\ b.fair <= b.key[1]
             /\ \A t \in sampled : t < b.key[1] => b.fair # None /\ b.fair >= t
  <2>1. CASE b \in walletBets
    BY <2>1 DEF FillsInv, BetsInv
  <2>2. CASE b \notin walletBets
    <3>1. PICK key \in WantedKeys : b = bet(key)
      BY <1>2, <2>2
    <3>2. b.key[1] \in 1..indexed /\ b.key[1] \in 0..indexed /\ b.fair = FairAt(b.key[1])
      BY <1>3, <3>1, WantedAreFilled
    <3>3. QED
      BY <3>2, FairAtIsNewest DEF FillsInv
  <2>3. QED
    BY <2>1, <2>2
<1>9. BetsInv'
  BY <1>1, <1>7, <1>8 DEF BetsInv
<1>10. QED
  BY <1>5, <1>6, <1>9 DEF FillsInv

LEMMA FillsStep ==
  ASSUME FillsInv, [FillsNext]_fillsVars
  PROVE  FillsInv'
<1>1. CASE TrackMarket \/ UNCHANGED fillsVars
  <2>1. UNCHANGED <<indexed, sampled, importPc, pageNo>>
        /\ UNCHANGED <<pageRows, knownAtStart, walletBets>>
    BY <1>1 DEF TrackMarket, fillsVars
  <2>2. QED
    BY <2>1 DEF FillsInv, FillsTypes, PagedInv, ReadInv, BetsInv, TradeFeed
<1>2. QED
  BY <1>1, PlaceTradeStep, PriceSampleStep, ImportStartsStep, PageReadStep, PageFailsStep,
     FillsImportedStep DEF FillsNext

LEMMA FillsInvariant == FillsSpec => []FillsInv
<1>1. FillsInit => FillsInv
  <2>1. SUFFICES ASSUME FillsInit PROVE FillsInv
    OBVIOUS
  <2>2. indexed = 0 /\ importPc = "idle" /\ pageRows = <<>> /\ walletBets = {} /\ sampled = {}
        /\ pageNo = 0 /\ knownAtStart = 0
    BY <2>1 DEF FillsInit
  <2>3. Range(pageRows) = {} /\ pageRows \in Seq(TradeRows)
    BY <2>2 DEF Range
  <2>4. FillsTypes
    BY <2>2, <2>3, TransactionsType DEF FillsTypes
  <2>5. QED
    BY <2>2, <2>4 DEF FillsInv, PagedInv, ReadInv, BetsInv
<1>2. QED
  BY <1>1, FillsStep, PTL DEF FillsSpec

---------------------------------------------------------------------------
(* Orders are whole.                                                       *)

\* An older feed is the bottom of a newer one.
Below(s, t) ==
    LET old == FeedOf[s] new == FeedOf[t]
    IN  /\ Len(old) \in Nat /\ Len(new) \in Nat /\ Len(old) <= Len(new)
        /\ \A p \in 1..Len(old) : new[Len(new) - Len(old) + p] = old[p]
        /\ \A p \in 1..(Len(new) - Len(old)) : new[p].tx > s

LEMMA FeedsGrow ==
  ASSUME NEW s \in 0..Len(Transactions), NEW h \in s..Len(Transactions)
  PROVE  Below(s, h)
<1> DEFINE N == Len(Transactions)
           bad == {t \in s..N : ~Below(s, t)}
<1>1. N \in Nat /\ \A t \in 0..N : Len(FeedOf[t]) \in Nat
  <2>1. N \in Nat /\ \A t \in 0..N : FeedOf[t] \in Seq(TradeRows)
    BY TransactionsType, FeedUnfolds
  <2> HIDE DEF TradeRows, N
  <2>2. QED
    BY <2>1
<1>2. SUFFICES ASSUME bad # {} PROVE FALSE
  OBVIOUS
<1>3. bad \in SUBSET Nat
  BY <1>1
<1>4. PICK t \in bad : \A j \in bad : t <= j
  <2> HIDE DEF bad
  <2>1. QED
    BY <1>2, <1>3, HasLeast
<1>5. t # s
  <2>1. Len(FeedOf[s]) \in Nat
    BY <1>1
  <2>2. Below(s, s)
    BY <2>1 DEF Below
  <2>3. QED
    BY <1>4, <2>2
<1>6. t \in 1..N /\ t - 1 \in s..N /\ t - 1 \notin bad /\ t > s
  BY <1>1, <1>4, <1>5
<1>7. Below(s, t - 1)
  BY <1>6
<1>8. Extends(FeedOf[t], FeedOf[t - 1], t)
  BY <1>6, FeedShape, Zenon
<1> DEFINE k == Len(Transactions[t])
           old == FeedOf[s]
           mid == FeedOf[t - 1]
           new == FeedOf[t]
<1>9. /\ k \in Nat /\ Len(mid) \in Nat /\ Len(new) = k + Len(mid)
      /\ \A p \in 1..k : new[p].tx = t
      /\ \A p \in 1..Len(mid) : new[k + p] = mid[p]
  <2>1. \A p : RowOf(t, p).tx = t
    BY DEF RowOf
  <2>2. QED
    BY <1>8, <2>1 DEF Extends
<1>10. /\ Len(old) \in Nat /\ Len(old) <= Len(mid)
       /\ \A p \in 1..Len(old) : mid[Len(mid) - Len(old) + p] = old[p]
       /\ \A p \in 1..(Len(mid) - Len(old)) : mid[p].tx > s
  BY <1>7 DEF Below
<1> HIDE DEF k, old, mid, new, bad
<1>11. Len(new) \in Nat /\ Len(old) <= Len(new)
  BY <1>9, <1>10
<1>12. ASSUME NEW p \in 1..Len(old) PROVE new[Len(new) - Len(old) + p] = old[p]
  <2>1. Len(mid) - Len(old) + p \in 1..Len(mid)
    BY <1>9, <1>10
  <2>2. Len(new) - Len(old) + p = k + (Len(mid) - Len(old) + p)
    BY <1>9, <1>10
  <2>3. QED
    BY <1>9, <1>10, <2>1, <2>2
<1>13. ASSUME NEW p \in 1..(Len(new) - Len(old)) PROVE new[p].tx > s
  <2>1. CASE p <= k
    BY <1>6, <1>9, <2>1
  <2>2. CASE ~(p <= k)
    <3>1. p - k \in 1..(Len(mid) - Len(old)) /\ p - k \in 1..Len(mid) /\ p = k + (p - k)
      BY <1>9, <1>10, <2>2
    <3>2. QED
      BY <1>9, <1>10, <3>1
  <2>3. QED
    BY <2>1, <2>2
<1>14. Below(s, t)
  BY <1>10, <1>11, <1>12, <1>13 DEF Below, old, new
<1>15. QED
  BY <1>4, <1>14 DEF bad

\* The rows of a transaction are next to each other in the feed.
Block(feed, x, off) ==
    /\ off \in Nat /\ Len(Transactions[x]) \in Nat
    /\ \A n \in 1..Len(Transactions[x]) :
          off + n \in 1..Len(feed) /\ feed[off + n] = RowOf(x, n)
    /\ \A p \in 1..Len(feed) : feed[p].tx = x => p - off \in 1..Len(Transactions[x])

LEMMA RowsAreABlock ==
  ASSUME NEW t \in 0..Len(Transactions), NEW x \in 1..t
  PROVE  Block(FeedOf[t], x, Len(FeedOf[t]) - Len(FeedOf[x]))
<1>1. /\ Len(Transactions) \in Nat /\ x \in 1..Len(Transactions) /\ x \in 0..Len(Transactions)
      /\ t \in x..Len(Transactions) /\ x - 1 \in 0..Len(Transactions)
  BY TransactionsType
<1>2. Below(x, t)
  BY <1>1, FeedsGrow, Zenon
<1>3. Extends(FeedOf[x], FeedOf[x - 1], x)
  BY <1>1, FeedShape, Zenon
<1>4. \A p \in 1..Len(FeedOf[x - 1]) : FeedOf[x - 1][p].tx \in 1..(x - 1)
  BY <1>1, FeedIsOrderly DEF Orderly
<1> DEFINE k == Len(Transactions[x])
           feed == FeedOf[t]
           own == FeedOf[x]
           old == FeedOf[x - 1]
           off == Len(feed) - Len(own)
<1>5. /\ k \in Nat /\ Len(old) \in Nat /\ Len(own) = k + Len(old)
      /\ \A p \in 1..k : own[p] = RowOf(x, p)
      /\ \A p \in 1..Len(old) : own[k + p] = old[p]
  BY <1>3 DEF Extends
<1>6. /\ Len(own) \in Nat /\ Len(feed) \in Nat /\ Len(own) <= Len(feed)
      /\ \A p \in 1..Len(own) : feed[off + p] = own[p]
      /\ \A p \in 1..off : feed[p].tx > x
  BY <1>2 DEF Below
<1> HIDE DEF k, feed, own, old
<1>7. off \in Nat
  BY <1>6
<1>8. ASSUME NEW n \in 1..k PROVE off + n \in 1..Len(feed) /\ feed[off + n] = RowOf(x, n)
  <2>1. n \in 1..Len(own)
    BY <1>5
  <2>2. off + n \in 1..Len(feed)
    BY <1>6, <2>1
  <2>3. QED
    BY <1>5, <1>6, <2>1, <2>2
<1>9. ASSUME NEW p \in 1..Len(feed), feed[p].tx = x PROVE p - off \in 1..k
  <2> HIDE DEF off
  <2>1. ~(p <= off)
    <3>1. ~(x > x)
      BY <1>1
    <3>2. QED
      BY <1>6, <1>7, <1>9, <3>1
  <2>2. p - off \in 1..Len(own) /\ p = off + (p - off)
    BY <1>6, <1>7, <2>1 DEF off
  <2>3. CASE p - off <= k
    BY <1>5, <2>2, <2>3
  <2>4. CASE ~(p - off <= k)
    <3>1. p - off - k \in 1..Len(old) /\ p - off = k + (p - off - k)
      BY <1>5, <2>2, <2>4
    <3>2. own[p - off] = old[p - off - k]
      BY <1>5, <3>1
    <3>3. feed[p] = own[p - off]
      BY <1>6, <2>2
    <3>4. x \in 1..(x - 1)
      BY <1>4, <1>9, <3>1, <3>2, <3>3 DEF old
    <3>5. QED
      BY <1>1, <3>4
  <2>5. QED
    BY <2>3, <2>4
<1>10. QED
  BY <1>5, <1>7, <1>8, <1>9 DEF Block, k, feed, own

\* The first m rows of a feed are, in order, among the rows read.
InOrder(rows, feed, at, m) ==
    \A p \in 1..m : /\ at[p] \in 1..Len(rows) /\ rows[at[p]] = feed[p]
                    /\ \A o \in 1..m : o < p => at[o] < at[p]
ReadUpto(rows, feed, m) == \E at : InOrder(rows, feed, at, m)

\* The feed when the import began, and the rows it has got since.
FeedThen == FeedOf[knownAtStart]
Newer == Len(TradeFeed) - Len(FeedThen)

\* The pages were full, and have what has been above the next one all along.
PagesInv ==
    importPc = "paging" =>
    /\ Len(pageRows) = pageNo * TradesPage /\ Len(pageRows) <= Len(TradeFeed)
    /\ \A m \in 0..Len(FeedThen) : m + Newer <= Len(pageRows) => ReadUpto(pageRows, FeedThen, m)

\* A read that no page limit has cut has all rows down to the lookback.
EndsInv ==
    importPc = "read" /\ Len(TradeFeed) < TradesPage * MaxTradePages =>
    \E m \in 0..Len(FeedThen) :
        /\ ReadUpto(pageRows, FeedThen, m)
        /\ \A p \in 1..Len(FeedThen) : p > m => FeedThen[p].tx < Lookback

\* What is read from a feed that does not grow is that feed.
AloneInv ==
    importPc # "idle" /\ indexed = knownAtStart =>
    /\ Len(pageRows) <= Len(TradeFeed)
    /\ \A i \in 1..Len(pageRows) : pageRows[i] = TradeFeed[i]

WholeInv == PagesInv /\ EndsInv /\ AloneInv /\ BetIsItsFills

\* The feeds of a state.
LEMMA FeedsAre ==
  ASSUME FillsInv
  PROVE  /\ TradeFeed \in Seq(TradeRows) /\ FeedThen \in Seq(TradeRows)
         /\ Len(TradeFeed) \in Nat /\ Len(FeedThen) \in Nat /\ Newer \in Nat
         /\ Len(TradeFeed) = Newer + Len(FeedThen)
         /\ \A p \in 1..Len(FeedThen) : TradeFeed[Newer + p] = FeedThen[p]
         /\ indexed = knownAtStart => TradeFeed = FeedThen
<1>1. /\ indexed \in 0..Len(Transactions) /\ knownAtStart \in 0..Len(Transactions)
      /\ indexed \in knownAtStart..Len(Transactions)
  <2>1. indexed \in 0..Len(Transactions) /\ knownAtStart \in 0..indexed
        /\ Len(Transactions) \in Nat
    BY TransactionsType DEF FillsInv, FillsTypes
  <2>2. QED
    BY <2>1
<1>2. Below(knownAtStart, indexed)
  BY <1>1, FeedsGrow, Zenon
<1>3. TradeFeed \in Seq(TradeRows) /\ FeedThen \in Seq(TradeRows)
  BY <1>1, FeedUnfolds DEF TradeFeed, FeedThen
<1> DEFINE a == Len(TradeFeed)
           b == Len(FeedThen)
<1>4. /\ a \in Nat /\ b \in Nat /\ b <= a
      /\ \A p \in 1..b : TradeFeed[a - b + p] = FeedThen[p]
  BY <1>2 DEF Below, TradeFeed, FeedThen
<1>5. Newer = a - b
  BY DEF Newer
<1> HIDE DEF a, b
<1>6. Newer \in Nat /\ a = Newer + b
  BY <1>4, <1>5
<1>7. indexed = knownAtStart => TradeFeed = FeedThen
  BY DEF TradeFeed, FeedThen
<1>8. QED
  BY <1>3, <1>4, <1>5, <1>6, <1>7 DEF a, b

LEMMA RowsRead == FillsInv => Len(pageRows) \in Nat
<1> DEFINE R == TradeRows
<1> HIDE DEF R
<1>1. FillsInv => pageRows \in Seq(R)
  BY DEF FillsInv, FillsTypes, R
<1>2. QED
  BY <1>1

\* A trade on top of the feed moves no row that was read and adds none.
LEMMA PlaceTradeWhole ==
  ASSUME FillsInv, FillsInv', WholeInv, PlaceTrade
  PROVE  WholeInv'
<1>1. /\ UNCHANGED <<importPc, pageNo, pageRows>> /\ UNCHANGED <<knownAtStart, walletBets>>
      /\ indexed' = indexed + 1 /\ indexed \in Nat /\ knownAtStart \in Nat
      /\ knownAtStart <= indexed
  <2>1. indexed \in 0..Len(Transactions) /\ knownAtStart \in 0..indexed
        /\ Len(Transactions) \in Nat
    BY TransactionsType DEF FillsInv, FillsTypes
  <2>2. QED
    BY <2>1 DEF PlaceTrade
<1> DEFINE a == Len(TradeFeed)
           c == Len(TradeFeed')
           b == Len(FeedThen)
<1>2. FeedThen' = FeedThen
  BY <1>1 DEF FeedThen
<1>3. /\ a \in Nat /\ c \in Nat /\ b \in Nat /\ a <= c
      /\ Newer = a - b /\ Newer' = c - b
  <2>1. Newer = a - b /\ Newer' = c - b
    BY <1>2 DEF Newer
  <2>2. a \in Nat /\ b \in Nat
    BY FeedsAre
  <2>3. indexed \in 0..Len(Transactions) /\ indexed + 1 \in indexed..Len(Transactions)
    <3>1. indexed < Len(Transactions) /\ Len(Transactions) \in Nat
      BY TransactionsType DEF PlaceTrade
    <3>2. QED
      BY <1>1, <3>1
  <2>4. Below(indexed, indexed + 1)
    BY <2>3, FeedsGrow, Zenon
  <2>5. Below(indexed, indexed')
    BY <1>1, <2>4
  <2>6. c \in Nat /\ a <= c
    BY <2>5 DEF Below, TradeFeed
  <2>7. QED
    BY <2>1, <2>2, <2>6
<1>4. PagesInv'
  <2>1. SUFFICES ASSUME importPc = "paging"
                 PROVE  /\ Len(pageRows) = pageNo * TradesPage /\ Len(pageRows) <= c
                        /\ \A m \in 0..b : m + Newer' <= Len(pageRows) =>
                              ReadUpto(pageRows, FeedThen, m)
    BY <1>1, <1>2 DEF PagesInv
  <2>2. /\ Len(pageRows) = pageNo * TradesPage /\ Len(pageRows) <= a /\ Len(pageRows) \in Nat
        /\ \A m \in 0..b : m + Newer <= Len(pageRows) => ReadUpto(pageRows, FeedThen, m)
    BY <2>1, RowsRead DEF WholeInv, PagesInv
  <2> HIDE DEF a, b, c
  <2>3. \A m \in 0..b : m + Newer' <= Len(pageRows) => m + Newer <= Len(pageRows)
    BY <1>3, <2>2
  <2>4. Len(pageRows) <= c
    BY <1>3, <2>2
  <2>5. QED
    BY <2>2, <2>3, <2>4
<1>5. Len(TradeFeed') < TradesPage * MaxTradePages => Len(TradeFeed) < TradesPage * MaxTradePages
  <2>1. TradesPage * MaxTradePages \in Int
    BY FillsConstants
  <2>2. QED
    BY <1>3, <2>1
<1>6. EndsInv'
  BY <1>1, <1>2, <1>5 DEF WholeInv, EndsInv
<1>7. AloneInv'
  <2>1. ~(indexed + 1 = knownAtStart)
    BY <1>1
  <2>2. QED
    BY <1>1, <2>1 DEF AloneInv
<1>8. BetIsItsFills'
  BY <1>1, <1>5 DEF WholeInv, BetIsItsFills
<1>9. QED
  BY <1>4, <1>6, <1>7, <1>8 DEF WholeInv

LEMMA ImportStartsWhole ==
  ASSUME FillsInv, FillsInv', WholeInv, ImportStarts
  PROVE  WholeInv'
<1>1. /\ importPc' = "paging" /\ pageNo' = 0 /\ pageRows' = <<>> /\ knownAtStart' = indexed
      /\ UNCHANGED <<indexed, walletBets>>
  BY DEF ImportStarts
<1>2. Len(pageRows') = 0 /\ pageNo' * TradesPage = 0 /\ TradeFeed' = TradeFeed
  BY <1>1, FillsConstants DEF TradeFeed
<1>3. Newer' = 0 /\ Len(FeedThen') \in Nat /\ Len(TradeFeed') \in Nat
  <2>1. FeedThen' = TradeFeed /\ Len(TradeFeed) \in Nat
    BY <1>1, FeedsAre DEF FeedThen, TradeFeed
  <2>2. QED
    BY <1>2, <2>1 DEF Newer
<1>4. ASSUME NEW m \in 0..Len(FeedThen'), m + Newer' <= Len(pageRows')
      PROVE  ReadUpto(pageRows', FeedThen', m)
  <2>1. m = 0
    BY <1>2, <1>3, <1>4
  <2>2. InOrder(pageRows', FeedThen', <<>>, m)
    BY <2>1 DEF InOrder
  <2>3. QED
    BY <2>2 DEF ReadUpto
<1>5. PagesInv'
  BY <1>1, <1>2, <1>3, <1>4 DEF PagesInv
<1>6. EndsInv'
  BY <1>1 DEF EndsInv
<1>7. AloneInv'
  <2>1. 0 <= Len(TradeFeed') /\ 1..0 = {}
    BY <1>3
  <2>2. QED
    BY <1>2, <2>1 DEF AloneInv
<1>8. BetIsItsFills'
  BY <1>1, <1>2 DEF WholeInv, BetIsItsFills
<1>9. QED
  BY <1>5, <1>6, <1>7, <1>8 DEF WholeInv

\* The rows read get the next page of the feed.
PageAdded(rows, more, feed, lo, end) ==
    /\ Len(rows) = lo /\ Len(more) = end /\ lo <= end /\ end <= Len(feed)
    /\ \A i \in 1..lo : more[i] = rows[i]
    /\ \A i \in (lo + 1)..end : more[i] = feed[i]

\* A page of a feed, added to the rows read.
PageOf(got, feed, lo, end) ==
    /\ Len(got) = end - lo
    /\ \A q \in 1..Len(got) : lo + q \in 1..Len(feed) /\ lo + q <= end /\ got[q] = feed[lo + q]

LEMMA PageTaken ==
  ASSUME NEW S, NEW feed \in Seq(S), NEW rows \in Seq(S), NEW lo \in Nat, NEW end \in Nat,
         NEW got, got = SubSeq(feed, lo + 1, end), Len(rows) = lo, lo <= end, end <= Len(feed)
  PROVE  /\ got \in Seq(S) /\ PageOf(got, feed, lo, end)
         /\ PageAdded(rows, rows \o got, feed, lo, end)
<1>1. /\ got \in Seq(S)
      /\ Len(got) = IF lo + 1 <= end THEN end - lo ELSE 0
      /\ \A p \in (lo + 1)..end : p - lo \in 1..Len(got) /\ got[p - lo] = feed[p]
      /\ \A q \in 1..Len(got) : lo + q \in 1..Len(feed) /\ lo + q <= end /\ got[q] = feed[lo + q]
  BY Sliced
<1>2. Len(got) = end - lo
  BY <1>1
<1>3. /\ Len(got) \in Nat /\ Len(rows \o got) = lo + Len(got)
      /\ \A p \in 1..lo : (rows \o got)[p] = rows[p]
      /\ \A p \in 1..Len(got) : (rows \o got)[lo + p] = got[p]
  BY <1>1, Joined
<1> DEFINE more == rows \o got
<1>4. /\ Len(more) = lo + Len(got) /\ \A p \in 1..lo : more[p] = rows[p]
      /\ \A p \in 1..Len(got) : more[lo + p] = got[p]
  BY <1>3
<1> HIDE DEF more
<1>5. ASSUME NEW i \in (lo + 1)..end PROVE more[i] = feed[i]
  <2>1. i - lo \in 1..Len(got) /\ got[i - lo] = feed[i] /\ i = lo + (i - lo)
    BY <1>1
  <2>2. QED
    BY <1>4, <2>1
<1>6. PageAdded(rows, more, feed, lo, end)
  <2>1. Len(more) = end
    BY <1>2, <1>4
  <2>2. QED
    BY <1>4, <1>5, <2>1 DEF PageAdded
<1>7. QED
  BY <1>1, <1>2, <1>6 DEF PageOf, more

LEMMA PageReadsOn ==
  ASSUME NEW rows, NEW more, NEW feed, NEW old, NEW lo \in Nat, NEW end \in Nat, NEW newer \in Nat,
         PageAdded(rows, more, feed, lo, end), Len(old) \in Nat,
         \A p \in 1..Len(old) : feed[newer + p] = old[p],
         \A m \in 0..Len(old) : m + newer <= lo => ReadUpto(rows, old, m),
         NEW m \in 0..Len(old), m + newer <= end
  PROVE  ReadUpto(more, old, m)
<1> USE DEF PageAdded
<1>1. PICK k \in 0..m : /\ \A p \in 1..m : p > k => lo < newer + p
                        /\ ReadUpto(rows, old, k)
  <2>1. CASE m + newer <= lo
    <3>1. ReadUpto(rows, old, m) /\ m \in 0..m /\ \A p \in 1..m : ~(p > m)
      BY <2>1
    <3>2. QED
      BY <3>1
  <2>2. CASE ~(m + newer <= lo) /\ newer <= lo
    <3>1. lo - newer \in 0..m /\ lo - newer \in 0..Len(old) /\ (lo - newer) + newer <= lo
      BY <2>2
    <3>2. \A p \in 1..m : p > lo - newer => lo < newer + p
      OBVIOUS
    <3>3. QED
      BY <3>1, <3>2
  <2>3. CASE ~(newer <= lo)
    <3>1. InOrder(rows, old, <<>>, 0)
      BY DEF InOrder
    <3>2. 0 \in 0..m /\ \A p \in 1..m : lo < newer + p
      BY <2>3
    <3>3. QED
      BY <3>1, <3>2 DEF ReadUpto
  <2>4. QED
    BY <2>1, <2>2, <2>3
<1>2. PICK before : InOrder(rows, old, before, k)
  BY <1>1 DEF ReadUpto
<1>3. PICK at : at = [p \in 1..m |-> IF p <= k THEN before[p] ELSE newer + p]
  OBVIOUS
<1>4. ASSUME NEW p \in 1..m
      PROVE  /\ p <= k => p \in 1..k /\ at[p] = before[p]
             /\ ~(p <= k) => at[p] = newer + p /\ at[p] \in (lo + 1)..end /\ p \in 1..Len(old)
  <2>1. p <= k => p \in 1..k
    OBVIOUS
  <2>2. ~(p <= k) => newer + p \in (lo + 1)..end /\ p \in 1..Len(old)
    BY <1>1
  <2>3. QED
    BY <1>3, <2>1, <2>2
<1>5. \A p \in 1..k : /\ before[p] \in 1..lo /\ rows[before[p]] = old[p]
                      /\ \A o \in 1..k : o < p => before[o] < before[p]
  BY <1>2 DEF InOrder
<1>6. ASSUME NEW p \in 1..m PROVE at[p] \in 1..Len(more) /\ more[at[p]] = old[p]
  <2>1. CASE p <= k
    <3>1. at[p] \in 1..lo /\ rows[at[p]] = old[p]
      BY <1>4, <1>5, <2>1
    <3>2. QED
      BY <3>1
  <2>2. CASE ~(p <= k)
    <3>1. at[p] = newer + p /\ at[p] \in (lo + 1)..end /\ p \in 1..Len(old)
      BY <1>4, <2>2
    <3>2. more[at[p]] = feed[newer + p] /\ feed[newer + p] = old[p]
      BY <3>1
    <3>3. QED
      BY <3>1, <3>2
  <2>3. QED
    BY <2>1, <2>2
<1>7. ASSUME NEW p \in 1..m, NEW o \in 1..m, o < p PROVE at[o] < at[p]
  <2>1. CASE p <= k
    <3>1. o <= k /\ o \in 1..k /\ p \in 1..k
      BY <1>7, <2>1
    <3>2. at[o] = before[o] /\ at[p] = before[p]
      BY <1>4, <2>1, <3>1
    <3>3. QED
      BY <1>5, <1>7, <3>1, <3>2
  <2>2. CASE ~(p <= k)
    <3>1. at[p] = newer + p /\ at[p] \in (lo + 1)..end
      BY <1>4, <2>2
    <3>2. CASE o <= k
      <4>1. at[o] \in 1..lo
        BY <1>4, <1>5, <3>2
      <4>2. QED
        BY <3>1, <4>1
    <3>3. CASE ~(o <= k)
      <4>1. at[o] = newer + o
        BY <1>4, <3>3
      <4>2. QED
        BY <1>7, <3>1, <4>1
    <3>4. QED
      BY <3>2, <3>3
  <2>3. QED
    BY <2>1, <2>2
<1>8. InOrder(more, old, at, m)
  BY <1>6, <1>7 DEF InOrder
<1>9. QED
  BY <1>8 DEF ReadUpto

LEMMA PageReadWhole ==
  ASSUME FillsInv, WholeInv, PageRead
  PROVE  WholeInv'
<1> DEFINE feed == TradeFeed
           old == FeedThen
           lo == pageNo * TradesPage
           hi == (pageNo + 1) * TradesPage
           end == Min({hi, Len(feed)})
           got == SubSeq(feed, lo + 1, end)
           last == \/ Len(got) < TradesPage
                   \/ \E r \in Range(got) : r.when < Lookback
                   \/ pageNo + 1 = MaxTradePages
<1>1. /\ importPc = "paging" /\ pageRows' = pageRows \o got /\ pageNo' = pageNo + 1
      /\ importPc' = (IF last THEN "read" ELSE "paging")
      /\ UNCHANGED <<indexed, knownAtStart, walletBets>>
  BY DEF PageRead
<1>2. /\ indexed \in 0..Len(Transactions) /\ indexed \in Nat /\ pageNo \in Nat
      /\ pageRows \in Seq(TradeRows)
  BY TransactionsType DEF FillsInv, FillsTypes
<1>3. /\ feed \in Seq(TradeRows) /\ Len(feed) \in Nat /\ Len(old) \in Nat /\ Newer \in Nat
      /\ Len(feed) = Newer + Len(old)
      /\ \A p \in 1..Len(old) : feed[Newer + p] = old[p]
  BY FeedsAre
<1>4. /\ \A p \in 1..Len(feed) : feed[p].tx \in 1..indexed /\ feed[p].when = feed[p].tx
      /\ \A p, q \in 1..Len(feed) : p < q => feed[q].tx <= feed[p].tx
  BY <1>2, FeedIsOrderly DEF Orderly, TradeFeed
<1>5. /\ Len(pageRows) = lo /\ lo <= Len(feed)
      /\ \A m \in 0..Len(old) : m + Newer <= lo => ReadUpto(pageRows, old, m)
  BY <1>1 DEF WholeInv, PagesInv
<1>6. TradeFeed' = feed /\ FeedThen' = old /\ Newer' = Newer
  BY <1>1 DEF TradeFeed, FeedThen, Newer
<1>7. AloneInv => (indexed = knownAtStart => \A i \in 1..lo : pageRows[i] = feed[i])
  BY <1>1, <1>5 DEF AloneInv
<1> HIDE DEF feed, old
<1>8. lo \in Nat /\ hi \in Nat /\ hi = lo + TradesPage /\ TradesPage \in Nat \ {0}
  BY <1>2, FillsConstants
<1>9. pageNo' * TradesPage = hi
  BY <1>1
<1>10. pageNo + 1 = MaxTradePages => hi = TradesPage * MaxTradePages
  BY <1>2, FillsConstants
<1> HIDE DEF lo, hi
<1>11. end \in Nat /\ end <= hi /\ end <= Len(feed) /\ lo <= end /\ (end = hi \/ end = Len(feed))
  <2>1. {hi, Len(feed)} \in SUBSET Nat /\ {hi, Len(feed)} # {}
    BY <1>3, <1>8
  <2>2. end \in {hi, Len(feed)} /\ \A j \in {hi, Len(feed)} : end <= j
    BY <2>1, MinIsLeast
  <2> HIDE DEF end
  <2>3. QED
    BY <1>3, <1>5, <1>8, <2>2
<1> HIDE DEF end
<1>12. /\ got \in Seq(TradeRows) /\ PageOf(got, feed, lo, end)
       /\ PageAdded(pageRows, pageRows \o got, feed, lo, end)
  <2> DEFINE R == TradeRows
  <2>1. feed \in Seq(R) /\ pageRows \in Seq(R) /\ got = SubSeq(feed, lo + 1, end)
    BY <1>2, <1>3
  <2> HIDE DEF R, got
  <2>2. got \in Seq(R) /\ PageOf(got, feed, lo, end)
        /\ PageAdded(pageRows, pageRows \o got, feed, lo, end)
    BY <1>5, <1>8, <1>11, <2>1, PageTaken, Zenon
  <2>3. QED
    BY <2>2 DEF R
<1> HIDE DEF got
<1>13. /\ PageAdded(pageRows, pageRows', feed, lo, end)
       /\ Len(got) = end - lo
       /\ \A q \in 1..Len(got) : lo + q \in 1..Len(feed) /\ lo + q <= end /\ got[q] = feed[lo + q]
  BY <1>1, <1>12 DEF PageOf
<1>14. ASSUME NEW m \in 0..Len(old), m + Newer <= end PROVE ReadUpto(pageRows', old, m)
  BY <1>3, <1>5, <1>8, <1>11, <1>13, <1>14, PageReadsOn, Zenon
<1>15. Len(pageRows') = end
  BY <1>13 DEF PageAdded
<1>16. PagesInv'
  <2>1. SUFFICES ASSUME importPc' = "paging" PROVE Len(pageRows') = hi
    BY <1>6, <1>9, <1>11, <1>14, <1>15 DEF PagesInv
  <2>2. ~(Len(got) < TradesPage)
    BY <1>1, <2>1
  <2>3. QED
    BY <1>3, <1>8, <1>11, <1>13, <1>15, <2>2
<1>17. EndsInv'
  <2>1. SUFFICES ASSUME importPc' = "read", Len(feed) < TradesPage * MaxTradePages
                 PROVE  \E m \in 0..Len(old) :
                           /\ ReadUpto(pageRows', old, m)
                           /\ \A p \in 1..Len(old) : p > m => old[p].tx < Lookback
    BY <1>6 DEF EndsInv
  <2>2. last
    BY <1>1, <2>1
  <2>3. PICK m \in 0..Len(old) : /\ ReadUpto(pageRows', old, m)
                                 /\ \A p \in 1..Len(old) : p > m => end < Newer + p
    <3>1. CASE Newer <= end
      <4>1. end - Newer \in 0..Len(old) /\ (end - Newer) + Newer <= end
        BY <1>3, <1>11, <3>1
      <4>2. \A p \in 1..Len(old) : p > end - Newer => end < Newer + p
        BY <1>3, <1>11
      <4>3. QED
        BY <1>14, <4>1, <4>2
    <3>2. CASE ~(Newer <= end)
      <4>1. InOrder(pageRows', old, <<>>, 0)
        BY DEF InOrder
      <4>2. 0 \in 0..Len(old) /\ \A p \in 1..Len(old) : end < Newer + p
        BY <1>3, <1>11, <3>2
      <4>3. QED
        BY <4>1, <4>2 DEF ReadUpto
    <3>3. QED
      BY <3>1, <3>2
  <2>4. ASSUME NEW p \in 1..Len(old), p > m PROVE old[p].tx < Lookback
    <3>1. Newer + p \in 1..Len(feed) /\ end < Newer + p /\ feed[Newer + p] = old[p]
      BY <1>3, <2>3, <2>4
    <3>2. end = hi /\ end < Len(feed)
      BY <1>3, <1>11, <3>1
    <3>3. ~(Len(got) < TradesPage)
      BY <1>8, <1>13, <3>2
    <3>4. ~(pageNo + 1 = MaxTradePages)
      BY <1>3, <1>10, <1>11, <2>1, <3>2
    <3>5. PICK r \in Range(got) : r.when < Lookback
      BY <2>2, <3>3, <3>4
    <3>6. PICK i \in 1..Len(got) : r = got[i]
      <4>1. got \in Seq(TradeRows)
        BY <1>12
      <4>2. QED
        BY <3>5, <4>1, Ranged, Zenon
    <3>7. lo + i \in 1..Len(feed) /\ lo + i <= end /\ feed[lo + i] = r
      BY <1>13, <3>6
    <3>8. feed[Newer + p].tx <= feed[lo + i].tx
      <4>1. lo + i < Newer + p
        BY <1>3, <1>11, <3>1, <3>7
      <4>2. QED
        BY <1>4, <3>1, <3>7, <4>1
    <3>9. /\ feed[lo + i].tx < Lookback
          /\ feed[lo + i].tx \in Int /\ feed[Newer + p].tx \in Int
      BY <1>2, <1>4, <3>1, <3>5, <3>7
    <3>10. QED
      BY <3>1, <3>8, <3>9, FillsConstants
  <2>5. QED
    BY <2>3, <2>4
<1>18. AloneInv'
  <2>1. SUFFICES ASSUME indexed = knownAtStart, NEW i \in 1..end
                 PROVE  pageRows'[i] = feed[i]
    BY <1>1, <1>6, <1>11, <1>15 DEF AloneInv
  <2>2. CASE i <= lo
    BY <1>7, <1>8, <1>13, <2>1, <2>2 DEF PageAdded, WholeInv
  <2>3. CASE ~(i <= lo)
    BY <1>8, <1>11, <1>13, <2>3 DEF PageAdded
  <2>4. QED
    BY <2>2, <2>3
<1>19. BetIsItsFills'
  BY <1>1, <1>6 DEF WholeInv, BetIsItsFills, feed
<1>20. QED
  BY <1>16, <1>17, <1>18, <1>19 DEF WholeInv

\* A failed request leaves no rows behind, and no bet.
LEMMA PageFailsWhole ==
  ASSUME FillsInv, WholeInv, PageFails
  PROVE  WholeInv'
<1>1. importPc' = "idle" /\ UNCHANGED <<indexed, knownAtStart, walletBets>>
  BY DEF PageFails
<1>2. TradeFeed' = TradeFeed
  BY <1>1 DEF TradeFeed
<1>3. PagesInv' /\ EndsInv' /\ AloneInv'
  BY <1>1 DEF PagesInv, EndsInv, AloneInv
<1>4. BetIsItsFills'
  BY <1>1, <1>2 DEF WholeInv, BetIsItsFills
<1>5. QED
  BY <1>3, <1>4 DEF WholeInv

\* Some rows of one list are, in order, among those of another: they add up to no
\* more shares and no more cost.
Carried(a, D, b, E, at) ==
    \A i \in D : /\ at[i] \in E /\ a[i] = b[at[i]]
                 /\ \A k \in D : i < k => at[i] < at[k]

LEMMA RowsCompare ==
  ASSUME NEW a \in Seq(TradeRows), NEW b \in Seq(TradeRows),
         NEW D \in SUBSET (1..Len(a)), NEW E \in SUBSET (1..Len(b)),
         NEW at, Carried(a, D, b, E, at)
  PROVE  /\ SharesOf(a, D) \in Nat /\ SharesOf(b, E) \in Nat /\ SharesOf(a, D) <= SharesOf(b, E)
         /\ CostOf(a, D) \in Nat /\ CostOf(b, E) \in Nat /\ CostOf(a, D) <= CostOf(b, E)
<1>1. Len(a) \in Nat /\ Len(b) \in Nat /\ \A i \in E : b[i] \in TradeRows
  <2> DEFINE R == TradeRows
  <2>1. a \in Seq(R) /\ b \in Seq(R)
    OBVIOUS
  <2> HIDE DEF R
  <2>2. Len(a) \in Nat /\ Len(b) \in Nat /\ \A i \in 1..Len(b) : b[i] \in R
    BY <2>1
  <2>3. QED
    BY <2>2 DEF R
<1>2. \A i \in E : b[i].size \in Nat /\ b[i].size * b[i].price \in Nat
  BY <1>1 DEF TradeRows
<1>3. PICK f : f = [i \in D |-> a[i].size]
  OBVIOUS
<1>4. PICK g : g = [i \in E |-> b[i].size]
  OBVIOUS
<1>5. Among(f, D, g, E, at)
  BY <1>2, <1>3, <1>4 DEF Among, Carried
<1>6. SumOf(f) \in Nat /\ SumOf(g) \in Nat /\ SumOf(f) <= SumOf(g)
  BY <1>1, <1>5, SumsCompare, Zenon
<1>7. PICK v : v = [i \in D |-> a[i].size * a[i].price]
  OBVIOUS
<1>8. PICK w : w = [i \in E |-> b[i].size * b[i].price]
  OBVIOUS
<1>9. Among(v, D, w, E, at)
  BY <1>2, <1>7, <1>8 DEF Among, Carried
<1>10. SumOf(v) \in Nat /\ SumOf(w) \in Nat /\ SumOf(v) <= SumOf(w)
  BY <1>1, <1>9, SumsCompare, Zenon
<1>11. /\ SharesOf(a, D) = SumOf(f) /\ SharesOf(b, E) = SumOf(g)
       /\ CostOf(a, D) = SumOf(v) /\ CostOf(b, E) = SumOf(w)
  BY <1>3, <1>4, <1>7, <1>8, Zenon DEF SharesOf, CostOf
<1>12. QED
  BY <1>6, <1>10, <1>11

\* What the import puts together of an order, and what the order is.
LEMMA GroupIsOwn ==
  ASSUME NEW rows, NEW tx, NEW asset, NEW i \in DOMAIN rows, NEW n \in DOMAIN Transactions[tx],
         rows[i] = RowOf(tx, n)
  PROVE  i \in FillGroup(rows, <<tx, asset>>, "BUY") <=> n \in OwnFills(tx, asset)
<1>1. ImportKey(rows[i]) = <<tx, RowOf(tx, n).asset>>
  BY DEF ImportKey, RowOf
<1>2. ImportKey(rows[i]) = <<tx, asset>> <=> RowOf(tx, n).asset = asset
  BY <1>1
<1>3. QED
  BY <1>2 DEF FillGroup, OwnFills

\* The rows of an order that was whole in the feed when the import began are
\* among those read, and are those read when nothing was traded meanwhile.
LEMMA OrdersAreRead ==
  ASSUME FillsInv, WholeInv, importPc = "read", NEW tx \in 1..knownAtStart, tx >= Lookback,
         Len(TradeFeed) < TradesPage * MaxTradePages, NEW asset
  PROVE  /\ \E at : Carried(RowsOfTx(tx), OwnFills(tx, asset),
                           pageRows, FillGroup(pageRows, <<tx, asset>>, "BUY"), at)
         /\ indexed = knownAtStart =>
               \E at : Carried(pageRows, FillGroup(pageRows, <<tx, asset>>, "BUY"),
                              RowsOfTx(tx), OwnFills(tx, asset), at)
<1> DEFINE own == OwnFills(tx, asset)
           group == FillGroup(pageRows, <<tx, asset>>, "BUY")
           k == Len(Transactions[tx])
           off == Len(FeedThen) - Len(FeedOf[tx])
<1>1. /\ indexed \in Nat /\ knownAtStart \in 0..Len(Transactions) /\ tx \in DOMAIN Transactions
      /\ Len(pageRows) \in Nat /\ DOMAIN pageRows = 1..Len(pageRows)
      /\ \A i \in 1..Len(pageRows) : pageRows[i] \in TradeRows
  <2> DEFINE R == TradeRows
  <2>1. pageRows \in Seq(R)
    BY DEF FillsInv, FillsTypes
  <2>2. indexed \in 0..Len(Transactions) /\ knownAtStart \in 0..indexed
    BY DEF FillsInv, FillsTypes
  <2> HIDE DEF R
  <2>3. /\ Len(pageRows) \in Nat /\ DOMAIN pageRows = 1..Len(pageRows)
        /\ \A i \in 1..Len(pageRows) : pageRows[i] \in R
    BY <2>1
  <2>4. indexed \in Nat /\ knownAtStart \in 0..Len(Transactions) /\ tx \in DOMAIN Transactions
    BY <2>2, TransactionsType
  <2>5. QED
    BY <2>3, <2>4 DEF R
<1>2. k \in Nat /\ DOMAIN Transactions[tx] = 1..k
  BY <1>1, TransactionsType
<1>3. Block(FeedThen, tx, off)
  BY <1>1, RowsAreABlock DEF FeedThen
<1>4. /\ off \in Nat /\ \A n \in 1..k : /\ off + n \in 1..Len(FeedThen)
                                        /\ FeedThen[off + n] = RowOf(tx, n)
      /\ \A p \in 1..Len(FeedThen) : FeedThen[p].tx = tx => p - off \in 1..k
  BY <1>3 DEF Block
<1>5. Len(FeedThen) \in Nat /\ (indexed = knownAtStart => TradeFeed = FeedThen)
  BY FeedsAre
<1>6. /\ own \in SUBSET (1..k)
      /\ \A n \in 1..k : RowsOfTx(tx)[n] = RowOf(tx, n) /\ RowOf(tx, n).tx = tx
  BY <1>1, <1>2, RowsOfTxType DEF OwnFills, RowOf
<1>7. group \in SUBSET (1..Len(pageRows)) /\ \A i \in group : pageRows[i].tx = tx
  BY <1>1 DEF FillGroup, ImportKey
<1>8. \A i \in 1..Len(pageRows), n \in 1..k :
         pageRows[i] = RowOf(tx, n) => (i \in group <=> n \in own)
  BY <1>1, <1>2, GroupIsOwn
<1> HIDE DEF own, group, k, off
<1>9. \E at : Carried(RowsOfTx(tx), own, pageRows, group, at)
  <2>1. PICK m \in 0..Len(FeedThen) :
           /\ ReadUpto(pageRows, FeedThen, m)
           /\ \A p \in 1..Len(FeedThen) : p > m => FeedThen[p].tx < Lookback
    BY DEF WholeInv, EndsInv
  <2>2. PICK at : InOrder(pageRows, FeedThen, at, m)
    BY <2>1 DEF ReadUpto
  <2>3. ASSUME NEW n \in 1..k PROVE off + n \in 1..m
    <3>1. off + n \in 1..Len(FeedThen) /\ FeedThen[off + n].tx = tx
      BY <1>4, <1>6
    <3>2. ~(tx < Lookback)
      BY <1>1, FillsConstants
    <3>3. ~(off + n > m)
      BY <2>1, <3>1, <3>2
    <3>4. QED
      BY <1>5, <2>1, <3>1, <3>3
  <2>4. PICK to : to = [n \in 1..k |-> at[off + n]]
    OBVIOUS
  <2>5. ASSUME NEW n \in own
        PROVE  /\ to[n] \in group /\ RowsOfTx(tx)[n] = pageRows[to[n]]
               /\ \A o \in own : n < o => to[n] < to[o]
    <3>1. n \in 1..k /\ off + n \in 1..m /\ to[n] = at[off + n]
      BY <1>6, <2>3, <2>4
    <3>2. at[off + n] \in 1..Len(pageRows) /\ pageRows[at[off + n]] = FeedThen[off + n]
      BY <2>2, <3>1 DEF InOrder
    <3>3. to[n] \in 1..Len(pageRows) /\ pageRows[to[n]] = RowOf(tx, n)
      BY <1>4, <3>1, <3>2
    <3>4. to[n] \in group /\ RowsOfTx(tx)[n] = pageRows[to[n]]
      BY <1>6, <1>8, <3>1, <3>3
    <3>5. ASSUME NEW o \in own, n < o PROVE to[n] < to[o]
      <4>1. o \in 1..k /\ off + o \in 1..m /\ to[o] = at[off + o]
        BY <1>6, <2>3, <2>4
      <4>2. off + n < off + o
        BY <1>2, <1>4, <3>1, <3>5, <4>1
      <4>3. QED
        BY <2>2, <3>1, <4>1, <4>2 DEF InOrder
    <3>6. QED
      BY <3>4, <3>5
  <2>6. QED
    BY <2>5 DEF Carried
<1>10. ASSUME indexed = knownAtStart
       PROVE  \E at : Carried(pageRows, group, RowsOfTx(tx), own, at)
  <2>1. /\ Len(pageRows) <= Len(FeedThen)
        /\ \A i \in 1..Len(pageRows) : pageRows[i] = FeedThen[i]
    BY <1>5, <1>10 DEF WholeInv, AloneInv
  <2>2. PICK to : to = [i \in 1..Len(pageRows) |-> i - off]
    OBVIOUS
  <2>3. ASSUME NEW i \in group
        PROVE  /\ to[i] \in own /\ pageRows[i] = RowsOfTx(tx)[to[i]]
               /\ \A o \in group : i < o => to[i] < to[o]
    <3>1. i \in 1..Len(pageRows) /\ i \in 1..Len(FeedThen) /\ to[i] = i - off
      BY <1>1, <1>5, <1>7, <2>1, <2>2
    <3>2. FeedThen[i].tx = tx
      BY <1>7, <2>1, <3>1
    <3>3. i - off \in 1..k /\ off + (i - off) = i
      BY <1>4, <3>1, <3>2
    <3>4. pageRows[i] = RowOf(tx, i - off)
      BY <1>4, <2>1, <3>1, <3>3
    <3>5. to[i] \in own /\ pageRows[i] = RowsOfTx(tx)[to[i]]
      BY <1>6, <1>8, <3>1, <3>3, <3>4
    <3>6. ASSUME NEW o \in group, i < o PROVE to[i] < to[o]
      <4>1. o \in 1..Len(pageRows) /\ to[o] = o - off
        BY <1>7, <2>2
      <4>2. QED
        BY <1>1, <1>4, <3>1, <3>6, <4>1
    <3>7. QED
      BY <3>5, <3>6
  <2>4. QED
    BY <2>3 DEF Carried
<1>11. QED
  BY <1>9, <1>10 DEF own, group

LEMMA FillsImportedWhole ==
  ASSUME FillsInv, WholeInv, FillsImported
  PROVE  WholeInv'
<1>1. importPc = "read" /\ importPc' = "idle" /\ UNCHANGED <<indexed, knownAtStart>>
  BY DEF FillsImported
<1>2. TradeFeed' = TradeFeed
  BY <1>1 DEF TradeFeed
<1>3. PagesInv' /\ EndsInv' /\ AloneInv'
  BY <1>1 DEF PagesInv, EndsInv, AloneInv
<1>4. ASSUME NEW key \in WantedKeys, key[1] \in Lookback..knownAtStart,
             Len(TradeFeed) < TradesPage * MaxTradePages
      PROVE  LET b == WalletBet(pageRows, key)
                 shares == SharesOf(RowsOfTx(key[1]), OwnFills(key[1], key[2]))
                 cost == CostOf(RowsOfTx(key[1]), OwnFills(key[1], key[2]))
             IN  /\ b.shares >= shares /\ b.cost >= cost
                 /\ ~b.crossed => b.shares = shares /\ b.cost = cost
  <2> DEFINE tx == key[1]
             asset == key[2]
             rows == RowsOfTx(tx)
             own == OwnFills(tx, asset)
             group == FillGroup(pageRows, key, "BUY")
  <2>1. key = <<tx, asset>> /\ tx \in 1..knownAtStart /\ tx >= Lookback
        /\ knownAtStart <= indexed /\ indexed \in Nat /\ knownAtStart \in Nat
        /\ tx \in DOMAIN Transactions
    <3>1. PICK x \in Range(pageRows) : key = <<x.tx, x.asset>>
      BY DEF WantedKeys
    <3>2. tx \in 1..indexed /\ knownAtStart \in 0..indexed /\ indexed \in 0..Len(Transactions)
      BY WantedAreFilled DEF FillsInv, FillsTypes
    <3>3. indexed \in Nat /\ tx \in DOMAIN Transactions
      BY <3>2, TransactionsType
    <3>4. QED
      BY <1>4, <3>1, <3>2, <3>3, FillsConstants
  <2>2. rows \in Seq(TradeRows) /\ pageRows \in Seq(TradeRows)
    BY <2>1, RowsOfTxType DEF FillsInv, FillsTypes
  <2>3. own \in SUBSET (1..Len(rows)) /\ group \in SUBSET (1..Len(pageRows))
    <3>1. Len(rows) = Len(Transactions[tx]) /\ DOMAIN Transactions[tx] = 1..Len(Transactions[tx])
      BY <2>1, RowsOfTxType, TransactionsType
    <3>2. DOMAIN pageRows = 1..Len(pageRows)
      <4> DEFINE R == TradeRows
      <4>1. pageRows \in Seq(R)
        BY <2>2
      <4> HIDE DEF R
      <4>2. QED
        BY <4>1
    <3>3. QED
      BY <3>1, <3>2 DEF OwnFills, FillGroup
  <2> HIDE DEF tx, asset
  <2>4. group = FillGroup(pageRows, <<tx, asset>>, "BUY")
    BY <2>1
  <2>5. /\ \E at : Carried(rows, own, pageRows, group, at)
        /\ indexed = knownAtStart => \E at : Carried(pageRows, group, rows, own, at)
    BY <1>1, <1>4, <2>1, <2>4, OrdersAreRead
  <2> DEFINE shares == SharesOf(pageRows, group)
             cost == CostOf(pageRows, group)
             ownShares == SharesOf(rows, own)
             ownCost == CostOf(rows, own)
  <2>6. WalletBet(pageRows, key).shares = shares /\ WalletBet(pageRows, key).cost = cost
        /\ WalletBet(pageRows, key).crossed = (indexed > knownAtStart)
    BY DEF WalletBet
  <2> HIDE DEF rows, own, group
  <2>7. /\ shares \in Nat /\ ownShares \in Nat /\ ownShares <= shares
        /\ cost \in Nat /\ ownCost \in Nat /\ ownCost <= cost
    BY <2>2, <2>3, <2>5, RowsCompare, Zenon
  <2>8. ASSUME indexed = knownAtStart PROVE shares <= ownShares /\ cost <= ownCost
    BY <2>2, <2>3, <2>5, <2>8, RowsCompare, Zenon
  <2> HIDE DEF shares, cost, ownShares, ownCost
  <2>9. ~(indexed > knownAtStart) => shares = ownShares /\ cost = ownCost
    BY <2>1, <2>7, <2>8
  <2>10. shares >= ownShares /\ cost >= ownCost
    BY <2>7
  <2>11. QED
    BY <2>6, <2>9, <2>10 DEF shares, cost, ownShares, ownCost, rows, own, tx, asset
<1>5. ASSUME NEW b \in walletBets' \ walletBets
      PROVE  \E key \in WantedKeys : b = WalletBet(pageRows, key)
  BY <1>5, ImportAddsWanted
<1>6. \A key : WalletBet(pageRows, key).key = key /\ WalletBet(pageRows, key).known = knownAtStart
  BY DEF WalletBet
<1>7. BetIsItsFills'
  <2>1. SUFFICES ASSUME NEW b \in walletBets', b.key[1] \in Lookback..b.known,
                        Len(TradeFeed) < TradesPage * MaxTradePages
                 PROVE  LET shares == SharesOf(RowsOfTx(b.key[1]), OwnFills(b.key[1], b.key[2]))
                            cost == CostOf(RowsOfTx(b.key[1]), OwnFills(b.key[1], b.key[2]))
                        IN  /\ b.shares >= shares /\ b.cost >= cost
                            /\ ~b.crossed => b.shares = shares /\ b.cost = cost
    BY <1>2, Zenon DEF BetIsItsFills
  <2>2. CASE b \in walletBets
    BY <2>1, <2>2 DEF WholeInv, BetIsItsFills
  <2>3. CASE b \notin walletBets
    <3>1. PICK key \in WantedKeys : b = WalletBet(pageRows, key)
      BY <1>5, <2>3
    <3>2. b.key = key /\ b.known = knownAtStart
      BY <1>6, <3>1
    <3>3. QED
      BY <1>4, <2>1, <3>1, <3>2
  <2>4. QED
    BY <2>2, <2>3
<1>8. QED
  BY <1>3, <1>7 DEF WholeInv

LEMMA WholeStep ==
  ASSUME FillsInv, FillsInv', WholeInv, [FillsNext]_fillsVars
  PROVE  WholeInv'
<1>1. CASE PlaceTrade
  BY <1>1, PlaceTradeWhole
<1>2. CASE ImportStarts
  BY <1>2, ImportStartsWhole
<1>3. CASE PageRead
  BY <1>3, PageReadWhole
<1>4. CASE PageFails
  BY <1>4, PageFailsWhole
<1>5. CASE FillsImported
  BY <1>5, FillsImportedWhole
<1>6. CASE TrackMarket \/ PriceSample \/ UNCHANGED fillsVars
  <2>1. /\ UNCHANGED <<indexed, importPc, pageNo, pageRows>>
        /\ UNCHANGED <<knownAtStart, walletBets>>
    BY <1>6 DEF TrackMarket, PriceSample, fillsVars
  <2>2. TradeFeed' = TradeFeed /\ FeedThen' = FeedThen /\ Newer' = Newer
    BY <2>1 DEF TradeFeed, FeedThen, Newer
  <2>3. PagesInv' /\ EndsInv' /\ AloneInv'
    BY <2>1, <2>2 DEF WholeInv, PagesInv, EndsInv, AloneInv
  <2>4. BetIsItsFills'
    BY <2>1, <2>2 DEF WholeInv, BetIsItsFills
  <2>5. QED
    BY <2>3, <2>4 DEF WholeInv
<1>7. QED
  BY <1>1, <1>2, <1>3, <1>4, <1>5, <1>6 DEF FillsNext

LEMMA WholeInvariant == FillsSpec => []WholeInv
<1>1. FillsInit => WholeInv
  BY DEF FillsInit, WholeInv, PagesInv, EndsInv, AloneInv, BetIsItsFills
<1>2. FillsInv /\ FillsInv' /\ WholeInv /\ [FillsNext]_fillsVars => WholeInv'
  BY WholeStep
<1>3. QED
  BY <1>1, <1>2, FillsInvariant, PTL DEF FillsSpec

---------------------------------------------------------------------------
(* The theorems about the import.                                          *)

\* The fair value stored with an imported bet is the newest that was known before
\* the order was filled, whenever the import ran.
THEOREM FairsAreFromBefore == FillsSpec => []FairFromBeforeTheFill
<1>1. FillsInv => FairFromBeforeTheFill
  BY DEF FillsInv, BetsInv, FairFromBeforeTheFill
<1>2. QED
  BY <1>1, FillsInvariant, PTL

\* A bet is the sum of its order's fills, wherever the pages cut them, and never
\* less than that when the owner trades while the feed is read (an order the feed
\* had when the import began, within the lookback and the pages it may ask for).
THEOREM BetsAreTheirFills == FillsSpec => []BetIsItsFills
<1>1. WholeInv => BetIsItsFills
  BY DEF WholeInv
<1>2. QED
  BY <1>1, WholeInvariant, PTL

\* An imported bet is what its order bought, at what that was worth then.
THEOREM BetsAreWhatWasBought == FillsSpec => []BetsAreTheirOrders
BY BetsAreTheirFills, FairsAreFromBefore, PTL DEF BetsAreTheirOrders

\* Whatever is traded while the feed is paged, every order it had when the import
\* began, of a tracked market, before kickoff and within the lookback, is one bet
\* when the import has finished, unless it asked for as many pages as it may.
THEOREM ImportsMissNothing == FillsSpec => NothingMissed
<1>1. ASSUME FillsInv, FillsInv', FillsImported, tracked, pageNo < MaxTradePages,
             NEW tx \in 1..knownAtStart, NEW asset \in FillOutcomes, Importable(tx, asset)
      PROVE  Cardinality({b \in walletBets' : b.key = <<tx, asset>>}) = 1
  <2> DEFINE key == <<tx, asset>>
  <2>1. PICK n \in DOMAIN Transactions[tx] :
           RowOf(tx, n).asset = asset /\ RowOf(tx, n).side = "BUY" /\ Parseable(RowOf(tx, n))
    BY <1>1 DEF Importable
  <2> DEFINE row == RowOf(tx, n)
  <2>2. tx \in Nat /\ tx >= Lookback /\ tx < FillKickoff
    BY <1>1, FillsConstants DEF Importable
  <2>3. row \in Range(pageRows)
    BY <1>1, <2>2 DEF FillsInv, ReadInv, FillsImported
  <2>4. row.tx = tx /\ ImportKey(row) = key
    BY <2>1 DEF ImportKey, RowOf
  <2>5. \E b \in walletBets' : b.key = key
    <3>1. CASE \E b \in walletBets : b.key = key
      BY <1>1, <3>1, ImportAddsWanted
    <3>2. CASE ~\E b \in walletBets : b.key = key
      <4>1. key[1] = tx /\ key[2] = asset
        OBVIOUS
      <4>2. WhySkipped(key, "BUY") = None
        <5> HIDE DEF key
        <5>1. ~(tx >= FillKickoff)
          BY <2>2, FillsConstants
        <5>2. QED
          BY <1>1, <3>2, <4>1, <5>1, Zenon DEF WhySkipped
      <4>3. <<row.tx, row.asset>> \in WantedKeys
        BY <2>1, <2>3, <2>4, <4>2 DEF WantedKeys
      <4>4. key \in WantedKeys
        BY <2>1, <2>4, <4>3
      <4>5. WalletBet(pageRows, key) \in walletBets'
        BY <1>1, <4>4, ImportAddsWanted
      <4>6. WalletBet(pageRows, key).key = key
        BY DEF WalletBet
      <4>7. QED
        BY <4>5, <4>6
    <3>3. QED
      BY <3>1, <3>2
  <2> HIDE DEF key
  <2>6. PICK b \in walletBets' : b.key = key
    BY <2>5
  <2>7. {c \in walletBets' : c.key = key} = {b}
    BY <1>1, <2>6 DEF FillsInv, BetsInv
  <2>8. Cardinality({b}) = 1
    BY FS_Singleton
  <2>9. QED
    BY <2>7, <2>8 DEF key
<1>2. ASSUME FillsInv, [FillsNext]_fillsVars, FillsInv'
      PROVE  [FillsImported /\ tracked /\ pageNo < MaxTradePages =>
               \A tx \in 1..knownAtStart, asset \in FillOutcomes :
                   Importable(tx, asset) =>
                   Cardinality({b \in walletBets' : b.key = <<tx, asset>>}) = 1]_fillsVars
  BY <1>1, <1>2
<1>3. QED
  BY <1>2, FillsInvariant, PTL DEF FillsSpec, NothingMissed

---------------------------------------------------------------------------
(* Rows of a list, for any set of events in any order.                     *)

\* The row of an event in the list of L by rank.
Place(L, rank, e) == Cardinality({x \in L : rank[x] <= rank[e]})
Ranked(E, rank) ==
    /\ \A x \in E : rank[x] \in Nat
    /\ \A x, y \in E : rank[x] = rank[y] => x = y

LEMMA PlaceType ==
  ASSUME NEW L, IsFiniteSet(L), NEW rank, Ranked(L, rank), NEW e \in L
  PROVE  Place(L, rank, e) \in 1..Cardinality(L)
<1> DEFINE below == {x \in L : rank[x] <= rank[e]}
<1>1. below \subseteq L /\ e \in below
  BY DEF Ranked
<1> HIDE DEF below
<1>2. IsFiniteSet(below) /\ Cardinality(below) \in Nat /\ Cardinality(L) \in Nat
      /\ Cardinality(below) <= Cardinality(L) /\ Cardinality(below) # 0
  BY <1>1, FS_Subset, FS_CardinalityType, FS_EmptySet
<1>3. QED
  BY <1>2 DEF Place, below

\* Two events never have the same row.
LEMMA PlaceInjective ==
  ASSUME NEW L, IsFiniteSet(L), NEW rank, Ranked(L, rank), NEW e \in L, NEW f \in L,
         Place(L, rank, e) = Place(L, rank, f)
  PROVE  e = f
<1> DEFINE below(x) == {y \in L : rank[y] <= rank[x]}
<1>1. \A x \in L : rank[x] \in Nat
  BY DEF Ranked
<1>2. ASSUME NEW x \in L, NEW y \in L, rank[x] <= rank[y], Place(L, rank, x) = Place(L, rank, y)
      PROVE  x = y
  <2>1. below(x) \in SUBSET below(y) /\ y \in below(y)
    BY <1>1, <1>2
  <2>2. IsFiniteSet(below(y))
    BY FS_Subset
  <2>3. below(x) = below(y)
    BY <1>2, <2>1, <2>2, FS_Subset DEF Place
  <2>4. rank[y] <= rank[x]
    BY <2>1, <2>3
  <2>5. rank[x] = rank[y]
    BY <1>1, <1>2, <2>4
  <2>6. QED
    BY <2>5 DEF Ranked
<1>3. rank[e] <= rank[f] \/ rank[f] <= rank[e]
  BY <1>1
<1>4. QED
  BY <1>2, <1>3

\* An event that leaves moves the others up by a row at most.
LEMMA PlaceWithout ==
  ASSUME NEW L, IsFiniteSet(L), NEW rank, Ranked(L, rank), NEW x, NEW e \in L \ {x}
  PROVE  Place(L, rank, e) <= Place(L \ {x}, rank, e) + 1
<1> DEFINE below == {y \in L : rank[y] <= rank[e]}
<1>1. {y \in L \ {x} : rank[y] <= rank[e]} = below \ {x}
  OBVIOUS
<1>2. IsFiniteSet(below)
  BY FS_Subset
<1> HIDE DEF below
<1>3. Cardinality(below) \in Nat /\ Cardinality(below) <= Cardinality(below \ {x}) + 1
  <2>1. Cardinality(below) \in Nat
    BY <1>2, FS_CardinalityType
  <2>2. Cardinality(below \ {x}) = IF x \in below THEN Cardinality(below) - 1
                                                ELSE Cardinality(below)
    BY <1>2, FS_RemoveElement
  <2>3. QED
    BY <2>1, <2>2
<1>4. QED
  BY <1>1, <1>3 DEF Place, below

\* An event that joins moves none up.
LEMMA PlaceWith ==
  ASSUME NEW L, NEW x, IsFiniteSet(L \cup {x}), NEW rank, Ranked(L \cup {x}, rank), NEW e \in L
  PROVE  Place(L, rank, e) <= Place(L \cup {x}, rank, e)
<1> DEFINE below == {y \in L : rank[y] <= rank[e]}
           later == {y \in L \cup {x} : rank[y] <= rank[e]}
<1>1. below \in SUBSET later
  OBVIOUS
<1>2. IsFiniteSet(later)
  BY FS_Subset
<1>3. QED
  BY <1>1, <1>2, FS_Subset DEF Place

\* Each row has an event.
LEMMA PlacesAreFilled ==
  ASSUME NEW L, IsFiniteSet(L), NEW rank, Ranked(L, rank), NEW n \in 1..Cardinality(L)
  PROVE  \E e \in L : Place(L, rank, e) = n
<1> DEFINE c == Cardinality(L)
           row == [e \in L |-> Place(L, rank, e)]
<1>1. c \in Nat
  BY FS_CardinalityType
<1>2. \A e \in L : row[e] = Place(L, rank, e) /\ row[e] \in 1..c
  BY PlaceType
<1>3. \A e, f \in L : row[e] = row[f] => e = f
  BY <1>2, PlaceInjective
<1>4. row \in [L -> 1..c]
  BY <1>2
<1> HIDE DEF row, c
<1>5. row \in Injection(L, 1..c)
  BY <1>3, <1>4 DEF Injection, IsInjective
<1>6. IsFiniteSet(1..c) /\ Cardinality(1..c) = c
  BY <1>1, FS_Interval
<1>7. row \in Surjection(L, 1..c)
  BY <1>5, <1>6, FS_Injection DEF c
<1>8. QED
  BY <1>2, <1>7 DEF Surjection, c

\* After a page that is not full nothing is listed.
LEMMA ShortPageIsLast ==
  ASSUME NEW L, IsFiniteSet(L), NEW rank, Ranked(L, rank), NEW from \in Nat, NEW size \in Nat,
         Cardinality({e \in L : from < Place(L, rank, e) /\ Place(L, rank, e) <= from + size})
            < size,
         NEW e \in L
  PROVE  Place(L, rank, e) <= from + size
<1> SUFFICES ASSUME ~(Place(L, rank, e) <= from + size) PROVE FALSE
  OBVIOUS
<1> DEFINE page == {f \in L : from < Place(L, rank, f) /\ Place(L, rank, f) <= from + size}
           rows == (from + 1)..(from + size)
           at == [n \in rows |-> CHOOSE f \in L : Place(L, rank, f) = n]
<1>1. Place(L, rank, e) \in 1..Cardinality(L) /\ Cardinality(L) \in Nat
  BY PlaceType, FS_CardinalityType
<1>2. \A n \in rows : n \in 1..Cardinality(L)
  BY <1>1
<1>3. \A n \in rows : at[n] \in L /\ Place(L, rank, at[n]) = n
  BY <1>2, PlacesAreFilled
<1> HIDE DEF at
<1>4. \A n \in rows : at[n] \in page
  BY <1>3
<1>5. at = [n \in rows |-> at[n]]
  BY DEF at
<1>6. IsFiniteSet(page)
  BY FS_Subset
<1>7. Cardinality(rows) = size
  BY FS_Interval
<1> HIDE DEF page, rows
<1>8. at \in Injection(rows, page)
  BY <1>3, <1>4, <1>5 DEF Injection, IsInjective
<1>9. Cardinality(rows) <= Cardinality(page)
  BY <1>6, <1>8, FS_Injection
<1>10. Cardinality(page) \in Nat
  BY <1>6, FS_CardinalityType
<1>11. QED
  BY <1>7, <1>9, <1>10 DEF page

---------------------------------------------------------------------------
(* The fetch.                                                              *)

LEMMA EventsType ==
  /\ \E n \in Nat : EventIds = 1..n
  /\ IsFiniteSet(EventIds) /\ EventIds \subseteq Nat
  /\ EventsPageSize \in Nat /\ EventsPageSize > 0
<1>1. PICK n \in Nat : EventIds = 1..n
  BY FeedAssumption DEF EventIds
<1>2. IsFiniteSet(1..n)
  BY FS_Interval
<1>3. QED
  BY <1>1, <1>2, FeedAssumption

\* The list and the ranks of the events in it, with and without the filters.
ListOf(dropped, open) == IF dropped THEN open ELSE open \cap GameEvents
RanksOf(dropped) ==
    [e \in EventIds |-> CHOOSE n \in EventIds : (IF dropped THEN PlainOrder[n] ELSE n) = e]

LEMMA RanksType ==
  ASSUME NEW dropped \in BOOLEAN, NEW open \in SUBSET EventIds
  PROVE  /\ ListOf(dropped, open) \subseteq EventIds /\ IsFiniteSet(ListOf(dropped, open))
         /\ Ranked(EventIds, RanksOf(dropped)) /\ Ranked(ListOf(dropped, open), RanksOf(dropped))
<1> DEFINE ordered(n) == IF dropped THEN PlainOrder[n] ELSE n
           rank == RanksOf(dropped)
<1>1. \A e \in EventIds : \E n \in EventIds : ordered(n) = e
  BY FeedAssumption DEF Range
<1>2. \A e \in EventIds : rank[e] = CHOOSE n \in EventIds : ordered(n) = e
  BY DEF RanksOf
<1> HIDE DEF ordered, rank
<1>3. \A e \in EventIds : rank[e] \in EventIds /\ ordered(rank[e]) = e
  BY <1>1, <1>2
<1>4. Ranked(EventIds, rank)
  BY <1>3, EventsType DEF Ranked
<1>5. ListOf(dropped, open) \subseteq EventIds
  BY DEF ListOf
<1>6. IsFiniteSet(ListOf(dropped, open))
  BY <1>5, EventsType, FS_Subset
<1>7. QED
  BY <1>4, <1>5, <1>6 DEF Ranked, rank

\* Rows are places, before and after a step.
LEMMA RowIsPlace ==
  ASSUME openEvents \subseteq EventIds, NEW e \in EventIds
  PROVE  Row(e) = Place(ListOf(filtersDropped, openEvents), RanksOf(filtersDropped), e)
<1> DEFINE rank == RanksOf(filtersDropped)
<1>1. \A x \in EventIds : rank[x] = Rank(x)
  BY DEF RanksOf, Rank, Ordered
<1>2. ListedEvents = ListOf(filtersDropped, openEvents) /\ ListedEvents \subseteq EventIds
  BY DEF ListedEvents, ListOf
<1> HIDE DEF rank
<1>3. {x \in ListedEvents : Rank(x) <= Rank(e)} = {x \in ListedEvents : rank[x] <= rank[e]}
  BY <1>1, <1>2
<1>4. QED
  BY <1>2, <1>3 DEF Row, Place, rank

LEMMA NextRowIsPlace ==
  ASSUME openEvents' \subseteq EventIds, NEW e \in EventIds
  PROVE  Row(e)' = Place(ListOf(filtersDropped', openEvents'), RanksOf(filtersDropped'), e)
<1> DEFINE rank == RanksOf(filtersDropped')
<1>1. \A x \in EventIds : rank[x] = Rank(x)'
  BY DEF RanksOf, Rank, Ordered
<1>2. ListedEvents' = ListOf(filtersDropped', openEvents') /\ ListedEvents' \subseteq EventIds
  BY DEF ListedEvents, ListOf
<1> HIDE DEF rank
<1>3. {x \in ListedEvents' : Rank(x)' <= Rank(e)'} = {x \in ListedEvents' : rank[x] <= rank[e]}
  BY <1>1, <1>2
<1>4. Row(e)' = Cardinality({x \in ListedEvents' : Rank(x)' <= Rank(e)'})
  BY DEF Row
<1>5. QED
  BY <1>2, <1>3, <1>4 DEF Place, rank

\* Events the fetch has passed without taking them, of those listed all along.
Missed == {e \in lasting \ seenEvents : Row(e) <= offset}

FeedTypes ==
    /\ openEvents \subseteq EventIds /\ lasting \subseteq openEvents \cap GameEvents
    /\ seenEvents \subseteq EventIds /\ filtersDropped \in BOOLEAN
    /\ offset \in Nat /\ removals \in Nat

\* No more events are passed by the pages than have left the list.
PassedInv ==
    /\ fetchPc = "paging" => Cardinality(Missed) <= removals
    /\ fetchPc = "done" /\ pagesRead < MaxEventPages =>
          Cardinality(lasting \ seenEvents) <= removals

LEMMA LastingType ==
  ASSUME FeedTypes
  PROVE  /\ lasting \subseteq EventIds /\ lasting \subseteq ListOf(filtersDropped, openEvents)
         /\ IsFiniteSet(lasting \ seenEvents)
         /\ \A S \in SUBSET (lasting \ seenEvents) : IsFiniteSet(S) /\ Cardinality(S) \in Nat
<1>1. lasting \subseteq EventIds /\ lasting \subseteq ListOf(filtersDropped, openEvents)
  BY DEF FeedTypes, ListOf
<1>2. IsFiniteSet(lasting \ seenEvents)
  BY <1>1, EventsType, FS_Subset
<1>3. QED
  BY <1>1, <1>2, FS_Subset, FS_CardinalityType

\* A game that leaves lets at most one other slip past the next page.
LEMMA EventLeavesPassed ==
  ASSUME FeedTypes, PassedInv, NEW x, EventLeaves(x)
  PROVE  PassedInv'
<1> DEFINE L == ListOf(filtersDropped, openEvents)
           rank == RanksOf(filtersDropped)
           past == {e \in lasting \ seenEvents : Row(e) = offset + 1}
           left == {e \in lasting' \ seenEvents : Row(e)' <= offset}
<1>1. /\ openEvents' = openEvents \ {x} /\ lasting' = lasting \ {x} /\ removals' = removals + 1
      /\ UNCHANGED <<fetchPc, offset, pagesRead, seenEvents, filtersDropped>>
  BY DEF EventLeaves
<1>2. /\ openEvents \subseteq EventIds /\ openEvents' \subseteq EventIds
      /\ filtersDropped \in BOOLEAN /\ offset \in Nat /\ removals \in Nat
  BY <1>1 DEF FeedTypes
<1>3. /\ L \subseteq EventIds /\ IsFiniteSet(L) /\ Ranked(L, rank)
      /\ ListOf(filtersDropped', openEvents') = L \ {x} /\ RanksOf(filtersDropped') = rank
  BY <1>1, <1>2, RanksType DEF ListOf
<1> HIDE DEF L, rank
<1>4. ASSUME NEW e \in lasting' PROVE Row(e) \in Nat /\ Row(e) <= Row(e)' + 1 /\ Row(e)' \in Nat
  <2>1. e \in L \ {x} /\ e \in EventIds
    BY <1>1, LastingType DEF L
  <2>2. Row(e) = Place(L, rank, e) /\ Row(e)' = Place(L \ {x}, rank, e)
    BY <1>2, <1>3, <2>1, RowIsPlace, NextRowIsPlace DEF L, rank
  <2>3. Place(L, rank, e) <= Place(L \ {x}, rank, e) + 1
    BY <1>3, <2>1, PlaceWithout
  <2>4. Place(L, rank, e) \in 1..Cardinality(L) /\ Cardinality(L) \in Nat
    BY <1>3, <2>1, PlaceType, FS_CardinalityType
  <2>5. Ranked(L \ {x}, rank) /\ IsFiniteSet(L \ {x})
    BY <1>3, FS_RemoveElement DEF Ranked
  <2>6. Place(L \ {x}, rank, e) \in 1..Cardinality(L \ {x}) /\ Cardinality(L \ {x}) \in Nat
    BY <2>1, <2>5, PlaceType, FS_CardinalityType
  <2>7. QED
    BY <2>2, <2>3, <2>4, <2>6
<1>5. \A e, f \in past : e = f
  <2>1. ASSUME NEW e \in past, NEW f \in past PROVE e = f
    <3>1. e \in L /\ f \in L /\ e \in EventIds /\ f \in EventIds /\ Row(e) = Row(f)
      BY LastingType DEF L
    <3>2. Place(L, rank, e) = Place(L, rank, f)
      BY <1>2, <3>1, RowIsPlace DEF L, rank
    <3>3. QED
      BY <1>3, <3>1, <3>2, PlaceInjective
  <2>2. QED
    BY <2>1
<1>6. left \subseteq Missed \cup past
  BY <1>1, <1>2, <1>4 DEF Missed
<1>7. IsFiniteSet(Missed) /\ Cardinality(Missed) \in Nat
  BY LastingType DEF Missed
<1>8. Cardinality(left) \in Nat /\ Cardinality(left) <= Cardinality(Missed) + 1
  <2>1. PICK e : past \subseteq {e}
    BY <1>5
  <2>2. IsFiniteSet(Missed \cup {e}) /\ Cardinality(Missed \cup {e}) <= Cardinality(Missed) + 1
    BY <1>7, FS_AddElement
  <2>3. left \in SUBSET (Missed \cup {e})
    BY <1>6, <2>1
  <2>4. Cardinality(Missed \cup {e}) \in Nat
    BY <2>2, FS_CardinalityType
  <2> HIDE DEF left
  <2>5. Cardinality(left) <= Cardinality(Missed \cup {e}) /\ Cardinality(left) \in Nat
    BY <2>2, <2>3, FS_Subset, FS_CardinalityType
  <2>6. QED
    BY <1>7, <2>2, <2>4, <2>5
<1>9. Missed' = left
  BY <1>1 DEF Missed
<1> HIDE DEF left
<1>10. fetchPc' = "paging" => Cardinality(Missed') <= removals'
  BY <1>1, <1>2, <1>7, <1>8, <1>9 DEF PassedInv
<1>11. fetchPc' = "done" /\ pagesRead' < MaxEventPages =>
          Cardinality((lasting \ seenEvents)') <= removals'
  <2>1. (lasting \ seenEvents)' \in SUBSET (lasting \ seenEvents)
    BY <1>1
  <2>2. Cardinality((lasting \ seenEvents)') <= Cardinality(lasting \ seenEvents)
    BY <2>1, LastingType, FS_Subset
  <2>3. Cardinality((lasting \ seenEvents)') \in Nat /\ Cardinality(lasting \ seenEvents) \in Nat
    BY <2>1, LastingType
  <2>4. QED
    BY <1>1, <1>2, <2>2, <2>3 DEF PassedInv
<1>12. QED
  BY <1>10, <1>11 DEF PassedInv

\* One that joins moves none past the next page.
LEMMA EventJoinsPassed ==
  ASSUME FeedTypes, PassedInv, NEW x \in EventIds, EventJoins(x)
  PROVE  PassedInv'
<1> DEFINE L == ListOf(filtersDropped, openEvents)
           M == ListOf(filtersDropped', openEvents')
           rank == RanksOf(filtersDropped)
<1>1. /\ openEvents' = openEvents \cup {x}
      /\ UNCHANGED <<fetchPc, offset, pagesRead, seenEvents>>
      /\ UNCHANGED <<filtersDropped, lasting, removals>>
  BY DEF EventJoins
<1>2. /\ openEvents \subseteq EventIds /\ openEvents' \subseteq EventIds
      /\ filtersDropped \in BOOLEAN /\ offset \in Nat /\ removals \in Nat
  BY <1>1 DEF FeedTypes
<1>3. M = L \/ M = L \cup {x}
  BY <1>1 DEF ListOf
<1>4. /\ L \subseteq EventIds /\ IsFiniteSet(L) /\ Ranked(L, rank)
      /\ M \subseteq EventIds /\ IsFiniteSet(M) /\ Ranked(M, rank)
      /\ RanksOf(filtersDropped') = rank
  BY <1>1, <1>2, RanksType
<1> HIDE DEF L, M, rank
<1>5. ASSUME NEW e \in lasting PROVE Row(e) \in Nat /\ Row(e) <= Row(e)' /\ Row(e)' \in Nat
  <2>1. e \in L /\ e \in M /\ e \in EventIds
    BY <1>3, LastingType DEF L
  <2>2. Row(e) = Place(L, rank, e) /\ Row(e)' = Place(M, rank, e)
    BY <1>2, <1>4, <2>1, RowIsPlace, NextRowIsPlace DEF L, M, rank
  <2>3. Place(L, rank, e) \in 1..Cardinality(L) /\ Cardinality(L) \in Nat
    BY <1>4, <2>1, PlaceType, FS_CardinalityType
  <2>4. Place(M, rank, e) \in 1..Cardinality(M) /\ Cardinality(M) \in Nat
    BY <1>4, <2>1, PlaceType, FS_CardinalityType
  <2>5. CASE M = L
    BY <2>2, <2>3, <2>5
  <2>6. CASE M = L \cup {x}
    <3>1. Place(L, rank, e) <= Place(L \cup {x}, rank, e)
      BY <1>4, <2>1, <2>6, PlaceWith
    <3>2. QED
      BY <2>2, <2>3, <2>4, <2>6, <3>1
  <2>7. QED
    BY <1>3, <2>5, <2>6
<1>6. Missed' \in SUBSET Missed
  BY <1>1, <1>2, <1>5 DEF Missed
<1>7. IsFiniteSet(Missed) /\ Cardinality(Missed) \in Nat /\ Cardinality(Missed') \in Nat
  BY <1>6, LastingType DEF Missed
<1>8. Cardinality(Missed') <= Cardinality(Missed)
  BY <1>6, <1>7, FS_Subset
<1>9. QED
  BY <1>1, <1>2, <1>7, <1>8 DEF PassedInv

\* Before the first page nothing has been passed, in whatever order it comes.
LEMMA FirstPagePassed ==
  ASSUME FeedTypes, FeedTypes', FetchStarts \/ FiltersRefused
  PROVE  PassedInv'
<1>1. offset' = 0 /\ fetchPc' = "paging" /\ removals' \in Nat
  BY DEF FetchStarts, FiltersRefused, FeedTypes
<1>2. openEvents' \subseteq EventIds /\ filtersDropped' \in BOOLEAN /\ lasting' \subseteq openEvents' \cap GameEvents
  BY DEF FeedTypes
<1>3. ASSUME NEW e \in lasting' PROVE Row(e)' >= 1 /\ Row(e)' \in Nat
  <2> DEFINE M == ListOf(filtersDropped', openEvents')
             rank == RanksOf(filtersDropped')
  <2>1. e \in M /\ e \in EventIds
    BY <1>2 DEF ListOf
  <2>2. IsFiniteSet(M) /\ Ranked(M, rank)
    BY <1>2, RanksType
  <2>3. Row(e)' = Place(M, rank, e)
    BY <1>2, <2>1, NextRowIsPlace
  <2> HIDE DEF M, rank
  <2>4. Place(M, rank, e) \in 1..Cardinality(M) /\ Cardinality(M) \in Nat
    BY <2>1, <2>2, PlaceType, FS_CardinalityType
  <2>5. QED
    BY <2>3, <2>4
<1>4. Missed' = {}
  BY <1>1, <1>3 DEF Missed
<1>5. Cardinality({}) = 0
  BY FS_EmptySet
<1>6. QED
  BY <1>1, <1>4, <1>5 DEF PassedInv

\* A page is taken whole, and one that is not full is the last.
LEMMA PageServedPassed ==
  ASSUME FeedTypes, PassedInv, PageServed
  PROVE  PassedInv'
<1> DEFINE L == ListOf(filtersDropped, openEvents)
           rank == RanksOf(filtersDropped)
           page == PageAt(offset)
           next == offset + EventsPageSize
<1>1. /\ fetchPc = "paging" /\ seenEvents' = seenEvents \cup page
      /\ offset' = next /\ pagesRead' = pagesRead + 1
      /\ fetchPc' = IF Cardinality(page) < EventsPageSize \/ pagesRead + 1 = MaxEventPages
                    THEN "done" ELSE "paging"
      /\ UNCHANGED <<openEvents, filtersDropped, lasting, removals>>
  BY DEF PageServed, NextPage
<1>2. /\ openEvents \subseteq EventIds /\ filtersDropped \in BOOLEAN
      /\ offset \in Nat /\ removals \in Nat /\ EventsPageSize \in Nat
  BY EventsType DEF FeedTypes
<1>3. /\ L \subseteq EventIds /\ IsFiniteSet(L) /\ Ranked(L, rank) /\ ListedEvents = L
  BY <1>2, RanksType DEF ListOf, ListedEvents
<1>4. ASSUME NEW e \in EventIds
      PROVE  Row(e)' = Row(e) /\ Row(e) = Place(L, rank, e)
  BY <1>1, <1>2, RowIsPlace, NextRowIsPlace
<1>5. lasting \subseteq L /\ lasting \subseteq EventIds
  BY LastingType
<1> HIDE DEF L, rank
<1>6. \A e \in L : Row(e) \in Nat
  <2>1. \A e \in L : Place(L, rank, e) \in 1..Cardinality(L) /\ Cardinality(L) \in Nat
    BY <1>3, PlaceType, FS_CardinalityType
  <2>2. QED
    BY <1>3, <1>4, <2>1
<1>7. page = {e \in L : offset < Row(e) /\ Row(e) <= next}
  BY <1>3 DEF PageAt
<1>8. ASSUME NEW e \in lasting, e \notin seenEvents', Row(e) <= next PROVE e \in Missed
  BY <1>1, <1>2, <1>5, <1>6, <1>7, <1>8 DEF Missed
<1>9. IsFiniteSet(Missed) /\ Cardinality(Missed) \in Nat /\ Cardinality(Missed) <= removals
  BY <1>1, LastingType DEF Missed, PassedInv
<1>10. fetchPc' = "paging" => Cardinality(Missed') <= removals'
  <2>1. Missed' \in SUBSET Missed
    BY <1>1, <1>4, <1>5, <1>8 DEF Missed
  <2>2. Cardinality(Missed') <= Cardinality(Missed) /\ Cardinality(Missed') \in Nat
    BY <1>9, <2>1, FS_Subset, FS_CardinalityType
  <2>3. QED
    BY <1>1, <1>2, <1>9, <2>2
<1>11. ASSUME fetchPc' = "done", pagesRead' < MaxEventPages
       PROVE  Cardinality((lasting \ seenEvents)') <= removals'
  <2>1. Cardinality(page) < EventsPageSize
    BY <1>1, <1>11, FeedAssumption
  <2>2. page = {e \in L : offset < Place(L, rank, e) /\ Place(L, rank, e) <= next}
    BY <1>3, <1>4, <1>7
  <2>3. \A e \in L : Place(L, rank, e) <= next
    <3> HIDE DEF page
    <3>1. QED
      BY <1>2, <1>3, <2>1, <2>2, ShortPageIsLast
  <2>4. (lasting \ seenEvents)' \in SUBSET Missed
    BY <1>1, <1>3, <1>4, <1>5, <1>8, <2>3
  <2>5. Cardinality((lasting \ seenEvents)') <= Cardinality(Missed)
        /\ Cardinality((lasting \ seenEvents)') \in Nat
    BY <1>9, <2>4, FS_Subset, FS_CardinalityType
  <2>6. QED
    BY <1>1, <1>2, <1>9, <2>5
<1>12. QED
  BY <1>10, <1>11 DEF PassedInv

---------------------------------------------------------------------------
(* The markets.                                                            *)

\* What was fetched is of raw markets that could be read, no two with one id.
FetchedInv ==
    /\ \A x, y \in fetched : x.market.id = y.market.id => x = y
    /\ \A m \in FetchedMarkets : /\ m.event \in EventIds
                                 /\ \E raw \in Range(FeedEvents[m.event].markets) :
                                       /\ SkippedBecause(raw) = None
                                       /\ \E teams : m = PmMarketOf(raw, m.event, teams)

\* Of two raw markets of a page one comes first.
LEMMA SlotsOrdered ==
  ASSUME filtersDropped \in BOOLEAN, NEW events \in SUBSET EventIds,
         NEW a \in Slots(events), NEW b \in Slots(events), a # b
  PROVE  Earlier(a, b) \/ Earlier(b, a)
<1>1. PICK e \in events : \E i \in DOMAIN FeedEvents[e].markets : a = <<e, i>>
  BY DEF Slots
<1>2. PICK i \in DOMAIN FeedEvents[e].markets : a = <<e, i>>
  BY <1>1
<1>3. PICK f \in events : \E j \in DOMAIN FeedEvents[f].markets : b = <<f, j>>
  BY DEF Slots
<1>4. PICK j \in DOMAIN FeedEvents[f].markets : b = <<f, j>>
  BY <1>3
<1>5. a[1] = e /\ a[2] = i /\ b[1] = f /\ b[2] = j
  BY <1>2, <1>4
<1>6. CASE e = f
  <2>1. i \in Nat /\ j \in Nat /\ i # j
    BY <1>2, <1>4, <1>6, FeedAssumption
  <2>2. i < j \/ j < i
    BY <2>1
  <2>3. QED
    BY <1>5, <1>6, <2>2 DEF Earlier
<1>7. CASE e # f
  <2> DEFINE rank == RanksOf(filtersDropped)
  <2>1. Ranked(EventIds, rank)
    BY RanksType
  <2>2. rank[e] = Rank(e) /\ rank[f] = Rank(f)
    BY DEF RanksOf, Rank, Ordered
  <2> HIDE DEF rank
  <2>3. Rank(e) \in Nat /\ Rank(f) \in Nat /\ Rank(e) # Rank(f)
    BY <1>7, <2>1, <2>2 DEF Ranked
  <2>4. Rank(e) < Rank(f) \/ Rank(f) < Rank(e)
    BY <2>3
  <2>5. QED
    BY <1>5, <2>4 DEF Earlier
<1>8. QED
  BY <1>6, <1>7

LEMMA PageServedFetched ==
  ASSUME FeedTypes, FetchedInv, PageServed
  PROVE  FetchedInv'
<1> DEFINE events == TakenOnce(PageAt(offset))
           slots == Slots(events)
           new == NewSlots(events)
           parsed == {x \in new : SkippedBecause(RawAt(x)) = None}
           market(s) == PmMarketOf(RawAt(s), s[1], EventTeams(FeedEvents[s[1]].markets))
           entry(s) == [page |-> pagesRead, market |-> market(s)]
<1>1. fetched' = fetched \cup {entry(s) : s \in parsed}
  BY DEF PageServed, MarketsOf
<1>2. events \subseteq EventIds
  BY DEF TakenOnce, PageAt, ListedEvents, FeedTypes
<1>3. \A s \in parsed : s \in slots /\ ~SeenMarket(slots, s) /\ SkippedBecause(RawAt(s)) = None
  BY DEF NewSlots
<1>4. ASSUME NEW s \in slots
      PROVE  s[1] \in EventIds /\ RawAt(s) \in Range(FeedEvents[s[1]].markets)
  <2>1. PICK e \in events : \E i \in DOMAIN FeedEvents[e].markets : s = <<e, i>>
    BY DEF Slots
  <2>2. PICK i \in DOMAIN FeedEvents[e].markets : s = <<e, i>>
    BY <2>1
  <2>3. s[1] = e /\ s[2] = i
    BY <2>2
  <2>4. QED
    BY <1>2, <2>3 DEF RawAt, Range
<1>5. \A s \in slots : market(s).id = RawAt(s).id /\ market(s).event = s[1]
  BY DEF PmMarketOf
<1> HIDE DEF new, parsed, events
<1>6. ASSUME NEW s \in parsed, NEW t \in parsed, market(s).id = market(t).id PROVE s = t
  <2>1. RawAt(s).id = RawAt(t).id
    BY <1>3, <1>5, <1>6
  <2>2. ~Earlier(s, t) /\ ~Earlier(t, s)
    BY <1>3, <2>1 DEF SeenMarket
  <2>3. QED
    BY <1>2, <1>3, <2>2, SlotsOrdered DEF FeedTypes
<1>7. ASSUME NEW s \in parsed, NEW x \in fetched PROVE market(s).id # x.market.id
  BY <1>3, <1>5 DEF SeenMarket
<1>8. ASSUME NEW s \in parsed
      PROVE  /\ market(s).event \in EventIds
             /\ \E raw \in Range(FeedEvents[market(s).event].markets) :
                   /\ SkippedBecause(raw) = None
                   /\ \E teams : market(s) = PmMarketOf(raw, market(s).event, teams)
  <2>1. s \in slots
    BY <1>3
  <2>2. market(s).event = s[1]
    BY <1>5, <2>1
  <2>3. market(s) = PmMarketOf(RawAt(s), s[1], EventTeams(FeedEvents[s[1]].markets))
    OBVIOUS
  <2> HIDE DEF market
  <2>4. QED
    BY <1>3, <1>4, <2>1, <2>2, <2>3
<1> HIDE DEF market
<1>9. \A x, y \in fetched' : x.market.id = y.market.id => x = y
  <2>1. \A s \in parsed : entry(s).market = market(s)
    OBVIOUS
  <2> HIDE DEF entry
  <2>2. \A s \in parsed, x \in fetched : entry(s).market.id # x.market.id
    BY <1>7, <2>1
  <2>3. \A s, t \in parsed : entry(s).market.id = entry(t).market.id => s = t
    BY <1>6, <2>1
  <2>4. QED
    BY <1>1, <2>2, <2>3 DEF FetchedInv
<1>10. ASSUME NEW m \in FetchedMarkets'
       PROVE  /\ m.event \in EventIds
              /\ \E raw \in Range(FeedEvents[m.event].markets) :
                    /\ SkippedBecause(raw) = None
                    /\ \E teams : m = PmMarketOf(raw, m.event, teams)
  <2>1. m \in FetchedMarkets \/ \E s \in parsed : m = market(s)
    BY <1>1 DEF FetchedMarkets
  <2>2. QED
    BY <1>8, <2>1 DEF FetchedInv
<1>11. QED
  BY <1>9, <1>10 DEF FetchedInv

---------------------------------------------------------------------------
(* The invariant.                                                          *)

FeedInv == FeedTypes /\ PassedInv /\ FetchedInv

LEMMA FeedTypesStep ==
  ASSUME FeedTypes, [FeedNext]_feedVars
  PROVE  FeedTypes'
<1>1. ASSUME NEW x \in EventIds, EventLeaves(x) \/ EventJoins(x) PROVE FeedTypes'
  BY <1>1 DEF EventLeaves, EventJoins, FeedTypes
<1>2. CASE FetchStarts
  BY <1>2 DEF FetchStarts, FeedTypes
<1>3. CASE FiltersRefused \/ FetchFails \/ UNCHANGED feedVars
  BY <1>3 DEF FiltersRefused, FetchFails, feedVars, FeedTypes
<1>4. CASE PageServed
  <2>1. PageAt(offset) \subseteq EventIds
    BY DEF PageAt, ListedEvents, FeedTypes
  <2>2. NextPage(offset) \in Nat
    BY EventsType DEF NextPage, FeedTypes
  <2>3. QED
    BY <1>4, <2>1, <2>2 DEF PageServed, FeedTypes
<1>5. QED
  BY <1>1, <1>2, <1>3, <1>4 DEF FeedNext

LEMMA FeedStep ==
  ASSUME FeedInv, [FeedNext]_feedVars
  PROVE  FeedInv'
<1>1. FeedTypes' /\ FeedTypes /\ PassedInv /\ FetchedInv
  BY FeedTypesStep DEF FeedInv
<1>2. PassedInv'
  <2>1. CASE FetchFails
    BY <2>1 DEF FetchFails, PassedInv
  <2>2. CASE UNCHANGED feedVars
    <3>1. UNCHANGED <<openEvents, fetchPc, offset, pagesRead, seenEvents>>
          /\ UNCHANGED <<filtersDropped, lasting, removals>>
      BY <2>2 DEF feedVars
    <3>2. QED
      BY <1>1, <3>1 DEF PassedInv, Missed, Row, ListedEvents, Rank, Ordered
  <2>3. QED
    BY <1>1, <2>1, <2>2, EventLeavesPassed, EventJoinsPassed, FirstPagePassed,
       PageServedPassed DEF FeedNext
<1>3. FetchedInv'
  <2>1. CASE FetchStarts \/ FetchFails
    BY <2>1 DEF FetchStarts, FetchFails, FetchedInv, FetchedMarkets
  <2>2. CASE fetched' = fetched
    BY <1>1, <2>2 DEF FetchedInv, FetchedMarkets
  <2>3. (\E e \in EventIds : EventLeaves(e) \/ EventJoins(e)) \/ FiltersRefused
        \/ UNCHANGED feedVars => fetched' = fetched
    BY DEF EventLeaves, EventJoins, FiltersRefused, feedVars
  <2>4. QED
    BY <1>1, <2>1, <2>2, <2>3, PageServedFetched DEF FeedNext
<1>4. QED
  BY <1>1, <1>2, <1>3 DEF FeedInv

LEMMA FeedInvariant == FeedSpec => []FeedInv
<1>1. FeedInit => FeedInv
  <2> SUFFICES ASSUME FeedInit PROVE FeedInv
    OBVIOUS
  <2>1. FeedTypes
    BY DEF FeedInit, FeedTypes
  <2>2. PassedInv
    <3>1. fetchPc = "idle"
      BY DEF FeedInit
    <3>2. QED
      BY <3>1 DEF PassedInv
  <2>3. FetchedInv
    <3>1. fetched = {}
      BY DEF FeedInit
    <3>2. QED
      BY <3>1 DEF FetchedInv, FetchedMarkets
  <2>4. QED
    BY <2>1, <2>2, <2>3 DEF FeedInv
<1>2. QED
  BY <1>1, FeedStep, PTL DEF FeedSpec

---------------------------------------------------------------------------
(* The theorems about the feed.                                            *)

\* However events open and close while the list is paged by offset, and whether
\* or not Gamma takes the filters, no market is taken twice, and at most as many
\* of the events listed all along are missing as have left the list meanwhile.
THEOREM FetchesAreTheSlate == FeedSpec => []FetchIsTheSlate
<1>1. FeedInv => FetchIsTheSlate
  BY DEF FeedInv, PassedInv, FetchedInv, FetchIsTheSlate
<1>2. QED
  BY <1>1, FeedInvariant, PTL

\* What a market says but its being closed and tradable decides how it is read.
LEMMA ClosedIsRead ==
  ASSUME NEW raw \in RawMarket, SkippedBecause(raw) = None, NEW gone \in {FALSE, None}
  PROVE  LET closed == [raw EXCEPT !.closed = TRUE, !.accepting = gone, !.book = FALSE]
         IN  /\ SkippedBecause(closed) = None
             /\ MarketTypeOf(closed) = MarketTypeOf(raw) /\ SpreadOf(closed) = SpreadOf(raw)
             /\ TotalOf(closed) = TotalOf(raw)
             /\ \A team : LineTeamOf(closed, team) = LineTeamOf(raw, team)
<1> DEFINE closed == [raw EXCEPT !.closed = TRUE, !.accepting = gone, !.book = FALSE]
<1>1. /\ closed.question = raw.question /\ closed.stated = raw.stated /\ closed.start = raw.start
      /\ closed.outcomes = raw.outcomes /\ closed.tokens = raw.tokens /\ closed.line = raw.line
      /\ closed.closed = TRUE
  BY DEF RawMarket
<1> HIDE DEF closed
<1>2. OutcomeKeys(closed) = OutcomeKeys(raw) /\ OutcomeTeams(closed) = OutcomeTeams(raw)
  BY <1>1 DEF OutcomeKeys, OutcomeTeams
<1>3. MarketTypeOf(closed) = MarketTypeOf(raw) /\ TotalOf(closed) = TotalOf(raw)
  BY <1>1 DEF MarketTypeOf, TotalOf
<1>4. SpreadOf(closed) = SpreadOf(raw)
  BY <1>1, <1>2 DEF SpreadOf
<1>5. \A team : LineTeamOf(closed, team) = LineTeamOf(raw, team)
  BY <1>1, <1>2 DEF LineTeamOf
<1>6. ~Untradable(closed)
  BY <1>1 DEF Untradable
<1>7. SkippedBecause(closed) = None
  <2>1. None \notin Unreadable
    BY FeedAssumption
  <2>2. LineTeamOf(closed, SpreadOf(raw).team) = LineTeamOf(raw, SpreadOf(raw).team)
    BY <1>5
  <2>3. QED
    BY <1>1, <1>3, <1>4, <1>6, <2>1, <2>2 DEF SkippedBecause, Unreadable
<1>8. QED
  BY <1>3, <1>4, <1>5, <1>7 DEF closed

\* Whatever a market on the slate says, it can be read again, with the same line of
\* the same team, once it is closed and takes no more orders.
THEOREM SettlementsCanRead == FeedSpec => []SettlementCanRead
<1>1. ASSUME FeedInv, NEW m \in FetchedMarkets, NEW raw \in Range(FeedEvents[m.event].markets),
             NEW gone \in {FALSE, None}, raw.id = m.id
      PROVE  LET closed == [raw EXCEPT !.closed = TRUE, !.accepting = gone, !.book = FALSE]
             IN  \E read \in ReadForSettlement(closed, m.event) :
                     read.line = m.line /\ read.lineTeam = m.lineTeam
  <2> DEFINE closed == [raw EXCEPT !.closed = TRUE, !.accepting = gone, !.book = FALSE]
             read == PmMarketOf(closed, m.event, EventTeams(<<closed>>))
  <2>1. PICK own \in Range(FeedEvents[m.event].markets) :
           SkippedBecause(own) = None /\ \E teams : m = PmMarketOf(own, m.event, teams)
    BY <1>1 DEF FeedInv, FetchedInv
  <2>2. PICK teams : m = PmMarketOf(own, m.event, teams)
    BY <2>1
  <2>3. m.id = own.id /\ m.line = PmMarketOf(own, m.event, teams).line
        /\ m.lineTeam = PmMarketOf(own, m.event, teams).lineTeam /\ m.event \in EventIds
    BY <1>1, <2>2 DEF PmMarketOf, FeedInv, FetchedInv
  <2>4. raw = own /\ raw \in RawMarket
    BY <1>1, <2>3, FeedAssumption DEF Range
  <2>5. /\ SkippedBecause(closed) = None
        /\ MarketTypeOf(closed) = MarketTypeOf(raw) /\ SpreadOf(closed) = SpreadOf(raw)
        /\ TotalOf(closed) = TotalOf(raw)
        /\ \A team : LineTeamOf(closed, team) = LineTeamOf(raw, team)
    BY <2>1, <2>4, ClosedIsRead
  <2> HIDE DEF closed
  <2>6. ReadForSettlement(closed, m.event) = {read}
    BY <2>5 DEF ReadForSettlement
  <2>7. read.line = m.line /\ read.lineTeam = m.lineTeam
    BY <2>3, <2>4, <2>5 DEF PmMarketOf
  <2>8. QED
    BY <2>6, <2>7 DEF closed
<1>2. FeedInv => SettlementCanRead
  BY <1>1 DEF SettlementCanRead
<1>3. QED
  BY <1>2, FeedInvariant, PTL
=============================================================================
