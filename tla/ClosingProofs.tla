--------------------------- MODULE ClosingProofs ---------------------------
(***************************************************************************)
(* Theorems about the closing line, for every number of scanning           *)
(* processes, every clock and every set of kickoffs.                       *)
(***************************************************************************)
EXTENDS Closing, NumberLemmas, TLAPS

---------------------------------------------------------------------------
(* The inductive invariant.                                                *)

Writing == {"leagues", "import", "capture", "captureWrite", "finish"}

\* A scan has an id from its first INSERT on, and its clock is not ahead.
ScansOK ==
    \A s \in Scanners : /\ pc[s] \in Writing \cup {"failed"} => id[s] \in Ids
                        /\ now[s] <= clock

\* The lock's holder is in a transaction, and the league is scanned by the
\* holder; without a holder there is one version of the tables, and with one
\* the second version has what is committed and the holder's own snapshots.
WriterOK ==
    /\ writer # None => pc[writer] \in Writing
    /\ \A s \in Scanners : pc[s] = "leagues" => writer = s
    /\ writer = None => txSnaps = snaps /\ txStart = start
    /\ snaps \subseteq txSnaps
    /\ \A x \in snaps : x.scan \in scans
    /\ writer # None => \A x \in txSnaps : x \in snaps \/ x.scan = id[writer]

\* Ids follow fetches: one snapshot for an id, a greater id fetched no earlier,
\* and nothing fetched ahead of the clock or stamped after it was fetched.
IdsFollowFetches ==
    /\ \A x, y \in txSnaps : /\ x.scan = y.scan => x = y
                             /\ x.scan < y.scan => x.taken <= y.taken
    /\ \A x \in txSnaps : x.stamp <= x.taken /\ x.taken <= clock

\* What has a greater id than a scan was fetched after that scan read the
\* clock; at the league there is nothing of the kind, nor of its own id.
LaterIdsLater ==
    \A s \in Scanners :
        /\ pc[s] = "leagues" => \A x \in txSnaps : x.scan < id[s]
        /\ pc[s] \in {"leagues", "import", "capture"} =>
              \A x \in txSnaps : x.scan > id[s] => x.taken >= now[s]

Inv == TypeOK /\ ScansOK /\ WriterOK /\ IdsFollowFetches /\ LaterIdsLater

\* The lock's holder has not moved the kickoff before the moneyline's either.
StartInv ==
    (moved = 0 /\ venue["moneyline"] # None /\ start # None /\ start >= venue["moneyline"])
        => txStart # None /\ txStart >= venue["moneyline"]

---------------------------------------------------------------------------
(* Lemmas about the operators.                                             *)

\* Kickoffs and clocks are numbers, and none of them is None.
LEMMA TimesAreNumbers ==
  /\ Times \subseteq Int /\ Kickoffs \subseteq Int /\ Ids \subseteq Int
  /\ 0 \in Times /\ 0 \notin Ids /\ None \notin Kickoffs
<1>1. MaxTime \in Nat /\ MaxScans \in Nat /\ Kickoffs \subseteq Times /\ None \notin Times
  BY ConstantsOK
<1>2. Times \subseteq Int /\ Ids \subseteq Int /\ 0 \in Times /\ 0 \notin Ids
  BY <1>1 DEF Times, Ids
<1>3. QED
  BY <1>1, <1>2

\* The next id is greater than every id in the table.
LEMMA NextIdIsNew ==
  ASSUME scans \subseteq Ids
  PROVE  NextId \in Int /\ \A i \in scans : i < NextId
<1>1. scans \cup {0} \in SUBSET (0..MaxScans) /\ scans \cup {0} # {} /\ MaxScans \in Nat
  BY ConstantsOK DEF Ids
<1>2. /\ Max(scans \cup {0}) \in scans \cup {0}
      /\ \A i \in scans \cup {0} : i <= Max(scans \cup {0})
  BY <1>1, MaxIsGreatest
<1> DEFINE m == Max(scans \cup {0})
<1>3. m \in Int /\ \A i \in scans : i \in Int /\ i <= m
  BY <1>1, <1>2
<1>4. NextId = m + 1
  BY DEF NextId
<1> HIDE DEF m
<1>5. QED
  BY <1>3, <1>4

\* Of some snapshots there is one of the greatest scan id.
LEMMA NewestIsGreatest ==
  ASSUME NEW xs \in SUBSET Snapshot, xs # {}
  PROVE  Newest(xs) \in xs /\ \A y \in xs : y.scan <= Newest(xs).scan
<1> DEFINE ids == {x.scan : x \in xs}
<1>1. ids \in SUBSET (0..MaxScans) /\ ids # {} /\ MaxScans \in Nat
  BY ConstantsOK DEF Snapshot, Ids
<1>2. PICK i \in ids : \A j \in ids : j <= i
  BY <1>1, HasGreatest
<1>3. PICK x \in xs : x.scan = i
  OBVIOUS
<1>4. \A y \in xs : y.scan <= x.scan
  BY <1>2, <1>3
<1>5. QED
  BY <1>4 DEF Newest

\* A kickoff a market gives a game is a kickoff.
LEMMA KickoffType ==
  ASSUME venue \in [Types -> Kickoffs \cup {None}], NEW t \in Kickoffs \cup {None},
         NEW type \in Types \cup {None}
  PROVE  KickoffOf(t, type) \in Kickoffs \cup {None}
  BY ConstantsOK DEF KickoffOf, Kickoff

\* What a session sees is what is there.
LEMMA SeenType ==
  ASSUME TypeOK, NEW s \in Scanners
  PROVE  SnapsSeen(s) \subseteq Snapshot /\ StartSeen(s) \in Kickoffs \cup {None}
  BY DEF TypeOK, SnapsSeen, StartSeen

---------------------------------------------------------------------------
(* The invariant is kept, step by step.                                    *)

LEMMA CommitKeeps ==
  ASSUME Inv, NEW s \in Scanners, pc[s] \in Writing \ {"leagues"}, Commit(s)
  PROVE  /\ scans' \subseteq Ids /\ snaps' \subseteq Snapshot /\ txSnaps' \subseteq Snapshot
         /\ start' \in Kickoffs \cup {None} /\ txStart' \in Kickoffs \cup {None}
         /\ writer' = None /\ txSnaps' = txSnaps /\ snaps' = txSnaps
         /\ txStart' = txStart /\ start' = txStart
         /\ \A x \in snaps' : x.scan \in scans'
         /\ \A t \in Scanners : pc[t] # "leagues"
<1>1. id[s] \in Ids
  BY DEF Inv, ScansOK
<1>2. writer \in {None, s} /\ None \notin Scanners
  BY ConstantsOK DEF Commit, CanWrite
<1>3. SnapsSeen(s) = txSnaps /\ StartSeen(s) = txStart
  BY <1>2 DEF SnapsSeen, StartSeen, Inv, WriterOK
<1>4. \A x \in txSnaps : x.scan \in scans \cup {id[s]}
  BY <1>2 DEF Inv, WriterOK
<1>5. \A t \in Scanners : pc[t] # "leagues"
  BY <1>2 DEF Inv, WriterOK
<1>6. QED
  BY <1>1, <1>3, <1>4, <1>5 DEF Commit, Inv, TypeOK

\* Steps of the scans that leave the snapshots and the clock alone.
LEMMA SnapsAlone ==
  ASSUME Inv, UNCHANGED <<txSnaps, clock>>, NEW s \in Scanners,
         pc' \in [Scanners -> Phases], \A t \in Scanners \ {s} : pc'[t] = pc[t] /\ now'[t] = now[t] /\ id'[t] = id[t],
         \/ pc'[s] \notin {"leagues", "import", "capture"}
         \/ /\ pc[s] \in {"leagues", "import", "capture"} /\ pc'[s] # "leagues"
            /\ now'[s] = now[s] /\ id'[s] = id[s]
  PROVE  IdsFollowFetches' /\ LaterIdsLater'
<1>1. IdsFollowFetches'
  BY DEF Inv, IdsFollowFetches
<1>2. LaterIdsLater'
  BY DEF Inv, LaterIdsLater
<1>3. QED
  BY <1>1, <1>2

LEMMA InvStep ==
  ASSUME Inv, [Next]_vars
  PROVE  Inv'
<1> USE DEF table, txn, Goto
<1>0. None \notin Scanners /\ \A s \in Scanners : now[s] \in Times /\ now[s] <= clock
  BY ConstantsOK DEF Inv, TypeOK, ScansOK
<1>1. CASE Tick
  <2>1. TypeOK'
    BY <1>1, ConstantsOK DEF Inv, TypeOK, Tick, Times
  <2>2. clock \in Int /\ clock' = clock + 1 /\ \A s \in Scanners : now[s] \in Int
    BY <1>0, <1>1, TimesAreNumbers DEF Tick, Inv, TypeOK
  <2>3. \A x \in txSnaps : x.taken \in Int
    BY TimesAreNumbers DEF Inv, TypeOK, Snapshot
  <2>4. ScansOK' /\ WriterOK' /\ IdsFollowFetches' /\ LaterIdsLater'
    BY <1>1, <2>2, <2>3
    DEF Tick, Inv, ScansOK, WriterOK, IdsFollowFetches, LaterIdsLater, SnapsSeen, StartSeen
  <2>5. QED
    BY <2>1, <2>4 DEF Inv
<1>2. ASSUME NEW type \in Types, NEW t \in Kickoffs \cup {None}, Announce(type, t) PROVE Inv'
  <2>1. TypeOK'
    BY <1>2, ConstantsOK DEF Inv, TypeOK, Announce
  <2>2. ScansOK' /\ WriterOK' /\ IdsFollowFetches' /\ LaterIdsLater'
    BY <1>2 DEF Announce, Inv, ScansOK, WriterOK, IdsFollowFetches, LaterIdsLater
  <2>3. QED
    BY <2>1, <2>2 DEF Inv
<1>3. ASSUME NEW s \in Scanners, ScanRequest(s) PROVE Inv'
  <2>1. TypeOK'
    BY <1>3 DEF Inv, TypeOK, ScanRequest, Phases
  <2>2. clock \in Int
    BY TimesAreNumbers DEF Inv, TypeOK
  <2>3. ScansOK'
    BY <1>3, <2>2 DEF ScanRequest, Inv, ScansOK, TypeOK, Writing
  <2>4. WriterOK'
    BY <1>0, <1>3 DEF ScanRequest, Inv, WriterOK, TypeOK, Writing
  <2>5. IdsFollowFetches' /\ LaterIdsLater'
    BY <1>3, SnapsAlone, <2>1 DEF ScanRequest, Inv, TypeOK
  <2>6. QED
    BY <2>1, <2>3, <2>4, <2>5 DEF Inv
<1>4. ASSUME NEW s \in Scanners, ScanBegin(s) PROVE Inv'
  <2>1. TypeOK'
    BY <1>4 DEF Inv, TypeOK, ScanBegin, Phases
  <2>2. writer = None /\ txSnaps = snaps
    BY <1>0, <1>4 DEF ScanBegin, CanWrite, Inv, WriterOK, Writing
  <2>3. ScansOK'
    BY <1>4 DEF ScanBegin, Inv, ScansOK, TypeOK, Writing
  <2>4. WriterOK'
    BY <1>0, <1>4, <2>2 DEF ScanBegin, Inv, WriterOK, TypeOK, Writing
  <2>5. IdsFollowFetches'
    BY <1>4 DEF ScanBegin, Inv, IdsFollowFetches
  <2>6. \A x \in txSnaps : x.scan < NextId /\ x.scan \in Int /\ NextId \in Int
    BY <2>2, NextIdIsNew, TimesAreNumbers DEF Inv, WriterOK, TypeOK
  <2>7. LaterIdsLater'
    <3>1. ASSUME NEW t \in Scanners
          PROVE  /\ pc'[t] = "leagues" => \A x \in txSnaps' : x.scan < id'[t]
                 /\ pc'[t] \in {"leagues", "import", "capture"} =>
                      \A x \in txSnaps' : x.scan > id'[t] => x.taken >= now'[t]
      <4>1. CASE t = s
        <5>1. id'[s] = NextId /\ txSnaps' = txSnaps
          BY <1>4 DEF ScanBegin, Inv, TypeOK
        <5>2. QED
          BY <2>6, <4>1, <5>1
      <4>2. CASE t # s
        BY <1>4, <4>2 DEF ScanBegin, Inv, LaterIdsLater, TypeOK
      <4>3. QED
        BY <4>1, <4>2
    <3>2. QED
      BY <3>1 DEF LaterIdsLater
  <2>8. QED
    BY <2>1, <2>3, <2>4, <2>5, <2>7 DEF Inv
<1>5. ASSUME NEW s \in Scanners, ScanLocked(s) PROVE Inv'
  <2>1. TypeOK'
    BY <1>5, TimesAreNumbers DEF Inv, TypeOK, ScanLocked, Phases
  <2>2. ScansOK'
    BY <1>5, TimesAreNumbers, ConstantsOK DEF ScanLocked, Inv, ScansOK, TypeOK, Writing, Times
  <2>3. WriterOK'
    BY <1>0, <1>5 DEF ScanLocked, Inv, WriterOK, TypeOK, Writing
  <2>4. IdsFollowFetches' /\ LaterIdsLater'
    BY <1>5, SnapsAlone, <2>1 DEF ScanLocked, Inv, TypeOK
  <2>5. QED
    BY <2>1, <2>2, <2>3, <2>4 DEF Inv
<1>6. ASSUME NEW s \in Scanners, ScanLeague(s) PROVE Inv'
  <2>1. /\ writer = s /\ writer' = s /\ pc[s] = "leagues" /\ id[s] \in Ids
        /\ SnapsSeen(s) = txSnaps /\ StartSeen(s) = txStart
        /\ \A x \in txSnaps : x.scan < id[s]
    BY <1>6 DEF ScanLeague, Inv, ScansOK, WriterOK, Writing, SnapsSeen, StartSeen, LaterIdsLater
  <2> DEFINE fresh == [scan |-> id[s], stamp |-> now[s], taken |-> clock]
  <2>2. fresh \in Snapshot /\ fresh.scan = id[s] /\ fresh.stamp = now[s] /\ fresh.taken = clock
    BY <1>0, <2>1 DEF Snapshot, Inv, TypeOK
  <2>3. txSnaps' = txSnaps \/ txSnaps' = txSnaps \cup {fresh}
    BY <1>6, <2>1 DEF ScanLeague
  <2> HIDE DEF fresh
  <2>4. txStart' \in Kickoffs \cup {None}
    BY <1>6, <2>1, KickoffType DEF ScanLeague, Inv, TypeOK
  <2>5. TypeOK'
    BY <1>6, <2>1, <2>2, <2>3, <2>4 DEF Inv, TypeOK, ScanLeague, Phases
  <2>6. ScansOK'
    BY <1>6, <2>1 DEF ScanLeague, Inv, ScansOK, TypeOK, Writing
  <2>7. WriterOK'
    BY <1>0, <1>6, <2>1, <2>2, <2>3 DEF ScanLeague, Inv, WriterOK, TypeOK, Writing
  <2>8. /\ clock \in Int /\ \A t \in Scanners : now[t] \in Int /\ now[t] <= clock
        /\ id[s] \in Int /\ \A x \in txSnaps : x.scan \in Int /\ x.taken \in Int
    BY <1>0, <2>1, TimesAreNumbers DEF Inv, TypeOK, Snapshot
  <2>9. IdsFollowFetches'
    BY <1>6, <2>1, <2>2, <2>3, <2>8 DEF ScanLeague, Inv, IdsFollowFetches
  <2>10. LaterIdsLater'
    <3>1. ASSUME NEW t \in Scanners, pc'[t] = "leagues" PROVE FALSE
      BY <1>6, <2>1, <3>1 DEF ScanLeague, Inv, WriterOK, TypeOK
    <3>2. ASSUME NEW t \in Scanners, pc'[t] \in {"leagues", "import", "capture"},
                 NEW x \in txSnaps', x.scan > id'[t]
          PROVE  x.taken >= now'[t]
      <4>1. id'[t] = id[t] /\ now'[t] = now[t] /\ pc[t] \in {"leagues", "import", "capture"}
        BY <1>6, <2>1, <3>2 DEF ScanLeague, Inv, TypeOK
      <4>2. CASE x \in txSnaps
        BY <3>2, <4>1, <4>2 DEF Inv, LaterIdsLater
      <4>3. CASE x = fresh
        BY <2>2, <2>8, <4>1, <4>3
      <4>4. QED
        BY <2>3, <4>2, <4>3
    <3>3. QED
      BY <3>1, <3>2 DEF LaterIdsLater
  <2>11. QED
    BY <2>5, <2>6, <2>7, <2>9, <2>10 DEF Inv
<1>7. ASSUME NEW s \in Scanners, pc[s] \in Writing \ {"leagues"}, Commit(s), UNCHANGED clock,
             pc' \in [Scanners -> Phases], now' \in [Scanners -> Times],
             id' \in [Scanners -> Ids \cup {0}],
             \A t \in Scanners \ {s} : pc'[t] = pc[t] /\ now'[t] = now[t] /\ id'[t] = id[t],
             now'[s] \in {0, now[s]},
             \/ pc'[s] \in (Writing \ {"leagues"}) /\ now'[s] = now[s] /\ id'[s] = id[s]
                /\ (pc'[s] = "capture" => pc[s] = "import") /\ pc'[s] # "import"
             \/ pc'[s] = "idle"
      PROVE  ScansOK' /\ WriterOK' /\ IdsFollowFetches' /\ LaterIdsLater'
  <2>1. ScansOK'
    BY <1>7, TimesAreNumbers, ConstantsOK DEF Inv, ScansOK, TypeOK, Writing, Times
  <2>2. WriterOK'
    BY <1>0, <1>7, CommitKeeps DEF WriterOK, Writing
  <2>3. UNCHANGED txSnaps
    BY <1>7, CommitKeeps
  <2>4. IdsFollowFetches' /\ LaterIdsLater'
    BY <1>7, <2>3, SnapsAlone DEF Writing
  <2>5. QED
    BY <2>1, <2>2, <2>4
<1>8. ASSUME NEW s \in Scanners, UNCHANGED <<clock, table, txn>>,
             pc[s] \in Writing,
             pc' = [pc EXCEPT ![s] = "capture"] \/ pc' = [pc EXCEPT ![s] = "captureWrite"]
             \/ pc' = [pc EXCEPT ![s] = "finish"],
             (pc'[s] = "capture" => pc[s] = "import"), UNCHANGED <<now, id>>, pc[s] # "leagues"
      PROVE  ScansOK' /\ WriterOK' /\ IdsFollowFetches' /\ LaterIdsLater'
  <2>1. pc' \in [Scanners -> Phases]
    BY <1>8 DEF Inv, TypeOK, Phases
  <2>2. ScansOK'
    BY <1>8 DEF Inv, ScansOK, TypeOK, Writing
  <2>3. WriterOK'
    BY <1>0, <1>8 DEF Inv, WriterOK, TypeOK, Writing
  <2>4. IdsFollowFetches' /\ LaterIdsLater'
    BY <1>8, <2>1, SnapsAlone DEF Inv, TypeOK, Writing
  <2>5. QED
    BY <2>2, <2>3, <2>4
<1>9. ASSUME NEW s \in Scanners, ScanImport(s) PROVE Inv'
  <2>1. TypeOK'
    BY <1>9, CommitKeeps DEF Inv, TypeOK, ScanImport, Phases, Writing
  <2>2. CASE Commit(s)
    BY <1>7, <1>9, <2>1, <2>2 DEF ScanImport, Inv, TypeOK, Writing
  <2>3. CASE UNCHANGED <<table, txn>>
    BY <1>8, <1>9, <2>1, <2>3 DEF ScanImport, Inv, TypeOK, Writing
  <2>4. QED
    BY <1>9, <2>2, <2>3 DEF ScanImport
<1>10. ASSUME NEW s \in Scanners, ScanCaptureRead(s) PROVE Inv'
  <2>1. pick' \in [Scanners -> SUBSET Line]
    <3> DEFINE x == Newest(Candidates(s))
               line == [scan |-> x.scan, stamp |-> x.stamp, taken |-> x.taken,
                        start |-> StartSeen(s)]
    <3>1. Candidates(s) \subseteq Snapshot
      BY SeenType DEF Inv, Candidates
    <3>2. ASSUME Due(s), Candidates(s) # {} PROVE line \in Line
      <4>1. x \in Snapshot
        BY <3>1, <3>2, NewestIsGreatest
      <4>2. StartSeen(s) \in Kickoffs
        BY <3>2, SeenType DEF Inv, Due
      <4> HIDE DEF x
      <4>3. QED
        BY <4>1, <4>2 DEF Line, Snapshot
    <3>3. pick' = [pick EXCEPT ![s] = IF Due(s) /\ Candidates(s) # {} THEN {line} ELSE {}]
      BY <1>10 DEF ScanCaptureRead
    <3> HIDE DEF line
    <3>4. QED
      BY <3>2, <3>3 DEF Inv, TypeOK
  <2>2. TypeOK'
    BY <1>10, <2>1 DEF ScanCaptureRead, Inv, TypeOK, Phases
  <2>3. QED
    BY <1>8, <1>10, <2>2 DEF ScanCaptureRead, Inv, TypeOK, Writing
<1>11. ASSUME NEW s \in Scanners, ScanCaptureWrite(s) PROVE Inv'
  <2>1. CASE pick[s] = {}
    <3>1. TypeOK'
      BY <1>11, <2>1 DEF ScanCaptureWrite, Inv, TypeOK, Phases
    <3>2. QED
      BY <1>8, <1>11, <2>1, <3>1 DEF ScanCaptureWrite, Inv, TypeOK, Writing
  <2>2. CASE pick[s] # {}
    <3>1. TypeOK'
      BY <1>11, <2>2, CommitKeeps DEF ScanCaptureWrite, Inv, TypeOK, Phases, Writing
    <3>2. QED
      BY <1>7, <1>11, <2>2, <3>1 DEF ScanCaptureWrite, Inv, TypeOK, Writing
  <2>3. QED
    BY <2>1, <2>2
<1>12. ASSUME NEW s \in Scanners, ScanFinish(s) PROVE Inv'
  <2>1. TypeOK'
    BY <1>12, CommitKeeps, TimesAreNumbers
    DEF ScanFinish, Forget, Inv, TypeOK, Phases, Writing
  <2>2. QED
    BY <1>7, <1>12, <2>1 DEF ScanFinish, Forget, Inv, TypeOK, Writing
<1>13. ASSUME NEW s \in Scanners, ScanFails(s) PROVE Inv'
  <2>1. TypeOK'
    BY <1>13, ConstantsOK DEF ScanFails, Fault, Rollback, Inv, TypeOK, Phases
  <2>2. pc[s] \in Writing
    BY <1>13 DEF ScanFails, Phases, Writing, Inv, TypeOK
  <2>3. ScansOK'
    BY <1>13, <2>2 DEF ScanFails, Inv, ScansOK, TypeOK, Writing
  <2>4. txSnaps' = IF writer = s THEN snaps ELSE txSnaps
    BY <1>13 DEF ScanFails, Rollback
  <2>5. WriterOK'
    BY <1>0, <1>13 DEF ScanFails, Rollback, Inv, WriterOK, TypeOK, Writing
  <2>6. txSnaps' \subseteq txSnaps
    BY <2>4 DEF Inv, WriterOK
  <2>7. IdsFollowFetches' /\ LaterIdsLater'
    BY <1>13, <2>6 DEF ScanFails, Inv, IdsFollowFetches, LaterIdsLater, TypeOK
  <2>8. QED
    BY <2>1, <2>3, <2>5, <2>7 DEF Inv
<1>14. ASSUME NEW s \in Scanners, ScanRecordsFailure(s) PROVE Inv'
  <2>1. TypeOK'
    BY <1>14, TimesAreNumbers
    DEF ScanRecordsFailure, Forget, Inv, TypeOK, ScansOK, Phases, Writing
  <2>2. ScansOK'
    BY <1>14, TimesAreNumbers, ConstantsOK
    DEF ScanRecordsFailure, Forget, Inv, ScansOK, TypeOK, Writing, Times
  <2>3. WriterOK'
    BY <1>0, <1>14 DEF ScanRecordsFailure, Forget, Inv, WriterOK, TypeOK, Writing
  <2>4. IdsFollowFetches' /\ LaterIdsLater'
    BY <1>14, <2>1, SnapsAlone DEF ScanRecordsFailure, Forget, Inv, TypeOK
  <2>5. QED
    BY <2>1, <2>2, <2>3, <2>4 DEF Inv
<1>15. CASE UNCHANGED vars
  BY <1>15 DEF vars, Inv, TypeOK, ScansOK, WriterOK, IdsFollowFetches, LaterIdsLater
<1>16. QED
  BY <1>1, <1>2, <1>3, <1>4, <1>5, <1>6, <1>9, <1>10, <1>11, <1>12, <1>13, <1>14, <1>15
  DEF Next, ScanStep

LEMMA InvInvariant == Spec => []Inv
<1>1. Init => Inv
  <2>1. Init => TypeOK
    BY TimesAreNumbers, ConstantsOK DEF Init, TypeOK, Phases, Times
  <2>2. Init => ScansOK /\ WriterOK /\ IdsFollowFetches /\ LaterIdsLater
    BY DEF Init, ScansOK, WriterOK, IdsFollowFetches, LaterIdsLater, Writing
  <2>3. QED
    BY <2>1, <2>2 DEF Inv
<1>2. QED
  BY <1>1, InvStep, PTL DEF Spec

---------------------------------------------------------------------------
(* What a scan may do to the kickoff and to a pick.                        *)

\* A market that is not the moneyline only moves the kickoff later, and the
\* moneyline moves it to its own time.
LEMMA KickoffStays ==
  ASSUME NEW k \in Kickoffs, venue["moneyline"] = k,
         venue \in [Types -> Kickoffs \cup {None}],
         NEW current \in Kickoffs, current >= k, NEW type \in Types \cup {None}
  PROVE  KickoffOf(current, type) \in Kickoffs /\ KickoffOf(current, type) >= k
<1>1. Kickoffs \subseteq Int /\ None \notin Kickoffs /\ None \notin Types
  BY TimesAreNumbers, ConstantsOK
<1>2. CASE type = None
  BY <1>2 DEF KickoffOf
<1>3. CASE type \in Types
  <2>1. KickoffOf(current, type) = Kickoff(current, type, venue[type])
    BY <1>1, <1>3 DEF KickoffOf
  <2>2. venue[type] \in Kickoffs \cup {None} /\ (type = "moneyline" => venue[type] = k)
    BY <1>3
  <2>3. venue[type] # None => venue[type] \in Int
    BY <1>1, <2>2
  <2>4. /\ Kickoff(current, type, venue[type]) \in {current, venue[type]}
        /\ Kickoff(current, type, venue[type]) # None
        /\ Kickoff(current, type, venue[type]) # current =>
              type = "moneyline" \/ venue[type] > current
    BY <1>1 DEF Kickoff
  <2>5. QED
    BY <1>1, <2>1, <2>2, <2>3, <2>4
<1>4. QED
  BY <1>2, <1>3

\* StartInv says of the second version of the kickoff what it says of the
\* committed one, so it holds of the kickoff any session sees.
LEMMA StartSeenStays ==
  ASSUME Inv, StartInv, NEW s \in Scanners, moved = 0, venue["moneyline"] # None,
         start # None, start >= venue["moneyline"]
  PROVE  StartSeen(s) \in Kickoffs /\ StartSeen(s) >= venue["moneyline"]
BY DEF StartInv, StartSeen, Inv, TypeOK

LEMMA StartInvStep ==
  ASSUME Inv, Inv', StartInv, [Next]_vars
  PROVE  StartInv'
<1> USE DEF StartInv
<1>1. CASE Tick
  BY <1>1 DEF Tick, table, txn
<1>2. ASSUME NEW type \in Types, NEW t \in Kickoffs \cup {None}, Announce(type, t)
      PROVE  StartInv'
  <2>1. moved' # 0
    BY <1>2 DEF Announce, Inv, TypeOK
  <2>2. QED
    BY <2>1
<1>3. ASSUME NEW s \in Scanners, ScanLeague(s) PROVE StartInv'
  <2>1. SUFFICES ASSUME moved = 0, venue["moneyline"] # None, start # None,
                        start >= venue["moneyline"]
                 PROVE  txStart' # None /\ txStart' >= venue["moneyline"]
    BY <1>3 DEF ScanLeague, table
  <2>2. PICK first \in Types \cup {None} : \E second \in Types \cup {None} :
           txStart' = KickoffOf(KickoffOf(StartSeen(s), first), second)
    BY <1>3 DEF ScanLeague
  <2>3. PICK second \in Types \cup {None} :
           txStart' = KickoffOf(KickoffOf(StartSeen(s), first), second)
    BY <2>2
  <2>4. /\ venue \in [Types -> Kickoffs \cup {None}] /\ venue["moneyline"] \in Kickoffs
        /\ "moneyline" \in Types
    BY <2>1 DEF Inv, TypeOK, Types
  <2>5. StartSeen(s) \in Kickoffs /\ StartSeen(s) >= venue["moneyline"]
    BY <2>1, StartSeenStays
  <2>6. /\ KickoffOf(StartSeen(s), first) \in Kickoffs
        /\ KickoffOf(StartSeen(s), first) >= venue["moneyline"]
    BY <2>4, <2>5, KickoffStays
  <2>7. txStart' \in Kickoffs /\ txStart' >= venue["moneyline"]
    BY <2>3, <2>4, <2>6, KickoffStays
  <2>8. QED
    BY <2>7, TimesAreNumbers
<1>4. ASSUME NEW s \in Scanners, Commit(s), UNCHANGED <<venue, moved>> PROVE StartInv'
  BY <1>4 DEF Commit
<1>5. ASSUME UNCHANGED <<venue, moved, start, txStart>> PROVE StartInv'
  BY <1>5
<1>6. ASSUME NEW s \in Scanners, ScanStep(s) PROVE StartInv'
  <2>1. CASE ScanImport(s) \/ ScanCaptureWrite(s) \/ ScanFinish(s)
    BY <1>4, <1>5, <2>1 DEF ScanImport, ScanCaptureWrite, ScanFinish, table, txn
  <2>2. CASE ScanFails(s)
    BY <2>2 DEF ScanFails, Rollback, table, txn
  <2>3. CASE \/ ScanRequest(s) \/ ScanBegin(s) \/ ScanLocked(s) \/ ScanCaptureRead(s)
             \/ ScanRecordsFailure(s)
    BY <1>5, <2>3
    DEF ScanRequest, ScanBegin, ScanLocked, ScanCaptureRead, ScanRecordsFailure, table, txn
  <2>4. QED
    BY <1>3, <1>6, <2>1, <2>2, <2>3 DEF ScanStep
<1>7. CASE UNCHANGED vars
  BY <1>5, <1>7 DEF vars, table, txn
<1>8. QED
  BY <1>1, <1>2, <1>6, <1>7 DEF Next

\* Only a capture's commit, an import's and the last one change the kickoff that
\* is committed, to the one the session sees.
LEMMA StartChanges ==
  ASSUME [Next]_vars, start' # start
  PROVE  UNCHANGED <<venue, moved>> /\ \E s \in Scanners : start' = StartSeen(s)
<1>1. PICK s \in Scanners : ScanStep(s)
  BY DEF Next, Tick, Announce, vars, table
<1>2. ScanImport(s) \/ ScanCaptureWrite(s) \/ ScanFinish(s)
  BY <1>1
  DEF ScanStep, ScanRequest, ScanBegin, ScanLocked, ScanLeague, ScanCaptureRead, ScanFails,
      ScanRecordsFailure, table
<1>3. QED
  BY <1>2 DEF ScanImport, ScanCaptureWrite, ScanFinish, Commit, table

\* The line a capture picks is later than every stored snapshot that was taken
\* before the kickoff it saw: one of a greater id was fetched after this scan
\* read its clock, when the game had begun; the others were candidates.
LEMMA CapturePicksTheLatest ==
  ASSUME Inv, NEW s \in Scanners, ScanCaptureRead(s), NEW line \in pick'[s],
         NEW y \in snaps, y.taken < line.start
  PROVE  y.taken <= line.taken
<1> DEFINE x == Newest(Candidates(s))
<1>1. /\ Due(s) /\ Candidates(s) # {} /\ pc[s] = "capture"
      /\ line = [scan |-> x.scan, stamp |-> x.stamp, taken |-> x.taken,
                 start |-> StartSeen(s)]
  BY DEF ScanCaptureRead, Inv, TypeOK
<1>2. line.start = StartSeen(s) /\ line.taken = x.taken
  BY <1>1
<1>3. /\ SnapsSeen(s) \subseteq txSnaps /\ y \in SnapsSeen(s)
      /\ txSnaps \subseteq Snapshot
  BY DEF SnapsSeen, Inv, WriterOK, TypeOK
<1>4. x \in Candidates(s) /\ \A z \in Candidates(s) : z.scan <= x.scan
  <2>1. Candidates(s) \in SUBSET Snapshot
    BY <1>3 DEF Candidates
  <2>2. QED
    BY <1>1, <2>1, NewestIsGreatest
<1>5. x \in txSnaps /\ y \in txSnaps
  BY <1>3, <1>4 DEF Candidates
<1> HIDE DEF x
<1>6. /\ y.scan \in Int /\ x.scan \in Int /\ y.taken \in Int /\ y.stamp \in Int
      /\ x.taken \in Int /\ id[s] \in Int /\ now[s] \in Int /\ StartSeen(s) \in Int
  <2>1. /\ y.scan \in Ids /\ x.scan \in Ids /\ y.taken \in Times /\ y.stamp \in Times
        /\ x.taken \in Times
    BY <1>3, <1>5 DEF Snapshot
  <2>2. /\ id[s] \in Ids \cup {0} /\ now[s] \in Times /\ StartSeen(s) \in Kickoffs
    BY <1>1, SeenType DEF Inv, TypeOK, Due
  <2>3. QED
    BY <2>1, <2>2, TimesAreNumbers
<1>7. CASE y.scan > id[s]
  <2>1. y.taken >= now[s]
    BY <1>1, <1>5, <1>7 DEF Inv, LaterIdsLater
  <2>2. StartSeen(s) <= now[s]
    BY <1>1 DEF Due
  <2>3. QED
    BY <1>2, <1>6, <2>1, <2>2
<1>8. CASE ~(y.scan > id[s])
  <2>1. y.stamp <= y.taken
    BY <1>5 DEF Inv, IdsFollowFetches
  <2>2. y \in Candidates(s)
    BY <1>2, <1>3, <1>6, <1>8, <2>1 DEF Candidates
  <2>3. y.scan = x.scan \/ y.scan < x.scan
    BY <1>4, <1>6, <2>2
  <2>4. y.taken <= x.taken
    BY <1>5, <1>6, <2>3 DEF Inv, IdsFollowFetches
  <2>5. QED
    BY <1>2, <2>4
<1>9. QED
  BY <1>7, <1>8

\* Only the capture's read puts anything into a pick.
LEMMA PickChanges ==
  ASSUME Inv, [Next]_vars, NEW s \in Scanners, pick'[s] # pick[s]
  PROVE  pick'[s] = {} \/ ScanCaptureRead(s)
<1>1. pick \in [Scanners -> SUBSET Line]
  BY DEF Inv, TypeOK
<1>2. PICK r \in Scanners : ScanStep(r)
  BY DEF Next, Tick, Announce, vars
<1>3. CASE ScanCaptureRead(r)
  BY <1>1, <1>3 DEF ScanCaptureRead
<1>4. CASE ScanCaptureWrite(r) \/ ScanFinish(r) \/ ScanFails(r) \/ ScanRecordsFailure(r)
  BY <1>1, <1>4 DEF ScanCaptureWrite, ScanFinish, ScanFails, ScanRecordsFailure, Forget
<1>5. QED
  BY <1>2, <1>3, <1>4
  DEF ScanStep, ScanRequest, ScanBegin, ScanLocked, ScanLeague, ScanImport

---------------------------------------------------------------------------
(* Two captures of one kickoff.                                            *)

\* What a scan that is still to capture sees uncommitted was fetched after it read
\* the clock: its own snapshots, or those of a scan that began after it.
UnsettledLater ==
    \A s \in Scanners : pc[s] \in {"leagues", "import", "capture"} =>
        \A x \in txSnaps \ snaps : x.taken >= now[s]

\* A captured line is of a game that has started.  Which snapshots were taken before
\* that start is settled: they are committed, none has a greater id than the line's,
\* and the line's own is one of them if it was taken before the start.
Settled(line) ==
    /\ line.start <= clock
    /\ \A x \in txSnaps \ snaps : x.taken >= line.start
    /\ \A x \in txSnaps : x.taken < line.start => x.scan <= line.scan
    /\ line.taken < line.start =>
          [scan |-> line.scan, stamp |-> line.stamp, taken |-> line.taken] \in snaps

CapturesInv ==
    /\ UnsettledLater
    /\ closing # None => Settled(closing)
    /\ \A s \in Scanners : \A line \in pick[s] : Settled(line)

\* What a step does to the snapshots: the scan at its league adds one, taken now;
\* a commit makes all of them permanent, a rollback forgets those that are not.
LEMMA SnapsMove ==
  ASSUME Inv, [Next]_vars
  PROVE  /\ clock' \in Int /\ clock <= clock'
         /\ \A x \in txSnaps' : x \in txSnaps \/ x.taken = clock
         /\ snaps \subseteq snaps' /\ snaps' \subseteq txSnaps
         /\ \A x \in txSnaps' \ snaps' : x \in txSnaps \ snaps \/ x.taken = clock
<1> USE DEF table, txn
<1>0. clock \in Int /\ snaps \subseteq txSnaps
  BY TimesAreNumbers DEF Inv, TypeOK, WriterOK
<1>1. CASE Tick
  BY <1>0, <1>1 DEF Tick
<1>2. CASE \E type \in Types, t \in Kickoffs \cup {None} : Announce(type, t)
  BY <1>0, <1>2 DEF Announce
<1>3. ASSUME NEW s \in Scanners, ScanLeague(s)
      PROVE  /\ \A x \in txSnaps' : x \in txSnaps \/ x.taken = clock
             /\ UNCHANGED <<snaps, clock>>
  <2>1. SnapsSeen(s) = txSnaps
    BY <1>3 DEF ScanLeague, SnapsSeen, Inv, WriterOK
  <2>2. \/ txSnaps' = txSnaps
        \/ txSnaps' = txSnaps \cup {[scan |-> id[s], stamp |-> now[s], taken |-> clock]}
    BY <1>3, <2>1 DEF ScanLeague
  <2>3. QED
    BY <1>3, <2>2 DEF ScanLeague
<1>4. ASSUME NEW s \in Scanners, Commit(s), pc[s] \in Writing \ {"leagues"}, UNCHANGED clock
      PROVE  txSnaps' = txSnaps /\ snaps' = txSnaps
  BY <1>4, CommitKeeps
<1>5. ASSUME NEW s \in Scanners, ScanFails(s)
      PROVE  UNCHANGED <<snaps, clock>> /\ txSnaps' \in {snaps, txSnaps}
  BY <1>5 DEF ScanFails, Rollback
<1>6. ASSUME NEW s \in Scanners, ScanStep(s)
      PROVE  \/ UNCHANGED <<snaps, txSnaps, clock>> \/ ScanLeague(s) \/ ScanFails(s)
             \/ (Commit(s) /\ pc[s] \in Writing \ {"leagues"} /\ UNCHANGED clock)
  BY <1>6 DEF ScanStep, ScanRequest, ScanBegin, ScanLocked, ScanImport, ScanCaptureRead,
              ScanCaptureWrite, ScanFinish, ScanRecordsFailure, Writing
<1>7. QED
  BY <1>0, <1>1, <1>2, <1>3, <1>4, <1>5, <1>6 DEF Next, vars

\* So a line stays settled.
LEMMA SettledStays ==
  ASSUME Inv, Inv', [Next]_vars, NEW line \in Line, Settled(line)
  PROVE  Settled(line)'
<1>1. line.start \in Int /\ clock \in Int
  BY TimesAreNumbers DEF Line, Inv, TypeOK
<1>2. \A x \in txSnaps' : x.taken \in Int
  BY TimesAreNumbers DEF Inv, TypeOK, Snapshot
<1>3. QED
  BY <1>1, <1>2, SnapsMove DEF Settled

\* A line is settled when it is captured.
LEMMA CapturedIsSettled ==
  ASSUME Inv, UnsettledLater, NEW s \in Scanners, ScanCaptureRead(s), NEW line \in pick'[s]
  PROVE  line \in Line /\ Settled(line)
<1> DEFINE x == Newest(Candidates(s))
<1>1. /\ Due(s) /\ Candidates(s) # {} /\ pc[s] = "capture"
      /\ line = [scan |-> x.scan, stamp |-> x.stamp, taken |-> x.taken,
                 start |-> StartSeen(s)]
  BY DEF ScanCaptureRead, Inv, TypeOK
<1>2. /\ SnapsSeen(s) \subseteq txSnaps /\ snaps \subseteq SnapsSeen(s)
      /\ txSnaps \subseteq Snapshot
  BY DEF SnapsSeen, Inv, WriterOK, TypeOK
<1>3. x \in Candidates(s) /\ \A z \in Candidates(s) : z.scan <= x.scan
  <2>1. Candidates(s) \in SUBSET Snapshot
    BY <1>2 DEF Candidates
  <2>2. QED
    BY <1>1, <2>1, NewestIsGreatest
<1>4. x \in txSnaps /\ x \in Snapshot
  BY <1>2, <1>3 DEF Candidates
<1>5. StartSeen(s) \in Kickoffs /\ StartSeen(s) <= now[s] /\ now[s] <= clock
  BY <1>1, SeenType DEF Inv, Due, ScansOK
<1>6. x = [scan |-> x.scan, stamp |-> x.stamp, taken |-> x.taken]
  BY <1>4 DEF Snapshot
<1> DEFINE k == StartSeen(s)
<1> HIDE DEF x
<1>7. /\ line.scan = x.scan /\ line.stamp = x.stamp /\ line.taken = x.taken
      /\ line.start = k
  BY <1>1
<1>8. line \in Line
  BY <1>1, <1>4, <1>5 DEF Line, Snapshot
<1>9. /\ k \in Int /\ now[s] \in Int /\ clock \in Int /\ id[s] \in Int /\ x.taken \in Int
      /\ \A y \in txSnaps : y.taken \in Int /\ y.scan \in Int /\ y.stamp \in Int
  BY <1>2, <1>4, <1>5, TimesAreNumbers DEF Inv, TypeOK, Snapshot
<1>10. \A y \in txSnaps \ snaps : y.taken >= k
  BY <1>1, <1>5, <1>9 DEF UnsettledLater
<1>11. ASSUME NEW y \in txSnaps, y.taken < k PROVE y.scan <= x.scan
  <2>1. y \in SnapsSeen(s) /\ y.stamp <= k
    BY <1>2, <1>9, <1>10, <1>11 DEF Inv, IdsFollowFetches
  <2>2. y.scan <= id[s]
    BY <1>1, <1>5, <1>9, <1>11 DEF Inv, LaterIdsLater
  <2>3. y \in Candidates(s)
    BY <2>1, <2>2 DEF Candidates
  <2>4. QED
    BY <1>3, <2>3
<1>12. x.taken < k => x \in snaps
  BY <1>4, <1>9, <1>10
<1> HIDE DEF k
<1>13. k <= clock
  BY <1>5, <1>9 DEF k
<1>14. Settled(line)
  BY <1>6, <1>7, <1>10, <1>11, <1>12, <1>13 DEF Settled
<1>15. QED
  BY <1>8, <1>14

\* UnsettledLater is kept: a scan gets the lock when everything is committed.
LEMMA UnsettledStep ==
  ASSUME Inv, Inv', UnsettledLater, [Next]_vars
  PROVE  UnsettledLater'
<1> USE DEF table, txn, Goto
<1>0. /\ clock \in Int /\ \A t \in Scanners : now[t] \in Int /\ now[t] <= clock
  BY TimesAreNumbers DEF Inv, TypeOK, ScansOK
<1>1. ASSUME NEW s \in Scanners, pc'[s] \in {"leagues", "import", "capture"},
             NEW x \in txSnaps' \ snaps'
      PROVE  x.taken >= now'[s]
  <2>1. CASE pc[s] \in {"leagues", "import", "capture"} /\ now'[s] = now[s]
    BY <1>0, <1>1, <2>1, SnapsMove DEF UnsettledLater
  <2>2. CASE ScanBegin(s)
    BY <1>1, <2>2 DEF ScanBegin, CanWrite, Inv, WriterOK, Writing
  <2>3. (pc[s] \in {"leagues", "import", "capture"} /\ now'[s] = now[s]) \/ ScanBegin(s)
    <3>1. CASE \E t \in Scanners : ScanStep(t)
      <4>1. PICK t \in Scanners : ScanStep(t)
        BY <3>1
      <4>2. CASE t # s
        BY <1>1, <4>1, <4>2
        DEF ScanStep, ScanRequest, ScanBegin, ScanLocked, ScanLeague, ScanImport,
            ScanCaptureRead, ScanCaptureWrite, ScanFinish, ScanFails, ScanRecordsFailure,
            Forget, Inv, TypeOK
      <4>3. CASE t = s
        BY <1>1, <4>1, <4>3
        DEF ScanStep, ScanRequest, ScanBegin, ScanLocked, ScanLeague, ScanImport,
            ScanCaptureRead, ScanCaptureWrite, ScanFinish, ScanFails, ScanRecordsFailure,
            Forget, Inv, TypeOK
      <4>4. QED
        BY <4>2, <4>3
    <3>2. CASE ~(\E t \in Scanners : ScanStep(t))
      BY <1>1, <3>2 DEF Next, Tick, Announce, vars
    <3>3. QED
      BY <3>1, <3>2
  <2>4. QED
    BY <2>1, <2>2, <2>3
<1>2. QED
  BY <1>1 DEF UnsettledLater

\* The closing line is written from a pick.
LEMMA ClosingChanges ==
  ASSUME [Next]_vars, closing' # closing
  PROVE  \E s \in Scanners : closing' \in pick[s]
BY DEF Next, Tick, Announce, vars, ScanStep, ScanRequest, ScanBegin, ScanLocked, ScanLeague,
       ScanImport, ScanCaptureRead, ScanCaptureWrite, ScanFinish, ScanFails,
       ScanRecordsFailure

LEMMA CapturesStep ==
  ASSUME Inv, Inv', CapturesInv, [Next]_vars
  PROVE  CapturesInv'
<1>1. UnsettledLater'
  BY UnsettledStep DEF CapturesInv
<1>2. \A s \in Scanners : pick[s] \subseteq Line
  BY DEF Inv, TypeOK
<1>3. ASSUME closing' # None PROVE Settled(closing)'
  <2>1. closing' \in Line /\ Settled(closing')
    BY <1>2, <1>3, ClosingChanges DEF CapturesInv, Inv, TypeOK
  <2>2. PICK line \in Line : line = closing' /\ Settled(line)
    BY <2>1
  <2>3. Settled(line)'
    BY <2>2, SettledStays
  <2>4. QED
    BY <2>2, <2>3 DEF Settled
<1>4. ASSUME NEW s \in Scanners, NEW line \in pick'[s] PROVE Settled(line)'
  <2>1. line \in Line /\ Settled(line)
    <3>1. CASE pick'[s] = pick[s]
      BY <1>2, <1>4, <3>1 DEF CapturesInv
    <3>2. CASE pick'[s] # pick[s]
      BY <1>4, <3>2, PickChanges, CapturedIsSettled DEF CapturesInv
    <3>3. QED
      BY <3>1, <3>2
  <2>2. QED
    BY <2>1, SettledStays
<1>5. QED
  BY <1>1, <1>3, <1>4 DEF CapturesInv

\* Two settled lines of one kickoff, both taken before it, are one line.
LEMMA SettledLinesAgree ==
  ASSUME Inv, NEW a \in Line, NEW b \in Line, Settled(a), Settled(b),
         a.taken < a.start, b.taken < b.start, a.start = b.start
  PROVE  a = b
<1> DEFINE snapOf(l) == [scan |-> l.scan, stamp |-> l.stamp, taken |-> l.taken]
<1>1. snapOf(a) \in txSnaps /\ snapOf(b) \in txSnaps
  BY DEF Settled, Inv, WriterOK
<1>2. a.scan \in Int /\ b.scan \in Int
  BY TimesAreNumbers DEF Line
<1>3. a.scan <= b.scan /\ b.scan <= a.scan
  <2>1. \A x \in txSnaps : x.taken < a.start => x.scan <= a.scan /\ x.scan <= b.scan
    BY DEF Settled
  <2>2. snapOf(a).taken = a.taken /\ snapOf(b).taken = b.taken
        /\ snapOf(a).scan = a.scan /\ snapOf(b).scan = b.scan
    OBVIOUS
  <2>3. QED
    BY <1>1, <2>1, <2>2
<1>4. snapOf(a) = snapOf(b)
  BY <1>1, <1>2, <1>3 DEF Inv, IdsFollowFetches
<1>5. a.stamp = b.stamp /\ a.taken = b.taken /\ a.scan = b.scan
  BY <1>4
<1>6. QED
  BY <1>5 DEF Line

---------------------------------------------------------------------------
(* The theorems.                                                           *)

\* Every variable of the closing line's model stays in its type, whatever the
\* scans of several processes and the venue do.
THEOREM TypeCorrect == Spec => []TypeOK
BY InvInvariant, PTL DEF Inv

\* The stored snapshots of a scan id are of one scan, although SQLite gives the
\* id of a scan that was rolled back to the next one.
THEOREM SnapshotsHaveOneScan == Spec => []OneScanPerId
<1>1. Inv => OneScanPerId
  BY DEF Inv, WriterOK, IdsFollowFetches, OneScanPerId
<1>2. QED
  BY <1>1, InvInvariant, PTL

\* No stored snapshot that was taken before the kickoff is later than the one
\* capture_closing picks, whatever other processes commit around it.
THEOREM CapturesPickTheLatest == Spec => PicksTheLatest
<1> DEFINE Step == \A s \in Scanners : pick'[s] # pick[s] =>
                     \A line \in pick'[s], x \in snaps :
                        x.taken < line.start => x.taken <= line.taken
<1>1. ASSUME Inv, [Next]_vars PROVE [Step]_pick
  <2>1. ASSUME NEW s \in Scanners, pick'[s] # pick[s], NEW line \in pick'[s],
               NEW x \in snaps, x.taken < line.start
        PROVE  x.taken <= line.taken
    <3>1. ScanCaptureRead(s)
      BY <1>1, <2>1, PickChanges
    <3>2. QED
      BY <1>1, <2>1, <3>1, CapturePicksTheLatest
  <2>2. QED
    BY <2>1
<1>2. QED
  BY <1>1, InvInvariant, PTL DEF Spec, PicksTheLatest

\* While the moneyline's own time stands, no scan moves a kickoff that is not
\* before it to before it, in whatever order _kickoff sees the markets.
THEOREM SiblingsNeverMoveBackwards == Spec => SiblingNeverBackwards
<1> DEFINE Step == (/\ moved = 0
                    /\ venue["moneyline"] # None
                    /\ start # None /\ start' # None
                    /\ start >= venue["moneyline"])
                        => start' >= venue["moneyline"]
<1>1. Init => StartInv
  BY DEF Init, StartInv
<1>2. Inv /\ Inv' /\ StartInv /\ [Next]_vars => StartInv'
  BY StartInvStep
<1>3. ASSUME Inv, StartInv, [Next]_vars PROVE [Step]_start
  <2>1. SUFFICES ASSUME start' # start, moved = 0, venue["moneyline"] # None,
                        start # None, start >= venue["moneyline"]
                 PROVE  start' >= venue["moneyline"]
    OBVIOUS
  <2>2. PICK s \in Scanners : start' = StartSeen(s)
    BY <1>3, <2>1, StartChanges
  <2>3. QED
    BY <1>3, <2>1, <2>2, StartSeenStays
<1>4. QED
  BY <1>1, <1>2, <1>3, InvInvariant, PTL DEF Spec, SiblingNeverBackwards

\* "The first capture wins" in effect: two processes that capture the bet at once
\* for one kickoff, from snapshots taken before it, store the same line.
THEOREM CapturesOfOneKickoffAgree == Spec => CapturesAgree
<1> DEFINE Step == (/\ closing # None
                    /\ closing.taken < closing.start /\ closing'.taken < closing'.start
                    /\ closing'.start = closing.start)
                       => closing' = closing
<1>1. Init => CapturesInv
  BY DEF Init, CapturesInv, UnsettledLater
<1>2. Inv /\ Inv' /\ CapturesInv /\ [Next]_vars => CapturesInv'
  BY CapturesStep
<1>3. ASSUME Inv, CapturesInv, [Next]_vars PROVE [Step]_closing
  <2>1. SUFFICES ASSUME closing' # closing, closing # None,
                        closing.taken < closing.start, closing'.taken < closing'.start,
                        closing'.start = closing.start
                 PROVE  closing' = closing
    OBVIOUS
  <2>2. /\ closing \in Line /\ Settled(closing)
        /\ closing' \in Line /\ Settled(closing')
    BY <1>3, <2>1, ClosingChanges DEF CapturesInv, Inv, TypeOK
  <2>3. QED
    BY <1>3, <2>1, <2>2, SettledLinesAgree
<1>4. QED
  BY <1>1, <1>2, <1>3, InvInvariant, PTL DEF Spec, CapturesAgree
============================================================================
