--------------------------- MODULE LedgerProofs ---------------------------
(***************************************************************************)
(* Theorems about the ledger, for every number of processes, sessions,     *)
(* markets, bets and fills.                                                *)
(***************************************************************************)
EXTENDS Ledger, TLAPS

---------------------------------------------------------------------------
(* Lemmas about the operators.                                             *)

\* The row of an unused id is a bet row.
LEMMA NoBetType == NoBet \in BetRow
  BY ConstantsOK DEF NoBet, BetRow, Status, Outcomes

\* A result is one of the settle results, whatever the listing.
LEMMA ResultType ==
  ASSUME NEW b, NEW l
  PROVE  ResultOf(b, l) \in {"won", "lost", "push"}
  BY DEF ResultOf

\* Inserting fills keeps the bets table a table of bet rows.
LEMMA InsertType ==
  ASSUME bets \in [Bets -> BetRow], NEW fs \in SUBSET Fills, InsertFills(fs)
  PROVE  bets' \in [Bets -> BetRow]
<1> DEFINE ids == Injection(fs, FreeIds)
           id == CHOOSE g \in ids : TRUE
           rowOf(f) == [market |-> FillMarket[f], token |-> FillToken[f],
                        status |-> "open", key |-> f, closing |-> FALSE]
<1>1. bets' = [b \in Bets |->
         IF \E f \in fs : id[f] = b THEN rowOf(CHOOSE f \in fs : id[f] = b) ELSE bets[b]]
  BY DEF InsertFills
<1>2. ASSUME NEW f \in fs PROVE rowOf(f) \in BetRow
  BY ConstantsOK DEF BetRow, Status
<1>3. ASSUME NEW b \in Bets, \E f \in fs : id[f] = b
      PROVE  (CHOOSE f \in fs : id[f] = b) \in fs
  BY <1>3
<1> HIDE DEF id, rowOf
<1>4. QED
  BY <1>1, <1>2, <1>3

\* What upsert_market stores of a listing is a row state.
LEMMA RowOfType == \A l : RowOf(l) \in RowState
  BY DEF RowOf, RowState

\* COMMIT and ROLLBACK keep the two copies of the store well typed.
LEMMA CommitType ==
  ASSUME TypeOK, NEW s, NEW r \in [Markets -> RowState], CommitRows(s, r)
  PROVE  /\ rows' \in [Markets -> RowState] /\ txRows' \in [Markets -> RowState]
         /\ snaps' \subseteq Markets /\ txSnaps' \subseteq Markets
         /\ writer' \in Sessions \cup {None}
  BY DEF TypeOK, CommitRows

LEMMA RollbackType ==
  ASSUME TypeOK, NEW s, Rollback(s)
  PROVE  /\ rows' \in [Markets -> RowState] /\ txRows' \in [Markets -> RowState]
         /\ snaps' \subseteq Markets /\ txSnaps' \subseteq Markets
         /\ writer' \in Sessions \cup {None}
         /\ bets' = bets
  BY DEF TypeOK, Rollback, txn, store

\* Leaving a scan keeps the session's registers and the locks well typed.
LEMMA LeaveType ==
  ASSUME TypeOK, NEW s \in Scanners, ForgetScan(s), ReleaseScanLock(s)
  PROVE  /\ kicked' \in [Scanners -> SUBSET Markets]
         /\ found' \in [Scanners -> [Markets -> Listing \cup {"unseen"}]]
         /\ todo' \in [Sessions -> SUBSET Bets]
         /\ pending' \in [Sessions -> SUBSET Fills]
         /\ scanLock' \in [Procs -> Scanners \cup {None}]
  BY DEF TypeOK, ForgetScan, ReleaseScanLock, Unseen

\* Giving a bet row a status or a closing line leaves it a bet row.
LEMMA StatusType ==
  ASSUME NEW row \in BetRow, NEW v \in Status
  PROVE  [row EXCEPT !.status = v] \in BetRow
  BY DEF BetRow

LEMMA ClosingType ==
  ASSUME NEW row \in BetRow
  PROVE  [row EXCEPT !.closing = TRUE] \in BetRow
  BY DEF BetRow

---------------------------------------------------------------------------
(* Type correctness.                                                       *)

\* Every reachable state is well typed.
THEOREM TypeCorrect == Spec => []TypeOK
<1>1. Init => TypeOK
  BY NoBetType, ConstantsOK
  DEF Init, TypeOK, Listing, RowState, Phases, Unseen, Sessions
<1>2. TypeOK /\ [Next]_vars => TypeOK'
  <2> SUFFICES ASSUME TypeOK, [Next]_vars PROVE TypeOK'
    OBVIOUS
  <2> USE DEF Goto, world, store, txn, local, forms
  <2>1. ASSUME NEW m \in Markets, Kickoff(m) PROVE TypeOK'
    BY <2>1 DEF TypeOK, Kickoff
  <2>2. ASSUME NEW m \in Markets, NEW l \in Listing, Resolve(m, l) PROVE TypeOK'
    BY <2>2 DEF TypeOK, Resolve
  <2>3. ASSUME NEW f \in Fills, BuyOnVenue(f) PROVE TypeOK'
    BY <2>3 DEF TypeOK, BuyOnVenue
  <2>4. ASSUME NEW s \in Scanners, ScanRequest(s) PROVE TypeOK'
    BY <2>4 DEF TypeOK, ScanRequest, Phases, ScanPhases
  <2>5. ASSUME NEW s \in Scanners, ScanBegin(s) PROVE TypeOK'
    BY <2>5 DEF TypeOK, ScanBegin, Phases, ScanPhases, Sessions
  <2>6. ASSUME NEW s \in Scanners, ScanLocked(s) PROVE TypeOK'
    BY <2>6, LeaveType DEF TypeOK, ScanLocked, Phases
  <2>7. ASSUME NEW s \in Scanners, ScanLeagues(s) PROVE TypeOK'
    <3>1. PICK seen \in SUBSET Markets :
             /\ found' = [found EXCEPT ![s] =
                    [m \in Markets |-> IF m \in seen THEN venue[m] ELSE "unseen"]]
             /\ txRows' = [m \in Markets |-> IF m \in seen THEN RowOf(venue[m]) ELSE txRows[m]]
             /\ \E fresh \in SUBSET seen : \E quoted \in SUBSET fresh :
                    txSnaps' = (txSnaps \ fresh) \cup quoted
      BY <2>7 DEF ScanLeagues
    <3>2. found' \in [Scanners -> [Markets -> Listing \cup {"unseen"}]]
      BY <3>1 DEF TypeOK
    <3>3. txRows' \in [Markets -> RowState] /\ txSnaps' \subseteq Markets
      BY <3>1, RowOfType DEF TypeOK
    <3>4. pc' \in [Sessions -> Phases]
      BY <2>7 DEF TypeOK, ScanLeagues, Phases, ScanPhases
    <3>5. QED
      BY <2>7, <3>2, <3>3, <3>4 DEF TypeOK, ScanLeagues
  <2>8. ASSUME NEW s \in Scanners, ScanImportRead(s) PROVE TypeOK'
    BY <2>8 DEF TypeOK, ScanImportRead, Importable, Phases, ScanPhases
  <2>9. ASSUME NEW s \in Scanners, ScanImportWrite(s) PROVE TypeOK'
    BY <2>9, InsertType, CommitType DEF TypeOK, ScanImportWrite, Commit, Phases, ScanPhases, Sessions
  <2>10. ASSUME NEW s \in Scanners, ScanFetch(s) PROVE TypeOK'
    <3>1. PICK got \in SUBSET Missing(s) :
             /\ IF got = Missing(s) THEN UNCHANGED faults ELSE Fault
             /\ IF got = {} THEN UNCHANGED writer ELSE CanWrite(s) /\ writer' = s
             /\ found' = [found EXCEPT ![s] =
                    [m \in Markets |-> IF m \in got THEN venue[m] ELSE found[s][m]]]
             /\ txRows' = [m \in Markets |-> IF m \in got THEN RowOf(venue[m]) ELSE txRows[m]]
      BY <2>10 DEF ScanFetch
    <3>2. found' \in [Scanners -> [Markets -> Listing \cup {"unseen"}]]
      BY <3>1 DEF TypeOK
    <3>3. txRows' \in [Markets -> RowState]
      BY <3>1, RowOfType DEF TypeOK
    <3>4. pc' \in [Sessions -> Phases]
      BY <2>10 DEF TypeOK, ScanFetch, Phases, ScanPhases
    <3>5. writer' \in Sessions \cup {None}
      BY <3>1 DEF TypeOK, Sessions
    <3>6. faults' \in 0..MaxFaults
      BY <3>1, ConstantsOK DEF TypeOK, Fault
    <3>7. QED
      BY <2>10, <3>2, <3>3, <3>4, <3>5, <3>6 DEF TypeOK, ScanFetch
  <2>11. ASSUME NEW s \in Scanners, ScanCaptureRead(s) PROVE TypeOK'
    BY <2>11 DEF TypeOK, ScanCaptureRead, ClosingDue, Phases, ScanPhases
  <2>12. ASSUME NEW s \in Scanners, ScanCaptureWrite(s) PROVE TypeOK'
    <3>1. bets' \in [Bets -> BetRow]
      <4>1. CASE todo[s] = {}
        BY <2>12, <4>1 DEF TypeOK, ScanCaptureWrite
      <4>2. CASE todo[s] # {}
        BY <2>12, <4>2, ClosingType DEF TypeOK, ScanCaptureWrite
      <4>3. QED
        BY <4>1, <4>2
    <3>2. /\ rows' \in [Markets -> RowState] /\ txRows' \in [Markets -> RowState]
          /\ snaps' \subseteq Markets /\ txSnaps' \subseteq Markets
          /\ writer' \in Sessions \cup {None}
      BY <2>12, CommitType DEF TypeOK, ScanCaptureWrite, Commit
    <3>3. pc' \in [Sessions -> Phases]
      BY <2>12 DEF TypeOK, ScanCaptureWrite, Phases, ScanPhases
    <3>4. QED
      BY <2>12, <3>1, <3>2, <3>3 DEF TypeOK, ScanCaptureWrite
  <2>13. ASSUME NEW s \in Scanners, ScanSettleRead(s) PROVE TypeOK'
    BY <2>13 DEF TypeOK, ScanSettleRead, Phases, ScanPhases
  <2>14. ASSUME NEW s \in Scanners, ScanSettleWrite(s) PROVE TypeOK'
    <3>1. bets' \in [Bets -> BetRow]
      <4>1. CASE todo[s] = {}
        BY <2>14, <4>1 DEF TypeOK, ScanSettleWrite
      <4>2. CASE todo[s] # {}
        <5>1. \A b, l : ResultOf(b, l) \in Status
          BY ResultType DEF Status, SettleResults
        <5> DEFINE result(b) == ResultOf(b, found[s][bets[b].market])
        <5>2. bets' = [b \in Bets |->
                  IF b \in todo[s] THEN [bets[b] EXCEPT !.status = result(b)] ELSE bets[b]]
          BY <2>14, <4>2 DEF ScanSettleWrite
        <5>3. \A b \in Bets : result(b) \in Status
          BY <5>1
        <5> HIDE DEF result
        <5>4. QED
          BY <5>2, <5>3, StatusType DEF TypeOK
      <4>3. QED
        BY <4>1, <4>2
    <3> DEFINE closedRows == [m \in Markets |->
                  IF \E b \in todo[s] : bets[b].market = m THEN "closed" ELSE txRows[m]]
    <3>2. closedRows \in [Markets -> RowState]
      BY DEF TypeOK, RowState
    <3>3. CASE todo[s] = {}
      BY <2>14, <3>3 DEF TypeOK, ScanSettleWrite, Phases, ScanPhases
    <3>4. CASE todo[s] # {}
      <4>1. CommitRows(s, closedRows)
        BY <2>14, <3>4 DEF ScanSettleWrite
      <4>2. /\ rows' \in [Markets -> RowState] /\ txRows' \in [Markets -> RowState]
            /\ snaps' \subseteq Markets /\ txSnaps' \subseteq Markets
            /\ writer' \in Sessions \cup {None}
        BY <3>2, <4>1, CommitType
      <4>3. pc' \in [Sessions -> Phases]
        BY <2>14 DEF TypeOK, ScanSettleWrite, Phases, ScanPhases
      <4>4. QED
        BY <2>14, <3>1, <4>2, <4>3 DEF TypeOK, ScanSettleWrite
    <3>5. QED
      BY <3>3, <3>4
  <2>15. ASSUME NEW s \in Scanners, ScanFinish(s) PROVE TypeOK'
    <3>1. PICK got \in SUBSET Markets :
             CommitRows(s, [m \in Markets |-> IF m \in got THEN RowOf(venue[m]) ELSE txRows[m]])
      BY <2>15 DEF ScanFinish
    <3>2. [m \in Markets |-> IF m \in got THEN RowOf(venue[m]) ELSE txRows[m]]
             \in [Markets -> RowState]
      BY RowOfType DEF TypeOK
    <3>3. /\ rows' \in [Markets -> RowState] /\ txRows' \in [Markets -> RowState]
          /\ snaps' \subseteq Markets /\ txSnaps' \subseteq Markets
          /\ writer' \in Sessions \cup {None}
      BY <3>1, <3>2, CommitType
    <3>4. pc' \in [Sessions -> Phases]
      BY <2>15 DEF TypeOK, ScanFinish, Phases
    <3>5. QED
      BY <2>15, <3>3, <3>4, LeaveType DEF TypeOK, ScanFinish
  <2>16. ASSUME NEW s \in Scanners, ScanAbort(s) PROVE TypeOK'
    <3>1. faults' \in 0..MaxFaults
      BY <2>16, ConstantsOK DEF TypeOK, ScanAbort, Fault
    <3>2. pc' \in [Sessions -> Phases]
      BY <2>16 DEF TypeOK, ScanAbort, Phases
    <3>3. Rollback(s) /\ ForgetScan(s) /\ ReleaseScanLock(s)
      BY <2>16 DEF ScanAbort
    <3>4. QED
      BY <2>16, <3>1, <3>2, <3>3, RollbackType, LeaveType DEF TypeOK, ScanAbort
  <2>17. ASSUME NEW o \in Owners, OwnerAsksSettle(o) PROVE TypeOK'
    <3>1. todo' \in [Sessions -> SUBSET Bets]
      BY <2>17 DEF TypeOK, OwnerAsksSettle, Sessions
    <3>2. verdict' \in [Owners -> SUBSET OwnerResults]
      BY <2>17 DEF TypeOK, OwnerAsksSettle
    <3>3. pc' \in [Sessions -> Phases]
      BY <2>17 DEF TypeOK, OwnerAsksSettle, Phases
    <3>4. QED
      BY <2>17, <3>1, <3>2, <3>3 DEF TypeOK, OwnerAsksSettle
  <2>18. ASSUME NEW o \in Owners, OwnerSettles(o) PROVE TypeOK'
    <3>1. PICK r \in verdict[o] :
             bets' = [b \in Bets |->
                IF b \in todo[o] THEN [bets[b] EXCEPT !.status = r] ELSE bets[b]]
      BY <2>18 DEF OwnerSettles
    <3>2. bets' \in [Bets -> BetRow]
      <4>1. r \in Status
        BY ConstantsOK DEF TypeOK, Status
      <4>2. QED
        BY <3>1, <4>1, StatusType DEF TypeOK
    <3>3. /\ rows' \in [Markets -> RowState] /\ txRows' \in [Markets -> RowState]
          /\ snaps' \subseteq Markets /\ txSnaps' \subseteq Markets
          /\ writer' \in Sessions \cup {None}
      BY <2>18, CommitType DEF TypeOK, OwnerSettles, Commit
    <3>4. pc' \in [Sessions -> Phases]
      BY <2>18 DEF TypeOK, OwnerSettles, Phases
    <3>5. QED
      BY <2>18, <3>2, <3>3, <3>4 DEF TypeOK, OwnerSettles
  <2>19. ASSUME NEW o \in Owners, OwnerAsksLog(o) PROVE TypeOK'
    <3>1. PICK m \in Markets, t \in OwnerTokens : slip' = [slip EXCEPT ![o] = {<<m, t>>}]
      BY <2>19 DEF OwnerAsksLog
    <3>2. <<m, t>> \in Markets \X Outcomes
      BY ConstantsOK
    <3>3. slip' \in [Owners -> SUBSET (Markets \X Outcomes)]
      BY <3>1, <3>2 DEF TypeOK
    <3>4. pc' \in [Sessions -> Phases]
      BY <2>19 DEF TypeOK, OwnerAsksLog, Phases
    <3>5. QED
      BY <2>19, <3>3, <3>4 DEF TypeOK, OwnerAsksLog
  <2>20. ASSUME NEW o \in Owners, OwnerLogs(o) PROVE TypeOK'
    <3>1. PICK form \in slip[o] :
             bets' = [bets EXCEPT ![CHOOSE b \in FreeIds : TRUE] =
                [market |-> form[1], token |-> form[2], status |-> "open",
                 key |-> None, closing |-> FALSE]]
      BY <2>20 DEF OwnerLogs
    <3>2. form \in Markets \X Outcomes
      BY DEF TypeOK
    <3>3. [market |-> form[1], token |-> form[2], status |-> "open",
           key |-> None, closing |-> FALSE] \in BetRow
      BY <3>2 DEF BetRow, Status
    <3>4. bets' \in [Bets -> BetRow]
      BY <3>1, <3>3 DEF TypeOK
    <3>5. /\ rows' \in [Markets -> RowState] /\ txRows' \in [Markets -> RowState]
          /\ snaps' \subseteq Markets /\ txSnaps' \subseteq Markets
          /\ writer' \in Sessions \cup {None}
      BY <2>20, CommitType DEF TypeOK, OwnerLogs, Commit
    <3>6. pc' \in [Sessions -> Phases]
      BY <2>20 DEF TypeOK, OwnerLogs, Phases
    <3>7. slip' \in [Owners -> SUBSET (Markets \X Outcomes)]
      BY <2>20 DEF TypeOK, OwnerLogs
    <3>8. QED
      BY <2>20, <3>4, <3>5, <3>6, <3>7 DEF TypeOK, OwnerLogs
  <2>21. ASSUME NEW o \in Owners, OwnerFails(o) PROVE TypeOK'
    BY <2>21 DEF TypeOK, OwnerFails, Phases
  <2>22. ASSUME NEW i \in Importers, ImportRead(i) PROVE TypeOK'
    BY <2>22 DEF TypeOK, ImportRead, Importable, Phases
  <2>23. ASSUME NEW i \in Importers, ImportWrite(i) PROVE TypeOK'
    BY <2>23, InsertType, CommitType DEF TypeOK, ImportWrite, Commit, Phases, Sessions
  <2>24. ASSUME NEW i \in Importers, ImportFails(i) PROVE TypeOK'
    BY <2>24 DEF TypeOK, ImportFails, Phases
  <2>25. ASSUME NEW p \in Procs, Crash(p) PROVE TypeOK'
    <3>1. /\ kicked' \in [Scanners -> SUBSET Markets]
          /\ found' \in [Scanners -> [Markets -> Listing \cup {"unseen"}]]
      BY <2>25 DEF TypeOK, Crash, Unseen
    <3>2. /\ pc' \in [Sessions -> Phases]
          /\ todo' \in [Sessions -> SUBSET Bets]
          /\ pending' \in [Sessions -> SUBSET Fills]
      BY <2>25 DEF TypeOK, Crash, Phases
    <3>3. /\ verdict' \in [Owners -> SUBSET OwnerResults]
          /\ slip' \in [Owners -> SUBSET (Markets \X Outcomes)]
      BY <2>25 DEF TypeOK, Crash
    <3>4. /\ scanLock' \in [Procs -> Scanners \cup {None}]
          /\ faults' \in 0..MaxFaults
      BY <2>25, ConstantsOK DEF TypeOK, Crash, Fault
    <3>5. /\ txRows' \in [Markets -> RowState] /\ txSnaps' \subseteq Markets
          /\ writer' \in Sessions \cup {None}
      BY <2>25 DEF TypeOK, Crash
    <3>6. QED
      BY <2>25, <3>1, <3>2, <3>3, <3>4, <3>5 DEF TypeOK, Crash
  <2>26. CASE UNCHANGED vars
    BY <2>26 DEF TypeOK, vars
  <2>27. QED
    BY <2>1, <2>2, <2>3, <2>4, <2>5, <2>6, <2>7, <2>8, <2>9, <2>10, <2>11, <2>12, <2>13,
       <2>14, <2>15, <2>16, <2>17, <2>18, <2>19, <2>20, <2>21, <2>22, <2>23, <2>24, <2>25,
       <2>26
    DEF Next, World, ScanStep
<1>3. QED
  BY <1>1, <1>2, PTL DEF Spec
---------------------------------------------------------------------------
(* The locks.                                                              *)

\* A step that moves no session and no lock keeps the locks where they
\* belong.
LEMMA LocksUnmoved ==
  ASSUME LocksBelongToRunningScans, UNCHANGED <<scanLock, pc, writer>>
  PROVE  LocksBelongToRunningScans'
  BY DEF LocksBelongToRunningScans

\* Neither does a step of a running scan to its next phase, whether it ends a
\* transaction or takes the write lock.
LEMMA LocksScanStep ==
  ASSUME TypeOK, LocksBelongToRunningScans, NEW s \in Scanners, pc[s] # "idle",
         NEW phase \in ScanPhases \ {"begin"}, Goto(s, phase), UNCHANGED scanLock,
         writer' \in {None, s, writer}
  PROVE  LocksBelongToRunningScans'
  BY ConstantsOK DEF TypeOK, LocksBelongToRunningScans, Goto, ScanPhases, Sessions

\* Nor does a session that is no scan, nor commits while one holds the lock.
LEMMA LocksOtherStep ==
  ASSUME TypeOK, LocksBelongToRunningScans, NEW o \in Owners \cup Importers,
         NEW phase, Goto(o, phase), UNCHANGED scanLock,
         writer' = writer \/ (CanWrite(o) /\ writer' = None)
  PROVE  LocksBelongToRunningScans'
  BY SessionsDisjoint DEF TypeOK, LocksBelongToRunningScans, Goto, Sessions

\* A scan that ends gives both locks back.
LEMMA LocksLeave ==
  ASSUME TypeOK, LocksBelongToRunningScans, NEW s \in Scanners,
         Goto(s, "idle"), ReleaseScanLock(s),
         writer' = None \/ (writer # s /\ writer' = writer)
  PROVE  LocksBelongToRunningScans'
<1> USE DEF TypeOK, LocksBelongToRunningScans, Goto, ReleaseScanLock
<1>1. ASSUME NEW p \in Procs, NEW t \in Scanners
      PROVE  scanLock'[p] = t <=> ProcOf[t] = p /\ pc'[t] # "idle"
  <2>1. None \notin Scanners
    BY ConstantsOK DEF Sessions
  <2>2. CASE t = s
    BY <2>1, <2>2 DEF Sessions
  <2>3. CASE t # s
    BY <2>1, <2>3 DEF Sessions
  <2>4. QED
    BY <2>2, <2>3
<1>2. writer' # None => writer' \in Scanners /\ pc'[writer'] \in ScanPhases \ {"begin"}
  BY DEF Sessions
<1>3. QED
  BY <1>1, <1>2

\* SCAN_LOCK of every process and SQLite's write lock belong to sessions that
\* are still scanning: no return, timeout, exception or crash leaks a lock.
THEOREM LocksCorrect == Spec => []LocksBelongToRunningScans
<1>1. Init => LocksBelongToRunningScans
  BY ConstantsOK DEF Init, LocksBelongToRunningScans, Sessions
<1>2. TypeOK /\ LocksBelongToRunningScans /\ [Next]_vars => LocksBelongToRunningScans'
  <2> SUFFICES ASSUME TypeOK, LocksBelongToRunningScans, [Next]_vars
               PROVE  LocksBelongToRunningScans'
    OBVIOUS
  <2> USE DEF world, store, txn, local, forms
  <2>1. ASSUME World PROVE LocksBelongToRunningScans'
    BY <2>1, LocksUnmoved DEF World, Kickoff, Resolve, BuyOnVenue
  <2>2. ASSUME NEW s \in Scanners, ScanRequest(s) PROVE LocksBelongToRunningScans'
    <3>1. None \notin Scanners
      BY ConstantsOK DEF Sessions
    <3>2. ASSUME NEW p \in Procs, NEW t \in Scanners
          PROVE  scanLock'[p] = t <=> ProcOf[t] = p /\ pc'[t] # "idle"
      BY <2>2, <3>1, ConstantsOK
      DEF ScanRequest, Goto, TypeOK, LocksBelongToRunningScans, Sessions
    <3>3. writer' # None => writer' \in Scanners /\ pc'[writer'] \in ScanPhases \ {"begin"}
      BY <2>2 DEF ScanRequest, Goto, TypeOK, LocksBelongToRunningScans, Sessions, ScanPhases
    <3>4. QED
      BY <3>2, <3>3 DEF LocksBelongToRunningScans
  <2>3. ASSUME NEW s \in Scanners, ScanStep(s) PROVE LocksBelongToRunningScans'
    <3> USE DEF ScanPhases, Commit, CommitRows
    <3>1. CASE ScanBegin(s)
      BY <3>1, LocksScanStep DEF ScanBegin
    <3>2. CASE ScanLeagues(s)
      BY <3>2, LocksScanStep DEF ScanLeagues
    <3>3. CASE ScanImportRead(s)
      BY <3>3, LocksScanStep DEF ScanImportRead
    <3>4. CASE ScanImportWrite(s)
      BY <3>4, LocksScanStep DEF ScanImportWrite
    <3>5. CASE ScanFetch(s)
      BY <3>5, LocksScanStep DEF ScanFetch
    <3>6. CASE ScanCaptureRead(s)
      BY <3>6, LocksScanStep DEF ScanCaptureRead
    <3>7. CASE ScanCaptureWrite(s)
      BY <3>7, LocksScanStep DEF ScanCaptureWrite
    <3>8. CASE ScanSettleRead(s)
      BY <3>8, LocksScanStep DEF ScanSettleRead
    <3>9. CASE ScanSettleWrite(s)
      BY <3>9, LocksScanStep DEF ScanSettleWrite
    <3>10. CASE ScanFinish(s)
      BY <3>10, LocksLeave DEF ScanFinish
    <3>11. QED
      BY <2>3, <3>1, <3>2, <3>3, <3>4, <3>5, <3>6, <3>7, <3>8, <3>9, <3>10 DEF ScanStep
  <2>4. ASSUME NEW s \in Scanners, ScanLocked(s) PROVE LocksBelongToRunningScans'
    BY <2>4, LocksLeave DEF ScanLocked, CanWrite
  <2>5. ASSUME NEW s \in Scanners, ScanAbort(s) PROVE LocksBelongToRunningScans'
    BY <2>5, LocksLeave DEF ScanAbort, Rollback
  <2>6. ASSUME NEW o \in Owners, OwnerAsksSettle(o) \/ OwnerAsksLog(o) \/ OwnerFails(o)
        PROVE  LocksBelongToRunningScans'
    BY <2>6, LocksOtherStep DEF OwnerAsksSettle, OwnerAsksLog, OwnerFails
  <2>7. ASSUME NEW o \in Owners, OwnerSettles(o) \/ OwnerLogs(o)
        PROVE  LocksBelongToRunningScans'
    BY <2>7, LocksOtherStep DEF OwnerSettles, OwnerLogs, Commit, CommitRows
  <2>8. ASSUME NEW i \in Importers, ImportRead(i) \/ ImportWrite(i) \/ ImportFails(i)
        PROVE  LocksBelongToRunningScans'
    BY <2>8, LocksOtherStep DEF ImportRead, ImportWrite, ImportFails, Commit, CommitRows
  <2>9. ASSUME NEW p \in Procs, Crash(p) PROVE LocksBelongToRunningScans'
    <3>1. ASSUME NEW q \in Procs, NEW t \in Scanners
          PROVE  scanLock'[q] = t <=> ProcOf[t] = q /\ pc'[t] # "idle"
      BY <2>9, ConstantsOK DEF Crash, TypeOK, LocksBelongToRunningScans, Sessions
    <3>2. writer' # None => writer' \in Scanners /\ pc'[writer'] \in ScanPhases \ {"begin"}
      BY <2>9 DEF Crash, TypeOK, LocksBelongToRunningScans, Sessions
    <3>3. QED
      BY <3>1, <3>2 DEF LocksBelongToRunningScans
  <2>10. CASE UNCHANGED vars
    BY <2>10, LocksUnmoved DEF vars
  <2>11. QED
    BY <2>1, <2>2, <2>3, <2>4, <2>5, <2>6, <2>7, <2>8, <2>9, <2>10 DEF Next
<1>3. QED
  BY <1>1, <1>2, TypeCorrect, PTL DEF Spec

\* A step of one session to another phase takes the write lock from nobody.
LEMMA FetchStep ==
  ASSUME TypeOK, FetchesAlone, NEW s \in Sessions, NEW phase, Goto(s, phase),
         writer' = writer \/ CanWrite(s),
         phase \in {"leagues", "import", "importWrite"} => writer' = s
  PROVE  FetchesAlone'
<1> SUFFICES ASSUME NEW t \in Scanners, pc'[t] \in {"leagues", "import", "importWrite"}
             PROVE  writer' = t
  BY DEF FetchesAlone
<1>1. t \in Sessions /\ None \notin Sessions
  BY ConstantsOK DEF Sessions
<1>2. CASE t = s
  BY <1>1, <1>2 DEF Goto, TypeOK
<1>3. CASE t # s
  <2>1. writer = t
    BY <1>1, <1>3 DEF Goto, TypeOK, FetchesAlone
  <2>2. QED
    BY <1>1, <1>3, <2>1 DEF CanWrite
<1>4. QED
  BY <1>2, <1>3

\* From the flush of its Scan row to the commit of its import a scan alone can
\* write: what it lists, fetches and stores meanwhile is in no other session's way.
THEOREM ScansFetchAlone == Spec => []FetchesAlone
<1>1. Init => FetchesAlone
  BY DEF Init, FetchesAlone, Sessions
<1>2. TypeOK /\ FetchesAlone /\ [Next]_vars => FetchesAlone'
  <2> SUFFICES ASSUME TypeOK, FetchesAlone, [Next]_vars PROVE FetchesAlone'
    OBVIOUS
  <2> USE DEF world, store, txn, local, forms, Sessions
  <2>1. ASSUME World \/ UNCHANGED vars PROVE FetchesAlone'
    BY <2>1 DEF World, Kickoff, Resolve, BuyOnVenue, FetchesAlone, vars
  <2>2. ASSUME NEW s \in Scanners, ScanRequest(s) \/ ScanLocked(s) PROVE FetchesAlone'
    BY <2>2, FetchStep DEF ScanRequest, ScanLocked
  <2>3. ASSUME NEW s \in Scanners, ScanBegin(s) PROVE FetchesAlone'
    BY <2>3, FetchStep DEF ScanBegin
  <2>4. ASSUME NEW s \in Scanners, ScanLeagues(s) \/ ScanImportRead(s) PROVE FetchesAlone'
    <3>1. writer' = writer /\ writer = s
      BY <2>4 DEF ScanLeagues, ScanImportRead, FetchesAlone
    <3>2. QED
      BY <2>4, <3>1, FetchStep DEF ScanLeagues, ScanImportRead
  <2>5. ASSUME NEW s \in Scanners, \/ ScanImportWrite(s) \/ ScanFetch(s) \/ ScanFinish(s)
                                   \/ ScanCaptureRead(s) \/ ScanCaptureWrite(s)
                                   \/ ScanSettleRead(s) \/ ScanSettleWrite(s)
        PROVE  FetchesAlone'
    <3>1. PICK phase \in {"fetch", "capture", "captureWrite", "settle", "settleWrite", "finish",
                          "idle"} : Goto(s, phase)
      BY <2>5 DEF ScanImportWrite, ScanFetch, ScanFinish, ScanCaptureRead, ScanCaptureWrite,
                  ScanSettleRead, ScanSettleWrite
    <3>2. writer' = writer \/ CanWrite(s)
      BY <2>5 DEF ScanImportWrite, ScanFetch, ScanFinish, ScanCaptureRead, ScanCaptureWrite,
                  ScanSettleRead, ScanSettleWrite, Commit, CommitRows
    <3>3. QED
      BY <3>1, <3>2, FetchStep
  <2>6. ASSUME NEW s \in Scanners, ScanAbort(s) PROVE FetchesAlone'
    <3>1. writer' = writer \/ CanWrite(s)
      BY <2>6 DEF ScanAbort, Rollback, CanWrite
    <3>2. QED
      BY <2>6, <3>1, FetchStep DEF ScanAbort
  <2>7. ASSUME NEW o \in Owners, \/ OwnerAsksSettle(o) \/ OwnerSettles(o) \/ OwnerAsksLog(o)
                                 \/ OwnerLogs(o) \/ OwnerFails(o)
        PROVE  FetchesAlone'
    <3>1. PICK phase \in {"settling", "logging", "idle"} : Goto(o, phase)
      BY <2>7 DEF OwnerAsksSettle, OwnerSettles, OwnerAsksLog, OwnerLogs, OwnerFails
    <3>2. writer' = writer \/ CanWrite(o)
      BY <2>7 DEF OwnerAsksSettle, OwnerSettles, OwnerAsksLog, OwnerLogs, OwnerFails,
                  Commit, CommitRows
    <3>3. QED
      BY <3>1, <3>2, FetchStep
  <2>8. ASSUME NEW i \in Importers, ImportRead(i) \/ ImportWrite(i) \/ ImportFails(i)
        PROVE  FetchesAlone'
    <3>1. PICK phase \in {"importing", "idle"} : Goto(i, phase)
      BY <2>8 DEF ImportRead, ImportWrite, ImportFails
    <3>2. writer' = writer \/ CanWrite(i)
      BY <2>8 DEF ImportRead, ImportWrite, ImportFails, Commit, CommitRows
    <3>3. QED
      BY <3>1, <3>2, FetchStep
  <2>9. ASSUME NEW p \in Procs, Crash(p) PROVE FetchesAlone'
    BY <2>9 DEF Crash, FetchesAlone, TypeOK
  <2>10. QED
    BY <2>1, <2>2, <2>3, <2>4, <2>5, <2>6, <2>7, <2>8, <2>9 DEF Next, ScanStep
<1>3. QED
  BY <1>1, <1>2, TypeCorrect, PTL DEF Spec

\* Both together, which is what the rest of the ledger has its locks for.
THEOREM ScansAreKeptApart == Spec => []ScansKeepApart
BY LocksCorrect, ScansFetchAlone, PTL DEF ScansKeepApart

\* One process never runs two scans at once, which module Forward takes for granted.
THEOREM ProcessesScanOnce ==
  Spec => [](\A s, t \in Scanners :
                (ProcOf[s] = ProcOf[t] /\ pc[s] # "idle" /\ pc[t] # "idle") => s = t)
<1>1. LocksBelongToRunningScans =>
        \A s, t \in Scanners :
           (ProcOf[s] = ProcOf[t] /\ pc[s] # "idle" /\ pc[t] # "idle") => s = t
  BY ConstantsOK DEF LocksBelongToRunningScans, Sessions
<1>2. QED
  BY <1>1, LocksCorrect, PTL

---------------------------------------------------------------------------
(* Wallet imports.  Scans alone never import a buy twice, in one process   *)
(* or in several, because the Scan row they flush first keeps every other  *)
(* scan out until the import has committed.  The inductive invariant says  *)
(* so: between the flush and the import a scan holds the write lock, and   *)
(* what it is about to insert is still unknown to the ledger; an unused id *)
(* carries no key.                                                         *)

ImportInv ==
    /\ ImportedOnce
    /\ \A b \in Bets : ~Present(b) => bets[b].key = None
    /\ \A s \in Scanners :
        /\ pc[s] \in {"leagues", "import", "importWrite"} => writer = s
        /\ pc[s] = "importWrite" => pending[s] \cap KnownKeys = {}

\* Fills inserted into the table: a row of theirs is new and carries its own
\* key, every other row is what it was.
LEMMA InsertRows ==
  ASSUME NEW fs \in SUBSET Fills, InsertFills(fs)
  PROVE  \E id \in [fs -> FreeIds] :
           /\ \A f, g \in fs : id[f] = id[g] => f = g
           /\ \A f \in fs : /\ bets'[id[f]].key = f
                            /\ bets'[id[f]].status = "open"
                            /\ bets'[id[f]].closing = FALSE
           /\ \A b \in Bets : (\A f \in fs : id[f] # b) => bets'[b] = bets[b]
<1> DEFINE ids == Injection(fs, FreeIds)
           id == CHOOSE g \in ids : TRUE
           rowOf(f) == [market |-> FillMarket[f], token |-> FillToken[f],
                        status |-> "open", key |-> f, closing |-> FALSE]
           chosen(b) == CHOOSE f \in fs : id[f] = b
<1>1. /\ ids # {}
      /\ bets' = [b \in Bets |-> IF \E f \in fs : id[f] = b THEN rowOf(chosen(b)) ELSE bets[b]]
  BY DEF InsertFills
<1>2. id \in ids
  BY <1>1
<1>3. id \in [fs -> FreeIds] /\ \A f, g \in fs : id[f] = id[g] => f = g
  BY <1>2 DEF Injection, IsInjective
<1>4. \A f \in fs : rowOf(f).key = f /\ rowOf(f).status = "open" /\ rowOf(f).closing = FALSE
  OBVIOUS
<1> HIDE DEF id, rowOf
<1>5. ASSUME NEW f \in fs PROVE chosen(id[f]) = f
  BY <1>3
<1>6. FreeIds \subseteq Bets
  BY DEF FreeIds
<1> HIDE DEF chosen
<1>7. ASSUME NEW f \in fs PROVE bets'[id[f]] = rowOf(f)
  BY <1>1, <1>3, <1>5, <1>6
<1>8. QED
  BY <1>1, <1>3, <1>4, <1>7

\* No row gets an import key it did not have, and none is taken back.
KeysKept ==
    \A b \in Bets :
        /\ bets'[b].key # None => (Present(b) /\ bets'[b].key = bets[b].key)
        /\ Present(b) => Present(b)'

\* What a step may do to scan t: nothing, with the lock still its own; take
\* it out of the import; or leave it the lock and only new fills.
ImportSafe(t) ==
    \/ pc'[t] = pc[t] /\ pending'[t] = pending[t] /\ (writer = t => writer' = t)
    \/ pc'[t] \notin {"leagues", "import", "importWrite"}
    \/ writer' = t /\ pc'[t] # "importWrite"
    \/ writer' = t /\ pending'[t] \cap KnownKeys = {}

LEMMA ImportFrame ==
  ASSUME ImportInv, KeysKept, \A t \in Scanners : ImportSafe(t)
  PROVE  ImportInv'
<1>1. KnownKeys' \subseteq KnownKeys
  BY DEF KnownKeys, KeysKept, Present
<1>2. /\ ImportedOnce'
      /\ \A b \in Bets : ~Present(b)' => bets'[b].key = None
  BY DEF ImportInv, ImportedOnce, KeysKept, Present
<1>3. ASSUME NEW t \in Scanners
      PROVE  /\ pc'[t] \in {"leagues", "import", "importWrite"} => writer' = t
             /\ pc'[t] = "importWrite" => pending'[t] \cap KnownKeys' = {}
  <2>1. ImportSafe(t)
    OBVIOUS
  <2>2. QED
    BY <1>1, <2>1 DEF ImportInv, ImportSafe
<1>4. QED
  BY <1>2, <1>3 DEF ImportInv

LEMMA KeysUnchanged ==
  ASSUME ImportInv, UNCHANGED bets
  PROVE  KeysKept
  BY DEF ImportInv, KeysKept, Present

\* A scan that inserts holds the lock, and its fills are new to the ledger.
LEMMA ImportWriteSafe ==
  ASSUME TypeOK, ImportInv, NEW s \in Scanners, ScanImportWrite(s), pending[s] # {}
  PROVE  ImportInv'
<1> DEFINE fs == pending[s]
<1>1. /\ writer = s
      /\ fs \cap KnownKeys = {}
      /\ fs \in SUBSET Fills
      /\ InsertFills(fs)
  BY DEF ImportInv, ScanImportWrite, TypeOK, Sessions
<1>2. PICK id \in [fs -> FreeIds] :
        /\ \A f, g \in fs : id[f] = id[g] => f = g
        /\ \A f \in fs : /\ bets'[id[f]].key = f
                         /\ bets'[id[f]].status = "open"
                         /\ bets'[id[f]].closing = FALSE
        /\ \A b \in Bets : (\A f \in fs : id[f] # b) => bets'[b] = bets[b]
  BY <1>1, InsertRows
<1> HIDE DEF fs
<1>3. ImportedOnce'
  <2> SUFFICES ASSUME NEW b \in Bets, NEW c \in Bets, Present(b)', Present(c)',
                      bets'[b].key # None, bets'[b].key = bets'[c].key
               PROVE  b = c
    BY DEF ImportedOnce
  <2>1. CASE \E f \in fs : id[f] = b
    <3>1. PICK f \in fs : id[f] = b
      BY <2>1
    <3>2. CASE \E g \in fs : id[g] = c
      BY <1>2, <3>1, <3>2
    <3>3. CASE \A g \in fs : id[g] # c
      <4>1. bets[c].key = f /\ Present(c)
        BY <1>2, <3>1, <3>3 DEF Present
      <4>2. f \in KnownKeys
        BY <1>1, <4>1, ConstantsOK DEF KnownKeys
      <4>3. QED
        BY <1>1, <4>2
    <3>4. QED
      BY <3>2, <3>3
  <2>2. CASE \A f \in fs : id[f] # b
    <3>1. Present(b) /\ bets[b].key = bets'[b].key
      BY <1>2, <2>2 DEF Present
    <3>2. CASE \E g \in fs : id[g] = c
      <4>1. PICK g \in fs : id[g] = c
        BY <3>2
      <4>2. g \in KnownKeys
        BY <1>1, <1>2, <3>1, <4>1, ConstantsOK DEF KnownKeys
      <4>3. QED
        BY <1>1, <4>2
    <3>3. CASE \A g \in fs : id[g] # c
      BY <1>2, <3>1, <3>3 DEF Present, ImportInv, ImportedOnce
    <3>4. QED
      BY <3>2, <3>3
  <2>3. QED
    BY <2>1, <2>2
<1>4. ASSUME NEW t \in Scanners
      PROVE  pc'[t] \notin {"leagues", "import", "importWrite"}
  <2>1. pc[t] \in {"leagues", "import", "importWrite"} => t = s
    BY <1>1 DEF ImportInv
  <2>2. QED
    BY <2>1 DEF ScanImportWrite, Goto, TypeOK, Sessions
<1>5. \A b \in Bets : ~Present(b)' => bets'[b].key = None
  BY <1>2 DEF Present, ImportInv
<1>6. QED
  BY <1>3, <1>4, <1>5 DEF ImportInv

\* The invariant of the imports, when scans alone import.
LEMMA ImportInvariant == Importers = {} => (Spec => []ImportInv)
<1> SUFFICES ASSUME Importers = {} PROVE Spec => []ImportInv
  OBVIOUS
<1>1. Init => ImportInv
  BY ConstantsOK DEF Init, ImportInv, ImportedOnce, Present, NoBet, Sessions
<1>2. TypeOK /\ ImportInv /\ [Next]_vars => ImportInv'
  <2> SUFFICES ASSUME TypeOK, ImportInv, [Next]_vars PROVE ImportInv'
    OBVIOUS
  <2> USE DEF world, store, txn, local, forms
  <2>0. None \notin Scanners
    BY ConstantsOK DEF Sessions
  <2>1. ASSUME World PROVE ImportInv'
    BY <2>1, ImportFrame, KeysUnchanged
    DEF World, Kickoff, Resolve, BuyOnVenue, ImportSafe
  <2>2. ASSUME NEW s \in Scanners, ScanRequest(s) PROVE ImportInv'
    BY <2>2, ImportFrame, KeysUnchanged DEF ScanRequest, Goto, TypeOK, Sessions, ImportSafe
  <2>3. ASSUME NEW s \in Scanners, ScanStep(s) PROVE ImportInv'
    <3> USE DEF Goto, TypeOK, Sessions, ImportSafe
    <3>1. CASE ScanBegin(s)
      BY <2>0, <3>1, ImportFrame, KeysUnchanged DEF ScanBegin, CanWrite
    <3>2. CASE ScanLeagues(s)
      BY <3>2, ImportFrame, KeysUnchanged DEF ScanLeagues, ImportInv
    <3>3. CASE ScanImportRead(s)
      <4>1. pending'[s] \cap KnownKeys = {}
        BY <3>3 DEF ScanImportRead, Importable
      <4>2. writer' = s
        BY <3>3 DEF ScanImportRead, ImportInv
      <4>3. \A t \in Scanners : ImportSafe(t)
        BY <3>3, <4>1, <4>2 DEF ScanImportRead
      <4>4. QED
        BY <3>3, <4>3, ImportFrame, KeysUnchanged DEF ScanImportRead
    <3>4. CASE ScanImportWrite(s)
      <4>1. CASE pending[s] = {}
        BY <3>4, <4>1, ImportFrame, KeysUnchanged DEF ScanImportWrite
      <4>2. CASE pending[s] # {}
        BY <3>4, <4>2, ImportWriteSafe
      <4>3. QED
        BY <4>1, <4>2
    <3>5. CASE ScanFetch(s)
      BY <2>0, <3>5, ImportFrame, KeysUnchanged DEF ScanFetch, CanWrite
    <3>6. CASE ScanCaptureRead(s)
      BY <3>6, ImportFrame, KeysUnchanged DEF ScanCaptureRead
    <3>7. CASE ScanCaptureWrite(s)
      <4>1. KeysKept
        BY <3>7 DEF ScanCaptureWrite, ImportInv, KeysKept, Present, BetRow
      <4>2. \A t \in Scanners : ImportSafe(t)
        BY <2>0, <3>7 DEF ScanCaptureWrite, Commit, CommitRows, CanWrite
      <4>3. QED
        BY <4>1, <4>2, ImportFrame
    <3>8. CASE ScanSettleRead(s)
      BY <3>8, ImportFrame, KeysUnchanged DEF ScanSettleRead
    <3>9. CASE ScanSettleWrite(s)
      <4>1. KeysKept
        <5> DEFINE result(b) == ResultOf(b, found[s][bets[b].market])
        <5>1. CASE todo[s] = {}
          BY <3>9, <5>1, KeysUnchanged DEF ScanSettleWrite
        <5>2. CASE todo[s] # {}
          <6>1. bets' = [b \in Bets |->
                    IF b \in todo[s] THEN [bets[b] EXCEPT !.status = result(b)] ELSE bets[b]]
            BY <3>9, <5>2 DEF ScanSettleWrite
          <6>2. \A b \in Bets : result(b) # "absent"
            BY ResultType
          <6> HIDE DEF result
          <6>3. QED
            BY <6>1, <6>2 DEF ImportInv, KeysKept, Present, BetRow
        <5>3. QED
          BY <5>1, <5>2
      <4>2. \A t \in Scanners : ImportSafe(t)
        BY <2>0, <3>9 DEF ScanSettleWrite, CommitRows, CanWrite
      <4>3. QED
        BY <4>1, <4>2, ImportFrame
    <3>10. CASE ScanFinish(s)
      BY <2>0, <3>10, ImportFrame, KeysUnchanged
      DEF ScanFinish, ForgetScan, Commit, CommitRows, CanWrite
    <3>11. QED
      BY <2>3, <3>1, <3>2, <3>3, <3>4, <3>5, <3>6, <3>7, <3>8, <3>9, <3>10 DEF ScanStep
  <2>4. ASSUME NEW s \in Scanners, ScanLocked(s) \/ ScanAbort(s) PROVE ImportInv'
    BY <2>0, <2>4, ImportFrame, KeysUnchanged
    DEF ScanLocked, ScanAbort, Rollback, ForgetScan, Goto, TypeOK, Sessions, ImportSafe
  <2>5. ASSUME NEW o \in Owners, OwnerAsksSettle(o) \/ OwnerAsksLog(o) \/ OwnerFails(o)
        PROVE  ImportInv'
    BY <2>5, ImportFrame, KeysUnchanged, SessionsDisjoint
    DEF OwnerAsksSettle, OwnerAsksLog, OwnerFails, Goto, TypeOK, Sessions, ImportSafe
  <2>6. ASSUME NEW o \in Owners, OwnerSettles(o) PROVE ImportInv'
    <3>1. PICK r \in verdict[o] :
             bets' = [b \in Bets |->
                IF b \in todo[o] THEN [bets[b] EXCEPT !.status = r] ELSE bets[b]]
      BY <2>6 DEF OwnerSettles
    <3>2. r # "absent"
      BY ConstantsOK DEF TypeOK, SettleResults
    <3>3. KeysKept
      BY <3>1, <3>2 DEF ImportInv, KeysKept, Present, TypeOK, BetRow
    <3>4. \A t \in Scanners : ImportSafe(t)
      BY <2>0, <2>6, SessionsDisjoint
      DEF OwnerSettles, Commit, CommitRows, CanWrite, Goto, TypeOK, Sessions, ImportSafe
    <3>5. QED
      BY <3>3, <3>4, ImportFrame
  <2>7. ASSUME NEW o \in Owners, OwnerLogs(o) PROVE ImportInv'
    <3>1. PICK form \in slip[o] :
             bets' = [bets EXCEPT ![CHOOSE b \in FreeIds : TRUE] =
                [market |-> form[1], token |-> form[2], status |-> "open",
                 key |-> None, closing |-> FALSE]]
      BY <2>7 DEF OwnerLogs
    <3>2. KeysKept
      BY <3>1 DEF ImportInv, KeysKept, Present, TypeOK
    <3>3. \A t \in Scanners : ImportSafe(t)
      BY <2>0, <2>7, SessionsDisjoint
      DEF OwnerLogs, Commit, CommitRows, CanWrite, Goto, TypeOK, Sessions, ImportSafe
    <3>4. QED
      BY <3>2, <3>3, ImportFrame
  <2>8. ASSUME NEW p \in Procs, Crash(p) PROVE ImportInv'
    BY <2>8, ImportFrame, KeysUnchanged DEF Crash, TypeOK, Sessions, ImportSafe
  <2>9. CASE UNCHANGED vars
    BY <2>9, ImportFrame, KeysUnchanged DEF vars, ImportSafe
  <2>10. QED
    BY <2>1, <2>2, <2>3, <2>4, <2>5, <2>6, <2>7, <2>8, <2>9 DEF Next
<1>3. QED
  BY <1>1, <1>2, TypeCorrect, PTL DEF Spec

\* Importing from scans alone never records a wallet buy twice, however many
\* scans run in however many processes, with crashes and rolled-back scans.
THEOREM ScansImportOnce == Importers = {} => (Spec => []ImportedOnce)
<1> SUFFICES ASSUME Importers = {} PROVE Spec => []ImportedOnce
  OBVIOUS
<1>1. ImportInv => ImportedOnce
  BY DEF ImportInv
<1>2. QED
  BY <1>1, ImportInvariant, PTL

---------------------------------------------------------------------------
(* Settlement.  With no win, loss or push entered by hand (the owner may   *)
(* void), a settled bet has the venue's own result.  The inductive         *)
(* invariant adds that what a scan found resolved is final, that the bets  *)
(* it is about to settle are on such markets, and that the lock's holder   *)
(* sees their markets closed too.                                          *)

Decided == {"won", "lost", "push"}

ResolvedRight(b) ==
    LET m == bets[b].market
    IN /\ venue[m] \in Resolved
       /\ bets[b].status = ResultOf(b, venue[m])
       /\ rows[m] = "closed" /\ txRows[m] = "closed"

SettleInv ==
    /\ \A b \in Bets : bets[b].status \in Decided => ResolvedRight(b)
    /\ \A s \in Scanners :
        /\ \A m \in Markets : found[s][m] \in Resolved => found[s][m] = venue[m]
        /\ pc[s] = "settleWrite" =>
              \A b \in todo[s] : Present(b) /\ found[s][bets[b].market] \in Resolved

\* A market's result is final, and a closed row of a resolved market stays so.
ResultsFinal ==
    \A m \in Markets : venue[m] \in Resolved =>
        /\ venue'[m] = venue[m]
        /\ rows[m] = "closed" /\ txRows[m] = "closed"
              => rows'[m] = "closed" /\ txRows'[m] = "closed"

\* Recorded bets stay, on their market and outcome, and none gets a result.
BetsKept ==
    \A b \in Bets :
        /\ Present(b) => /\ Present(b)'
                         /\ bets'[b].market = bets[b].market
                         /\ bets'[b].token = bets[b].token
        /\ bets'[b].status \in Decided => bets'[b].status = bets[b].status

\* What a scan finds is what the venue answers, and it settles what it found.
SettleSafe(t) ==
    /\ \A m \in Markets : found'[t][m] \in Resolved => found'[t][m] = venue[m]
    /\ pc'[t] = "settleWrite" =>
        \A b \in todo'[t] : Present(b) /\ found'[t][bets[b].market] \in Resolved

LEMMA SettleFrame ==
  ASSUME TypeOK, TypeOK', SettleInv, ResultsFinal, BetsKept, \A t \in Scanners : SettleSafe(t)
  PROVE  SettleInv'
<1>1. ASSUME NEW b \in Bets, bets'[b].status \in Decided PROVE ResolvedRight(b)'
  <2>1. /\ bets[b].status = bets'[b].status
        /\ bets[b].market = bets'[b].market /\ bets[b].token = bets'[b].token
    BY <1>1 DEF BetsKept, Present, Decided
  <2>2. ResolvedRight(b) /\ bets[b].market \in Markets
    BY <1>1, <2>1 DEF SettleInv, TypeOK, BetRow
  <2>3. ResultOf(b, venue[bets[b].market])' = ResultOf(b, venue[bets[b].market])
    BY <2>1, <2>2 DEF ResultOf, ResultsFinal, ResolvedRight
  <2>4. QED
    BY <2>1, <2>2, <2>3 DEF ResolvedRight, ResultsFinal
<1>2. ASSUME NEW t \in Scanners
      PROVE  /\ \A m \in Markets : found'[t][m] \in Resolved => found'[t][m] = venue'[m]
             /\ pc'[t] = "settleWrite" =>
                \A b \in todo'[t] : Present(b)' /\ found'[t][bets'[b].market] \in Resolved
  <2>1. SettleSafe(t)
    OBVIOUS
  <2>2. \A m \in Markets : found'[t][m] \in Resolved => found'[t][m] = venue'[m]
    BY <2>1 DEF SettleSafe, ResultsFinal
  <2>3. ASSUME pc'[t] = "settleWrite", NEW b \in todo'[t]
        PROVE  Present(b)' /\ found'[t][bets'[b].market] \in Resolved
    <3>1. b \in Bets
      BY DEF TypeOK, Sessions
    <3>2. QED
      BY <2>1, <2>3, <3>1 DEF SettleSafe, BetsKept
  <2>4. QED
    BY <2>2, <2>3
<1>3. QED
  BY <1>1, <1>2 DEF SettleInv

\* A scan that rests keeps its findings.
LEMMA SettleRests ==
  ASSUME SettleInv, NEW t \in Scanners, found'[t] = found[t],
         pc'[t] # "settleWrite" \/ (pc'[t] = pc[t] /\ todo'[t] = todo[t])
  PROVE  SettleSafe(t)
  BY DEF SettleInv, SettleSafe

LEMMA BetsUnchanged ==
  ASSUME UNCHANGED bets
  PROVE  BetsKept
  BY DEF BetsKept, Present

\* New rows take unused ids and are open.
LEMMA InsertKeeps ==
  ASSUME NEW fs \in SUBSET Fills, InsertFills(fs)
  PROVE  BetsKept
<1>1. PICK id \in [fs -> FreeIds] :
        /\ \A f, g \in fs : id[f] = id[g] => f = g
        /\ \A f \in fs : /\ bets'[id[f]].key = f
                         /\ bets'[id[f]].status = "open"
                         /\ bets'[id[f]].closing = FALSE
        /\ \A b \in Bets : (\A f \in fs : id[f] # b) => bets'[b] = bets[b]
  BY InsertRows
<1>2. ASSUME NEW b \in Bets
      PROVE  /\ Present(b) => /\ Present(b)'
                              /\ bets'[b].market = bets[b].market
                              /\ bets'[b].token = bets[b].token
             /\ bets'[b].status \in Decided => bets'[b].status = bets[b].status
  <2>1. CASE \E f \in fs : id[f] = b
    BY <1>1, <2>1 DEF FreeIds, Decided
  <2>2. CASE \A f \in fs : id[f] # b
    BY <1>1, <2>2 DEF Present
  <2>3. QED
    BY <2>1, <2>2
<1>3. QED
  BY <1>2 DEF BetsKept

\* COMMIT and ROLLBACK keep the closed rows of resolved markets closed.
LEMMA CommitFinal ==
  ASSUME UNCHANGED venue, NEW s, Commit(s)
  PROVE  ResultsFinal
  BY DEF TypeOK, ResultsFinal, Commit, CommitRows

\* So does the last COMMIT, which upserts more of the venue's answers.
LEMMA FinishFinal ==
  ASSUME NEW s \in Scanners, ScanFinish(s)
  PROVE  ResultsFinal
<1>1. PICK got \in SUBSET Markets :
        CommitRows(s, [m \in Markets |-> IF m \in got THEN RowOf(venue[m]) ELSE txRows[m]])
  BY DEF ScanFinish
<1>2. /\ UNCHANGED venue
      /\ rows' = [m \in Markets |-> IF m \in got THEN RowOf(venue[m]) ELSE txRows[m]]
      /\ txRows' = rows'
  BY <1>1 DEF ScanFinish, CommitRows, world
<1>3. QED
  BY <1>2 DEF ResultsFinal, RowOf, Resolved, Outcomes

LEMMA StoreFinal ==
  ASSUME UNCHANGED <<venue, rows>>, txRows' = txRows \/ txRows' = rows
  PROVE  ResultsFinal
  BY DEF ResultsFinal

\* So does an upsert of the venue's answers.
LEMMA UpsertFinal ==
  ASSUME UNCHANGED <<venue, rows>>, NEW got \in SUBSET Markets,
         txRows' = [m \in Markets |-> IF m \in got THEN RowOf(venue[m]) ELSE txRows[m]]
  PROVE  ResultsFinal
  BY DEF ResultsFinal, RowOf, Resolved, Outcomes

\* The settling step gives every bet on its list the venue's result, and
\* closes their markets' rows.
LEMMA SettleWriteSafe ==
  ASSUME TypeOK, TypeOK', SettleInv, NEW s \in Scanners, ScanSettleWrite(s), todo[s] # {}
  PROVE  SettleInv'
<1> DEFINE result(b) == ResultOf(b, found[s][bets[b].market])
           closedRows == [m \in Markets |->
                IF \E b \in todo[s] : bets[b].market = m THEN "closed" ELSE txRows[m]]
<1> USE DEF world
<1>1. /\ bets' = [b \in Bets |->
              IF b \in todo[s] THEN [bets[b] EXCEPT !.status = result(b)] ELSE bets[b]]
      /\ rows' = closedRows /\ txRows' = closedRows
      /\ pc[s] = "settleWrite"
      /\ todo[s] \subseteq Bets
      /\ UNCHANGED <<venue, found>>
  BY DEF ScanSettleWrite, CommitRows, TypeOK, Sessions
<1>2. \A b \in todo[s] : /\ Present(b)
                         /\ venue[bets[b].market] \in Resolved
                         /\ result(b) = ResultOf(b, venue[bets[b].market])
  BY <1>1 DEF SettleInv, TypeOK, BetRow
<1>3. \A b \in Bets : bets[b].market \in Markets
  BY DEF TypeOK, BetRow
<1>4. \A b \in todo[s] : result(b) \in Decided
  BY ResultType DEF Decided
<1> HIDE DEF result
<1>5. \A b \in Bets : bets'[b].market = bets[b].market /\ bets'[b].token = bets[b].token
  BY <1>1 DEF TypeOK, BetRow
<1>6. ASSUME NEW b \in Bets, bets'[b].status \in Decided PROVE ResolvedRight(b)'
  <2>1. ResultOf(b, venue[bets[b].market])' = ResultOf(b, venue[bets[b].market])
    BY <1>1, <1>5 DEF ResultOf
  <2>2. CASE b \in todo[s]
    <3>1. bets'[b].status = ResultOf(b, venue[bets[b].market])
      BY <1>1, <1>2, <2>2 DEF TypeOK, BetRow
    <3>2. rows'[bets[b].market] = "closed" /\ txRows'[bets[b].market] = "closed"
      BY <1>1, <1>3, <2>2
    <3>3. QED
      BY <1>1, <1>2, <1>5, <2>1, <2>2, <3>1, <3>2 DEF ResolvedRight
  <2>3. CASE b \notin todo[s]
    <3>1. ResolvedRight(b) /\ bets'[b] = bets[b]
      BY <1>1, <1>6, <2>3 DEF SettleInv
    <3>2. QED
      BY <1>1, <1>3, <2>1, <3>1 DEF ResolvedRight
  <2>4. QED
    BY <2>2, <2>3
<1>7. ASSUME NEW t \in Scanners
      PROVE  /\ \A m \in Markets : found'[t][m] \in Resolved => found'[t][m] = venue'[m]
             /\ pc'[t] = "settleWrite" =>
                \A b \in todo'[t] : Present(b)' /\ found'[t][bets'[b].market] \in Resolved
  <2>1. \A m \in Markets : found'[t][m] \in Resolved => found'[t][m] = venue'[m]
    BY <1>1 DEF SettleInv
  <2>2. ASSUME pc'[t] = "settleWrite", NEW b \in todo'[t]
        PROVE  Present(b)' /\ found'[t][bets'[b].market] \in Resolved
    <3>1. t # s /\ b \in Bets /\ b \in todo[t] /\ pc[t] = "settleWrite"
      BY <2>2 DEF ScanSettleWrite, Goto, TypeOK, Sessions
    <3>2. Present(b) /\ found[t][bets[b].market] \in Resolved
      BY <3>1 DEF SettleInv
    <3>3. bets'[b].status # "absent"
      <4>1. CASE b \in todo[s]
        <5>1. bets'[b].status = result(b)
          BY <1>1, <3>1, <4>1 DEF TypeOK, BetRow
        <5>2. QED
          BY <1>4, <4>1, <5>1 DEF Decided
      <4>2. CASE b \notin todo[s]
        BY <1>1, <3>1, <3>2, <4>2 DEF Present
      <4>3. QED
        BY <4>1, <4>2
    <3>4. QED
      BY <1>1, <1>5, <3>1, <3>2, <3>3 DEF Present
  <2>3. QED
    BY <2>1, <2>2
<1>8. QED
  BY <1>6, <1>7 DEF SettleInv

\* The invariant of the settlement, when scans settle and the owner at most voids.
LEMMA SettleInvariant == OwnerResults \subseteq {"void"} => (Spec => []SettleInv)
<1> SUFFICES ASSUME OwnerResults \subseteq {"void"} PROVE Spec => []SettleInv
  OBVIOUS
<1>1. Init => SettleInv
  BY DEF Init, SettleInv, Decided, NoBet, Unseen, Resolved, Outcomes, Sessions
<1>2. TypeOK /\ TypeOK' /\ SettleInv /\ [Next]_vars => SettleInv'
  <2> SUFFICES ASSUME TypeOK, TypeOK', SettleInv, [Next]_vars PROVE SettleInv'
    OBVIOUS
  <2> USE DEF world, store, txn, local, forms, Goto
  <2>1. ASSUME World PROVE SettleInv'
    <3>1. ResultsFinal
      BY <2>1 DEF World, Kickoff, Resolve, BuyOnVenue, ResultsFinal, TypeOK, Resolved, Outcomes
    <3>2. \A t \in Scanners : SettleSafe(t)
      BY <2>1, SettleRests DEF World, Kickoff, Resolve, BuyOnVenue
    <3>3. QED
      BY <2>1, <3>1, <3>2, SettleFrame, BetsUnchanged DEF World, Kickoff, Resolve, BuyOnVenue
  <2>2. ASSUME NEW s \in Scanners, ScanRequest(s) PROVE SettleInv'
    <3>1. \A t \in Scanners : SettleSafe(t)
      BY <2>2, SettleRests DEF ScanRequest, TypeOK, Sessions
    <3>2. QED
      BY <2>2, <3>1, SettleFrame, BetsUnchanged, StoreFinal DEF ScanRequest
  <2>3. ASSUME NEW s \in Scanners, ScanBegin(s) PROVE SettleInv'
    <3>1. \A t \in Scanners : SettleSafe(t)
      BY <2>3, SettleRests DEF ScanBegin, TypeOK, Sessions
    <3>2. QED
      BY <2>3, <3>1, SettleFrame, BetsUnchanged, StoreFinal DEF ScanBegin
  <2>4. ASSUME NEW s \in Scanners, ScanLeagues(s) PROVE SettleInv'
    <3>1. PICK seen \in SUBSET Markets :
             /\ found' = [found EXCEPT ![s] =
                    [m \in Markets |-> IF m \in seen THEN venue[m] ELSE "unseen"]]
             /\ txRows' = [m \in Markets |-> IF m \in seen THEN RowOf(venue[m]) ELSE txRows[m]]
      BY <2>4 DEF ScanLeagues
    <3>2. ASSUME NEW t \in Scanners PROVE SettleSafe(t)
      <4>1. CASE t = s
        BY <2>4, <3>1, <4>1 DEF ScanLeagues, SettleSafe, TypeOK, Sessions, Resolved, Outcomes
      <4>2. CASE t # s
        BY <2>4, <3>1, <4>2, SettleRests DEF ScanLeagues, TypeOK, Sessions
      <4>3. QED
        BY <4>1, <4>2
    <3>3. QED
      BY <2>4, <3>1, <3>2, SettleFrame, BetsUnchanged, UpsertFinal DEF ScanLeagues
  <2>5. ASSUME NEW s \in Scanners, ScanImportRead(s) PROVE SettleInv'
    <3>1. \A t \in Scanners : SettleSafe(t)
      BY <2>5, SettleRests DEF ScanImportRead, TypeOK, Sessions
    <3>2. QED
      BY <2>5, <3>1, SettleFrame, BetsUnchanged, StoreFinal DEF ScanImportRead
  <2>6. ASSUME NEW s \in Scanners, ScanImportWrite(s) PROVE SettleInv'
    <3>1. \A t \in Scanners : SettleSafe(t)
      BY <2>6, SettleRests DEF ScanImportWrite, TypeOK, Sessions
    <3>2. CASE pending[s] = {}
      BY <2>6, <3>1, <3>2, SettleFrame, BetsUnchanged, StoreFinal DEF ScanImportWrite
    <3>3. CASE pending[s] # {}
      <4>1. BetsKept
        BY <2>6, <3>3, InsertKeeps DEF ScanImportWrite, TypeOK, Sessions
      <4>2. QED
        BY <2>6, <3>1, <3>3, <4>1, SettleFrame, CommitFinal DEF ScanImportWrite
    <3>4. QED
      BY <3>2, <3>3
  <2>7. ASSUME NEW s \in Scanners, ScanFetch(s) PROVE SettleInv'
    <3>1. PICK got \in SUBSET Missing(s) :
             /\ found' = [found EXCEPT ![s] =
                    [m \in Markets |-> IF m \in got THEN venue[m] ELSE found[s][m]]]
             /\ txRows' = [m \in Markets |-> IF m \in got THEN RowOf(venue[m]) ELSE txRows[m]]
      BY <2>7 DEF ScanFetch
    <3>2. got \in SUBSET Markets
      BY DEF Missing
    <3>3. ASSUME NEW t \in Scanners PROVE SettleSafe(t)
      <4>1. CASE t = s
        BY <2>7, <3>1, <4>1 DEF ScanFetch, SettleInv, SettleSafe, TypeOK, Sessions
      <4>2. CASE t # s
        BY <2>7, <3>1, <4>2, SettleRests DEF ScanFetch, TypeOK, Sessions
      <4>3. QED
        BY <4>1, <4>2
    <3>4. QED
      BY <2>7, <3>1, <3>2, <3>3, SettleFrame, BetsUnchanged, UpsertFinal DEF ScanFetch
  <2>8. ASSUME NEW s \in Scanners, ScanCaptureRead(s) PROVE SettleInv'
    <3>1. \A t \in Scanners : SettleSafe(t)
      BY <2>8, SettleRests DEF ScanCaptureRead, TypeOK, Sessions
    <3>2. QED
      BY <2>8, <3>1, SettleFrame, BetsUnchanged, StoreFinal DEF ScanCaptureRead
  <2>9. ASSUME NEW s \in Scanners, ScanCaptureWrite(s) PROVE SettleInv'
    <3>1. \A t \in Scanners : SettleSafe(t)
      BY <2>9, SettleRests DEF ScanCaptureWrite, TypeOK, Sessions
    <3>2. BetsKept
      BY <2>9 DEF ScanCaptureWrite, BetsKept, Present, TypeOK, BetRow
    <3>3. ResultsFinal
      BY <2>9, CommitFinal, StoreFinal DEF ScanCaptureWrite
    <3>4. QED
      BY <3>1, <3>2, <3>3, SettleFrame
  <2>10. ASSUME NEW s \in Scanners, ScanSettleRead(s) PROVE SettleInv'
    <3>1. ASSUME NEW t \in Scanners PROVE SettleSafe(t)
      <4>1. CASE t = s
        BY <2>10, <4>1
        DEF ScanSettleRead, SettleInv, SettleSafe, IsOpen, Present, TypeOK, Sessions
      <4>2. CASE t # s
        BY <2>10, <4>2, SettleRests DEF ScanSettleRead, TypeOK, Sessions
      <4>3. QED
        BY <4>1, <4>2
    <3>2. QED
      BY <2>10, <3>1, SettleFrame, BetsUnchanged, StoreFinal DEF ScanSettleRead
  <2>11. ASSUME NEW s \in Scanners, ScanSettleWrite(s) PROVE SettleInv'
    <3>1. CASE todo[s] = {}
      <4>1. \A t \in Scanners : SettleSafe(t)
        BY <2>11, SettleRests DEF ScanSettleWrite, TypeOK, Sessions
      <4>2. QED
        BY <2>11, <3>1, <4>1, SettleFrame, BetsUnchanged, StoreFinal DEF ScanSettleWrite
    <3>2. CASE todo[s] # {}
      BY <2>11, <3>2, SettleWriteSafe
    <3>3. QED
      BY <3>1, <3>2
  <2>12. ASSUME NEW s \in Scanners, ScanFinish(s) PROVE SettleInv'
    <3>1. ASSUME NEW t \in Scanners PROVE SettleSafe(t)
      BY <2>12, SettleRests
      DEF ScanFinish, ForgetScan, Unseen, SettleSafe, SettleInv, TypeOK, Sessions, Resolved, Outcomes
    <3>2. QED
      BY <2>12, <3>1, SettleFrame, BetsUnchanged, FinishFinal DEF ScanFinish
  <2>13. ASSUME NEW s \in Scanners, ScanLocked(s) \/ ScanAbort(s) PROVE SettleInv'
    <3>1. ASSUME NEW t \in Scanners PROVE SettleSafe(t)
      <4>1. /\ pc' = [pc EXCEPT ![s] = "idle"]
            /\ found' = [found EXCEPT ![s] = Unseen] /\ todo' = [todo EXCEPT ![s] = {}]
        BY <2>13 DEF ScanLocked, ScanAbort, ForgetScan
      <4>2. CASE t = s
        BY <4>1, <4>2 DEF SettleSafe, Unseen, TypeOK, Sessions, Resolved, Outcomes
      <4>3. CASE t # s
        BY <4>1, <4>3, SettleRests DEF TypeOK, Sessions
      <4>4. QED
        BY <4>2, <4>3
    <3>2. ResultsFinal
      BY <2>13, StoreFinal DEF ScanLocked, ScanAbort, Rollback
    <3>3. QED
      BY <2>13, <3>1, <3>2, SettleFrame, BetsUnchanged DEF ScanLocked, ScanAbort, Rollback
  <2>14. ASSUME NEW o \in Owners, OwnerAsksSettle(o) \/ OwnerAsksLog(o) \/ OwnerFails(o)
         PROVE  SettleInv'
    <3>1. \A t \in Scanners : SettleSafe(t)
      BY <2>14, SettleRests, SessionsDisjoint
      DEF OwnerAsksSettle, OwnerAsksLog, OwnerFails, TypeOK, Sessions
    <3>2. QED
      BY <2>14, <3>1, SettleFrame, BetsUnchanged, StoreFinal
      DEF OwnerAsksSettle, OwnerAsksLog, OwnerFails
  <2>15. ASSUME NEW o \in Owners, OwnerSettles(o) PROVE SettleInv'
    <3>1. PICK r \in verdict[o] :
             bets' = [b \in Bets |->
                IF b \in todo[o] THEN [bets[b] EXCEPT !.status = r] ELSE bets[b]]
      BY <2>15 DEF OwnerSettles
    <3>2. r = "void"
      BY DEF TypeOK
    <3>3. BetsKept
      BY <3>1, <3>2 DEF BetsKept, Present, Decided, TypeOK, BetRow
    <3>4. \A t \in Scanners : SettleSafe(t)
      BY <2>15, SettleRests, SessionsDisjoint DEF OwnerSettles, TypeOK, Sessions
    <3>5. QED
      BY <2>15, <3>3, <3>4, SettleFrame, CommitFinal DEF OwnerSettles
  <2>16. ASSUME NEW o \in Owners, OwnerLogs(o) PROVE SettleInv'
    <3>1. PICK form \in slip[o] :
             bets' = [bets EXCEPT ![CHOOSE b \in FreeIds : TRUE] =
                [market |-> form[1], token |-> form[2], status |-> "open",
                 key |-> None, closing |-> FALSE]]
      BY <2>16 DEF OwnerLogs
    <3>2. (CHOOSE b \in FreeIds : TRUE) \in FreeIds
      BY <2>16 DEF OwnerLogs
    <3>3. BetsKept
      BY <3>1, <3>2 DEF BetsKept, Present, FreeIds, Decided, TypeOK
    <3>4. \A t \in Scanners : SettleSafe(t)
      BY <2>16, SettleRests, SessionsDisjoint DEF OwnerLogs, TypeOK, Sessions
    <3>5. QED
      BY <2>16, <3>3, <3>4, SettleFrame, CommitFinal DEF OwnerLogs
  <2>17. ASSUME NEW i \in Importers, ImportRead(i) \/ ImportFails(i) PROVE SettleInv'
    <3>1. \A t \in Scanners : SettleSafe(t)
      BY <2>17, SettleRests, SessionsDisjoint DEF ImportRead, ImportFails, TypeOK, Sessions
    <3>2. QED
      BY <2>17, <3>1, SettleFrame, BetsUnchanged, StoreFinal DEF ImportRead, ImportFails
  <2>18. ASSUME NEW i \in Importers, ImportWrite(i) PROVE SettleInv'
    <3>1. \A t \in Scanners : SettleSafe(t)
      BY <2>18, SettleRests, SessionsDisjoint DEF ImportWrite, TypeOK, Sessions
    <3>2. BetsKept
      BY <2>18, InsertKeeps DEF ImportWrite, TypeOK, Sessions
    <3>3. QED
      BY <2>18, <3>1, <3>2, SettleFrame, CommitFinal DEF ImportWrite
  <2>19. ASSUME NEW p \in Procs, Crash(p) PROVE SettleInv'
    <3>1. ASSUME NEW t \in Scanners PROVE SettleSafe(t)
      BY <2>19, SettleRests
      DEF Crash, Unseen, SettleSafe, SettleInv, TypeOK, Sessions, Resolved, Outcomes
    <3>2. QED
      BY <2>19, <3>1, SettleFrame, BetsUnchanged, StoreFinal DEF Crash
  <2>20. CASE UNCHANGED vars
    <3>1. \A t \in Scanners : SettleSafe(t)
      BY <2>20, SettleRests DEF vars
    <3>2. QED
      BY <2>20, <3>1, SettleFrame, BetsUnchanged, StoreFinal DEF vars
  <2>21. QED
    BY <2>1, <2>2, <2>3, <2>4, <2>5, <2>6, <2>7, <2>8, <2>9, <2>10, <2>11, <2>12, <2>13,
       <2>14, <2>15, <2>16, <2>17, <2>18, <2>19, <2>20
    DEF Next, ScanStep
<1>3. QED
  BY <1>1, <1>2, TypeCorrect, PTL DEF Spec

\* A result the app wrote is the venue's, and the market's row is closed,
\* however many scans settle at once, abort or die, and though the owner's form
\* voids bets meanwhile, as long as nobody enters a win, a loss or a push by hand.
THEOREM ScansSettleRight == OwnerResults \subseteq {"void"} => (Spec => []SettledAsResolved)
<1> SUFFICES ASSUME OwnerResults \subseteq {"void"} PROVE Spec => []SettledAsResolved
  OBVIOUS
<1>1. TypeOK /\ SettleInv => SettledAsResolved
  <2> SUFFICES ASSUME TypeOK, SettleInv, NEW b \in Bets,
                      bets[b].status \in {"won", "lost", "push"}
               PROVE  /\ venue[bets[b].market] \in Resolved
                      /\ bets[b].status = "push" <=> venue[bets[b].market] = "push"
                      /\ bets[b].status = "won" <=> venue[bets[b].market] = bets[b].token
                      /\ rows[bets[b].market] = "closed"
    BY DEF SettledAsResolved
  <2>1. ResolvedRight(b)
    BY DEF SettleInv, Decided
  <2>2. bets[b].token # "push"
    BY DEF TypeOK, BetRow, Outcomes
  <2>3. QED
    BY <2>1, <2>2 DEF ResolvedRight, ResultOf
<1>2. QED
  BY <1>1, SettleInvariant, TypeCorrect, PTL

---------------------------------------------------------------------------
(* The ledger implements LedgerPromise, for every number of processes,     *)
(* scanning sessions, markets, bets and fills, while scans alone import    *)
(* and settle.  (With an import from the command line, or with results     *)
(* entered by hand, it does not: runs ledger_imported_twice and            *)
(* ledger_settled_twice show how.)                                         *)


---------------------------------------------------------------------------
(* What the refinement needs beside the invariants of the imports and of   *)
(* the settlement: no bet is void, an unused id has no closing line, and   *)
(* the bets a scan is about to close are in the ledger.                    *)

CaptureInv ==
    /\ \A b \in Bets : /\ bets[b].status # "void"
                       /\ Present(b) \/ bets[b].closing = FALSE
    /\ \A s \in Scanners : pc[s] = "captureWrite" => \A b \in todo[s] : Present(b)

\* Rows are never taken back, voided, or closed before they are recorded.
ClosingsKept ==
    \A b \in Bets :
        /\ bets'[b].status # "void"
        /\ Present(b) => Present(b)'
        /\ ~Present(b)' => bets'[b].closing = FALSE

\* What a step may do to scan t: it rests, or it reads what is recorded.
CaptureSafe(t) ==
    pc'[t] = "captureWrite" => \A b \in todo'[t] : Present(b)

LEMMA CaptureFrame ==
  ASSUME TypeOK, TypeOK', CaptureInv, ClosingsKept, \A t \in Scanners : CaptureSafe(t)
  PROVE  CaptureInv'
<1>1. ASSUME NEW t \in Scanners, pc'[t] = "captureWrite", NEW b \in todo'[t]
      PROVE  Present(b)'
  <2>1. b \in Bets
    BY DEF TypeOK, Sessions
  <2>2. QED
    BY <1>1, <2>1 DEF CaptureSafe, ClosingsKept
<1>2. QED
  BY <1>1 DEF CaptureInv, ClosingsKept

LEMMA ClosingsUnchanged ==
  ASSUME CaptureInv, UNCHANGED bets
  PROVE  ClosingsKept
  BY DEF CaptureInv, ClosingsKept, Present

\* A scan that rests keeps its list.
LEMMA CaptureRests ==
  ASSUME CaptureInv, NEW t \in Scanners,
         pc'[t] # "captureWrite" \/ (pc'[t] = pc[t] /\ todo'[t] = todo[t])
  PROVE  CaptureSafe(t)
  BY DEF CaptureInv, CaptureSafe

---------------------------------------------------------------------------
(* The steps that change the bets, as steps of the promise.                *)

\* Inserting fills the ledger does not know records new bets.
LEMMA InsertRecords ==
  ASSUME TypeOK, TypeOK', ImportInv, CaptureInv, NEW fs \in SUBSET Fills, fs # {},
         InsertFills(fs), fs \cap KnownKeys = {}
  PROVE  Promise!Next /\ ClosingsKept
<1>1. PICK id \in [fs -> FreeIds] :
        /\ \A f, g \in fs : id[f] = id[g] => f = g
        /\ \A f \in fs : /\ bets'[id[f]].key = f
                         /\ bets'[id[f]].status = "open"
                         /\ bets'[id[f]].closing = FALSE
        /\ \A b \in Bets : (\A f \in fs : id[f] # b) => bets'[b] = bets[b]
  BY InsertRows
<1> DEFINE new == {id[f] : f \in fs}
<1>2. /\ new # {} /\ new \subseteq FreeIds /\ new \subseteq Bets
      /\ \A b \in Bets \ new : bets'[b] = bets[b]
      /\ \A b \in new : bets'[b].status = "open" /\ bets'[b].closing = FALSE /\ bets[b].closing = FALSE
  BY <1>1 DEF FreeIds, CaptureInv
<1>3. ASSUME NEW b \in new, NEW c \in Bets, Present(c) \/ c \in new,
             bets'[b].key = bets'[c].key
      PROVE  b = c
  <2>1. PICK f \in fs : b = id[f]
    OBVIOUS
  <2>2. CASE c \in new
    BY <1>1, <1>3, <2>1, <2>2
  <2>3. CASE c \notin new
    <3>1. Present(c) /\ bets[c].key = f
      BY <1>1, <1>2, <1>3, <2>1, <2>3
    <3>2. f \in KnownKeys
      BY <3>1, ConstantsOK DEF KnownKeys
    <3>3. QED
      BY <3>2
  <2>4. QED
    BY <2>2, <2>3
<1> HIDE DEF new
<1>4. Promise!Record(new)
  <2> DEFINE statuses == [b \in Bets |-> bets[b].status]
             keys == [b \in Bets |-> bets[b].key]
             closings == [b \in Bets |-> bets[b].closing]
  <2>1. \A b \in Bets : b \in Promise!Recorded <=> Present(b)
    BY DEF Promise!Recorded, Present
  <2>2. new \cap Promise!Recorded = {}
    BY <1>2, <2>1 DEF FreeIds
  <2>3. statuses' = [b \in Bets |-> IF b \in new THEN "open" ELSE statuses[b]]
    BY <1>2
  <2>4. \A b \in Bets \ new : keys'[b] = keys[b]
    BY <1>2
  <2>5. \A b \in new, c \in Promise!Recorded \cup new :
           (keys'[b] # None /\ keys'[b] = keys'[c]) => b = c
    BY <1>2, <1>3, <2>1 DEF Promise!Recorded
  <2>6. closings' = closings
    BY <1>2
  <2>7. QED
    BY <1>2, <2>2, <2>3, <2>4, <2>5, <2>6 DEF Promise!Record
<1>5. ClosingsKept
  BY <1>2 DEF ClosingsKept, CaptureInv, Present
<1>6. QED
  BY <1>2, <1>4, <1>5 DEF Promise!Next

\* Recording one bet by hand does too.
LEMMA LogRecords ==
  ASSUME TypeOK, TypeOK', CaptureInv, NEW id \in FreeIds, bets'[id].status = "open",
         bets'[id].key = None, bets'[id].closing = FALSE,
         \A b \in Bets \ {id} : bets'[b] = bets[b]
  PROVE  Promise!Next /\ ClosingsKept
<1> DEFINE statuses == [b \in Bets |-> bets[b].status]
           keys == [b \in Bets |-> bets[b].key]
           closings == [b \in Bets |-> bets[b].closing]
<1>1. id \in Bets /\ ~Present(id) /\ bets[id].closing = FALSE
  BY DEF FreeIds, CaptureInv
<1>2. id \notin Promise!Recorded
  BY <1>1 DEF Promise!Recorded, Present
<1>3. statuses' = [b \in Bets |-> IF b \in {id} THEN "open" ELSE statuses[b]]
  BY <1>1
<1>4. \A b \in Bets \ {id} : keys'[b] = keys[b]
  BY <1>1
<1>5. keys'[id] = None
  BY <1>1
<1>6. closings' = closings
  BY <1>1
<1>7. Promise!Record({id})
  BY <1>2, <1>3, <1>4, <1>5, <1>6 DEF Promise!Record
<1>8. ClosingsKept
  BY <1>1 DEF ClosingsKept, CaptureInv, Present
<1>9. QED
  BY <1>1, <1>7, <1>8 DEF Promise!Next

\* Giving the bets of a list their closing lines, some of which have one.
LEMMA CaptureCaptures ==
  ASSUME TypeOK, CaptureInv, NEW due \in SUBSET Bets, \A b \in due : Present(b),
         bets' = [b \in Bets |-> IF b \in due THEN [bets[b] EXCEPT !.closing = TRUE] ELSE bets[b]]
  PROVE  (Promise!Next \/ UNCHANGED Promise!vars) /\ ClosingsKept
<1> DEFINE statuses == [b \in Bets |-> bets[b].status]
           keys == [b \in Bets |-> bets[b].key]
           closings == [b \in Bets |-> bets[b].closing]
           fresh == {b \in due : ~bets[b].closing}
<1>1. \A b \in Bets : /\ bets[b] \in BetRow
                      /\ bets'[b].status = bets[b].status
                      /\ bets'[b].key = bets[b].key
                      /\ bets'[b].closing = IF b \in due THEN TRUE ELSE bets[b].closing
  BY DEF TypeOK, BetRow
<1>2. statuses' = statuses /\ keys' = keys
  BY <1>1
<1>3. \A b \in Bets : bets[b].closing \in BOOLEAN
  BY <1>1 DEF BetRow
<1>4. closings' = [b \in Bets |-> closings[b] \/ b \in fresh]
  BY <1>1, <1>3
<1>5. \A b \in fresh : statuses[b] \notin {"absent", "void"} /\ ~closings[b]
  BY DEF CaptureInv, Present
<1>6. CASE fresh = {}
  <2>1. \A b \in due : bets[b].closing = TRUE
    BY <1>3, <1>6
  <2>2. \A b \in Bets : bets'[b].closing = bets[b].closing
    BY <1>1, <2>1
  <2>3. closings' = closings
    BY <2>2
  <2>4. QED
    BY <1>1, <1>2, <2>3 DEF Promise!vars, ClosingsKept, CaptureInv, Present
<1>7. CASE fresh # {}
  <2>1. Promise!Capture(fresh)
    BY <1>2, <1>4, <1>5, <1>7 DEF Promise!Capture
  <2>2. Promise!Next
    <3>1. fresh \in SUBSET Bets
      OBVIOUS
    <3> HIDE DEF fresh
    <3>2. QED
      BY <2>1, <3>1 DEF Promise!Next, Promise!Capture
  <2>3. QED
    BY <1>1, <2>2 DEF ClosingsKept, CaptureInv, Present
<1>8. QED
  BY <1>6, <1>7

\* Settling the bets of a list, some of which another scan has settled: those
\* get the result they have, since both scans saw the same market resolved.
LEMMA SettleSettles ==
  ASSUME TypeOK, CaptureInv, SettleInv, NEW s \in Scanners, pc[s] = "settleWrite",
         bets' = [b \in Bets |->
                    IF b \in todo[s]
                    THEN [bets[b] EXCEPT !.status = ResultOf(b, found[s][bets[b].market])]
                    ELSE bets[b]]
  PROVE  (Promise!Next \/ UNCHANGED Promise!vars) /\ ClosingsKept
<1> DEFINE statuses == [b \in Bets |-> bets[b].status]
           keys == [b \in Bets |-> bets[b].key]
           closings == [b \in Bets |-> bets[b].closing]
           result(b) == ResultOf(b, found[s][bets[b].market])
           done == {b \in todo[s] : IsOpen(b)}
<1>1. todo[s] \subseteq Bets
  BY DEF TypeOK, Sessions
<1>2. \A b \in Bets : result(b) \in Decided
  BY ResultType DEF Decided
<1>3. ASSUME NEW b \in todo[s]
      PROVE  Present(b) /\ (bets[b].status \in Decided => bets[b].status = result(b))
  <2>1. Present(b) /\ found[s][bets[b].market] \in Resolved /\ bets[b].market \in Markets
    BY <1>1 DEF SettleInv, TypeOK, BetRow
  <2>2. found[s][bets[b].market] = venue[bets[b].market]
    BY <2>1 DEF SettleInv
  <2>3. QED
    BY <1>1, <2>1, <2>2 DEF SettleInv, ResolvedRight
<1> HIDE DEF result
<1>4. \A b \in Bets : /\ bets[b] \in BetRow
                      /\ bets'[b].status = IF b \in todo[s] THEN result(b) ELSE bets[b].status
                      /\ bets'[b].key = bets[b].key
                      /\ bets'[b].closing = bets[b].closing
  BY DEF TypeOK, BetRow, result
<1>5. keys' = keys /\ closings' = closings
  BY <1>4
<1>6. ASSUME NEW b \in todo[s], ~IsOpen(b) PROVE bets[b].status = result(b)
  <2>1. bets[b].status \in Status /\ bets[b].status # "absent" /\ bets[b].status # "void"
    BY <1>1, <1>3, <1>4 DEF BetRow, Present, CaptureInv
  <2>2. bets[b].status \in Decided
    BY <1>6, <2>1 DEF Status, SettleResults, Decided, IsOpen
  <2>3. QED
    BY <1>3, <2>2
<1>7. \A b \in Bets \ done : statuses'[b] = statuses[b]
  BY <1>4, <1>6
<1>8. \A b \in done : statuses[b] = "open" /\ statuses'[b] \in {"won", "lost", "push", "void"}
  BY <1>1, <1>2, <1>4 DEF IsOpen, Decided
<1>9. ClosingsKept
  BY <1>1, <1>2, <1>3, <1>4 DEF ClosingsKept, CaptureInv, Present, Decided
<1>10. CASE done = {}
  <2>1. statuses' = statuses
    BY <1>7, <1>10
  <2>2. QED
    BY <1>5, <1>9, <2>1 DEF Promise!vars
<1>11. CASE done # {}
  <2>1. Promise!Settle(done)
    BY <1>5, <1>7, <1>8, <1>11 DEF Promise!Settle
  <2>2. done \in SUBSET Bets
    BY <1>1
  <2> HIDE DEF done
  <2>3. Promise!Next
    BY <2>1, <2>2 DEF Promise!Next, Promise!Settle
  <2>4. QED
    BY <1>9, <2>3
<1>12. QED
  BY <1>10, <1>11

---------------------------------------------------------------------------
(* The refinement.                                                         *)

\* A step that leaves the bets alone leaves the promise alone.
LEMMA BetsAlone ==
  ASSUME UNCHANGED bets
  PROVE  UNCHANGED Promise!vars
  BY DEF Promise!vars

\* Every step of the ledger is a step of the promise or none, and keeps the
\* invariant of the closing lines.
LEMMA PromiseStep ==
  ASSUME Importers = {}, OwnerResults = {}, TypeOK, TypeOK', ImportInv, SettleInv,
         CaptureInv, [Next]_vars
  PROVE  (Promise!Next \/ UNCHANGED Promise!vars) /\ CaptureInv'
<1> USE DEF world, store, txn, local, forms, Goto
<1>1. ASSUME UNCHANGED bets, \A t \in Scanners : CaptureSafe(t)
      PROVE  (Promise!Next \/ UNCHANGED Promise!vars) /\ CaptureInv'
  BY <1>1, BetsAlone, CaptureFrame, ClosingsUnchanged
<1>2. ASSUME World \/ UNCHANGED vars PROVE UNCHANGED bets /\ \A t \in Scanners : CaptureSafe(t)
  BY <1>2, CaptureRests DEF World, Kickoff, Resolve, BuyOnVenue, vars
<1>3. ASSUME NEW s \in Scanners,
             \/ ScanRequest(s) \/ ScanBegin(s) \/ ScanLeagues(s) \/ ScanImportRead(s)
             \/ ScanFetch(s) \/ ScanSettleRead(s)
      PROVE  UNCHANGED bets /\ \A t \in Scanners : CaptureSafe(t)
  BY <1>3, CaptureRests DEF ScanRequest, ScanBegin, ScanLeagues, ScanImportRead, ScanFetch,
     ScanSettleRead, TypeOK, Sessions
<1>4. ASSUME NEW s \in Scanners, ScanFinish(s) \/ ScanLocked(s) \/ ScanAbort(s)
      PROVE  UNCHANGED bets /\ \A t \in Scanners : CaptureSafe(t)
  BY <1>4, CaptureRests DEF ScanFinish, ScanLocked, ScanAbort, Rollback, ForgetScan,
     TypeOK, Sessions
<1>5. ASSUME NEW s \in Scanners, ScanCaptureRead(s)
      PROVE  UNCHANGED bets /\ \A t \in Scanners : CaptureSafe(t)
  <2>1. ASSUME NEW t \in Scanners PROVE CaptureSafe(t)
    <3>1. CASE t = s
      BY <1>5, <3>1 DEF ScanCaptureRead, ClosingDue, CaptureSafe, Present, TypeOK, Sessions
    <3>2. CASE t # s
      BY <1>5, <3>2, CaptureRests DEF ScanCaptureRead, TypeOK, Sessions
    <3>3. QED
      BY <3>1, <3>2
  <2>2. QED
    BY <1>5, <2>1 DEF ScanCaptureRead
<1>6. ASSUME NEW s \in Scanners, ScanImportWrite(s)
      PROVE  (Promise!Next \/ UNCHANGED Promise!vars) /\ CaptureInv'
  <2>1. \A t \in Scanners : CaptureSafe(t)
    BY <1>6, CaptureRests DEF ScanImportWrite, TypeOK, Sessions
  <2>2. CASE pending[s] = {}
    BY <1>1, <1>6, <2>1, <2>2 DEF ScanImportWrite
  <2>3. CASE pending[s] # {}
    <3>1. /\ pending[s] \in SUBSET Fills /\ InsertFills(pending[s])
          /\ pending[s] \cap KnownKeys = {}
      BY <1>6, <2>3 DEF ScanImportWrite, ImportInv, TypeOK, Sessions
    <3>2. Promise!Next /\ ClosingsKept
      BY <2>3, <3>1, InsertRecords
    <3>3. QED
      BY <2>1, <3>2, CaptureFrame
  <2>4. QED
    BY <2>2, <2>3
<1>7. ASSUME NEW s \in Scanners, ScanCaptureWrite(s)
      PROVE  (Promise!Next \/ UNCHANGED Promise!vars) /\ CaptureInv'
  <2>1. \A t \in Scanners : CaptureSafe(t)
    BY <1>7, CaptureRests DEF ScanCaptureWrite, TypeOK, Sessions
  <2>2. CASE todo[s] = {}
    BY <1>1, <1>7, <2>1, <2>2 DEF ScanCaptureWrite
  <2>3. CASE todo[s] # {}
    <3>1. /\ todo[s] \in SUBSET Bets /\ \A b \in todo[s] : Present(b)
          /\ bets' = [b \in Bets |->
                IF b \in todo[s] THEN [bets[b] EXCEPT !.closing = TRUE] ELSE bets[b]]
      BY <1>7, <2>3 DEF ScanCaptureWrite, CaptureInv, TypeOK, Sessions
    <3>2. (Promise!Next \/ UNCHANGED Promise!vars) /\ ClosingsKept
      BY <3>1, CaptureCaptures
    <3>3. QED
      BY <2>1, <3>2, CaptureFrame
  <2>4. QED
    BY <2>2, <2>3
<1>8. ASSUME NEW s \in Scanners, ScanSettleWrite(s)
      PROVE  (Promise!Next \/ UNCHANGED Promise!vars) /\ CaptureInv'
  <2>1. \A t \in Scanners : CaptureSafe(t)
    BY <1>8, CaptureRests DEF ScanSettleWrite, TypeOK, Sessions
  <2>2. CASE todo[s] = {}
    BY <1>1, <1>8, <2>1, <2>2 DEF ScanSettleWrite
  <2>3. CASE todo[s] # {}
    <3>1. /\ pc[s] = "settleWrite"
          /\ bets' = [b \in Bets |->
                IF b \in todo[s]
                THEN [bets[b] EXCEPT !.status = ResultOf(b, found[s][bets[b].market])]
                ELSE bets[b]]
      BY <1>8, <2>3 DEF ScanSettleWrite
    <3>2. (Promise!Next \/ UNCHANGED Promise!vars) /\ ClosingsKept
      BY <3>1, SettleSettles
    <3>3. QED
      BY <2>1, <3>2, CaptureFrame
  <2>4. QED
    BY <2>2, <2>3
<1>9. ASSUME NEW o \in Owners, OwnerAsksSettle(o) \/ OwnerAsksLog(o) \/ OwnerFails(o)
      PROVE  UNCHANGED bets /\ \A t \in Scanners : CaptureSafe(t)
  BY <1>9, CaptureRests, SessionsDisjoint
  DEF OwnerAsksSettle, OwnerAsksLog, OwnerFails, TypeOK, Sessions
<1>10. ASSUME NEW o \in Owners, OwnerSettles(o) PROVE FALSE
  BY <1>10 DEF OwnerSettles, TypeOK
<1>11. ASSUME NEW o \in Owners, OwnerLogs(o)
       PROVE  (Promise!Next \/ UNCHANGED Promise!vars) /\ CaptureInv'
  <2> DEFINE id == CHOOSE b \in FreeIds : TRUE
  <2>1. id \in FreeIds /\ id \in Bets
    BY <1>11 DEF OwnerLogs, FreeIds
  <2>2. PICK form \in slip[o] :
           bets' = [bets EXCEPT ![id] =
              [market |-> form[1], token |-> form[2], status |-> "open",
               key |-> None, closing |-> FALSE]]
    BY <1>11 DEF OwnerLogs
  <2> HIDE DEF id
  <2>3. /\ bets'[id].status = "open" /\ bets'[id].key = None /\ bets'[id].closing = FALSE
        /\ \A b \in Bets \ {id} : bets'[b] = bets[b]
    BY <2>1, <2>2 DEF TypeOK
  <2>4. Promise!Next /\ ClosingsKept
    BY <2>1, <2>3, LogRecords
  <2>5. \A t \in Scanners : CaptureSafe(t)
    BY <1>11, CaptureRests, SessionsDisjoint DEF OwnerLogs, TypeOK, Sessions
  <2>6. QED
    BY <2>4, <2>5, CaptureFrame
<1>12. ASSUME NEW p \in Procs, Crash(p)
       PROVE  UNCHANGED bets /\ \A t \in Scanners : CaptureSafe(t)
  BY <1>12, CaptureRests DEF Crash, TypeOK, Sessions
<1>13. QED
  BY <1>1, <1>2, <1>3, <1>4, <1>5, <1>6, <1>7, <1>8, <1>9, <1>10, <1>11, <1>12
  DEF Next, ScanStep

\* While scans alone import and settle, the ledger records each buy once,
\* settles each bet once and gives it one closing line, never to a void bet,
\* whatever the scans of several processes do to each other.
THEOREM ScansKeepPromises == (Importers = {} /\ OwnerResults = {}) => (Spec => KeepsPromises)
<1> SUFFICES ASSUME Importers = {}, OwnerResults = {} PROVE Spec => KeepsPromises
  OBVIOUS
<1>1. Init => Promise!Init /\ CaptureInv
  BY DEF Init, Promise!Init, CaptureInv, NoBet, Sessions
<1>2. TypeOK /\ TypeOK' /\ ImportInv /\ SettleInv /\ CaptureInv /\ [Next]_vars
        => [Promise!Next]_Promise!vars /\ CaptureInv'
  BY PromiseStep
<1>3. Spec => []SettleInv
  BY SettleInvariant
<1>4. QED
  BY <1>1, <1>2, <1>3, TypeCorrect, ImportInvariant, PTL
  DEF Spec, KeepsPromises, Promise!Spec

===========================================================================
