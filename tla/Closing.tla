------------------------------ MODULE Closing ------------------------------
(***************************************************************************)
(* The closing line of a bet: which stored book snapshot capture_closing   *)
(* compares the bet with (services/bets.py, services/adapters.py), and the *)
(* scans that store the snapshots and the kickoff (services/scan.py).      *)
(*                                                                         *)
(* One game, its moneyline market and a sibling (a spread or a total), and *)
(* one bet on it.  Scans run in several processes.  A scan reads the clock *)
(* once, before its Scan row is inserted and long before it fetches a      *)
(* league; "stamp" is that reading, which it stores as fetched_at, and     *)
(* "taken" the time the venue and the books were really asked.  Module     *)
(* Ledger has the locks and transactions in full; here a session sees what *)
(* it wrote itself when it holds SQLite's write lock, and the last commit  *)
(* otherwise.                                                              *)
(***************************************************************************)
EXTENDS Integers, FiniteSetsExt

CONSTANTS
    Scanners,       \* sessions that call run_scan_default, a process each
    Kickoffs,       \* gameStartTime values
    MaxTime,        \* bound on the clock
    MaxScans,       \* bound on the ids of the scans table
    MaxMoves,       \* bound on the changes of a gameStartTime
    MaxFaults,      \* bound on scans that fail
    None

Types == {"moneyline", "sibling"}
Times == 0..MaxTime
Ids == 1..MaxScans

ASSUME ConstantsOK ==
    /\ MaxTime \in Nat /\ MaxScans \in Nat /\ MaxMoves \in Nat /\ MaxFaults \in Nat
    /\ Kickoffs \subseteq Times
    /\ None \notin Times \cup Scanners /\ None \notin Types

VARIABLES
    clock,
    venue,      \* [Types -> Kickoffs \cup {None}]: gameStartTime now
    moved,      \* how often the venue has changed either
    scans,      \* ids in the scans table, committed
    snaps,      \* stored book snapshots, committed
    start,      \* games.start_time, committed
    txSnaps, txStart, writer,
    pc, now, id,
    pick,       \* the closing line a capture has read and means to store
    closing,    \* the bet's closing line, committed
    faults

table == <<scans, snaps, start>>
txn == <<txSnaps, txStart, writer>>
vars == <<clock, venue, moved, table, txn, pc, now, id, pick, closing, faults>>

Snapshot == [scan : Ids, stamp : Times, taken : Times]
Line == [scan : Ids, stamp : Times, taken : Times, start : Kickoffs]

Phases == {"idle", "begin", "leagues", "import", "capture", "captureWrite",
           "finish", "failed"}

Fault == faults < MaxFaults /\ faults' = faults + 1
Goto(s, phase) == pc' = [pc EXCEPT ![s] = phase]
CanWrite(s) == writer \in {None, s}
SnapsSeen(s) == IF writer = s THEN txSnaps ELSE snaps
StartSeen(s) == IF writer = s THEN txStart ELSE start

\* The rowid SQLite gives the next Scan row.
NextId == Max(scans \cup {0}) + 1

\* COMMIT by s; the first one makes its Scan row permanent.
Commit(s) ==
    /\ CanWrite(s)
    /\ scans' = scans \cup {id[s]}
    /\ snaps' = SnapsSeen(s) /\ start' = StartSeen(s)
    /\ txSnaps' = SnapsSeen(s) /\ txStart' = StartSeen(s)
    /\ writer' = None

\* ROLLBACK by s, if it holds the lock.  (Slip: the rows stay.)
RollbackLockOnly(s) ==
    writer' = (IF writer = s THEN None ELSE writer) /\ UNCHANGED <<txSnaps, txStart>>
Rollback(s) ==
    IF writer = s
    THEN txSnaps' = snaps /\ txStart' = start /\ writer' = None
    ELSE UNCHANGED txn

---------------------------------------------------------------------------
(* The pure parts.                                                         *)

\* _kickoff: the start time a game row gets from one of its markets.  (Slip:
\* a sibling moves it either way.)
KickoffAnyType(current, type, listed) == IF listed = None THEN current ELSE listed
Kickoff(current, type, listed) ==
    IF listed = None THEN current
    ELSE IF current = None \/ type = "moneyline" \/ listed > current THEN listed
    ELSE current

\* upsert_game, for one market of the game, or for none.
KickoffOf(current, type) ==
    IF type = None THEN current ELSE Kickoff(current, type, venue[type])

\* _skip_reason: may a market of this type be priced at time t?
Tradable(type, t) == venue[type] = None \/ venue[type] > t

\* latest_book_scan_id: snapshots stamped by the start, if the game has one,
\* and not of a later scan.
Candidates(s) ==
    {x \in SnapsSeen(s) : /\ StartSeen(s) # None => x.stamp <= StartSeen(s)
                          /\ x.scan <= id[s]}

\* The snapshot capture_closing uses: the one of the greatest scan id.
Newest(xs) == CHOOSE x \in xs : \A y \in xs : y.scan <= x.scan

\* capture_closing takes a bet without a closing line whose game has started at
\* the scan's clock.  (Slips: or whose game has no kickoff; or has yet to start.)
DueNoKickoff(s) == closing = None /\ (StartSeen(s) # None => StartSeen(s) <= now[s])
DueAtAnyTime(s) == closing = None /\ StartSeen(s) # None
Due(s) == closing = None /\ StartSeen(s) # None /\ StartSeen(s) <= now[s]

---------------------------------------------------------------------------
(* The world outside.                                                      *)

Tick ==
    /\ clock < MaxTime
    /\ clock' = clock + 1
    /\ UNCHANGED <<venue, moved, table, txn, pc, now, id, pick, closing, faults>>

\* The venue corrects a kickoff, announces one, or drops it from one market.
Announce(type, t) ==
    /\ moved < MaxMoves
    /\ t # venue[type]
    /\ venue' = [venue EXCEPT ![type] = t]
    /\ moved' = moved + 1
    /\ UNCHANGED <<clock, table, txn, pc, now, id, pick, closing, faults>>

---------------------------------------------------------------------------
(* One scan.                                                               *)

\* run_scan_default reads the clock.
ScanRequest(s) ==
    /\ pc[s] = "idle"
    /\ now' = [now EXCEPT ![s] = clock]
    /\ Goto(s, "begin")
    /\ UNCHANGED <<clock, venue, moved, table, txn, id, pick, closing, faults>>

\* run_scan flushes the Scan row, which takes the write lock and an id.
\* (Slip: the row is committed, and the lock given back, at once.)
ScanBeginCommitted(s) ==
    /\ pc[s] = "begin" /\ CanWrite(s) /\ NextId \in Ids
    /\ id' = [id EXCEPT ![s] = NextId]
    /\ scans' = scans \cup {NextId}
    /\ Goto(s, "leagues")
    /\ UNCHANGED <<clock, venue, moved, snaps, start, txn, now, pick, closing, faults>>
ScanBegin(s) ==
    /\ pc[s] = "begin" /\ CanWrite(s) /\ NextId \in Ids
    /\ id' = [id EXCEPT ![s] = NextId]
    /\ writer' = s
    /\ Goto(s, "leagues")
    /\ UNCHANGED <<clock, venue, moved, table, txSnaps, txStart, now, pick, closing, faults>>

\* The lock is kept for 30 s by another scan (or the bound on ids is reached).
ScanLocked(s) ==
    /\ pc[s] = "begin" /\ (~CanWrite(s) \/ NextId \notin Ids)
    /\ Goto(s, "idle")
    /\ now' = [now EXCEPT ![s] = 0]
    /\ UNCHANGED <<clock, venue, moved, table, txn, id, pick, closing, faults>>

\* _scan_league: the game's row follows the markets the venue lists, none to
\* two of them in any order; a books scan that matches one of them stores what
\* the books say.
ScanLeague(s) ==
    /\ pc[s] = "leagues" /\ CanWrite(s)
    /\ writer' = s
    /\ \E first, second \in Types \cup {None} :
        /\ first = second => first = None
        /\ txStart' = KickoffOf(KickoffOf(StartSeen(s), first), second)
        /\ \/ txSnaps' = SnapsSeen(s)
           \/ /\ {type \in {first, second} \ {None} : Tradable(type, now[s])} # {}
              /\ txSnaps' = SnapsSeen(s) \cup
                    {[scan |-> id[s], stamp |-> now[s], taken |-> clock]}
    /\ Goto(s, "import")
    /\ UNCHANGED <<clock, venue, moved, table, now, id, pick, closing, faults>>

\* The wallet import commits if it made a bet; looking up the markets of open
\* bets writes neither kickoffs nor snapshots.
ScanImport(s) ==
    /\ pc[s] = "import"
    /\ Commit(s) \/ UNCHANGED <<table, txn>>
    /\ Goto(s, "capture")
    /\ UNCHANGED <<clock, venue, moved, now, id, pick, closing, faults>>

\* capture_closing reads: the bet is due and a snapshot qualifies.
ScanCaptureRead(s) ==
    /\ pc[s] = "capture"
    /\ LET x == Newest(Candidates(s))
       IN pick' = [pick EXCEPT ![s] =
            IF Due(s) /\ Candidates(s) # {}
            THEN {[scan |-> x.scan, stamp |-> x.stamp, taken |-> x.taken,
                   start |-> StartSeen(s)]}
            ELSE {}]
    /\ Goto(s, "captureWrite")
    /\ UNCHANGED <<clock, venue, moved, table, txn, now, id, closing, faults>>

\* capture_closing stores what it has read and commits.
ScanCaptureWrite(s) ==
    /\ pc[s] = "captureWrite"
    /\ \/ pick[s] = {} /\ UNCHANGED <<closing, table, txn>>
       \/ pick[s] # {} /\ closing' \in pick[s] /\ Commit(s)
    /\ pick' = [pick EXCEPT ![s] = {}]
    /\ Goto(s, "finish")
    /\ UNCHANGED <<clock, venue, moved, now, id, faults>>

Forget(s) ==
    /\ now' = [now EXCEPT ![s] = 0]
    /\ id' = [id EXCEPT ![s] = 0]
    /\ pick' = [pick EXCEPT ![s] = {}]

\* Settlement, the forward test and the last commit.
ScanFinish(s) ==
    /\ pc[s] = "finish"
    /\ Commit(s)
    /\ Forget(s)
    /\ Goto(s, "idle")
    /\ UNCHANGED <<clock, venue, moved, closing, faults>>

\* An exception in run_scan (also "database is locked"): roll back ...
ScanFails(s) ==
    /\ pc[s] \in Phases \ {"idle", "begin", "failed"}
    /\ \/ Fault
       \/ ~CanWrite(s) /\ UNCHANGED faults
          /\ (pc[s] = "finish" \/ (pc[s] = "captureWrite" /\ pick[s] # {}))
    /\ Rollback(s)
    /\ pick' = [pick EXCEPT ![s] = {}]
    /\ Goto(s, "failed")
    /\ UNCHANGED <<clock, venue, moved, table, now, id, closing>>

\* ... and merge the Scan row again, under the id it had, which another scan may have
\* been given meanwhile.  Then the INSERT fails; or, if that row is committed when merge
\* looks, it is an UPDATE of the other scan's row, and the table has the id once still.
ScanRecordsFailure(s) ==
    /\ pc[s] = "failed"
    /\ \/ CanWrite(s) /\ scans' = scans \cup {id[s]}
       \/ UNCHANGED scans /\ (~CanWrite(s) \/ id[s] \in scans)
    /\ Forget(s)
    /\ Goto(s, "idle")
    /\ UNCHANGED <<clock, venue, moved, snaps, start, txn, closing, faults>>

Init ==
    /\ clock = 0
    /\ venue \in [Types -> Kickoffs \cup {None}]
    /\ moved = 0
    /\ scans = {} /\ snaps = {} /\ start = None
    /\ txSnaps = {} /\ txStart = None /\ writer = None
    /\ pc = [s \in Scanners |-> "idle"]
    /\ now = [s \in Scanners |-> 0]
    /\ id = [s \in Scanners |-> 0]
    /\ pick = [s \in Scanners |-> {}]
    /\ closing = None
    /\ faults = 0

ScanStep(s) ==
    \/ ScanRequest(s) \/ ScanBegin(s) \/ ScanLocked(s) \/ ScanLeague(s)
    \/ ScanImport(s) \/ ScanCaptureRead(s) \/ ScanCaptureWrite(s)
    \/ ScanFinish(s) \/ ScanFails(s) \/ ScanRecordsFailure(s)

Next ==
    \/ Tick
    \/ \E type \in Types, t \in Kickoffs \cup {None} : Announce(type, t)
    \/ \E s \in Scanners : ScanStep(s)

Spec == Init /\ [][Next]_vars

---------------------------------------------------------------------------
(* Properties.                                                             *)

\* Every variable stays in its type.
TypeOK ==
    /\ clock \in Times
    /\ venue \in [Types -> Kickoffs \cup {None}]
    /\ moved \in 0..MaxMoves
    /\ scans \subseteq Ids
    /\ snaps \subseteq Snapshot /\ txSnaps \subseteq Snapshot
    /\ start \in Kickoffs \cup {None} /\ txStart \in Kickoffs \cup {None}
    /\ writer \in Scanners \cup {None}
    /\ pc \in [Scanners -> Phases]
    /\ now \in [Scanners -> Times]
    /\ id \in [Scanners -> Ids \cup {0}]
    /\ pick \in [Scanners -> SUBSET Line]
    /\ closing \in Line \cup {None}
    /\ faults \in 0..MaxFaults

\* The snapshots stored under one scan id are one scan's, also when SQLite
\* hands the id of a scan that was rolled back to the next one.
OneScanPerId ==
    \A x, y \in snaps : x.scan = y.scan => x = y

\* "The last snapshot taken before kickoff": whatever another process commits
\* around the capture, no stored snapshot that was really taken before the
\* kickoff is later than the one a capture picks.
PicksTheLatest ==
    [][\A s \in Scanners : pick'[s] # pick[s] =>
        \A line \in pick'[s], x \in snaps :
            x.taken < line.start => x.taken <= line.taken]_pick

\* A sibling market never drags the kickoff backwards: while the moneyline's
\* own time stands, no scan moves a kickoff that is not before it to before it.
SiblingNeverBackwards ==
    [][(/\ moved = 0
        /\ venue["moneyline"] # None
        /\ start # None /\ start' # None
        /\ start >= venue["moneyline"])
            => start' >= venue["moneyline"]]_start

\* "The first capture wins" (bets.py:315): two processes may both have read the bet
\* without a closing line, and the second to commit writes over the first.  As long
\* as the two saw one kickoff and snapshots taken before it, they have the same one.
CapturesAgree ==
    [][(/\ closing # None
        /\ closing.taken < closing.start /\ closing'.taken < closing'.start
        /\ closing'.start = closing.start)
            => closing' = closing]_closing

\* capture_closing: "Nothing fetched after the start is used".
NothingFetchedAfterStart ==
    closing # None => closing.taken <= closing.start
============================================================================
