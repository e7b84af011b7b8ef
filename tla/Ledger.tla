------------------------------ MODULE Ledger ------------------------------
(***************************************************************************)
(* The bet ledger and the sessions that write it.                          *)
(*                                                                         *)
(* The web process runs scans (a worker thread of POST /scan, or the       *)
(* scheduler's job) and answers the owner's forms; the command line runs   *)
(* scans and wallet imports in processes of its own.  They share one       *)
(* SQLite file in WAL mode.  A SELECT reads the last committed state and   *)
(* takes no lock; the first INSERT or UPDATE a session sends takes the     *)
(* file's only write lock and keeps it until COMMIT or ROLLBACK.  A        *)
(* session that finds the lock taken waits 30 s at most, then fails with   *)
(* "database is locked".                                                   *)
(*                                                                         *)
(* run_scan sends its Scan row before any network call, so it holds the    *)
(* write lock from there to its first COMMIT: the one in import_fills, or  *)
(* capture_closing, or settle_open_bets, or its own last one, whichever    *)
(* has something to commit first.  Between two of these commits other      *)
(* sessions write.                                                         *)
(*                                                                         *)
(* Bet rows are only ever sent by the flush inside a COMMIT, so "bets" is  *)
(* always committed; market rows and book snapshots are sent earlier, and  *)
(* "txRows" and "txSnaps" are what the lock's holder sees of them.         *)
(***************************************************************************)
EXTENDS Integers, FiniteSets, Functions

CONSTANTS
    Procs,          \* operating-system processes
    Scanners,       \* sessions that call run_scan_default
    Owners,         \* sessions of the owner's bet forms (web process)
    Importers,      \* sessions of `python -m app.cli import-wallet`
    ProcOf,         \* the process each session belongs to
    Markets,        \* Polymarket markets, each on a game of its own
    Bets,           \* ledger row ids; the bound on the number of bets
    Fills,          \* import keys: "<transactionHash>:<asset>"
    FillMarket,     \* the market a fill bought
    FillToken,      \* the outcome a fill bought
    OwnerTokens,    \* the outcomes the owner's bet form is opened on
    OwnerResults,   \* the results the owner's settle form sends
    MaxFaults,      \* bound on crashes, failed scans and failed lookups
    None

Sessions == Scanners \cup Owners \cup Importers

Outcomes == {"A", "B"}

\* What the venue reports of a market: still trading, closed without a
\* result, resolved to an outcome, or resolved 50/50.
Resolved == Outcomes \cup {"push"}
Listing == {"open", "closed"} \cup Resolved

\* SETTLE_RESULTS: what the settle form accepts.
SettleResults == {"won", "lost", "void", "push"}

ASSUME ConstantsOK ==
    /\ ProcOf \in [Sessions -> Procs]
    /\ FillMarket \in [Fills -> Markets]
    /\ FillToken \in [Fills -> Outcomes]
    /\ OwnerTokens \subseteq Outcomes
    /\ OwnerResults \subseteq SettleResults
    /\ MaxFaults \in Nat
    /\ Markets # {}
    /\ None \notin Sessions \cup Fills \cup SettleResults

\* The three kinds of session are different programs.
ASSUME SessionsDisjoint ==
    /\ Scanners \cap Owners = {}
    /\ Scanners \cap Importers = {}
    /\ Owners \cap Importers = {}

VARIABLES
    venue,      \* [Markets -> Listing]: what the venue would answer now
    started,    \* markets whose game has kicked off
    filled,     \* [Fills -> {"no", "pregame", "inplay"}]: the wallet's buys
    bets,       \* the bets table
    rows,       \* the markets table, committed: absent, open or closed
    snaps,      \* markets whose line the last stored pre-kickoff snapshot of
                \* their game quotes, committed
    txRows,     \* the markets table as the lock's holder sees it
    txSnaps,    \* the snapshots as the lock's holder sees them
    writer,     \* the session holding SQLite's write lock, or None
    scanLock,   \* SCAN_LOCK of each process: the session holding it, or None
    pc,         \* where each session is
    kicked,     \* [Scanners -> ...]: games started at the scan's `now`
    found,      \* [Scanners -> ...]: state.markets_by_id
    todo,       \* bets a session has read and means to update
    pending,    \* fills a session has read and means to insert
    verdict,    \* the result in the owner's settle form, as a singleton or {}
    slip,       \* the market and outcome of the owner's bet form, likewise
    faults      \* crashes and failures so far

world == <<venue, started, filled>>
store == <<bets, rows, snaps>>
txn == <<txRows, txSnaps, writer>>
local == <<kicked, found, todo, pending>>
forms == <<verdict, slip>>
vars == <<world, store, txn, scanLock, pc, local, forms, faults>>

Status == {"absent", "open"} \cup SettleResults
BetRow == [market : Markets, token : Outcomes, status : Status,
           key : Fills \cup {None}, closing : BOOLEAN]
RowState == {"absent", "open", "closed"}

\* An id the bets table has not used yet.
NoBet == [market |-> CHOOSE m \in Markets : TRUE, token |-> "A",
          status |-> "absent", key |-> None, closing |-> FALSE]

ScanPhases == {"begin", "leagues", "import", "importWrite", "fetch", "capture",
               "captureWrite", "settle", "settleWrite", "finish"}
Phases == {"idle", "settling", "logging", "importing"} \cup ScanPhases

---------------------------------------------------------------------------
(* Reading the ledger.                                                     *)

Present(b) == bets[b].status # "absent"
IsOpen(b) == bets[b].status = "open"
FreeIds == {b \in Bets : ~Present(b)}

\* known_keys of import_fills.
KnownKeys == {bets[b].key : b \in {c \in Bets : Present(c)}} \ {None}

\* The bound on the ledger: the owner's form leaves an id for every fill.
Room == Cardinality(FreeIds) > Cardinality(Fills \ KnownKeys)

\* settle_open_bets: the result a resolved market gives a bet.
\* (Slip: a 50/50 resolution taken for a loss.)
ResultIgnoringPush(b, listing) == IF bets[b].token = listing THEN "won" ELSE "lost"
ResultOf(b, listing) ==
    IF listing = "push" THEN "push"
    ELSE IF bets[b].token = listing THEN "won" ELSE "lost"

\* upsert_market stores the venue's closed flag.  (Slip: the listing itself.)
RowOfRaw(listing) == listing
RowOf(listing) == IF listing = "open" THEN "open" ELSE "closed"

\* import_fills keeps a buy of a known market, made before kickoff, whose key
\* the ledger does not hold yet.  (Slip: known keys not looked up.)
ImportableAgain(table) ==
    {f \in Fills : filled[f] = "pregame" /\ table[FillMarket[f]] # "absent"}
Importable(table) ==
    {f \in Fills : /\ filled[f] = "pregame"
                   /\ f \notin KnownKeys
                   /\ table[FillMarket[f]] # "absent"}

\* The markets table and the snapshots as session s sees them.
RowsSeen(s) == IF writer = s THEN txRows ELSE rows
SnapsSeen(s) == IF writer = s THEN txSnaps ELSE snaps

CanWrite(s) == writer \in {None, s}

---------------------------------------------------------------------------
(* Transactions and locks.                                                 *)

\* (Slip: the transaction stays open.)
CommitHoldingLock(s, newRows) ==
    CanWrite(s) /\ rows' = newRows /\ snaps' = txSnaps /\ UNCHANGED txn

\* COMMIT: what the session wrote becomes what every session reads.
CommitRows(s, newRows) ==
    /\ CanWrite(s)
    /\ rows' = newRows
    /\ snaps' = txSnaps
    /\ txRows' = newRows
    /\ txSnaps' = txSnaps
    /\ writer' = None

Commit(s) == CommitRows(s, txRows)

\* ROLLBACK of session s, if it holds the lock.
Rollback(s) ==
    /\ IF writer = s
       THEN txRows' = rows /\ txSnaps' = snaps /\ writer' = None
       ELSE UNCHANGED txn
    /\ UNCHANGED store

Goto(s, phase) == pc' = [pc EXCEPT ![s] = phase]

Fault == faults < MaxFaults /\ faults' = faults + 1

\* The finally of run_scan_default.  (Slip: SCAN_LOCK kept.)
KeepScanLock(s) == UNCHANGED scanLock
ReleaseScanLock(s) ==
    scanLock' = [p \in Procs |-> IF scanLock[p] = s THEN None ELSE scanLock[p]]

Unseen == [m \in Markets |-> "unseen"]

\* A finished, failed or killed scan leaves nothing in memory.
ForgetScan(s) ==
    /\ kicked' = [kicked EXCEPT ![s] = {}]
    /\ found' = [found EXCEPT ![s] = Unseen]
    /\ todo' = [todo EXCEPT ![s] = {}]
    /\ pending' = [pending EXCEPT ![s] = {}]

\* One INSERT per fill, all in one transaction; SQLite picks the ids.
InsertFills(fs) ==
    LET ids == Injection(fs, FreeIds)
        id == CHOOSE g \in ids : TRUE
        rowOf(f) == [market |-> FillMarket[f], token |-> FillToken[f],
                     status |-> "open", key |-> f, closing |-> FALSE]
    IN /\ ids # {}
       /\ bets' = [b \in Bets |->
            IF \E f \in fs : id[f] = b THEN rowOf(CHOOSE f \in fs : id[f] = b) ELSE bets[b]]

---------------------------------------------------------------------------
(* The world outside.                                                      *)

Kickoff(m) ==
    /\ m \notin started
    /\ started' = started \cup {m}
    /\ UNCHANGED <<venue, filled, store, txn, scanLock, pc, local, forms, faults>>

\* A market closes, with its result or ahead of it; a result is final.
Resolve(m, listing) ==
    /\ \/ venue[m] = "open" /\ listing # "open"
       \/ venue[m] = "closed" /\ listing \in Resolved
    /\ venue' = [venue EXCEPT ![m] = listing]
    /\ UNCHANGED <<started, filled, store, txn, scanLock, pc, local, forms, faults>>

\* The owner buys on Polymarket, before kickoff or in play.
BuyOnVenue(f) ==
    /\ filled[f] = "no"
    /\ venue[FillMarket[f]] = "open"
    /\ filled' = [filled EXCEPT ![f] =
                    IF FillMarket[f] \in started THEN "inplay" ELSE "pregame"]
    /\ UNCHANGED <<venue, started, store, txn, scanLock, pc, local, forms, faults>>

---------------------------------------------------------------------------
(* run_scan_default and run_scan.                                          *)

\* SCAN_LOCK is taken without blocking (ScanBusy changes nothing); `now` is
\* read once, here, and serves the whole scan.
ScanRequest(s) ==
    /\ pc[s] = "idle"
    /\ scanLock[ProcOf[s]] = None
    /\ scanLock' = [scanLock EXCEPT ![ProcOf[s]] = s]
    /\ kicked' = [kicked EXCEPT ![s] = started]
    /\ Goto(s, "begin")
    /\ UNCHANGED <<world, store, txn, found, todo, pending, forms, faults>>

\* The Scan row is flushed before any network call.  (Slip: it is only added
\* to the session, so nothing takes the lock before the import.)
ScanBeginUnflushed(s) ==
    /\ pc[s] = "begin"
    /\ Goto(s, "leagues")
    /\ UNCHANGED <<world, store, txn, scanLock, local, forms, faults>>
ScanBegin(s) ==
    /\ pc[s] = "begin"
    /\ CanWrite(s)
    /\ writer' = s
    /\ Goto(s, "leagues")
    /\ UNCHANGED <<world, store, txRows, txSnaps, scanLock, local, forms, faults>>

\* Another session kept the lock for 30 s: the flush raises ahead of the
\* try block and only run_scan_default's finally runs.
ScanLocked(s) ==
    /\ pc[s] = "begin"
    /\ ~CanWrite(s)
    /\ Goto(s, "idle")
    /\ ReleaseScanLock(s)
    /\ ForgetScan(s)
    /\ UNCHANGED <<world, store, txn, forms, faults>>

\* Every league: the listed markets are upserted; a matched game that had not
\* started at `now` may get a fresh book snapshot, which quotes the market's line
\* or not; stored_book_game reads the last snapshot and no older one, so a fresh
\* one without the line takes the market out.
ScanLeagues(s) ==
    /\ pc[s] = "leagues"
    /\ \E seen \in SUBSET Markets :
        /\ found' = [found EXCEPT ![s] =
                [m \in Markets |-> IF m \in seen THEN venue[m] ELSE "unseen"]]
        /\ txRows' = [m \in Markets |->
                IF m \in seen THEN RowOf(venue[m]) ELSE txRows[m]]
        /\ \E fresh \in SUBSET {m \in seen : venue[m] = "open" /\ m \notin kicked[s]} :
           \E quoted \in SUBSET fresh :
               txSnaps' = (txSnaps \ fresh) \cup quoted
    /\ Goto(s, "import")
    /\ UNCHANGED <<world, store, writer, scanLock, kicked, todo, pending, forms, faults>>

\* import_fills reads the known keys and builds the rows; with no wallet set,
\* or when the venue does not answer, there is nothing to insert.
ScanImportRead(s) ==
    /\ pc[s] = "import"
    /\ pending' = [pending EXCEPT ![s] = Importable(RowsSeen(s))]
       \/ pending' = [pending EXCEPT ![s] = {}]
    /\ Goto(s, "importWrite")
    /\ UNCHANGED <<world, store, txn, scanLock, kicked, found, todo, forms, faults>>

\* import_fills commits only when it made a bet.
ScanImportWrite(s) ==
    /\ pc[s] = "importWrite"
    /\ IF pending[s] = {}
       THEN UNCHANGED <<store, txn>>
       ELSE InsertFills(pending[s]) /\ Commit(s)
    /\ pending' = [pending EXCEPT ![s] = {}]
    /\ Goto(s, "fetch")
    /\ UNCHANGED <<world, scanLock, kicked, found, todo, forms, faults>>

\* Markets of open bets that the slate did not list.  (Slip: none looked up.)
NoneMissing(s) == {}
Missing(s) ==
    {m \in Markets : found[s][m] = "unseen" /\ \E b \in Bets : IsOpen(b) /\ bets[b].market = m}

\* _markets_for_open_bets: one lookup per missing market, an upsert for each
\* answer.  A lookup that fails is a fault and leaves its market out.
ScanFetch(s) ==
    /\ pc[s] = "fetch"
    /\ \E got \in SUBSET Missing(s) :
        /\ IF got = Missing(s) THEN UNCHANGED faults ELSE Fault
        /\ IF got = {} THEN UNCHANGED writer ELSE CanWrite(s) /\ writer' = s
        /\ found' = [found EXCEPT ![s] =
                [m \in Markets |-> IF m \in got THEN venue[m] ELSE found[s][m]]]
        /\ txRows' = [m \in Markets |->
                IF m \in got THEN RowOf(venue[m]) ELSE txRows[m]]
    /\ Goto(s, "capture")
    /\ UNCHANGED <<world, store, txSnaps, scanLock, kicked, todo, pending, forms>>

\* Bets that are not void, lack a closing line, and whose game had started at
\* `now`.  _closing_fair values the line in the game's last pre-kickoff snapshot; when
\* that one does not quote it the bet is passed over, now and by every later scan.
\* (Slip: open bets only.)
OpenClosingDue(s) ==
    {b \in Bets : /\ IsOpen(b) /\ ~bets[b].closing
                  /\ bets[b].market \in kicked[s] \cap SnapsSeen(s)}
ClosingDue(s) ==
    {b \in Bets : /\ bets[b].status \notin {"absent", "void"}
                  /\ ~bets[b].closing
                  /\ bets[b].market \in kicked[s] \cap SnapsSeen(s)}

\* capture_closing, the SELECT.
ScanCaptureRead(s) ==
    /\ pc[s] = "capture"
    /\ todo' = [todo EXCEPT ![s] = ClosingDue(s)]
    /\ Goto(s, "captureWrite")
    /\ UNCHANGED <<world, store, txn, scanLock, kicked, found, pending, forms, faults>>

\* capture_closing, the UPDATE and COMMIT.
ScanCaptureWrite(s) ==
    /\ pc[s] = "captureWrite"
    /\ IF todo[s] = {}
       THEN UNCHANGED <<store, txn>>
       ELSE /\ bets' = [b \in Bets |->
                    IF b \in todo[s] THEN [bets[b] EXCEPT !.closing = TRUE] ELSE bets[b]]
            /\ Commit(s)
    /\ todo' = [todo EXCEPT ![s] = {}]
    /\ Goto(s, "settle")
    /\ UNCHANGED <<world, scanLock, kicked, found, pending, forms, faults>>

\* settle_open_bets, the SELECT: open bets on a market seen resolved.
ScanSettleRead(s) ==
    /\ pc[s] = "settle"
    /\ todo' = [todo EXCEPT ![s] =
            {b \in Bets : IsOpen(b) /\ found[s][bets[b].market] \in Resolved}]
    /\ Goto(s, "settleWrite")
    /\ UNCHANGED <<world, store, txn, scanLock, kicked, found, pending, forms, faults>>

\* settle_open_bets, the UPDATEs and COMMIT: the bets get their result and
\* their markets' rows are marked closed.
ScanSettleWrite(s) ==
    /\ pc[s] = "settleWrite"
    /\ IF todo[s] = {}
       THEN UNCHANGED <<store, txn>>
       ELSE /\ bets' = [b \in Bets |->
                    IF b \in todo[s]
                    THEN [bets[b] EXCEPT !.status = ResultOf(b, found[s][bets[b].market])]
                    ELSE bets[b]]
            /\ CommitRows(s, [m \in Markets |->
                    IF \E b \in todo[s] : bets[b].market = m THEN "closed" ELSE txRows[m]])
    /\ todo' = [todo EXCEPT ![s] = {}]
    /\ Goto(s, "finish")
    /\ UNCHANGED <<world, scanLock, kicked, found, pending, forms, faults>>

\* Markets of forward samples not seen yet are looked up and upserted, the
\* scan COMMITs for the last time and run_scan_default releases SCAN_LOCK.
ScanFinish(s) ==
    /\ pc[s] = "finish"
    /\ \E got \in SUBSET {m \in Markets : found[s][m] = "unseen"} :
           CommitRows(s, [m \in Markets |-> IF m \in got THEN RowOf(venue[m]) ELSE txRows[m]])
    /\ Goto(s, "idle")
    /\ ReleaseScanLock(s)
    /\ ForgetScan(s)
    /\ UNCHANGED <<world, bets, forms, faults>>

\* The scan must write and another session keeps the lock for 30 s.
Blocked(s) ==
    /\ ~CanWrite(s)
    /\ \/ pc[s] = "fetch" /\ Missing(s) # {}
       \/ pc[s] \in {"captureWrite", "settleWrite"} /\ todo[s] # {}
       \/ pc[s] = "finish"

\* An exception leaves run_scan: what was not committed is rolled back.
ScanAbort(s) ==
    /\ pc[s] \in ScanPhases \ {"begin"}
    /\ \/ Blocked(s) /\ UNCHANGED faults
       \/ Fault
    /\ Rollback(s)
    /\ Goto(s, "idle")
    /\ ReleaseScanLock(s)
    /\ ForgetScan(s)
    /\ UNCHANGED <<world, forms>>

ScanStep(s) ==
    \/ ScanBegin(s) \/ ScanLeagues(s) \/ ScanImportRead(s) \/ ScanImportWrite(s)
    \/ ScanFetch(s) \/ ScanCaptureRead(s) \/ ScanCaptureWrite(s)
    \/ ScanSettleRead(s) \/ ScanSettleWrite(s) \/ ScanFinish(s)

---------------------------------------------------------------------------
(* The owner's forms: POST /bets and POST /bets/{id}/settle.               *)

\* settle_bet_manual reads the bet and refuses one that is not open.
OwnerAsksSettle(o) ==
    /\ pc[o] = "idle"
    /\ \E b \in Bets, r \in OwnerResults :
        /\ IsOpen(b)
        /\ todo' = [todo EXCEPT ![o] = {b}]
        /\ verdict' = [verdict EXCEPT ![o] = {r}]
    /\ Goto(o, "settling")
    /\ UNCHANGED <<world, store, txn, scanLock, kicked, found, pending, slip, faults>>

\* Its UPDATE names the bet by id only.
OwnerSettles(o) ==
    /\ pc[o] = "settling"
    /\ \E r \in verdict[o] :
        bets' = [b \in Bets |->
            IF b \in todo[o] THEN [bets[b] EXCEPT !.status = r] ELSE bets[b]]
    /\ Commit(o)
    /\ todo' = [todo EXCEPT ![o] = {}]
    /\ verdict' = [verdict EXCEPT ![o] = {}]
    /\ Goto(o, "idle")
    /\ UNCHANGED <<world, scanLock, kicked, found, pending, slip, faults>>

\* create_bet reads the market of an opportunity of any scan, however old, and
\* refuses one that is closed.  (That some scan once priced the market is not asked
\* for here: the last snapshot need not quote it any more.)
OwnerAsksLog(o) ==
    /\ pc[o] = "idle"
    /\ \E m \in Markets, t \in OwnerTokens :
        /\ rows[m] = "open"
        /\ slip' = [slip EXCEPT ![o] = {<<m, t>>}]
    /\ Goto(o, "logging")
    /\ UNCHANGED <<world, store, txn, scanLock, local, verdict, faults>>

OwnerLogs(o) ==
    /\ pc[o] = "logging"
    /\ Room
    /\ FreeIds # {}
    /\ \E form \in slip[o] :
        bets' = [bets EXCEPT ![CHOOSE b \in FreeIds : TRUE] =
            [market |-> form[1], token |-> form[2], status |-> "open",
             key |-> None, closing |-> FALSE]]
    /\ Commit(o)
    /\ slip' = [slip EXCEPT ![o] = {}]
    /\ Goto(o, "idle")
    /\ UNCHANGED <<world, scanLock, local, verdict, faults>>

\* The form answers "database is locked" (or the ledger bound is reached).
OwnerFails(o) ==
    /\ \/ pc[o] \in {"settling", "logging"} /\ ~CanWrite(o)
       \/ pc[o] = "logging" /\ ~Room
    /\ todo' = [todo EXCEPT ![o] = {}]
    /\ verdict' = [verdict EXCEPT ![o] = {}]
    /\ slip' = [slip EXCEPT ![o] = {}]
    /\ Goto(o, "idle")
    /\ UNCHANGED <<world, store, txn, scanLock, kicked, found, pending, faults>>

---------------------------------------------------------------------------
(* `python -m app.cli import-wallet`: import_fills without SCAN_LOCK and   *)
(* without a Scan row, so without the write lock while it reads.           *)

ImportRead(i) ==
    /\ pc[i] = "idle"
    /\ Importable(rows) # {}
    /\ pending' = [pending EXCEPT ![i] = Importable(rows)]
    /\ Goto(i, "importing")
    /\ UNCHANGED <<world, store, txn, scanLock, kicked, found, todo, forms, faults>>

ImportWrite(i) ==
    /\ pc[i] = "importing"
    /\ InsertFills(pending[i])
    /\ Commit(i)
    /\ pending' = [pending EXCEPT ![i] = {}]
    /\ Goto(i, "idle")
    /\ UNCHANGED <<world, scanLock, kicked, found, todo, forms, faults>>

\* "database is locked" (or the ledger bound is reached).
ImportFails(i) ==
    /\ pc[i] = "importing"
    /\ ~CanWrite(i) \/ FreeIds = {}
    /\ pending' = [pending EXCEPT ![i] = {}]
    /\ Goto(i, "idle")
    /\ UNCHANGED <<world, store, txn, scanLock, kicked, found, todo, forms, faults>>

---------------------------------------------------------------------------
\* A process dies: its sessions and its SCAN_LOCK vanish, SQLite rolls back
\* what they had not committed.
Crash(p) ==
    LET dead == {s \in Sessions : ProcOf[s] = p}
    IN /\ \E s \in dead : pc[s] # "idle"
       /\ Fault
       /\ pc' = [s \in Sessions |-> IF s \in dead THEN "idle" ELSE pc[s]]
       /\ kicked' = [s \in Scanners |-> IF s \in dead THEN {} ELSE kicked[s]]
       /\ found' = [s \in Scanners |-> IF s \in dead THEN Unseen ELSE found[s]]
       /\ todo' = [s \in Sessions |-> IF s \in dead THEN {} ELSE todo[s]]
       /\ pending' = [s \in Sessions |-> IF s \in dead THEN {} ELSE pending[s]]
       /\ verdict' = [o \in Owners |-> IF o \in dead THEN {} ELSE verdict[o]]
       /\ slip' = [o \in Owners |-> IF o \in dead THEN {} ELSE slip[o]]
       /\ scanLock' = [scanLock EXCEPT ![p] = None]
       /\ IF writer \in dead
          THEN txRows' = rows /\ txSnaps' = snaps /\ writer' = None
          ELSE UNCHANGED txn
       /\ UNCHANGED <<world, store>>

Init ==
    /\ venue = [m \in Markets |-> "open"]
    /\ started = {}
    /\ filled = [f \in Fills |-> "no"]
    /\ bets = [b \in Bets |-> NoBet]
    /\ rows = [m \in Markets |-> "absent"]
    /\ snaps = {}
    /\ txRows = rows
    /\ txSnaps = {}
    /\ writer = None
    /\ scanLock = [p \in Procs |-> None]
    /\ pc = [s \in Sessions |-> "idle"]
    /\ kicked = [s \in Scanners |-> {}]
    /\ found = [s \in Scanners |-> Unseen]
    /\ todo = [s \in Sessions |-> {}]
    /\ pending = [s \in Sessions |-> {}]
    /\ verdict = [o \in Owners |-> {}]
    /\ slip = [o \in Owners |-> {}]
    /\ faults = 0

World ==
    \/ \E m \in Markets : Kickoff(m) \/ \E l \in Listing : Resolve(m, l)
    \/ \E f \in Fills : BuyOnVenue(f)

Next ==
    \/ World
    \/ \E s \in Scanners : ScanRequest(s) \/ ScanStep(s) \/ ScanLocked(s) \/ ScanAbort(s)
    \/ \E o \in Owners : \/ OwnerAsksSettle(o) \/ OwnerSettles(o)
                         \/ OwnerAsksLog(o) \/ OwnerLogs(o) \/ OwnerFails(o)
    \/ \E i \in Importers : ImportRead(i) \/ ImportWrite(i) \/ ImportFails(i)
    \/ \E p \in Procs : Crash(p)

Spec == Init /\ [][Next]_vars

\* Every scanner, the scheduler's job or a scan command run by a timer (books-scan.cmd),
\* asks for a scan again and again, and a thread that runs one takes its next step.
\* Nothing is asked of the owner's forms, of wallet imports or of a killed process.
Fairness ==
    \A s \in Scanners : WF_vars(ScanRequest(s)) /\ WF_vars(ScanStep(s))

LiveSpec == Spec /\ Fairness

---------------------------------------------------------------------------
(* Properties.                                                             *)

\* Every variable stays in its type.
TypeOK ==
    /\ venue \in [Markets -> Listing]
    /\ started \subseteq Markets
    /\ filled \in [Fills -> {"no", "pregame", "inplay"}]
    /\ bets \in [Bets -> BetRow]
    /\ rows \in [Markets -> RowState] /\ txRows \in [Markets -> RowState]
    /\ snaps \subseteq Markets /\ txSnaps \subseteq Markets
    /\ writer \in Sessions \cup {None}
    /\ scanLock \in [Procs -> Scanners \cup {None}]
    /\ pc \in [Sessions -> Phases]
    /\ kicked \in [Scanners -> SUBSET Markets]
    /\ found \in [Scanners -> [Markets -> Listing \cup {"unseen"}]]
    /\ todo \in [Sessions -> SUBSET Bets]
    /\ pending \in [Sessions -> SUBSET Fills]
    /\ verdict \in [Owners -> SUBSET OwnerResults]
    /\ slip \in [Owners -> SUBSET (Markets \X Outcomes)]
    /\ faults \in 0..MaxFaults

\* SCAN_LOCK of a process is held by exactly the session of that process that
\* is inside run_scan_default, and SQLite's lock by a session that is still
\* inside a scan: no early return, timeout, exception or crash leaves either
\* lock behind (run_scan_default's two finally blocks, scan_job's finally).
LocksBelongToRunningScans ==
    /\ \A p \in Procs, s \in Scanners :
          scanLock[p] = s <=> ProcOf[s] = p /\ pc[s] # "idle"
    /\ writer # None => writer \in Scanners /\ pc[writer] \in ScanPhases \ {"begin"}

\* From the flush of its Scan row until its import has committed a scan keeps the
\* write lock, across all of its network calls: no other session, in any process,
\* commits between what the scan reads and what it inserts, and nobody gets a scan
\* id before its fetches are done.  Module Closing's order of ids and fetches and the
\* import's known keys rest on it (scan.py:695-698).
FetchesAlone ==
    \A s \in Scanners : pc[s] \in {"leagues", "import", "importWrite"} => writer = s

\* What the two locks are for: each is a running scan's, and given back by it, and
\* while one scan fetches and imports no other does.
ScansKeepApart == LocksBelongToRunningScans /\ FetchesAlone

\* A wallet buy is one ledger row however many scans import it, in one process
\* or in several (wallet_import: "a re-import is a no-op").
ImportedOnce ==
    \A b, c \in Bets :
        (Present(b) /\ Present(c) /\ bets[b].key # None /\ bets[b].key = bets[c].key)
            => b = c

\* A result the app wrote is the venue's own result for that bet's outcome,
\* and the market's committed row is closed (settle_open_bets), however old
\* the lookup it was read from and whatever another scan wrote meanwhile.
SettledAsResolved ==
    \A b \in Bets : bets[b].status \in {"won", "lost", "push"} =>
        /\ venue[bets[b].market] \in Resolved
        /\ bets[b].status = "push" <=> venue[bets[b].market] = "push"
        /\ bets[b].status = "won" <=> venue[bets[b].market] = bets[b].token
        /\ rows[bets[b].market] = "closed"

\* A settled bet is never settled again: settle_bet_manual refuses "already
\* settled" bets and settle_open_bets selects open ones only.
SettledOnce ==
    [][\A b \in Bets : bets[b].status \in SettleResults
            => bets'[b].status = bets[b].status]_bets

\* Every open bet whose market has resolved is settled by some later scan,
\* the market having left the active slate or not.
ResolvedBetsGetSettled ==
    \A b \in Bets :
        (IsOpen(b) /\ venue[bets[b].market] \in Resolved) ~> ~IsOpen(b)

\* A bet on a started game whose last pre-kickoff snapshot quotes its line gets its
\* closing line from some later scan, also when it was settled first, unless it is
\* voided or a scan that began before kickoff still stores a last snapshot without
\* the line.  A bet whose last pre-kickoff snapshot lacks its line never gets one,
\* although an older snapshot may quote it (bets.py:326-328).
StartedBetsGetClosing ==
    \A b \in Bets :
        (Present(b) /\ bets[b].market \in started \cap snaps)
            ~> \/ bets[b].closing
               \/ bets[b].status = "void"
               \/ bets[b].market \notin snaps

\* No session keeps the write lock for ever: whatever fails, the others can
\* write again.
WriteLockReleased == \A s \in Sessions : writer = s ~> writer # s

\* The ledger keeps the promises of LedgerPromise: a buy is recorded once, a
\* bet is settled once, a closing line is recorded once and never on a void.
Promise == INSTANCE LedgerPromise WITH
    status <- [b \in Bets |-> bets[b].status],
    key <- [b \in Bets |-> bets[b].key],
    closing <- [b \in Bets |-> bets[b].closing]

KeepsPromises == Promise!Spec
===========================================================================
