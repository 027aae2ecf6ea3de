---------------------------- MODULE OnlineDelete ----------------------------
(***************************************************************************)
(* Online deletion (app/misc/SHAMapStoreImp.cpp) over the rotating node    *)
(* store (nodestore/impl/DatabaseRotatingImp, DatabaseImp.h).  Nodes are   *)
(* written to one backend and read from two; every deleteInterval ledgers  *)
(* the thread SHAMapStoreImp::run clears old rows, copies the state of the *)
(* validated ledger and the cached nodes to the writable backend, makes a  *)
(* new one, and drops the older.  Meanwhile the server builds ledgers and  *)
(* reads nodes, health comes and goes, and the process may die.            *)
(***************************************************************************)
EXTENDS Integers, FiniteSets, Sequences, FiniteSetsExt, Functions

CONSTANTS
    Node,            \* the nodes of state trees, by hash
    State,           \* the nodes of each ledger's state tree
    Backend,         \* names of backend directories, 1 and 2 among them
    DeleteInterval,  \* deleteInterval
    DeleteBatch,     \* setup_.deleteBatch
    CanDeletes,      \* what can_delete may be set to; empty without advisoryDelete
    MaxLead,         \* bound on how far closed ledgers are ahead of the validated one
    MaxCrashes       \* bound on the times the process dies

Always == Len(State)     \* canDelete_ without advisory deletion

ASSUME OnlineDeleteAssumption ==
    /\ State \in Seq(SUBSET Node) /\ Len(State) > 1
    /\ IsFiniteSet(Node)
    /\ {1, 2} \subseteq Backend
    /\ DeleteInterval \in Nat \ {0} /\ DeleteBatch \in Nat \ {0}
    /\ CanDeletes \subseteq 0..Always
    /\ {MaxCrashes, MaxLead} \subseteq Nat

VARIABLES
    state_db_,    \* the saved state: its two names, lastRotated and canDelete
    disk,         \* the directories that exist, and the nodes readable in each
    table,        \* the number before which each table has no rows
    db,           \* the open database: two backends, and what is cached
    run,          \* the thread, and the members it shares under its mutex
    chain,        \* ledgers: closed, being written, validated; nodes rotated late
    reader,       \* a thread in doFetch
    crashes

durable == <<state_db_, disk, table>>
vars == <<durable, db, run, chain, reader, crashes>>

None == 0
Table == {"Ledgers", "Transactions", "AccountTransactions"}

(* The server has just rotated at ledger 1, whose nodes are cached. *)
Init ==
    /\ state_db_ = [writableDb |-> 1, archiveDb |-> 2, lastRotated |-> 1,
                    canDelete |-> IF CanDeletes = {} THEN Always ELSE 0]
    /\ disk = [b \in {1, 2} |-> IF b = 1 THEN {} ELSE State[1]]
    /\ table = [t \in Table |-> 1]
    /\ db = [writable |-> 1, archive |-> 2, cache |-> State[1]]
    /\ run = [at |-> "top", seq |-> None, lastRotated |-> 1, todo |-> {},
              spare |-> None, healthy_ |-> TRUE, newLedger_ |-> None,
              stop_ |-> FALSE, woken |-> FALSE]
    /\ chain = [closed |-> 1, todo |-> {}, storing |-> <<>>, valid |-> 1,
                first |-> 1, late |-> {}]
    /\ reader = [at |-> "idle", key |-> None, from |-> None]
    /\ crashes = 0
-----------------------------------------------------------------------------
(* The node store. *)

(* Backend::store, after which the node can be read.  A backend whose      *)
(* directory is gone loses it.                                             *)
Store(b, k) == disk' = [c \in DOMAIN disk |-> disk[c] \cup {n \in {k} : c = b}]

(* DatabaseRotatingImp::fetchFrom, in a thread that no rotation overtakes: a *)
(* node found in the archive is stored in the writable backend.            *)
fetchFrom(k) ==
    IF k \notin disk[db.writable] /\ k \in disk[db.archive]
    THEN Store(db.writable, k) ELSE UNCHANGED disk

(* DatabaseImp::doFetch for a node of the validated ledger that m_cache     *)
(* does not have: the writable backend, then the archive.                  *)
FetchStart(k) ==
    /\ reader.at = "idle"
    /\ chain.valid # None /\ k \in State[chain.valid] \ db.cache
    /\ reader' = [at |-> "writable", key |-> k, from |-> chain.valid]
    /\ UNCHANGED <<durable, db, run, chain, crashes>>

(* Fault: the archive is read first. *)
ArchiveFirst == <<db.archive, db.writable>>

(* The backends in the order in which fetchFrom reads them. *)
Backends == <<db.writable, db.archive>>

(* getBackends takes rotateMutex, which a rotation holds; the struct it    *)
(* returns refers to the members, so each is read when it is used.         *)
FetchWritable ==
    /\ reader.at = "writable" /\ run.at # "rotate"
    /\ IF reader.key \in disk[Backends[1]]
       THEN /\ reader' = [reader EXCEPT !.at = "idle"]
            /\ db' = [db EXCEPT !.cache = @ \cup {reader.key}]
       ELSE reader' = [reader EXCEPT !.at = "archive"] /\ UNCHANGED db
    /\ UNCHANGED <<durable, run, chain, crashes>>

FetchArchive ==
    /\ reader.at = "archive"
    /\ reader' = [reader EXCEPT
                    !.at = IF reader.key \in disk[Backends[2]] THEN "copy" ELSE "missed"]
    /\ UNCHANGED <<durable, db, run, chain, crashes>>

(* getWritableBackend takes rotateMutex again. *)
FetchCopy ==
    /\ reader.at = "copy" /\ run.at # "rotate"
    /\ Store(db.writable, reader.key)
    /\ db' = [db EXCEPT !.cache = @ \cup {reader.key}]
    /\ reader' = [reader EXCEPT !.at = "idle"]
    /\ UNCHANGED <<state_db_, table, run, chain, crashes>>

(* The caller gets no node. *)
FetchMissed ==
    /\ reader.at = "missed"
    /\ reader' = [reader EXCEPT !.at = "idle"]
    /\ UNCHANGED <<durable, db, run, chain, crashes>>

(* Caches age. *)
Sweep(k) ==
    /\ k \in db.cache
    /\ db' = [db EXCEPT !.cache = @ \ {k}]
    /\ UNCHANGED <<durable, run, chain, reader, crashes>>
-----------------------------------------------------------------------------
(* The server's ledgers. *)

Stored(n) == n < chain.closed \/ (n = chain.closed /\ chain.todo = {} /\ chain.storing = <<>>)

(* A ledger is closed on the last one, or, after a start, the network's    *)
(* ledger is acquired.  Its new nodes are written next.  A server that is   *)
(* stopping does neither.                                                  *)
CloseLedger(n) ==
    /\ ~run.stop_
    /\ chain.todo = {} /\ chain.storing = <<>>
    /\ IF chain.closed = None
       THEN n >= state_db_.lastRotated
       ELSE n = chain.closed + 1 /\ n <= chain.valid + MaxLead
    /\ chain' = [chain EXCEPT
                   !.closed = n,
                   !.todo = State[n] \ IF chain.closed = None THEN {} ELSE State[chain.closed]]
    /\ UNCHANGED <<durable, db, run, reader, crashes>>

(* An acquisition fetches what the store has; the rest comes from peers.   *)
FindNode(k) ==
    /\ k \in chain.todo /\ chain.storing = <<>> /\ chain.first = None
    /\ k \in disk[db.writable] \cup disk[db.archive]
    /\ fetchFrom(k)
    /\ chain' = [chain EXCEPT !.todo = @ \ {k}]
    /\ UNCHANGED <<state_db_, table, db, run, reader, crashes>>

(* DatabaseImp::storeInternal with the writable backend of the moment: the *)
(* cache, then the backend.                                                *)
StoreNode(k) ==
    /\ k \in chain.todo /\ chain.storing = <<>> /\ run.at # "rotate"
    /\ chain.first = None => k \notin disk[db.writable] \cup disk[db.archive]
    /\ db' = [db EXCEPT !.cache = @ \cup {k}]
    /\ chain' = [chain EXCEPT !.todo = @ \ {k}, !.storing = <<k, db.writable>>]
    /\ UNCHANGED <<durable, run, reader, crashes>>

StoreWrite ==
    /\ chain.storing # <<>>
    /\ Store(chain.storing[2], chain.storing[1])
    /\ chain' = [chain EXCEPT !.storing = <<>>]
    /\ UNCHANGED <<state_db_, table, db, run, reader, crashes>>

(* LedgerMaster::setValidLedger, with onLedgerClosed. *)
onLedgerClosed(n) ==
    run' = [run EXCEPT !.newLedger_ = n, !.woken = @ \/ run.at = "waiting"]

Validate(n) ==
    /\ n > chain.valid /\ Stored(n) /\ (chain.first = None => n = chain.closed)
    /\ chain' = [chain EXCEPT !.valid = n, !.first = IF @ = None THEN n ELSE @]
    /\ onLedgerClosed(n)
    /\ UNCHANGED <<durable, db, reader, crashes>>
-----------------------------------------------------------------------------
(* SHAMapStoreImp::run. *)

(* Fault: health is what it is now, and an aborted part is forgotten. *)
healthNow(well) == IF run.stop_ THEN "stopping" ELSE IF well THEN "ok" ELSE "unhealthy"

(* health(), when the mode is full and the validated ledger young, or not:  *)
(* a stop is seen first, and an unhealthy moment is remembered until the   *)
(* thread is back at the top of its loop.                                  *)
health(well) ==
    IF run.stop_ THEN "stopping" ELSE IF run.healthy_ /\ well THEN "ok" ELSE "unhealthy"

healthyAfter(well) == run.healthy_ /\ (run.stop_ \/ well)

(* "switch (health())" between two parts of a rotation. *)
Switch(from, to, todo) ==
    /\ run.at = from
    /\ \E well \in BOOLEAN :
          run' = [run EXCEPT !.healthy_ = healthyAfter(well), !.todo = todo,
                             !.at = CASE health(well) = "stopping" -> "stopped"
                                      [] health(well) = "unhealthy" -> "top"
                                      [] OTHER -> to]

(* Part of the work, unless health() says not to go on. *)
Work(well, from, onward, aborted) ==
    /\ run.at = from
    /\ run' = [run EXCEPT !.healthy_ = healthyAfter(well),
                          !.at = IF health(well) = "ok" THEN onward ELSE aborted]

RunTop ==
    /\ run.at = "top"
    /\ run' = [run EXCEPT !.healthy_ = TRUE,
                          !.at = IF run.stop_ THEN "stopped" ELSE "waiting"]
    /\ UNCHANGED <<durable, db, chain, reader, crashes>>

(* The wait has no predicate: it ends with a notification, or without one. *)
RunWake(spurious) ==
    /\ run.at = "waiting" /\ (run.woken \/ spurious)
    /\ LET seq == run.newLedger_
           last == IF run.lastRotated = None THEN seq ELSE run.lastRotated
           due == seq >= last + DeleteInterval /\ state_db_.canDelete >= last - 1
       IN  IF seq = None
           THEN run' = [run EXCEPT !.at = "top", !.woken = FALSE] /\ UNCHANGED state_db_
           ELSE /\ run' = [run EXCEPT !.at = IF due THEN "begin" ELSE "top", !.seq = seq,
                                      !.newLedger_ = None, !.lastRotated = last,
                                      !.woken = FALSE]
                /\ state_db_' = [state_db_ EXCEPT !.lastRotated = last]
    /\ UNCHANGED <<disk, table, db, chain, reader, crashes>>

RunBegin ==
    /\ Switch("begin", "clear", {})
    /\ UNCHANGED <<durable, db, chain, reader, crashes>>

(* clearPrior: mCompleteLedgers, then the rows, table by table and batch   *)
(* by batch; "cleared" is its return.  Which ledgers are complete is        *)
(* LedgerAdvance's.                                                        *)
ClearPriorLedgers ==
    /\ \E well \in BOOLEAN : Work(well, "clear", "Ledgers", "cleared")
    /\ UNCHANGED <<durable, db, chain, reader, crashes>>

(* One round of clearSql: the oldest rows, a batch of them. *)
ClearSql(t, next) ==
    LET oldest == Min({run.lastRotated, table[t] + DeleteBatch})
    IN  /\ \E well \in BOOLEAN :
              /\ Work(well, t, IF oldest = run.lastRotated THEN next ELSE t, "cleared")
              /\ table' = [table EXCEPT ![t] = IF health(well) = "ok" THEN oldest ELSE @]
        /\ UNCHANGED <<state_db_, disk, db, chain, reader, crashes>>

ClearRows ==
    \/ ClearSql("Ledgers", "Transactions")
    \/ ClearSql("Transactions", "AccountTransactions")
    \/ ClearSql("AccountTransactions", "cleared")

RunCleared ==
    /\ Switch("cleared", "copy", State[run.seq])
    /\ UNCHANGED <<durable, db, chain, reader, crashes>>

(* visitNodes with copyNode, and freshenCache: fetchNode of one node more,  *)
(* then health().  An abort leaves the rest.                               *)
Visit(from, to) ==
    /\ run.at = from
    /\ \/ /\ run.todo = {}
          /\ run' = [run EXCEPT !.at = to]
          /\ UNCHANGED disk
       \/ \E k \in run.todo, well \in BOOLEAN :
             /\ fetchFrom(k)
             /\ run' = [run EXCEPT !.todo = @ \ {k}, !.healthy_ = healthyAfter(well),
                                   !.at = IF health(well) = "ok" THEN from ELSE to]
    /\ UNCHANGED <<state_db_, table, db, chain, reader, crashes>>

CopyNodes == Visit("copy", "copied")

(* Fault: the caches are not freshened. *)
RunCopiedOnly ==
    /\ Switch("copied", "freshen", {})
    /\ UNCHANGED <<durable, db, chain, reader, crashes>>

RunCopied ==
    /\ Switch("copied", "freshen", db.cache)
    /\ UNCHANGED <<durable, db, chain, reader, crashes>>

freshenCaches == Visit("freshen", "fresh")

RunFresh ==
    /\ Switch("fresh", "make", {})
    /\ UNCHANGED <<durable, db, chain, reader, crashes>>

(* makeBackendRotating: a directory of a new name, while names last.       *)
MakeBackend ==
    /\ run.at = "make" /\ Backend \ DOMAIN disk # {}
    /\ LET b == CHOOSE b \in Backend \ DOMAIN disk : TRUE
       IN  /\ disk' = [c \in DOMAIN disk \cup {b} |-> IF c = b THEN {} ELSE disk[c]]
           /\ run' = [run EXCEPT !.at = "made", !.spare = b]
    /\ UNCHANGED <<state_db_, table, db, chain, reader, crashes>>

(* An unhealthy server leaves the directory behind. *)
RunMade ==
    /\ Switch("made", "save", {})
    /\ UNCHANGED <<durable, db, chain, reader, crashes>>

(* Fault: the archive that is about to go is saved as the archive. *)
SetStateStale ==
    /\ run.at = "save"
    /\ state_db_' = [state_db_ EXCEPT !.writableDb = run.spare, !.archiveDb = db.archive,
                                      !.lastRotated = run.seq]
    /\ run' = [run EXCEPT !.at = "rotate", !.lastRotated = run.seq]
    /\ UNCHANGED <<disk, table, db, chain, reader, crashes>>

(* Under rotateMutex: the state is saved, then the backends are exchanged. *)
SetState ==
    /\ run.at = "save"
    /\ state_db_' = [state_db_ EXCEPT !.writableDb = run.spare, !.archiveDb = db.writable,
                                      !.lastRotated = run.seq]
    /\ run' = [run EXCEPT !.at = "rotate", !.lastRotated = run.seq]
    /\ UNCHANGED <<disk, table, db, chain, reader, crashes>>

(* The nodes that ledgers an interval and more after the rotation's have   *)
(* added before the backends are exchanged.  The next rotation may be for  *)
(* a ledger that does not have them, and drop the backend they went to.    *)
Late ==
    UNION {State[n] \ State[m] : n, m \in (run.seq + DeleteInterval)..chain.closed}

(* chain.late is history: the code does not know which nodes these are.    *)
rotateBackends ==
    /\ run.at = "rotate"
    /\ db' = [db EXCEPT !.writable = run.spare, !.archive = db.writable]
    /\ run' = [run EXCEPT !.at = "delete", !.spare = db.archive]
    /\ chain' = [chain EXCEPT !.late = @ \cup Late]
    /\ UNCHANGED <<durable, reader, crashes>>

(* setDeletePath, and the end of the last reference to the old backend.    *)
DeleteOld ==
    /\ run.at = "delete"
    /\ disk' = Restrict(disk, DOMAIN disk \ {run.spare})
    /\ run' = [run EXCEPT !.at = "top"]
    /\ UNCHANGED <<state_db_, table, db, chain, reader, crashes>>
-----------------------------------------------------------------------------
(* The rest of the server. *)

(* onStop. *)
OnStop ==
    /\ ~run.stop_
    /\ run' = [run EXCEPT !.stop_ = TRUE, !.woken = @ \/ run.at = "waiting"]
    /\ UNCHANGED <<durable, db, chain, reader, crashes>>

(* setCanDelete, from the can_delete command. *)
SetCanDelete(c) ==
    /\ state_db_' = [state_db_ EXCEPT !.canDelete = c]
    /\ UNCHANGED <<disk, table, db, run, chain, reader, crashes>>

(* The process dies, at any point, and is started again.  dbPaths removes  *)
(* the directories the saved state does not name and refuses to start when *)
(* one that it names is missing.                                           *)
Restart ==
    /\ crashes < MaxCrashes
    /\ crashes' = crashes + 1
    /\ LET named == {state_db_.writableDb, state_db_.archiveDb}
       IN  /\ disk' = IF named \subseteq DOMAIN disk THEN Restrict(disk, named) ELSE disk
           /\ run' = [at |-> IF named \subseteq DOMAIN disk THEN "top" ELSE "failed",
                      seq |-> None, lastRotated |-> state_db_.lastRotated, todo |-> {},
                      spare |-> None, healthy_ |-> TRUE, newLedger_ |-> None,
                      stop_ |-> FALSE, woken |-> FALSE]
    /\ db' = [writable |-> state_db_.writableDb, archive |-> state_db_.archiveDb,
              cache |-> {}]
    /\ chain' = [closed |-> None, todo |-> {}, storing |-> <<>>, valid |-> None,
                 first |-> None, late |-> {}]
    /\ reader' = [at |-> "idle", key |-> None, from |-> None]
    /\ UNCHANGED <<state_db_, table>>
-----------------------------------------------------------------------------
Fetch == (\E k \in Node : FetchStart(k)) \/ FetchWritable \/ FetchArchive \/ FetchCopy
           \/ FetchMissed
Ledgers == (\E n \in 1..Len(State) : CloseLedger(n) \/ Validate(n))
             \/ (\E k \in Node : FindNode(k) \/ StoreNode(k)) \/ StoreWrite
Run == RunTop \/ RunWake(FALSE) \/ RunBegin \/ ClearPriorLedgers \/ ClearRows \/ RunCleared
         \/ CopyNodes \/ RunCopied \/ freshenCaches \/ RunFresh \/ MakeBackend \/ RunMade
         \/ SetState \/ rotateBackends \/ DeleteOld
Next == Fetch \/ Ledgers \/ Run \/ RunWake(TRUE) \/ OnStop \/ Restart
          \/ (\E k \in Node : Sweep(k))
          \/ (\E c \in CanDeletes : SetCanDelete(c))

Spec == Init /\ [][Next]_vars
-----------------------------------------------------------------------------
(* The nodes the two open backends have. *)
Held == disk[db.writable] \cup disk[db.archive]
StoringNode == IF chain.storing = <<>> THEN {} ELSE {chain.storing[1]}

(* The ledgers since the last rotation, and the one it was made for, are   *)
(* whole: no rotation, aborted rotation, store or fetch that races with it *)
(* loses a node of a state on which transactions are processed, unless the *)
(* exchange of a rotation came so late that the node was there before it.  *)
CurrentLedgersAreWhole ==
    chain.valid # None =>
        \A n \in Max({chain.first, state_db_.lastRotated})..chain.valid :
            State[n] \ chain.late \subseteq Held

(* A cached node is in the store: the caches are freshened before the old  *)
(* backend goes, so nothing that is used from memory is lost on its sweep. *)
CachedNodesAreStored == db.cache \ chain.late \subseteq Held \cup StoringNode

(* fetchFrom finds a node that every validated ledger has had since the    *)
(* fetch began, although the backends may be exchanged between its reads.  *)
FetchFindsValidated ==
    reader.at = "missed" /\ reader.from # None =>
        \/ reader.key \in chain.late
        \/ \E n \in reader.from..chain.valid : reader.key \notin State[n]

(* Whenever the process dies, the saved state names two backends that are  *)
(* on disk, so that dbPaths lets it start.                                 *)
RestartFindsBackends ==
    /\ state_db_.writableDb # state_db_.archiveDb
    /\ {state_db_.writableDb, state_db_.archiveDb} \subseteq DOMAIN disk

(* A thread that waits when a stop has been asked for has been notified: it *)
(* cannot sleep through onStop, although it waits without a predicate.     *)
StopIsNoticed == run.stop_ /\ run.at = "waiting" => run.woken

(* A late rotation loses nothing either. *)
LateLedgersAreWhole ==
    chain.valid # None =>
        \A n \in Max({chain.first, state_db_.lastRotated})..chain.valid : State[n] \subseteq Held
=============================================================================
