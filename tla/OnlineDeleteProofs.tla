------------------------ MODULE OnlineDeleteProofs ------------------------
(* A server that dies at any point of a rotation finds its backends, and a *)
(* stop is not slept through: for any interval, batch, ledgers and nodes,  *)
(* and any number of crashes.  No node of a current ledger is lost, cached *)
(* without being stored, or missed by a reader, but for those that the     *)
(* exchange of a late rotation came after.                                 *)
EXTENDS OnlineDelete, TLAPS

(* The prover of the leaves that name none. *)
USE SMTT(30)

(* The fields of the records. *)
Fields ==
    /\ DOMAIN run = {"at", "seq", "lastRotated", "todo", "spare", "healthy_", "newLedger_",
                     "stop_", "woken"}
    /\ DOMAIN chain = {"closed", "todo", "storing", "valid", "first", "late"}
    /\ DOMAIN state_db_ = {"writableDb", "archiveDb", "lastRotated", "canDelete"}
    /\ DOMAIN db = {"writable", "archive", "cache"}

(* The names: outside of the exchange the saved state names the backends   *)
(* that are open, inside it the ones that will be; the third directory is  *)
(* the new one, and then the old one.                                      *)
BackendNames ==
    /\ {db.writable, db.archive} \subseteq DOMAIN disk /\ db.writable # db.archive
    /\ run.at = "rotate" => state_db_.writableDb = run.spare /\ state_db_.archiveDb = db.writable
    /\ run.at # "rotate" => state_db_.writableDb = db.writable /\ state_db_.archiveDb = db.archive
    /\ run.at \in {"made", "save", "rotate", "delete"} =>
           run.spare \in DOMAIN disk \ {db.writable, db.archive}

DeleteInv == Fields /\ BackendNames /\ StopIsNoticed

(* The server starts with the two backends its state names. *)
LEMMA InitInv == Init => DeleteInv
  <1> SUFFICES ASSUME Init PROVE DeleteInv
    OBVIOUS
  <1>1. Fields
    BY DEF Init, Fields
  <1>2. BackendNames
    BY OnlineDeleteAssumption DEF Init, BackendNames
  <1>3. StopIsNoticed
    BY Zenon DEF Init, StopIsNoticed
  <1> QED
    BY <1>1, <1>2, <1>3 DEF DeleteInv

(* A step that is not the thread's and makes and removes no directory      *)
(* keeps the invariant.                                                    *)
LEMMA AsideStep ==
    ASSUME DeleteInv, run' = run,
           db'.writable = db.writable, db'.archive = db.archive,
           state_db_'.writableDb = state_db_.writableDb,
           state_db_'.archiveDb = state_db_.archiveDb,
           DOMAIN chain' = DOMAIN chain, DOMAIN db' = DOMAIN db,
           DOMAIN state_db_' = DOMAIN state_db_, DOMAIN disk' = DOMAIN disk
    PROVE  DeleteInv'
  <1>1. Fields'
    BY DEF DeleteInv, Fields
  <1>2. BackendNames'
    BY DEF DeleteInv, BackendNames
  <1>3. StopIsNoticed'
    BY DEF DeleteInv, StopIsNoticed
  <1> QED
    BY <1>1, <1>2, <1>3 DEF DeleteInv

(* Fetches, sweeps, new ledgers and the can_delete command. *)
LEMMA AsideInv ==
    ASSUME DeleteInv,
           \/ Fetch \/ StoreWrite \/ \E k \in Node : Sweep(k) \/ FindNode(k) \/ StoreNode(k)
           \/ \E n \in 1..Len(State) : CloseLedger(n)
           \/ \E c \in CanDeletes : SetCanDelete(c)
    PROVE  DeleteInv'
  <1> USE DEF DeleteInv, Fields
  <1>1. CASE Fetch
    BY <1>1, AsideStep, Zenon DEF Fetch, FetchStart, FetchWritable, FetchArchive, FetchCopy, FetchMissed,
                           Store, durable
  <1>2. CASE StoreWrite
    BY <1>2, AsideStep DEF StoreWrite, Store
  <1>3. ASSUME NEW k \in Node, Sweep(k) PROVE DeleteInv'
    BY <1>3, AsideStep DEF Sweep, durable
  <1>4. ASSUME NEW k \in Node, FindNode(k) PROVE DeleteInv'
    BY <1>4, AsideStep DEF FindNode, fetchFrom, Store
  <1>5. ASSUME NEW k \in Node, StoreNode(k) PROVE DeleteInv'
    BY <1>5, AsideStep, Zenon DEF StoreNode, durable
  <1>6. ASSUME NEW n \in 1..Len(State), CloseLedger(n) PROVE DeleteInv'
    BY <1>6, AsideStep, Zenon DEF CloseLedger, durable
  <1>7. ASSUME NEW c \in CanDeletes, SetCanDelete(c) PROVE DeleteInv'
    BY <1>7, AsideStep DEF SetCanDelete
  <1> QED
    BY <1>1, <1>2, <1>3, <1>4, <1>5, <1>6, <1>7, Zenon

(* onStop and onLedgerClosed notify a thread that waits. *)
LEMMA NotifyInv ==
    ASSUME DeleteInv, OnStop \/ \E n \in 1..Len(State) : Validate(n)
    PROVE  DeleteInv'
  <1>0. Fields
    BY DEF DeleteInv
  <1>1. /\ run'.at = run.at /\ DOMAIN run' = DOMAIN run /\ run'.spare = run.spare
        /\ DOMAIN chain' = DOMAIN chain /\ UNCHANGED <<state_db_, disk, db>>
    BY <1>0, Zenon DEF Fields, OnStop, Validate, onLedgerClosed, durable
  <1>2. run'.woken = (run.woken \/ run.at = "waiting")
    BY <1>0, Zenon DEF Fields, OnStop, Validate, onLedgerClosed
  <1>3. Fields'
    BY <1>0, <1>1 DEF Fields
  <1>4. BackendNames'
    BY <1>1 DEF DeleteInv, BackendNames
  <1>5. StopIsNoticed'
    BY <1>1, <1>2, Zenon DEF StopIsNoticed
  <1> QED
    BY <1>3, <1>4, <1>5 DEF DeleteInv

(* What a switch on health() does to the thread. *)
LEMMA SwitchStep ==
    ASSUME Fields, NEW from, NEW to, NEW todo, Switch(from, to, todo)
    PROVE  /\ run.at = from /\ run'.at \in {"top", "stopped", to}
           /\ DOMAIN run' = DOMAIN run /\ run'.seq = run.seq /\ run'.lastRotated = run.lastRotated
           /\ run'.newLedger_ = run.newLedger_ /\ run'.spare = run.spare
  BY DEF Fields, Switch

(* What a part of the work does to the thread. *)
LEMMA WorkStep ==
    ASSUME Fields, NEW well, NEW from, NEW onward, NEW aborted, Work(well, from, onward, aborted)
    PROVE  /\ run.at = from /\ run'.at = IF health(well) = "ok" THEN onward ELSE aborted
           /\ DOMAIN run' = DOMAIN run /\ run'.seq = run.seq /\ run'.lastRotated = run.lastRotated
           /\ run'.newLedger_ = run.newLedger_ /\ run'.spare = run.spare
  BY DEF Fields, Work

(* The lines of run at which no third directory is open. *)
Before == {"top", "stopped", "begin", "clear", "cleared", "copy", "copied", "freshen", "fresh",
           "make"} \cup Table

(* A step of the thread to such a line. *)
LEMMA BeforeStep ==
    ASSUME DeleteInv, UNCHANGED <<db, chain>>, DOMAIN disk' = DOMAIN disk,
           state_db_'.writableDb = state_db_.writableDb,
           state_db_'.archiveDb = state_db_.archiveDb, DOMAIN state_db_' = DOMAIN state_db_,
           DOMAIN run' = DOMAIN run, run'.at \in Before, run.at # "rotate"
    PROVE  DeleteInv'
  <1> USE DEF DeleteInv, Before, Table
  <1>1. Fields'
    BY DEF Fields
  <1>2. BackendNames'
    BY DEF BackendNames
  <1>3. StopIsNoticed'
    BY DEF StopIsNoticed
  <1> QED
    BY <1>1, <1>2, <1>3

(* One round of clearSql for a table. *)
LEMMA ClearSqlStep ==
    ASSUME DeleteInv, NEW t, NEW next, ClearSql(t, next)
    PROVE  /\ run.at = t /\ run'.at \in {t, next, "cleared"}
           /\ DOMAIN run' = DOMAIN run /\ run'.seq = run.seq /\ run'.lastRotated = run.lastRotated
           /\ run'.newLedger_ = run.newLedger_ /\ UNCHANGED <<state_db_, disk, db, chain, reader>>
  <1>1. PICK well \in BOOLEAN, onward \in {t, next} : Work(well, t, onward, "cleared")
    BY Zenon DEF ClearSql
  <1>2. UNCHANGED <<state_db_, disk, db, chain, reader>>
    BY Zenon DEF ClearSql
  <1> QED
    BY <1>1, <1>2, WorkStep DEF DeleteInv

(* The parts of a rotation before the new backend, and the switches around *)
(* them.                                                                   *)
LEMMA BeforeInv ==
    ASSUME DeleteInv,
           \/ RunBegin \/ ClearPriorLedgers \/ ClearRows \/ RunCleared \/ CopyNodes \/ RunCopied
           \/ freshenCaches \/ RunFresh
    PROVE  DeleteInv'
  <1>0. Fields
    BY DEF DeleteInv
  <1>1. ASSUME NEW from \in {"begin", "cleared", "copied", "fresh"},
               NEW to \in {"clear", "copy", "freshen", "make"}, NEW todo,
               Switch(from, to, todo), UNCHANGED <<state_db_, disk, db, chain>>
        PROVE  DeleteInv'
    <2>1. run.at = from /\ run'.at \in {"top", "stopped", to} /\ DOMAIN run' = DOMAIN run
      BY <1>0, <1>1, SwitchStep
    <2>2. run'.at \in Before /\ run.at # "rotate"
      BY <2>1 DEF Before
    <2> QED
      BY <1>1, <2>1, <2>2, BeforeStep, Zenon
  <1>2. CASE RunBegin
    BY <1>1, <1>2, Zenon DEF RunBegin, durable
  <1>3. CASE RunCleared
    BY <1>1, <1>3, Zenon DEF RunCleared, durable
  <1>4. CASE RunCopied
    BY <1>1, <1>4, Zenon DEF RunCopied, durable
  <1>5. CASE RunFresh
    BY <1>1, <1>5, Zenon DEF RunFresh, durable
  <1>6. CASE ClearPriorLedgers
    <2>1. PICK well \in BOOLEAN : Work(well, "clear", "Ledgers", "cleared")
      BY <1>6, Zenon DEF ClearPriorLedgers
    <2>2. run.at = "clear" /\ run'.at \in {"Ledgers", "cleared"} /\ DOMAIN run' = DOMAIN run
      BY <1>0, <2>1, WorkStep
    <2>3. run'.at \in Before /\ run.at # "rotate"
      BY <2>2 DEF Before, Table
    <2> QED
      BY <1>6, <2>2, <2>3, BeforeStep, Zenon DEF ClearPriorLedgers, durable
  <1>7. CASE ClearRows
    <2>1. PICK t \in Table, next \in {"Transactions", "AccountTransactions", "cleared"} :
              ClearSql(t, next)
      BY <1>7 DEF ClearRows, Table
    <2>2. /\ run.at = t /\ run'.at \in {t, next, "cleared"} /\ DOMAIN run' = DOMAIN run
          /\ UNCHANGED <<state_db_, disk, db, chain>>
      BY <2>1, ClearSqlStep
    <2>3. run'.at \in Before /\ run.at # "rotate"
      BY <2>2 DEF Before, Table
    <2> QED
      BY <2>2, <2>3, BeforeStep, Zenon
  <1>8. ASSUME NEW from \in {"copy", "freshen"}, NEW to \in {"copied", "fresh"}, Visit(from, to)
        PROVE  DeleteInv'
    <2>1. run.at = from /\ run'.at \in {from, to} /\ DOMAIN run' = DOMAIN run
      BY <1>0, <1>8, Zenon DEF Visit, Fields
    <2>2. DOMAIN disk' = DOMAIN disk /\ UNCHANGED <<state_db_, db, chain>>
      BY <1>8, Zenon DEF Visit, fetchFrom, Store
    <2>3. run'.at \in Before /\ run.at # "rotate"
      BY <2>1 DEF Before
    <2> QED
      BY <2>1, <2>2, <2>3, BeforeStep, Zenon
  <1> QED
    BY <1>2, <1>3, <1>4, <1>5, <1>6, <1>7, <1>8, Zenon DEF CopyNodes, freshenCaches

(* The top of the loop: the thread waits only when no stop was asked for. *)
LEMMA RunTopInv ==
    ASSUME DeleteInv, RunTop
    PROVE  DeleteInv'
  <1> USE DEF DeleteInv, Fields, RunTop, durable
  <1>1. /\ run.at = "top" /\ run'.at = IF run.stop_ THEN "stopped" ELSE "waiting"
        /\ run'.stop_ = run.stop_
    OBVIOUS
  <1>2. Fields'
    OBVIOUS
  <1>3. BackendNames'
    BY <1>1 DEF BackendNames
  <1>4. StopIsNoticed'
    BY <1>1 DEF StopIsNoticed
  <1> QED
    BY <1>2, <1>3, <1>4

(* A wake-up, with or without a rotation that is due. *)
LEMMA RunWakeInv ==
    ASSUME DeleteInv, NEW spurious, RunWake(spurious)
    PROVE  DeleteInv'
  <1>0. Fields
    BY DEF DeleteInv
  <1>1. run.at = "waiting" /\ UNCHANGED <<disk, db, chain>>
    BY Zenon DEF RunWake
  <1>2. /\ run'.at \in {"top", "begin"} /\ DOMAIN run' = DOMAIN run
        /\ state_db_'.writableDb = state_db_.writableDb
        /\ state_db_'.archiveDb = state_db_.archiveDb /\ DOMAIN state_db_' = DOMAIN state_db_
    BY <1>0, Zenon DEF RunWake, Fields
  <1>3. run'.at \in Before /\ run.at # "rotate"
    BY <1>1, <1>2 DEF Before
  <1> QED
    BY <1>1, <1>2, <1>3, BeforeStep, Zenon

(* makeBackendRotating takes a name that no directory has. *)
LEMMA MakeBackendInv ==
    ASSUME DeleteInv, MakeBackend
    PROVE  DeleteInv'
  <1> DEFINE b == CHOOSE b \in Backend \ DOMAIN disk : TRUE
  <1>1. run.at = "make" /\ Backend \ DOMAIN disk # {} /\ UNCHANGED <<state_db_, db, chain>>
    BY DEF MakeBackend
  <1>2. b \in Backend \ DOMAIN disk
    BY <1>1
  <1>3. /\ disk' = [c \in DOMAIN disk \cup {b} |-> IF c = b THEN {} ELSE disk[c]]
        /\ run' = [run EXCEPT !.at = "made", !.spare = b]
    BY DEF MakeBackend
  <1> HIDE DEF b
  <1>4. /\ DOMAIN disk' = DOMAIN disk \cup {b} /\ run'.at = "made" /\ run'.spare = b
        /\ DOMAIN run' = DOMAIN run
    BY <1>3 DEF DeleteInv, Fields
  <1>5. Fields'
    BY <1>1, <1>4 DEF DeleteInv, Fields
  <1>6. BackendNames' /\ StopIsNoticed'
    BY <1>1, <1>2, <1>4, Zenon DEF DeleteInv, BackendNames, StopIsNoticed
  <1> QED
    BY <1>5, <1>6 DEF DeleteInv

(* The switch after it: an unhealthy server leaves the directory behind. *)
LEMMA RunMadeInv ==
    ASSUME DeleteInv, RunMade
    PROVE  DeleteInv'
  <1>1. /\ run.at = "made" /\ run'.at \in {"top", "stopped", "save"}
        /\ DOMAIN run' = DOMAIN run /\ run'.spare = run.spare
        /\ UNCHANGED <<state_db_, disk, db, chain>>
    BY SwitchStep DEF DeleteInv, RunMade, durable
  <1>2. Fields'
    BY <1>1 DEF DeleteInv, Fields
  <1>3. BackendNames'
    BY <1>1 DEF DeleteInv, BackendNames
  <1>4. StopIsNoticed'
    BY <1>1 DEF StopIsNoticed
  <1> QED
    BY <1>2, <1>3, <1>4 DEF DeleteInv

(* The saved state names the backends that will be open. *)
LEMMA SetStateInv ==
    ASSUME DeleteInv, SetState
    PROVE  DeleteInv'
  <1>1. /\ run.at = "save" /\ run'.at = "rotate" /\ DOMAIN run' = DOMAIN run
        /\ run'.spare = run.spare /\ DOMAIN state_db_' = DOMAIN state_db_
        /\ state_db_'.writableDb = run.spare /\ state_db_'.archiveDb = db.writable
        /\ UNCHANGED <<disk, db, chain>>
    BY DEF DeleteInv, Fields, SetState
  <1>2. Fields'
    BY <1>1 DEF DeleteInv, Fields
  <1>3. BackendNames' /\ StopIsNoticed'
    BY <1>1 DEF DeleteInv, BackendNames, StopIsNoticed
  <1> QED
    BY <1>2, <1>3 DEF DeleteInv

(* The backends are exchanged as saved. *)
LEMMA rotateBackendsInv ==
    ASSUME DeleteInv, rotateBackends
    PROVE  DeleteInv'
  <1>1. /\ run.at = "rotate" /\ run'.at = "delete" /\ DOMAIN run' = DOMAIN run
        /\ run'.spare = db.archive /\ DOMAIN chain' = DOMAIN chain
        /\ DOMAIN db' = DOMAIN db /\ db'.writable = run.spare /\ db'.archive = db.writable
        /\ UNCHANGED <<state_db_, disk>>
    BY DEF DeleteInv, Fields, rotateBackends, durable
  <1>2. Fields'
    BY <1>1 DEF DeleteInv, Fields
  <1>3. BackendNames' /\ StopIsNoticed'
    BY <1>1 DEF DeleteInv, BackendNames, StopIsNoticed
  <1> QED
    BY <1>2, <1>3 DEF DeleteInv

(* What is deleted is neither open nor named. *)
LEMMA DeleteOldInv ==
    ASSUME DeleteInv, DeleteOld
    PROVE  DeleteInv'
  <1>1. /\ run.at = "delete" /\ run'.at = "top" /\ DOMAIN run' = DOMAIN run
        /\ UNCHANGED <<state_db_, db, chain>>
    BY DEF DeleteInv, Fields, DeleteOld
  <1>2. DOMAIN disk' = DOMAIN disk \ {run.spare}
    BY DEF DeleteOld, Restrict
  <1>3. Fields'
    BY <1>1 DEF DeleteInv, Fields
  <1>4. BackendNames' /\ StopIsNoticed'
    BY <1>1, <1>2 DEF DeleteInv, BackendNames, StopIsNoticed
  <1> QED
    BY <1>3, <1>4 DEF DeleteInv

(* A process that dies, wherever it is, finds what it needs to start. *)
LEMMA RestartInv ==
    ASSUME DeleteInv, Restart
    PROVE  DeleteInv'
  <1> DEFINE w == state_db_.writableDb
             a == state_db_.archiveDb
  <1>1. w # a /\ {w, a} \subseteq DOMAIN disk
    BY DEF DeleteInv, BackendNames
  <1>2. disk' = Restrict(disk, {w, a}) /\ run'.at = "top"
    BY <1>1, Zenon DEF Restart
  <1>3. DOMAIN disk' = {w, a}
    BY <1>1, <1>2 DEF Restrict
  <1>4. db'.writable = w /\ db'.archive = a /\ UNCHANGED state_db_
    BY Zenon DEF Restart
  <1>5. Fields'
    BY Zenon DEF DeleteInv, Fields, Restart
  <1>6. BackendNames' /\ StopIsNoticed'
    BY <1>1, <1>2, <1>3, <1>4 DEF BackendNames, StopIsNoticed
  <1> QED
    BY <1>5, <1>6 DEF DeleteInv

(* Every step of the thread, of the server beside it and of the fetches    *)
(* keeps the invariant.                                                    *)
LEMMA NextInv == DeleteInv /\ [Next]_vars => DeleteInv'
  <1> SUFFICES ASSUME DeleteInv, [Next]_vars PROVE DeleteInv'
    OBVIOUS
  <1>1. CASE Fetch \/ \E k \in Node : Sweep(k)
    BY <1>1, AsideInv
  <1>2. CASE Ledgers
    BY <1>2, AsideInv, NotifyInv, Zenon DEF Ledgers
  <1>3. CASE Run
    BY <1>3, RunTopInv, RunWakeInv, BeforeInv, MakeBackendInv, RunMadeInv, SetStateInv,
       rotateBackendsInv, DeleteOldInv, Zenon DEF Run
  <1>4. CASE \E c \in CanDeletes : SetCanDelete(c)
    BY <1>4, AsideInv
  <1>5. CASE UNCHANGED vars
    BY <1>5, AsideStep DEF vars, durable
  <1> QED
    BY <1>1, <1>2, <1>3, <1>4, <1>5, RunWakeInv, NotifyInv, RestartInv, Zenon DEF Next

(* Wherever the process dies in a rotation, between the save of the state, *)
(* the exchange of the backends and the removal of the old one, dbPaths    *)
(* finds the two backends the saved state names.                           *)
THEOREM RestartAlwaysPossible == Spec => []RestartFindsBackends
  <1>1. DeleteInv => RestartFindsBackends
    BY DEF DeleteInv, BackendNames, RestartFindsBackends
  <1> QED
    BY <1>1, InitInv, NextInv, PTL DEF Spec

(* The thread cannot sleep through onStop. *)
THEOREM StopAlwaysNoticed == Spec => []StopIsNoticed
  <1>1. DeleteInv => StopIsNoticed
    BY DEF DeleteInv
  <1> QED
    BY <1>1, InitInv, NextInv, PTL DEF Spec
-----------------------------------------------------------------------------
(* No node that is in use is lost, but for those that were there before    *)
(* the exchange of a late rotation: they are taken as being everywhere.    *)
Writable == disk[db.writable] \cup chain.late
Archive == disk[db.archive] \cup chain.late
Kept == Writable \cup Archive
LastRotated == state_db_.lastRotated

(* Nodes of the ledger that is being closed that are still to be written. *)
Unwritten == chain.todo \cup StoringNode
Pending(n) == {k \in Unwritten : n = chain.closed}

(* The sequences: a rotation is for a validated ledger an interval after   *)
(* the last rotation's.                                                    *)
Rotating == run.at \notin {"top", "waiting", "stopped", "failed"}

Order ==
    /\ {chain.closed, chain.first, chain.valid, run.seq, LastRotated} \subseteq Nat
    /\ chain.first = 0 <=> chain.valid = 0
    /\ chain.first # 0 =>
          /\ chain.first <= chain.valid /\ chain.valid <= chain.closed
          /\ LastRotated <= chain.valid
    /\ chain.closed # 0 => LastRotated <= chain.closed
    /\ chain.valid = chain.closed => chain.todo = {} /\ chain.storing = <<>>
    /\ run.newLedger_ \in {0, chain.valid}
    /\ run.lastRotated = LastRotated /\ LastRotated # 0
    /\ Rotating => chain.first # 0 /\ chain.first <= run.seq /\ run.seq <= chain.valid
    /\ Rotating /\ run.at \notin {"rotate", "delete"} =>
          run.seq >= LastRotated + DeleteInterval
    /\ run.at \in {"rotate", "delete"} => run.seq = LastRotated

(* What is to be written is new in the ledger.  A store that is under way  *)
(* goes to the writable backend, or to the one that was it before the last *)
(* rotation, for a ledger of that time, or the rotation was late.          *)
Writes ==
    /\ chain.first # 0 => Unwritten \subseteq State[chain.closed] \ State[chain.closed - 1]
    /\ chain.storing # <<>> =>
          \/ chain.storing[2] = db.writable
          \/ /\ chain.storing[2] = db.archive /\ run.at # "rotate" /\ chain.first # 0
             /\ chain.closed <= LastRotated + DeleteInterval
          \/ chain.storing[1] \in chain.late

(* The current ledgers are in the two backends, and what those from an     *)
(* interval after the last rotation on add to each other in the writable.  *)
Whole ==
    /\ chain.first = 0 /\ chain.closed # 0 => State[chain.closed] \subseteq Writable \cup Unwritten
    /\ chain.first # 0 =>
          \A n \in chain.first..chain.closed :
              n >= LastRotated => State[n] \subseteq Kept \cup Pending(n)
    /\ chain.first # 0 =>
          \A m, n \in chain.first..chain.closed :
              m >= LastRotated + DeleteInterval /\ m <= n =>
                  State[n] \ State[m] \subseteq Writable \cup Pending(n)

(* The ledgers from the rotation's on are in the writable backend. *)
CopiedAll == \A n \in run.seq..chain.closed : State[n] \subseteq Writable \cup Pending(n)

(* Part of the work that was not aborted. *)
Undisturbed == run.healthy_ /\ ~run.stop_

Copied ==
    /\ run.at = "copy" => State[run.seq] \ run.todo \subseteq Writable
    /\ run.at = "copied" /\ Undisturbed => CopiedAll
    /\ run.at \in {"freshen", "fresh", "make", "made", "save", "rotate"} => CopiedAll

(* The cached nodes are in the writable backend, or on their way there. *)
FreshCache == db.cache \subseteq Writable \cup StoringNode

Freshened ==
    /\ run.at = "freshen" => db.cache \ run.todo \subseteq Writable \cup StoringNode
    /\ run.at = "fresh" /\ Undisturbed => FreshCache
    /\ run.at \in {"make", "made", "save", "rotate"} => FreshCache

(* A fetch that has not found its node in the writable backend finds it in *)
(* the archive.                                                            *)
Reads ==
    /\ DOMAIN reader = {"at", "key", "from"}
    /\ reader.at # "idle" => reader.from \in Nat \ {0} /\ reader.from <= chain.valid
    /\ reader.at = "archive" /\ (\A n \in reader.from..chain.valid : reader.key \in State[n]) =>
           reader.key \in Archive
    /\ FetchFindsValidated

NodesInv ==
    /\ Order /\ Writes /\ Whole /\ Copied /\ Freshened /\ CachedNodesAreStored /\ Reads

(* The state the server starts in. *)
LEMMA InitNodes == Init => NodesInv
  <1> SUFFICES ASSUME Init PROVE NodesInv
    OBVIOUS
  <1> USE OnlineDeleteAssumption DEF None
  <1>1. /\ chain.first = 1 /\ chain.closed = 1 /\ chain.valid = 1 /\ chain.todo = {}
        /\ chain.storing = <<>> /\ run.at = "top" /\ run.newLedger_ = 0 /\ run.seq = 0
        /\ run.lastRotated = 1 /\ LastRotated = 1 /\ run.healthy_ = TRUE /\ run.stop_ = FALSE
        /\ reader.at = "idle" /\ db.cache = State[1] /\ disk[db.archive] = State[1]
    BY DEF Init, LastRotated
  <1>2. Order
    BY <1>1 DEF Order, Rotating
  <1>3. Writes /\ Copied /\ Freshened
    BY <1>1 DEF Writes, Copied, Freshened, Unwritten, StoringNode
  <1>6. Reads
    BY <1>1, Zenon DEF Init, Reads, FetchFindsValidated
  <1>4. Whole
    <2>1. \A n \in 1..1 : n = 1
      OBVIOUS
    <2>2. State[1] \subseteq Kept
      BY <1>1 DEF Kept, Archive
    <2>3. \A m \in 1..1 : ~(m >= 1 + DeleteInterval)
      OBVIOUS
    <2> QED BY <1>1, <2>1, <2>2, <2>3 DEF Whole
  <1>5. CachedNodesAreStored
    BY <1>1 DEF CachedNodesAreStored, Held
  <1> QED
    BY <1>2, <1>3, <1>4, <1>5, <1>6 DEF NodesInv

(* The sequences and the thread stay as they are. *)
SameOrder ==
    /\ chain'.closed = chain.closed /\ chain'.first = chain.first /\ chain'.valid = chain.valid
    /\ LastRotated' = LastRotated

SameRun ==
    /\ run'.at = run.at /\ run'.seq = run.seq /\ run'.lastRotated = run.lastRotated
    /\ run'.todo = run.todo /\ run'.healthy_ = run.healthy_ /\ run'.stop_ = run.stop_

SameBackends ==
    db'.writable = db.writable /\ db'.archive = db.archive /\ chain'.late = chain.late

LEMMA OrderKept ==
    ASSUME Order, SameOrder, SameRun, run'.newLedger_ = run.newLedger_,
           chain.todo = {} /\ chain.storing = <<>> => chain'.todo = {} /\ chain'.storing = <<>>
    PROVE  Order'
  BY DEF Order, SameOrder, SameRun, Rotating, LastRotated

(* The two backends only gain nodes, and what was still to be written is   *)
(* written, or is still to be.                                             *)
Grows ==
    /\ SameBackends
    /\ Writable \subseteq Writable' /\ Archive \subseteq Archive'
    /\ Unwritten \subseteq Unwritten' \cup Writable' \cup Archive'
    /\ chain.first = 0 \/ chain.closed > LastRotated + DeleteInterval \/ run.at = "rotate" =>
           Unwritten \subseteq Unwritten' \cup Writable'

LEMMA WholeKept ==
    ASSUME Order, Whole, SameOrder, Grows
    PROVE  Whole'
  <1> USE DEF SameOrder
  <1>2. \A n : Pending(n) \subseteq Pending(n)' \cup Kept'
    BY DEF Pending, Grows, Kept
  <1>4. ASSUME chain.first = 0, chain.closed # 0
        PROVE  State[chain.closed] \subseteq Writable' \cup Unwritten'
    BY <1>4 DEF Whole, Grows
  <1>5. ASSUME chain.first # 0, NEW n \in chain.first..chain.closed, n >= LastRotated
        PROVE  State[n] \subseteq Kept' \cup Pending(n)'
    <2>1. State[n] \subseteq Kept \cup Pending(n)
      BY <1>5 DEF Whole
    <2>2. Kept \subseteq Kept'
      BY DEF Grows, Kept
    <2> QED BY <1>2, <2>1, <2>2
  <1>6. ASSUME chain.first # 0, NEW m \in chain.first..chain.closed, NEW n \in chain.first..chain.closed,
               m >= LastRotated + DeleteInterval, m <= n
        PROVE  State[n] \ State[m] \subseteq Writable' \cup Pending(n)'
    <2>1. State[n] \ State[m] \subseteq Writable \cup Pending(n)
      BY <1>6 DEF Whole
    <2>2. m # n /\ n = chain.closed => Unwritten \subseteq Unwritten' \cup Writable'
      BY <1>6, OnlineDeleteAssumption DEF Grows, Order
    <2>3. CASE m = n
      BY <2>3
    <2>4. CASE m # n
      BY <2>1, <2>2, <2>4 DEF Grows, Pending
    <2> QED BY <2>3, <2>4
  <1> QED BY <1>4, <1>5, <1>6 DEF Whole

(* While nodes are copied, the ledger being closed is more than an         *)
(* interval after the last rotation, or written.                           *)
LEMMA CopyingIsLate ==
    ASSUME Order, run.at \in {"copied", "freshen", "fresh", "make", "made", "save"}
    PROVE  chain.closed > LastRotated + DeleteInterval \/ (Unwritten = {} /\ StoringNode = {})
  <1>1. Rotating /\ run.at \notin {"rotate", "delete"}
    BY DEF Rotating
  <1>2. /\ {chain.closed, chain.valid, run.seq, LastRotated} \subseteq Nat
        /\ run.seq >= LastRotated + DeleteInterval /\ run.seq <= chain.valid
        /\ chain.valid <= chain.closed /\ DeleteInterval \in Nat
    BY <1>1, OnlineDeleteAssumption DEF Order
  <1>3. chain.closed > LastRotated + DeleteInterval \/ chain.valid = chain.closed
    BY <1>2
  <1>4. chain.valid = chain.closed => Unwritten = {} /\ StoringNode = {}
    BY Zenon DEF Order, Unwritten, StoringNode
  <1> QED BY <1>3, <1>4, Zenon

LEMMA CopiedKept ==
    ASSUME Order, Copied, SameOrder, SameRun, Grows
    PROVE  Copied'
  <1> USE DEF SameOrder, SameRun
  <1>1. ASSUME CopiedAll, run.at \in {"copied", "freshen", "fresh", "make", "made", "save", "rotate"}
        PROVE  CopiedAll'
    <2>1. Unwritten \subseteq Unwritten' \cup Writable'
      BY <1>1, CopyingIsLate DEF Grows
    <2>2. ASSUME NEW n \in run.seq..chain.closed PROVE State[n] \subseteq Writable' \cup Pending(n)'
      <3>1. State[n] \subseteq Writable \cup Pending(n)
        BY <1>1 DEF CopiedAll
      <3>2. Pending(n) \subseteq Writable' \cup Pending(n)'
        BY <2>1 DEF Pending
      <3> QED BY <3>1, <3>2 DEF Grows
    <2> QED BY <2>2 DEF CopiedAll
  <1>2. Undisturbed' = Undisturbed
    BY DEF Undisturbed
  <1>3. Writable \subseteq Writable'
    BY DEF Grows
  <1> QED BY <1>1, <1>2, <1>3 DEF Copied

(* A node that is cached is read from the writable backend or on its way.  *)
CacheGrows ==
    /\ db'.cache \subseteq db.cache \cup Writable' \cup StoringNode'
    /\ StoringNode \subseteq StoringNode' \cup Writable' \cup Archive'
    /\ chain.closed > LastRotated + DeleteInterval \/ run.at = "rotate" =>
           StoringNode \subseteq StoringNode' \cup Writable'

LEMMA FreshKept ==
    ASSUME Order, Freshened, SameRun, CacheGrows, Writable \subseteq Writable'
    PROVE  Freshened'
  <1> USE DEF SameRun
  <1>1. ASSUME run.at \in {"freshen", "fresh", "make", "made", "save", "rotate"}
        PROVE  StoringNode \subseteq StoringNode' \cup Writable'
    BY <1>1, CopyingIsLate DEF CacheGrows
  <1>2. ASSUME FreshCache, run.at \in {"fresh", "make", "made", "save", "rotate"}
        PROVE  FreshCache'
    BY <1>1, <1>2 DEF FreshCache, CacheGrows
  <1>3. Undisturbed' = Undisturbed
    BY DEF Undisturbed
  <1>4. run.at = "freshen" => db'.cache \ run.todo \subseteq Writable' \cup StoringNode'
    BY <1>1 DEF Freshened, CacheGrows
  <1> QED BY <1>2, <1>3, <1>4 DEF Freshened

(* A cached node that is not in the store is one of a late rotation. *)
LEMMA CachedIsKept ==
    /\ CachedNodesAreStored <=> db.cache \subseteq Kept \cup StoringNode
    /\ CachedNodesAreStored' <=> db'.cache \subseteq Kept' \cup StoringNode'
  BY DEF CachedNodesAreStored, Held, Kept, Writable, Archive

LEMMA CachedKept ==
    ASSUME CachedNodesAreStored, CacheGrows, Writable \subseteq Writable', Archive \subseteq Archive'
    PROVE  CachedNodesAreStored'
  <1>1. db.cache \subseteq Kept \cup StoringNode
    BY CachedIsKept
  <1>2. db'.cache \subseteq Kept' \cup StoringNode'
    BY <1>1 DEF CacheGrows, Kept
  <1> QED BY <1>2, CachedIsKept

LEMMA ReadsKept ==
    ASSUME Reads, reader' = reader, SameOrder, Archive \subseteq Archive',
           chain.late \subseteq chain'.late
    PROVE  Reads'
  BY DEF Reads, SameOrder, FetchFindsValidated

LEMMA WritesKept ==
    ASSUME Writes, SameOrder, SameBackends, chain'.storing = chain.storing,
           chain'.todo \subseteq chain.todo, run'.at = "rotate" => run.at = "rotate"
    PROVE  Writes'
  <1>1. Unwritten' \subseteq Unwritten
    BY DEF Unwritten, StoringNode
  <1> QED BY <1>1 DEF Writes, SameOrder, SameBackends

(* The validated ledger is in the store. *)
LEMMA ValidHeld ==
    ASSUME Order, Whole, chain.valid # 0
    PROVE  State[chain.valid] \subseteq Kept
  <1>1. chain.first # 0 /\ chain.valid \in chain.first..chain.closed /\ chain.valid >= LastRotated
    BY DEF Order
  <1>2. State[chain.valid] \subseteq Kept \cup Pending(chain.valid)
    BY <1>1 DEF Whole
  <1>3. Pending(chain.valid) = {}
    BY DEF Order, Pending, Unwritten, StoringNode
  <1> QED BY <1>2, <1>3

(* Nothing but the fetch and the cache changes. *)
LEMMA FetchOnly ==
    ASSUME NodesInv, UNCHANGED <<durable, run, chain>>, SameBackends,
           db'.cache \subseteq db.cache \cup Writable, Reads'
    PROVE  NodesInv'
  <1> USE DEF NodesInv
  <1>1. SameOrder /\ SameRun /\ UNCHANGED <<Writable, Archive, Unwritten, StoringNode>>
    BY DEF SameOrder, SameRun, durable, SameBackends, Writable, Archive, Unwritten, StoringNode,
           LastRotated
  <1>2. Grows /\ CacheGrows
    BY <1>1 DEF Grows, CacheGrows
  <1> QED BY <1>1, <1>2, OrderKept, WholeKept, CopiedKept, FreshKept, CachedKept, WritesKept

(* A thread in doFetch, before it stores a node, and the sweep of caches.  *)
LEMMA FetchNodes ==
    ASSUME DeleteInv, NodesInv,
           \/ FetchWritable \/ FetchArchive \/ FetchMissed
           \/ \E k \in Node : FetchStart(k) \/ Sweep(k)
    PROVE  NodesInv'
  <1>0. /\ chain.valid \in Nat /\ DOMAIN db = {"writable", "archive", "cache"}
        /\ DOMAIN reader = {"at", "key", "from"} /\ Reads /\ Order /\ Whole
    BY Zenon DEF NodesInv, Order, DeleteInv, Fields, Reads
  <1>1. ASSUME NEW k \in Node, FetchStart(k) PROVE NodesInv'
    <2>1. /\ reader' = [at |-> "writable", key |-> k, from |-> chain.valid] /\ chain.valid # 0
          /\ UNCHANGED <<durable, db, run, chain>>
      BY <1>1 DEF FetchStart, None
    <2>2. Reads'
      BY <1>0, <2>1 DEF Reads, FetchFindsValidated
    <2> QED BY <2>1, <2>2, FetchOnly, Zenon DEF SameBackends
  <1>2. CASE FetchWritable
    <2>1. CASE reader.key \in disk[db.writable]
      <3>1. /\ db' = [db EXCEPT !.cache = @ \cup {reader.key}]
            /\ reader' = [reader EXCEPT !.at = "idle"] /\ UNCHANGED <<durable, run, chain>>
        BY <1>2, <2>1 DEF FetchWritable, Backends
      <3>2. Reads'
        BY <1>0, <3>1 DEF Reads, FetchFindsValidated
      <3>3. SameBackends /\ db'.cache \subseteq db.cache \cup Writable
        BY <1>0, <2>1, <3>1 DEF SameBackends, Writable
      <3> QED BY <3>1, <3>2, <3>3, FetchOnly
    <2>2. CASE reader.key \notin disk[db.writable]
      <3>1. /\ reader' = [reader EXCEPT !.at = "archive"] /\ UNCHANGED <<durable, db, run, chain>>
            /\ reader.at = "writable"
        BY <1>2, <2>2 DEF FetchWritable, Backends
      <3>2. /\ reader'.at = "archive" /\ reader'.key = reader.key /\ reader'.from = reader.from
            /\ DOMAIN reader' = DOMAIN reader /\ chain' = chain
        BY <1>0, <3>1
      <3>3. reader.from \in Nat \ {0} /\ reader.from <= chain.valid
        BY <1>0, <3>1 DEF Reads
      <3>4. chain.valid \in reader.from..chain.valid
        BY <1>0, <3>3
      <3>5. State[chain.valid] \subseteq Kept
        BY <1>0, <3>3, ValidHeld
      <3>6. reader.key \in State[chain.valid] => reader.key \in Archive
        BY <2>2, <3>5 DEF Kept, Writable, Archive
      <3>7. Archive' = Archive
        BY <3>1 DEF Archive, durable
      <3>8. Reads'
        BY <1>0, <3>2, <3>3, <3>4, <3>6, <3>7 DEF Reads, FetchFindsValidated
      <3> QED BY <3>1, <3>8, FetchOnly DEF SameBackends
    <2> QED BY <2>1, <2>2
  <1>3. CASE FetchArchive
    <2>1. /\ UNCHANGED <<durable, db, run, chain>> /\ reader.at = "archive"
          /\ reader' = [reader EXCEPT
                           !.at = IF reader.key \in disk[db.archive] THEN "copy" ELSE "missed"]
      BY <1>3 DEF FetchArchive, Backends
    <2>2. /\ reader'.at = IF reader.key \in disk[db.archive] THEN "copy" ELSE "missed"
          /\ reader'.key = reader.key /\ reader'.from = reader.from
          /\ DOMAIN reader' = DOMAIN reader /\ chain' = chain
      BY <1>0, <2>1
    <2>3. reader.key \notin disk[db.archive] =>
              \/ reader.key \in chain.late
              \/ \E n \in reader.from..chain.valid : reader.key \notin State[n]
      BY <1>0, <2>1 DEF Reads, Archive
    <2>4. Reads'
      BY <1>0, <2>1, <2>2, <2>3 DEF Reads, FetchFindsValidated
    <2> QED BY <2>1, <2>4, FetchOnly DEF SameBackends
  <1>4. CASE FetchMissed
    <2>1. UNCHANGED <<durable, db, run, chain>> /\ reader' = [reader EXCEPT !.at = "idle"]
      BY <1>4 DEF FetchMissed
    <2>2. Reads'
      BY <1>0, <2>1 DEF Reads, FetchFindsValidated
    <2> QED BY <2>1, <2>2, FetchOnly DEF SameBackends
  <1>5. ASSUME NEW k \in Node, Sweep(k) PROVE NodesInv'
    <2>1. UNCHANGED <<durable, run, chain, reader>> /\ db' = [db EXCEPT !.cache = @ \ {k}]
      BY <1>5 DEF Sweep
    <2>2. SameBackends /\ db'.cache \subseteq db.cache \cup Writable
      BY <1>0, <2>1 DEF SameBackends
    <2>3. SameOrder /\ Archive' = Archive
      BY <2>1, <2>2 DEF SameOrder, Archive, durable, SameBackends, LastRotated
    <2>4. Reads'
      BY <1>0, <2>1, <2>3, ReadsKept
    <2> QED BY <2>1, <2>2, <2>4, FetchOnly
  <1> QED
    BY <1>1, <1>2, <1>3, <1>4, <1>5

(* What a store does to the two open backends. *)
LEMMA StoreGrows ==
    ASSUME DeleteInv, NEW b, NEW k, Store(b, k), SameBackends
    PROVE  /\ Writable \subseteq Writable' /\ Archive \subseteq Archive'
           /\ b = db.writable => k \in Writable'
           /\ b = db.archive => k \in Archive'
           /\ DOMAIN disk' = DOMAIN disk
  <1>1. db.writable \in DOMAIN disk /\ db.archive \in DOMAIN disk
    BY DEF DeleteInv, BackendNames
  <1>2. \A c \in DOMAIN disk : disk'[c] = disk[c] \cup {n \in {k} : c = b}
    BY DEF Store
  <1>3. DOMAIN disk' = DOMAIN disk
    BY DEF Store
  <1> QED BY <1>1, <1>2, <1>3 DEF SameBackends, Writable, Archive

(* fetchFrom in a thread that no rotation overtakes. *)
LEMMA FetchFromGrows ==
    ASSUME DeleteInv, NEW k, fetchFrom(k), SameBackends
    PROVE  /\ Writable \subseteq Writable' /\ Archive \subseteq Archive'
           /\ k \in Kept => k \in Writable'
  <1>1. CASE k \notin disk[db.writable] /\ k \in disk[db.archive]
    <2>1. Store(db.writable, k)
      BY <1>1 DEF fetchFrom
    <2> QED BY <2>1, StoreGrows
  <1>2. CASE ~(k \notin disk[db.writable] /\ k \in disk[db.archive])
    <2>1. disk' = disk
      BY <1>2 DEF fetchFrom
    <2> QED BY <1>2, <2>1 DEF SameBackends, Writable, Archive, Kept
  <1> QED BY <1>1, <1>2

(* A node is written to one of the two backends, outside of the thread.   *)
LEMMA StoreOnly ==
    ASSUME NodesInv, UNCHANGED <<state_db_, run>>, SameOrder, Grows, CacheGrows, Writes', Reads',
           chain.todo = {} /\ chain.storing = <<>> => chain'.todo = {} /\ chain'.storing = <<>>
    PROVE  NodesInv'
  <1>1. SameRun /\ run'.newLedger_ = run.newLedger_
    BY DEF SameRun
  <1>2. Writable \subseteq Writable' /\ Archive \subseteq Archive'
    BY DEF Grows
  <1> QED BY <1>1, <1>2, OrderKept, WholeKept, CopiedKept, FreshKept, CachedKept DEF NodesInv

(* A node found in the archive is stored in the writable backend. *)
LEMMA FetchCopyNodes ==
    ASSUME DeleteInv, NodesInv, FetchCopy
    PROVE  NodesInv'
  <1>0. /\ DOMAIN db = {"writable", "archive", "cache"}
        /\ DOMAIN reader = {"at", "key", "from"} /\ Reads /\ Writes
    BY DEF NodesInv, DeleteInv, Fields, Reads
  <1>1. /\ Store(db.writable, reader.key) /\ db' = [db EXCEPT !.cache = @ \cup {reader.key}]
        /\ reader' = [reader EXCEPT !.at = "idle"] /\ UNCHANGED <<state_db_, run, chain>>
    BY DEF FetchCopy
  <1>2. SameBackends /\ db'.cache = db.cache \cup {reader.key}
    BY <1>0, <1>1 DEF SameBackends
  <1>3. Writable \subseteq Writable' /\ Archive \subseteq Archive' /\ reader.key \in Writable'
    BY <1>1, <1>2, StoreGrows
  <1>4. SameOrder /\ UNCHANGED <<Unwritten, StoringNode>>
    BY <1>1 DEF SameOrder, Unwritten, StoringNode, LastRotated
  <1>5. Grows /\ CacheGrows
    BY <1>2, <1>3, <1>4 DEF Grows, CacheGrows
  <1>6. Writes'
    BY <1>0, <1>1, <1>2, <1>4, WritesKept
  <1>7. Reads'
    BY <1>0, <1>1 DEF Reads, FetchFindsValidated
  <1> QED BY <1>1, <1>4, <1>5, <1>6, <1>7, StoreOnly

(* The nodes of the ledger that is being closed or acquired. *)
LEMMA LedgerNodes ==
    ASSUME DeleteInv, NodesInv,
           StoreWrite \/ \E k \in Node : FindNode(k) \/ StoreNode(k)
    PROVE  NodesInv'
  <1>0. /\ DOMAIN db = {"writable", "archive", "cache"} /\ Reads /\ Writes
        /\ DOMAIN chain = {"closed", "todo", "storing", "valid", "first", "late"}
    BY DEF NodesInv, DeleteInv, Fields
  <1>1. ASSUME NEW k \in Node, FindNode(k) PROVE NodesInv'
    <2>1. /\ k \in chain.todo /\ chain.storing = <<>> /\ k \in Kept /\ fetchFrom(k)
          /\ chain' = [chain EXCEPT !.todo = @ \ {k}] /\ UNCHANGED <<state_db_, db, run, reader>>
      BY <1>1 DEF FindNode, Kept, Writable, Archive
    <2>2. /\ chain'.todo = chain.todo \ {k} /\ chain'.storing = <<>> /\ SameOrder /\ SameBackends
      BY <1>0, <2>1 DEF SameOrder, SameBackends, LastRotated
    <2>3. Writable \subseteq Writable' /\ Archive \subseteq Archive' /\ k \in Writable'
      BY <2>1, <2>2, FetchFromGrows
    <2>4. StoringNode = {} /\ StoringNode' = {} /\ db'.cache = db.cache
      BY <2>1, <2>2 DEF StoringNode
    <2>5. Unwritten \subseteq Unwritten' \cup Writable'
      BY <2>2, <2>3, <2>4 DEF Unwritten
    <2>6. Grows /\ CacheGrows
      BY <2>2, <2>3, <2>4, <2>5 DEF Grows, CacheGrows
    <2>7. Writes' /\ Reads'
      BY <1>0, <2>1, <2>2, <2>3, WritesKept, ReadsKept
    <2> QED BY <2>1, <2>2, <2>6, <2>7, StoreOnly
  <1>2. ASSUME NEW k \in Node, StoreNode(k) PROVE NodesInv'
    <2>1. /\ k \in chain.todo /\ chain.storing = <<>> /\ UNCHANGED <<state_db_, disk, run, reader>>
          /\ db' = [db EXCEPT !.cache = @ \cup {k}]
          /\ chain' = [chain EXCEPT !.todo = @ \ {k}, !.storing = <<k, db.writable>>]
      BY <1>2, Zenon DEF StoreNode, durable
    <2>2. /\ chain'.todo = chain.todo \ {k} /\ chain'.storing = <<k, db.writable>> /\ SameOrder
          /\ SameBackends /\ db'.cache = db.cache \cup {k}
      BY <1>0, <2>1 DEF SameOrder, SameBackends, LastRotated
    <2>3. Writable' = Writable /\ Archive' = Archive
      BY <2>1, <2>2 DEF SameBackends, Writable, Archive
    <2>4. chain'.storing # <<>> /\ chain'.storing[1] = k /\ chain'.storing[2] = db.writable
      BY <2>2
    <2>5. StoringNode = {} /\ StoringNode' = {k}
      BY <2>1, <2>4 DEF StoringNode
    <2>6. Unwritten = Unwritten'
      BY <2>1, <2>2, <2>5 DEF Unwritten
    <2>7. Grows /\ CacheGrows
      BY <2>2, <2>3, <2>5, <2>6 DEF Grows, CacheGrows
    <2>8. Writes'
      BY <1>0, <2>2, <2>4, <2>6 DEF Writes, SameBackends, SameOrder
    <2>9. Reads'
      BY <1>0, <2>1, <2>2, <2>3, ReadsKept
    <2> QED BY <2>1, <2>2, <2>7, <2>8, <2>9, StoreOnly
  <1>3. CASE StoreWrite
    <2>1. /\ chain.storing # <<>> /\ Store(chain.storing[2], chain.storing[1])
          /\ chain' = [chain EXCEPT !.storing = <<>>] /\ UNCHANGED <<state_db_, db, run, reader>>
      BY <1>3 DEF StoreWrite
    <2>2. /\ chain'.todo = chain.todo /\ chain'.storing = <<>> /\ SameOrder /\ SameBackends
          /\ db'.cache = db.cache
      BY <1>0, <2>1 DEF SameOrder, SameBackends, LastRotated
    <2>3. /\ Writable \subseteq Writable' /\ Archive \subseteq Archive'
          /\ chain.storing[2] = db.writable => chain.storing[1] \in Writable'
          /\ chain.storing[2] = db.archive => chain.storing[1] \in Archive'
      BY <2>1, <2>2, StoreGrows
    <2>4. StoringNode = {chain.storing[1]} /\ StoringNode' = {}
      BY <2>1, <2>2 DEF StoringNode
    <2>5. StoringNode \subseteq Writable' \cup Archive'
      BY <1>0, <2>1, <2>2, <2>3, <2>4 DEF Writes, SameBackends, Writable
    <2>6. chain.first = 0 \/ chain.closed > LastRotated + DeleteInterval \/ run.at = "rotate" =>
             StoringNode \subseteq Writable'
      <3>1. {chain.closed, LastRotated} \subseteq Nat /\ DeleteInterval \in Nat
        BY OnlineDeleteAssumption, Zenon DEF NodesInv, Order
      <3>2. chain.storing[1] \in chain.late => chain.storing[1] \in Writable'
        BY <2>2 DEF SameBackends, Writable
      <3> QED BY <1>0, <2>1, <2>3, <2>4, <3>1, <3>2 DEF Writes
    <2>7. Grows /\ CacheGrows
      BY <2>2, <2>3, <2>4, <2>5, <2>6, Zenon DEF Grows, CacheGrows, Unwritten
    <2>8. Unwritten' \subseteq Unwritten
      BY <2>2, <2>4 DEF Unwritten
    <2>9. Writes' /\ Reads'
      BY <1>0, <2>1, <2>2, <2>3, <2>8, ReadsKept DEF Writes, SameOrder, SameBackends
    <2> QED BY <2>1, <2>2, <2>7, <2>9, StoreOnly
  <1> QED BY <1>1, <1>2, <1>3

(* The next ledger is closed: its new nodes are to be written. *)
LEMMA CloseNodes ==
    ASSUME DeleteInv, NodesInv, NEW n \in 1..Len(State), CloseLedger(n)
    PROVE  NodesInv'
  <1> DEFINE last == chain.closed
             base == IF last = 0 THEN {} ELSE State[last]
  <1>0. /\ Order /\ Whole /\ Copied /\ Freshened /\ CachedNodesAreStored /\ Reads
        /\ DOMAIN chain = {"closed", "todo", "storing", "valid", "first", "late"}
        /\ n \in Nat /\ n > 0 /\ DeleteInterval \in Nat
        /\ {last, chain.first, chain.valid, run.seq, LastRotated} \subseteq Nat
    BY OnlineDeleteAssumption DEF NodesInv, DeleteInv, Fields, Order
  <1>1. /\ chain.todo = {} /\ chain.storing = <<>>
        /\ last = 0 => n >= LastRotated
        /\ last # 0 => n = last + 1
        /\ chain' = [chain EXCEPT !.closed = n, !.todo = State[n] \ base]
        /\ UNCHANGED <<durable, db, run, reader>>
    BY <1>0 DEF CloseLedger, None, LastRotated
  <1>2. /\ chain'.closed = n /\ chain'.todo = State[n] \ base /\ chain'.storing = <<>>
        /\ chain'.first = chain.first /\ chain'.valid = chain.valid /\ chain'.late = chain.late
    BY <1>0, <1>1
  <1>3. UNCHANGED <<Writable, Archive, Kept, Held, LastRotated, StoringNode, Rotating, reader>>
    BY <1>1, <1>2 DEF Writable, Archive, Kept, Held, LastRotated, StoringNode, Rotating, durable
  <1>4. StoringNode = {} /\ Unwritten = {} /\ Unwritten' = State[n] \ base
    BY <1>1, <1>2, <1>3 DEF StoringNode, Unwritten
  <1>5. last = 0 <=> chain.first = 0 /\ last = 0
    BY <1>0 DEF Order
  <1>6. \A i : Pending(i) = {}
    BY <1>4 DEF Pending
  <1>7. /\ Pending(n)' = State[n] \ base
        /\ last # 0 => n > last
    BY <1>0, <1>1, <1>2, <1>4 DEF Pending
  <1> HIDE DEF base
  <1>8. last # 0 => base = State[last]
    BY DEF base
  <1>9. Order'
    <2>1. n # chain.valid
      BY <1>0, <1>1, <1>5 DEF Order
    <2> QED
      BY <1>0, <1>1, <1>2, <1>3, <1>5, <2>1 DEF Order
  <1>10. Writes'
    <2>1. chain.first # 0 => last # 0 /\ n - 1 = last
      BY <1>0, <1>1 DEF Order
    <2> QED BY <1>2, <1>4, <1>8, <2>1 DEF Writes
  <1>11. Whole'
    <2>1. ASSUME chain.first = 0 PROVE State[n] \subseteq Writable \cup Unwritten'
      BY <1>0, <1>4, <1>8, <2>1 DEF Whole, base
    <2>2. ASSUME chain.first # 0, NEW i \in chain.first..n, i >= LastRotated
          PROVE  State[i] \subseteq Kept \cup Pending(i)'
      <3>1. last # 0 /\ last \in chain.first..last /\ last >= LastRotated /\ n = last + 1
        BY <1>0, <1>1, <2>2 DEF Order
      <3>2. State[last] \subseteq Kept
        BY <1>0, <1>6, <2>2, <3>1 DEF Whole
      <3>3. CASE i = n
        BY <1>7, <1>8, <3>1, <3>2, <3>3
      <3>4. CASE i # n
        <4>1. i \in chain.first..last
          BY <1>0, <3>1, <3>4
        <4> QED BY <1>0, <1>6, <2>2, <4>1 DEF Whole
      <3> QED BY <3>3, <3>4
    <2>3. ASSUME chain.first # 0, NEW m \in chain.first..n, NEW i \in chain.first..n,
                 m >= LastRotated + DeleteInterval, m <= i
          PROVE  State[i] \ State[m] \subseteq Writable \cup Pending(i)'
      <3>1. last # 0 /\ n = last + 1 /\ last \in chain.first..last
        BY <1>0, <1>1, <2>3 DEF Order
      <3>2. CASE m = n
        <4>1. i = n
          BY <1>0, <2>3, <3>2
        <4> QED BY <3>2, <4>1
      <3>3. CASE m # n
        <4>1. m \in chain.first..last /\ m <= last
          BY <1>0, <3>1, <3>3
        <4>2. State[last] \ State[m] \subseteq Writable
          BY <1>0, <1>6, <2>3, <3>1, <4>1, ZenonT(40) DEF Whole
        <4>3. CASE i = n
          BY <1>7, <1>8, <3>1, <4>2, <4>3
        <4>4. CASE i # n
          <5>1. i \in chain.first..last
            BY <1>0, <3>1, <4>4
          <5> QED BY <1>0, <1>6, <2>3, <4>1, <5>1 DEF Whole
        <4> QED BY <4>3, <4>4
      <3> QED BY <3>2, <3>3
    <2> QED BY <1>2, <1>3, <2>1, <2>2, <2>3, ZenonT(40) DEF Whole
  <1>12. Copied'
    <2>1. ASSUME CopiedAll, Rotating PROVE CopiedAll'
      <3>1. last # 0 /\ n = last + 1 /\ last \in run.seq..last
        BY <1>0, <1>1, <2>1 DEF Order
      <3>2. State[last] \subseteq Writable
        BY <1>6, <2>1, <3>1 DEF CopiedAll
      <3>3. ASSUME NEW i \in run.seq..n PROVE State[i] \subseteq Writable \cup Pending(i)'
        <4>1. CASE i = n
          BY <1>7, <1>8, <3>1, <3>2, <4>1
        <4>2. CASE i # n
          <5>1. i \in run.seq..last
            BY <1>0, <3>1, <4>2
          <5> QED BY <1>6, <2>1, <5>1 DEF CopiedAll
        <4> QED BY <4>1, <4>2
      <3> QED BY <1>1, <1>2, <1>3, <3>3 DEF CopiedAll
    <2>2. run.at \in {"copied", "freshen", "fresh", "make", "made", "save", "rotate"} => Rotating
      BY DEF Rotating
    <2> QED BY <1>0, <1>1, <1>3, <2>1, <2>2 DEF Copied, Undisturbed
  <1>13. Freshened' /\ CachedNodesAreStored'
    BY <1>0, <1>1, <1>3 DEF Freshened, CachedNodesAreStored, FreshCache, Undisturbed
  <1>14. Reads'
    BY <1>0, <1>2, <1>3, Zenon DEF Reads, FetchFindsValidated
  <1> QED BY <1>9, <1>10, <1>11, <1>12, <1>13, <1>14 DEF NodesInv

(* A ledger all of whose nodes are stored is validated. *)
LEMMA ValidateNodes ==
    ASSUME DeleteInv, NodesInv, NEW n \in 1..Len(State), Validate(n)
    PROVE  NodesInv'
  <1>0. /\ Order /\ Writes /\ Whole /\ Copied /\ Freshened /\ CachedNodesAreStored /\ Reads
        /\ n \in Nat /\ n > 0 /\ DeleteInterval \in Nat \ {0}
        /\ {chain.closed, chain.first, chain.valid, run.seq, LastRotated} \subseteq Nat
        /\ DOMAIN chain = {"closed", "todo", "storing", "valid", "first", "late"}
        /\ DOMAIN run = {"at", "seq", "lastRotated", "todo", "spare", "healthy_", "newLedger_",
                         "stop_", "woken"}
    BY OnlineDeleteAssumption DEF NodesInv, DeleteInv, Fields, Order
  <1>1. /\ n > chain.valid /\ n <= chain.closed
        /\ n = chain.closed => chain.todo = {} /\ chain.storing = <<>>
        /\ chain.first = 0 => n = chain.closed
        /\ chain'.closed = chain.closed /\ chain'.valid = n /\ chain'.todo = chain.todo
        /\ chain'.storing = chain.storing /\ chain'.late = chain.late
        /\ chain'.first = IF chain.first = 0 THEN n ELSE chain.first
        /\ UNCHANGED <<durable, db, reader>>
    BY <1>0 DEF Validate, Stored, None
  <1>2. SameRun /\ run'.newLedger_ = n
    BY <1>0 DEF Validate, onLedgerClosed, SameRun
  <1>3. /\ UNCHANGED <<Writable, Archive, Kept, Held, LastRotated, StoringNode, Unwritten>>
        /\ \A i : Pending(i)' = Pending(i)
    BY <1>1, Zenon DEF Writable, Archive, Kept, Held, LastRotated, StoringNode, Unwritten, Pending,
                          durable
  <1>4. Order'
    BY <1>0, <1>1, <1>2, <1>3 DEF Order, SameRun, Rotating
  <1>5. Writes'
    <2>1. chain.first = 0 => Unwritten = {}
      BY <1>1 DEF Unwritten, StoringNode
    <2>2. chain'.first # 0 => Unwritten' \subseteq State[chain'.closed] \ State[chain'.closed - 1]
      <3>1. chain.first # 0 => Unwritten \subseteq State[chain.closed] \ State[chain.closed - 1]
        BY <1>0, Zenon DEF Writes
      <3> QED BY <1>1, <1>3, <2>1, <3>1, Zenon
    <2>3. chain'.storing # <<>> => chain'.first # 0
      BY <1>0, <1>1
    <2> QED BY <1>0, <1>1, <1>2, <1>3, <2>2, <2>3, Zenon DEF Writes, SameRun
  <1>6. Whole'
    <2>1. CASE chain.first # 0
      BY <1>0, <1>1, <1>3, <2>1, Zenon DEF Whole
    <2>2. CASE chain.first = 0
      <3>1. /\ chain'.first = chain.closed /\ chain.closed # 0 /\ Unwritten = {}
            /\ n = chain.closed
        BY <1>0, <1>1, <2>2 DEF Unwritten, StoringNode
      <3>2. State[n] \subseteq Kept
        BY <1>0, <2>2, <3>1, Zenon DEF Whole, Kept
      <3>3. \A i \in n..n : i = n
        BY <1>0
      <3>4. chain'.first..chain'.closed = n..n
        BY <1>1, <3>1
      <3>5. \A i \in n..n : State[i] \subseteq Kept'
        BY <1>3, <3>2, <3>3
      <3>6. \A i, j \in n..n : State[j] \ State[i] = {}
        BY <3>3
      <3>7. \A i \in n..n : State[i] \subseteq Kept' \cup Pending(i)'
        BY <3>5
      <3>8. \A i, j \in n..n : State[j] \ State[i] \subseteq Writable' \cup Pending(j)'
        BY <3>6
      <3> QED BY <3>1, <3>4, <3>7, <3>8, Zenon DEF Whole
    <2> QED BY <2>1, <2>2
  <1>7. Copied'
    BY <1>0, <1>1, <1>2, <1>3, Zenon DEF Copied, CopiedAll, Undisturbed, SameRun
  <1>8. Freshened' /\ CachedNodesAreStored'
    BY <1>0, <1>1, <1>2, <1>3, Zenon DEF Freshened, CachedNodesAreStored, FreshCache, Undisturbed, SameRun
  <1>9. Reads'
    <2>1. \A i : i \in reader.from..chain.valid => i \in reader.from..n
      BY <1>0, <1>1
    <2>2. DOMAIN reader' = {"at", "key", "from"}
      BY <1>0, <1>1, Zenon DEF Reads
    <2>3. reader.at # "idle" => reader.from \in Nat \ {0} /\ reader.from <= n
      BY <1>0, <1>1 DEF Reads
    <2> QED BY <1>0, <1>1, <1>3, <2>1, <2>2, <2>3, Zenon DEF Reads, FetchFindsValidated
  <1> QED BY <1>4, <1>5, <1>6, <1>7, <1>8, <1>9 DEF NodesInv

(* A step of the thread that leaves the backends and the ledgers alone. *)
LEMMA ThreadOnly ==
    ASSUME NodesInv, SameOrder, SameBackends, UNCHANGED <<Writable, Archive, reader>>,
           db'.cache = db.cache, chain'.todo = chain.todo, chain'.storing = chain.storing,
           run'.at # "rotate", Order', Copied', Freshened'
    PROVE  NodesInv'
  <1>1. UNCHANGED <<Unwritten, StoringNode>>
    BY DEF Unwritten, StoringNode
  <1>2. Grows /\ CacheGrows
    BY <1>1 DEF Grows, CacheGrows
  <1> QED
    BY <1>1, <1>2, WholeKept, CachedKept, ReadsKept, WritesKept DEF NodesInv, SameBackends

(* The sequences, when a rotation does not begin and is not in its last    *)
(* part.                                                                   *)
LEMMA OrderOnward ==
    ASSUME Order, SameOrder, chain'.todo = chain.todo, chain'.storing = chain.storing,
           run'.seq = run.seq, run'.lastRotated = run.lastRotated,
           run'.newLedger_ = run.newLedger_, Rotating' => Rotating,
           run.at \notin {"rotate", "delete"}, run'.at \notin {"rotate", "delete"}
    PROVE  Order'
  BY ZenonT(40) DEF Order, SameOrder

(* Where no node has to be anywhere yet. *)
Early == {"top", "waiting", "stopped", "failed", "begin", "clear", "cleared", "delete"} \cup Table

LEMMA EarlyStep ==
    ASSUME run'.at \in Early
    PROVE  Copied' /\ Freshened' /\ run'.at # "rotate"
  BY Zenon DEF Early, Table, Copied, Freshened

(* The steps of the thread that clear and those before, after and between. *)
LEMMA EarlyNodes ==
    ASSUME DeleteInv, NodesInv,
           \/ RunTop \/ RunBegin \/ ClearPriorLedgers \/ ClearRows
    PROVE  NodesInv'
  <1>0. Fields /\ Order
    BY DEF DeleteInv, NodesInv
  <1>1. /\ run'.seq = run.seq /\ run'.lastRotated = run.lastRotated
        /\ run'.newLedger_ = run.newLedger_ /\ run'.at \in Early \ {"delete"}
        /\ run.at \in Early \ {"delete"}
        /\ Rotating' => Rotating
        /\ UNCHANGED <<state_db_, disk, db, chain, reader>>
    <2>1. CASE RunTop
      BY <1>0, <2>1 DEF RunTop, Fields, Early, Rotating, durable
    <2>2. CASE RunBegin
      BY <1>0, <2>2, SwitchStep DEF RunBegin, Early, Rotating, durable
    <2>3. CASE ClearPriorLedgers
      <3>1. PICK well \in BOOLEAN : Work(well, "clear", "Ledgers", "cleared")
        BY <2>3 DEF ClearPriorLedgers
      <3>2. run.at = "clear" /\ run'.at \in {"Ledgers", "cleared"}
        BY <1>0, <3>1, WorkStep
      <3> QED
        BY <1>0, <2>3, <3>1, <3>2, WorkStep DEF ClearPriorLedgers, Early, Table, Rotating, durable
    <2>4. CASE ClearRows
      <3>1. PICK t \in Table, next \in {"Transactions", "AccountTransactions", "cleared"} :
                ClearSql(t, next)
        BY <2>4 DEF ClearRows, Table
      <3>2. /\ run.at = t /\ run'.at \in {t, next, "cleared"}
            /\ run'.seq = run.seq /\ run'.lastRotated = run.lastRotated
            /\ run'.newLedger_ = run.newLedger_ /\ UNCHANGED <<state_db_, disk, db, chain, reader>>
        BY <3>1, ClearSqlStep
      <3> QED BY <3>2 DEF Early, Table, Rotating
    <2> QED BY <2>1, <2>2, <2>3, <2>4, Zenon
  <1>2. SameOrder /\ SameBackends /\ UNCHANGED <<Writable, Archive, reader>> /\ db'.cache = db.cache
    BY <1>1, Zenon DEF SameOrder, SameBackends, Writable, Archive, LastRotated
  <1>3. run.at \notin {"rotate", "delete"} /\ run'.at \notin {"rotate", "delete"}
    BY <1>1 DEF Early, Table
  <1>4. Order'
    BY <1>0, <1>1, <1>2, <1>3, OrderOnward, Zenon
  <1> QED BY <1>1, <1>2, <1>4, EarlyStep, ThreadOnly, Zenon

(* A wake-up takes the validated ledger. *)
LEMMA RunWakeNodes ==
    ASSUME DeleteInv, NodesInv, NEW spurious, RunWake(spurious)
    PROVE  NodesInv'
  <1> DEFINE seq == run.newLedger_
             last == IF run.lastRotated = None THEN seq ELSE run.lastRotated
             due == seq >= last + DeleteInterval /\ state_db_.canDelete >= last - 1
  <1>0. /\ Fields /\ Order /\ last = LastRotated /\ seq \in {0, chain.valid}
        /\ DeleteInterval \in Nat \ {0}
        /\ {chain.closed, chain.first, chain.valid, run.seq, LastRotated} \subseteq Nat
    BY OnlineDeleteAssumption, Zenon DEF DeleteInv, NodesInv, Order, None
  <1>1. run.at = "waiting" /\ UNCHANGED <<disk, db, chain, reader>>
    BY DEF RunWake
  <1>2. /\ run'.at \in {"top", "begin"} /\ run'.lastRotated = run.lastRotated
        /\ LastRotated' = LastRotated /\ run'.newLedger_ = 0
        /\ run'.at = "begin" => run'.seq = chain.valid /\ chain.valid # 0
                                /\ run'.seq >= LastRotated + DeleteInterval
        /\ run'.seq \in Nat
    <2>1. CASE seq = None
      <3>1. run' = [run EXCEPT !.at = "top", !.woken = FALSE] /\ UNCHANGED state_db_
        BY <2>1 DEF RunWake
      <3> QED BY <1>0, <2>1, <3>1 DEF Fields, LastRotated, None
    <2>2. CASE seq # None
      <3>1. /\ run' = [run EXCEPT !.at = IF due THEN "begin" ELSE "top", !.seq = seq,
                                  !.newLedger_ = None, !.lastRotated = last, !.woken = FALSE]
            /\ state_db_' = [state_db_ EXCEPT !.lastRotated = last]
        BY <2>2 DEF RunWake
      <3>2. last = run.lastRotated
        BY <1>0, Zenon DEF Order
      <3> HIDE DEF last, seq
      <3>3. /\ run'.at = (IF due THEN "begin" ELSE "top") /\ run'.seq = seq
            /\ run'.newLedger_ = 0 /\ run'.lastRotated = last /\ LastRotated' = last
        BY <1>0, <3>1 DEF Fields, LastRotated, None
      <3> QED BY <1>0, <2>2, <3>2, <3>3 DEF None
    <2> QED BY <2>1, <2>2, Zenon
  <1> HIDE DEF seq, last
  <1>3. SameOrder /\ SameBackends /\ UNCHANGED <<Writable, Archive, reader>> /\ db'.cache = db.cache
    BY <1>1, <1>2, Zenon DEF SameOrder, SameBackends, Writable, Archive
  <1>4. run'.at = "begin" => chain.first # 0 /\ chain.first <= run'.seq
    BY <1>0, <1>2 DEF Order
  <1>5. Order'
    BY <1>0, <1>1, <1>2, <1>3, <1>4 DEF Order, SameOrder, Rotating
  <1>6. run'.at \in Early
    BY <1>2 DEF Early
  <1> QED BY <1>1, <1>3, <1>5, <1>6, EarlyStep, ThreadOnly

(* A switch on health() goes on only if nothing was aborted before it. *)
LEMMA SwitchOn ==
    ASSUME Fields, NEW from, NEW to, to \notin {"top", "stopped"}, NEW todo, Switch(from, to, todo)
    PROVE  run'.at = to => Undisturbed /\ run'.todo = todo
  <1>1. PICK well \in BOOLEAN :
          run' = [run EXCEPT !.healthy_ = healthyAfter(well), !.todo = todo,
                             !.at = CASE health(well) = "stopping" -> "stopped"
                                      [] health(well) = "unhealthy" -> "top"
                                      [] OTHER -> to]
    BY Zenon DEF Switch
  <1>2. /\ run'.todo = todo
        /\ run'.at = CASE health(well) = "stopping" -> "stopped"
                       [] health(well) = "unhealthy" -> "top"
                       [] OTHER -> to
    BY <1>1 DEF Fields
  <1>3. run'.at = to => health(well) \notin {"stopping", "unhealthy"}
    BY <1>2
  <1>4. health(well) \notin {"stopping", "unhealthy"} => run.healthy_ /\ ~run.stop_
    BY Zenon DEF health
  <1> QED BY <1>2, <1>3, <1>4 DEF Undisturbed

(* The switches from copying to freshening, and from that to the new       *)
(* backend, and the one after it.                                          *)
LEMMA SwitchNodes ==
    ASSUME DeleteInv, NodesInv, RunCleared \/ RunCopied \/ RunFresh \/ RunMade
    PROVE  NodesInv'
  <1>0. Fields /\ Order /\ Copied /\ Freshened
    BY DEF DeleteInv, NodesInv
  <1> DEFINE Goes(from, to, todo) ==
               /\ from \in {"cleared", "copied", "fresh", "made"}
               /\ to \in {"copy", "freshen", "make", "save"}
               /\ Switch(from, to, todo)
               /\ from = "cleared" => to = "copy" /\ todo = State[run.seq]
               /\ from = "copied" => to = "freshen" /\ todo = db.cache
               /\ from = "fresh" => to = "make"
               /\ from = "made" => to = "save"
  <1>1. PICK from, to, todo : Goes(from, to, todo)
    <2>1. RunCleared => Goes("cleared", "copy", State[run.seq])
      BY Zenon DEF RunCleared
    <2>2. RunCopied => Goes("copied", "freshen", db.cache)
      BY DEF RunCopied
    <2>3. RunFresh => Goes("fresh", "make", {})
      BY DEF RunFresh
    <2>4. RunMade => Goes("made", "save", {})
      BY Zenon DEF RunMade
    <2> HIDE DEF Goes
    <2> QED BY <2>1, <2>2, <2>3, <2>4, Zenon
  <1>2. UNCHANGED <<state_db_, disk, db, chain, reader>>
    BY Zenon DEF RunCleared, RunCopied, RunFresh, RunMade, durable
  <1>3. /\ run.at = from /\ run'.at \in {"top", "stopped", to}
        /\ run'.seq = run.seq /\ run'.lastRotated = run.lastRotated
        /\ run'.newLedger_ = run.newLedger_
        /\ run'.at = to => Undisturbed /\ run'.todo = todo
    BY <1>0, <1>1, SwitchStep, SwitchOn, Zenon
  <1>4. /\ SameOrder /\ SameBackends /\ UNCHANGED <<Writable, Archive, reader, StoringNode>>
        /\ db'.cache = db.cache
    BY <1>2, Zenon DEF SameOrder, SameBackends, Writable, Archive, LastRotated, StoringNode
  <1>5. Order'
    BY <1>0, <1>1, <1>2, <1>3, <1>4, OrderOnward, Zenon DEF Rotating
  <1>6. CopiedAll' = CopiedAll /\ FreshCache' = FreshCache
    BY <1>2, <1>3, <1>4, Zenon DEF CopiedAll, FreshCache, Pending, Unwritten
  <1>7. run'.at \in {"top", "stopped"} \/ run'.at = to
    BY <1>3
  <1>8. CASE run'.at = to
    <2>1. Copied'
      BY <1>0, <1>1, <1>3, <1>4, <1>6, <1>8, Zenon DEF Copied
    <2>2. Freshened'
      BY <1>0, <1>1, <1>3, <1>4, <1>6, <1>8, Zenon DEF Freshened
    <2> QED BY <1>1, <1>2, <1>4, <1>5, <1>8, <2>1, <2>2, ThreadOnly, Zenon
  <1>9. CASE run'.at \in {"top", "stopped"}
    BY <1>2, <1>4, <1>5, <1>9, EarlyStep, ThreadOnly, Zenon DEF Early
  <1> QED BY <1>7, <1>8, <1>9

(* copyNode and freshenCache: fetchNode of one node more. *)
LEMMA VisitStep ==
    ASSUME DeleteInv, NEW from, NEW to, Visit(from, to)
    PROVE  /\ run.at = from /\ run'.at \in {from, to}
           /\ run'.seq = run.seq /\ run'.lastRotated = run.lastRotated
           /\ run'.newLedger_ = run.newLedger_ /\ UNCHANGED <<state_db_, db, chain, reader>>
           /\ Writable \subseteq Writable' /\ Archive \subseteq Archive'
           /\ \/ run.todo = {} /\ run'.at = to /\ run'.todo = {}
              \/ \E k \in run.todo : /\ run'.todo = run.todo \ {k}
                                     /\ k \in Kept => k \in Writable'
                                     /\ run'.at = from \/ ~Undisturbed'
  <1>0. Fields
    BY DEF DeleteInv
  <1>1. run.at = from /\ UNCHANGED <<state_db_, db, chain, reader>> /\ SameBackends
    BY Zenon DEF Visit, SameBackends
  <1>2. CASE run.todo = {} /\ run' = [run EXCEPT !.at = to] /\ UNCHANGED disk
    BY <1>0, <1>1, <1>2 DEF Fields, Writable, Archive
  <1>3. ASSUME NEW k \in run.todo, NEW well \in BOOLEAN, fetchFrom(k),
               run' = [run EXCEPT !.todo = @ \ {k}, !.healthy_ = healthyAfter(well),
                                  !.at = IF health(well) = "ok" THEN from ELSE to]
        PROVE  /\ run'.at \in {from, to}
               /\ run'.seq = run.seq /\ run'.lastRotated = run.lastRotated
               /\ run'.newLedger_ = run.newLedger_
               /\ Writable \subseteq Writable' /\ Archive \subseteq Archive'
               /\ run'.todo = run.todo \ {k}
               /\ k \in Kept => k \in Writable'
               /\ run'.at = from \/ ~Undisturbed'
    <2>1. /\ run'.at = (IF health(well) = "ok" THEN from ELSE to)
          /\ run'.seq = run.seq /\ run'.lastRotated = run.lastRotated
          /\ run'.newLedger_ = run.newLedger_ /\ run'.todo = run.todo \ {k}
          /\ run'.stop_ = run.stop_
      BY <1>0, <1>3 DEF Fields
    <2>2. run'.healthy_ = healthyAfter(well)
      BY <1>0, <1>3 DEF Fields
    <2>3. health(well) # "ok" => run.stop_ \/ ~healthyAfter(well)
      BY Zenon DEF health, healthyAfter
    <2>4. health(well) # "ok" => ~Undisturbed'
      BY <2>1, <2>2, <2>3, Zenon DEF Undisturbed
    <2>5. Writable \subseteq Writable' /\ Archive \subseteq Archive' /\ (k \in Kept => k \in Writable')
      BY <1>1, <1>3, FetchFromGrows
    <2> QED BY <2>1, <2>4, <2>5, Zenon
  <1>4. \/ run.todo = {} /\ run' = [run EXCEPT !.at = to] /\ UNCHANGED disk
        \/ \E k \in run.todo, well \in BOOLEAN :
             /\ fetchFrom(k)
             /\ run' = [run EXCEPT !.todo = @ \ {k}, !.healthy_ = healthyAfter(well),
                                   !.at = IF health(well) = "ok" THEN from ELSE to]
    BY Zenon DEF Visit
  <1> QED BY <1>1, <1>2, <1>3, <1>4, Zenon

(* The state is copied: the writable backend then has the rotation's       *)
(* ledger, and what the later ones add to it.                              *)
LEMMA CopyNodesNodes ==
    ASSUME DeleteInv, NodesInv, CopyNodes
    PROVE  NodesInv'
  <1>0. Fields /\ Order /\ Copied /\ Whole /\ Writes /\ Reads /\ CachedNodesAreStored
    BY DEF DeleteInv, NodesInv
  <1>1. /\ run.at = "copy" /\ run'.at \in {"copy", "copied"}
        /\ run'.seq = run.seq /\ run'.lastRotated = run.lastRotated
        /\ run'.newLedger_ = run.newLedger_ /\ UNCHANGED <<state_db_, db, chain, reader>>
        /\ Writable \subseteq Writable' /\ Archive \subseteq Archive'
        /\ \/ run.todo = {} /\ run'.at = "copied" /\ run'.todo = {}
           \/ \E k \in run.todo : /\ run'.todo = run.todo \ {k}
                                  /\ k \in Kept => k \in Writable'
                                  /\ run'.at = "copy" \/ ~Undisturbed'
    BY VisitStep, Zenon DEF CopyNodes
  <1>2. SameOrder /\ SameBackends /\ UNCHANGED <<StoringNode, Unwritten>> /\ db'.cache = db.cache
    BY <1>1, Zenon DEF SameOrder, SameBackends, LastRotated, StoringNode, Unwritten
  <1>3. Grows /\ CacheGrows
    BY <1>1, <1>2, Zenon DEF Grows, CacheGrows
  <1>4. Order'
    BY <1>0, <1>1, <1>2, OrderOnward, Zenon DEF Rotating
  <1>5. Writes' /\ Whole' /\ Reads' /\ CachedNodesAreStored' /\ Freshened'
    BY <1>0, <1>1, <1>2, <1>3, WritesKept, WholeKept, ReadsKept, CachedKept, Zenon DEF Freshened
  <1>6. /\ {chain.closed, chain.first, chain.valid, run.seq, LastRotated} \subseteq Nat
        /\ chain.first # 0 /\ chain.first <= run.seq /\ run.seq <= chain.closed
        /\ run.seq <= chain.valid /\ run.seq >= LastRotated + DeleteInterval
        /\ DeleteInterval \in Nat
    <2>1. Rotating /\ run.at \notin {"rotate", "delete"}
      BY <1>1 DEF Rotating
    <2> QED BY <1>0, <2>1, OnlineDeleteAssumption DEF Order
  <1>7. run.seq \in chain.first..chain.closed /\ run.seq >= LastRotated
    BY <1>6
  <1>8. State[run.seq] \subseteq Kept
    <2>1. State[run.seq] \subseteq Kept \cup Pending(run.seq)
      BY <1>0, <1>6, <1>7, Zenon DEF Whole
    <2>2. run.seq = chain.closed => Unwritten = {}
      <3>1. run.seq = chain.closed => chain.valid = chain.closed
        BY <1>0, <1>6 DEF Order
      <3> QED BY <1>0, <3>1, Zenon DEF Order, Unwritten, StoringNode
    <2> QED BY <2>1, <2>2 DEF Pending
  <1>9. State[run.seq] \ run'.todo \subseteq Writable'
    BY <1>0, <1>1, <1>8, Zenon DEF Copied
  <1>10. ASSUME run'.todo = {} PROVE CopiedAll'
    <2>1. State[run.seq] \subseteq Writable'
      BY <1>9, <1>10
    <2>2. ASSUME NEW n \in run.seq..chain.closed PROVE State[n] \subseteq Writable' \cup Pending(n)'
      <3>1. n \in chain.first..chain.closed /\ run.seq <= n
        BY <1>6
      <3>2. State[n] \ State[run.seq] \subseteq Writable' \cup Pending(n)'
        BY <1>1, <1>2, <1>5, <1>6, <1>7, <3>1, Zenon DEF Whole, SameOrder
      <3> QED BY <2>1, <3>2, Zenon
    <2> QED BY <1>1, <2>2, Zenon DEF CopiedAll
  <1>11. Copied'
    BY <1>1, <1>9, <1>10, Zenon DEF Copied
  <1> QED BY <1>4, <1>5, <1>11 DEF NodesInv

(* The caches are freshened. *)
LEMMA FreshenNodes ==
    ASSUME DeleteInv, NodesInv, freshenCaches
    PROVE  NodesInv'
  <1>0. /\ Fields /\ Order /\ Copied /\ Whole /\ Writes /\ Reads /\ CachedNodesAreStored
        /\ Freshened
    BY DEF DeleteInv, NodesInv
  <1>1. /\ run.at = "freshen" /\ run'.at \in {"freshen", "fresh"}
        /\ run'.seq = run.seq /\ run'.lastRotated = run.lastRotated
        /\ run'.newLedger_ = run.newLedger_ /\ UNCHANGED <<state_db_, db, chain, reader>>
        /\ Writable \subseteq Writable' /\ Archive \subseteq Archive'
        /\ \/ run.todo = {} /\ run'.at = "fresh" /\ run'.todo = {}
           \/ \E k \in run.todo : /\ run'.todo = run.todo \ {k}
                                  /\ k \in Kept => k \in Writable'
                                  /\ run'.at = "freshen" \/ ~Undisturbed'
    BY VisitStep, Zenon DEF freshenCaches
  <1>2. SameOrder /\ SameBackends /\ UNCHANGED <<StoringNode, Unwritten>> /\ db'.cache = db.cache
    BY <1>1, Zenon DEF SameOrder, SameBackends, LastRotated, StoringNode, Unwritten
  <1>3. Grows /\ CacheGrows
    BY <1>1, <1>2, Zenon DEF Grows, CacheGrows
  <1>4. Order'
    BY <1>0, <1>1, <1>2, OrderOnward, Zenon DEF Rotating
  <1>5. Writes' /\ Whole' /\ Reads' /\ CachedNodesAreStored'
    BY <1>0, <1>1, <1>2, <1>3, WritesKept, WholeKept, ReadsKept, CachedKept, Zenon
  <1>6. CopiedAll
    BY <1>0, <1>1, Zenon DEF Copied
  <1>7. CopiedAll'
    BY <1>1, <1>2, <1>6, Zenon DEF CopiedAll, Pending
  <1>8. Copied'
    BY <1>1, <1>7, Zenon DEF Copied
  <1>9. db'.cache \ run'.todo \subseteq Writable' \cup StoringNode'
    <2>1. db.cache \ run.todo \subseteq Writable \cup StoringNode
      BY <1>0, <1>1, Zenon DEF Freshened
    <2>2. db.cache \subseteq Kept \cup StoringNode
      BY <1>0, CachedIsKept
    <2> QED BY <1>1, <1>2, <2>1, <2>2, Zenon
  <1>10. Freshened'
    BY <1>1, <1>9, Zenon DEF Freshened, FreshCache
  <1> QED BY <1>4, <1>5, <1>8, <1>10 DEF NodesInv

(* The new backend, and the removal of the old one. *)
LEMMA DirectoryNodes ==
    ASSUME DeleteInv, NodesInv, MakeBackend \/ DeleteOld
    PROVE  NodesInv'
  <1>0. /\ Fields /\ Order /\ Copied /\ Freshened
        /\ {db.writable, db.archive} \subseteq DOMAIN disk
        /\ run.at = "delete" => run.spare \notin {db.writable, db.archive}
    BY Zenon DEF DeleteInv, NodesInv, BackendNames
  <1>1. UNCHANGED <<state_db_, db, chain, reader>>
    BY DEF MakeBackend, DeleteOld
  <1>2. CASE MakeBackend
    <2> DEFINE b == CHOOSE b \in Backend \ DOMAIN disk : TRUE
    <2>1. /\ run.at = "make" /\ run' = [run EXCEPT !.at = "made", !.spare = b]
          /\ disk' = [c \in DOMAIN disk \cup {b} |-> IF c = b THEN {} ELSE disk[c]]
      BY <1>2 DEF MakeBackend
    <2>2. b \in Backend \ DOMAIN disk
      BY <1>2 DEF MakeBackend
    <2> HIDE DEF b
    <2>3. /\ run'.at = "made" /\ run'.seq = run.seq /\ run'.lastRotated = run.lastRotated
          /\ run'.newLedger_ = run.newLedger_
      BY <1>0, <2>1 DEF Fields
    <2>4. disk'[db.writable] = disk[db.writable] /\ disk'[db.archive] = disk[db.archive]
      BY <1>0, <2>1, <2>2
    <2>5. /\ SameOrder /\ SameBackends /\ UNCHANGED <<Writable, Archive, reader, StoringNode>>
          /\ db'.cache = db.cache
      BY <1>1, <2>4, Zenon DEF SameOrder, SameBackends, Writable, Archive, LastRotated, StoringNode
    <2>6. Order'
      BY <1>0, <1>1, <2>1, <2>3, <2>5, OrderOnward DEF Rotating
    <2>7. CopiedAll' = CopiedAll /\ FreshCache' = FreshCache
      BY <1>1, <2>3, <2>5, Zenon DEF CopiedAll, FreshCache, Pending, Unwritten
    <2>8. Copied' /\ Freshened'
      BY <1>0, <2>1, <2>3, <2>7 DEF Copied, Freshened
    <2> QED BY <1>1, <2>3, <2>5, <2>6, <2>8, ThreadOnly, Zenon
  <1>3. CASE DeleteOld
    <2>1. /\ run.at = "delete" /\ run' = [run EXCEPT !.at = "top"]
          /\ disk' = [c \in DOMAIN disk \ {run.spare} |-> disk[c]]
      BY <1>3 DEF DeleteOld, Restrict
    <2>2. /\ run'.at = "top" /\ run'.seq = run.seq /\ run'.lastRotated = run.lastRotated
          /\ run'.newLedger_ = run.newLedger_
      BY <1>0, <2>1 DEF Fields
    <2>3. disk'[db.writable] = disk[db.writable] /\ disk'[db.archive] = disk[db.archive]
      BY <1>0, <2>1
    <2>4. /\ SameOrder /\ SameBackends /\ UNCHANGED <<Writable, Archive, reader>>
          /\ db'.cache = db.cache
      BY <1>1, <2>3 DEF SameOrder, SameBackends, Writable, Archive, LastRotated
    <2>5. Order'
      BY <1>0, <1>1, <2>1, <2>2, <2>4 DEF Order, SameOrder, Rotating
    <2> QED BY <1>1, <2>2, <2>4, <2>5, EarlyStep, ThreadOnly, Zenon DEF Early
  <1> QED BY <1>2, <1>3

(* The state is saved: its rotation is now the last. *)
LEMMA SetStateNodes ==
    ASSUME DeleteInv, NodesInv, SetState
    PROVE  NodesInv'
  <1>0. /\ Fields /\ Order /\ Copied /\ Freshened /\ Whole /\ Writes /\ Reads
        /\ CachedNodesAreStored
    BY DEF DeleteInv, NodesInv
  <1>1. /\ run.at = "save" /\ run'.at = "rotate" /\ run'.seq = run.seq
        /\ run'.lastRotated = run.seq /\ run'.newLedger_ = run.newLedger_
        /\ LastRotated' = run.seq /\ UNCHANGED <<disk, db, chain, reader>>
    BY <1>0 DEF Fields, SetState, LastRotated
  <1>2. UNCHANGED <<Writable, Archive, Kept, Held, StoringNode, Unwritten, CopiedAll, FreshCache>>
    BY <1>1, Zenon DEF Writable, Archive, Kept, Held, StoringNode, Unwritten, CopiedAll, FreshCache, Pending
  <1>3. /\ {chain.closed, chain.first, chain.valid, run.seq, LastRotated} \subseteq Nat
        /\ chain.first # 0 /\ chain.first <= run.seq /\ chain.valid <= chain.closed
        /\ run.seq <= chain.valid /\ run.seq >= LastRotated + DeleteInterval
        /\ DeleteInterval \in Nat \ {0}
    <2>1. Rotating /\ run.at \notin {"rotate", "delete"}
      BY <1>1 DEF Rotating
    <2> QED BY <1>0, <2>1, OnlineDeleteAssumption, Zenon DEF Order
  <1>4. Order'
    BY <1>0, <1>1, <1>3 DEF Order
  <1>5. Writes'
    <2>1. chain.storing # <<>> => ~(chain.closed <= LastRotated + DeleteInterval)
      BY <1>0, <1>3 DEF Order
    <2> QED BY <1>0, <1>1, <1>2, <2>1, Zenon DEF Writes
  <1>6. Whole'
    <2>1. \A n \in chain.first..chain.closed : n >= run.seq => n >= LastRotated
      BY <1>3
    <2>2. \A n \in chain.first..chain.closed :
              n >= run.seq + DeleteInterval => n >= LastRotated + DeleteInterval
      BY <1>3
    <2>3. \A n : Pending(n)' = Pending(n)
      BY <1>1, <1>2 DEF Pending
    <2> QED BY <1>0, <1>1, <1>2, <2>1, <2>2, <2>3, ZenonT(40) DEF Whole
  <1>7. Copied' /\ Freshened'
    BY <1>0, <1>1, <1>2, Zenon DEF Copied, Freshened
  <1>8. CachedNodesAreStored' /\ Reads'
    BY <1>0, <1>1, <1>2, Zenon DEF CachedNodesAreStored, Reads, FetchFindsValidated
  <1> QED BY <1>4, <1>5, <1>6, <1>7, <1>8 DEF NodesInv

(* The backends are exchanged: what has been copied is in the new archive. *)
LEMMA rotateBackendsNodes ==
    ASSUME DeleteInv, NodesInv, rotateBackends
    PROVE  NodesInv'
  <1>0. /\ Fields /\ Order /\ Copied /\ Freshened /\ Whole /\ Writes /\ Reads
        /\ CachedNodesAreStored
    BY DEF DeleteInv, NodesInv
  <1>1. /\ run.at = "rotate" /\ run'.at = "delete" /\ run'.seq = run.seq
        /\ run'.lastRotated = run.lastRotated /\ run'.newLedger_ = run.newLedger_
        /\ db'.writable = run.spare /\ db'.archive = db.writable /\ db'.cache = db.cache
        /\ chain'.closed = chain.closed /\ chain'.first = chain.first /\ chain'.valid = chain.valid
        /\ chain'.todo = chain.todo /\ chain'.storing = chain.storing
        /\ chain'.late = chain.late \cup Late
        /\ UNCHANGED <<state_db_, disk, reader>>
    BY <1>0 DEF Fields, rotateBackends, durable
  <1>2. /\ Writable \subseteq Archive' /\ Late \subseteq Writable' /\ chain.late \subseteq chain'.late
        /\ UNCHANGED <<StoringNode, Unwritten, LastRotated>> /\ \A n : Pending(n)' = Pending(n)
    <2>1. UNCHANGED <<StoringNode, Unwritten, LastRotated>>
      BY <1>1, Zenon DEF StoringNode, Unwritten, LastRotated
    <2>2. \A n : Pending(n)' = Pending(n)
      BY <1>1, <2>1, Zenon DEF Pending
    <2> QED BY <1>1, <2>1, <2>2, Zenon DEF Archive, Writable
  <1>3. /\ {chain.closed, chain.first, chain.valid, run.seq} \subseteq Nat
        /\ run.seq = LastRotated /\ DeleteInterval \in Nat \ {0}
        /\ chain.first # 0 /\ run.seq <= chain.valid /\ chain.valid <= chain.closed
    <2>1. Rotating
      BY <1>1 DEF Rotating
    <2> QED BY <1>0, <1>1, <2>1, OnlineDeleteAssumption, Zenon DEF Order
  <1>4. Order'
    BY <1>0, <1>1, <1>2, ZenonT(40) DEF Order, Rotating
  <1>5. ASSUME NEW m \in Nat, NEW n \in Nat, m >= LastRotated + DeleteInterval, m <= n,
               n <= chain.closed
        PROVE  State[n] \ State[m] \subseteq Late
    <2> DEFINE S == (run.seq + DeleteInterval)..chain.closed
               D == {State[i] \ State[j] : i, j \in S}
    <2>1. m \in S /\ n \in S
      BY <1>3, <1>5
    <2>2. Late = UNION D
      BY DEF Late
    <2> HIDE DEF S
    <2>3. State[n] \ State[m] \in D
      BY <2>1
    <2> HIDE DEF D
    <2> QED BY <2>2, <2>3
  <1>6. Writes'
    <2>1. chain.closed > LastRotated + DeleteInterval => Unwritten \subseteq Late
      <3>1. chain.closed > LastRotated + DeleteInterval =>
                State[chain.closed] \ State[chain.closed - 1] \subseteq Late
        BY <1>3, <1>5
      <3> QED BY <1>0, <1>3, <3>1 DEF Writes
    <2>2. chain.storing # <<>> => chain.storing[1] \in Unwritten
      BY DEF Unwritten, StoringNode
    <2>3. chain.storing # <<>> =>
              \/ chain.closed <= LastRotated + DeleteInterval
              \/ chain.storing[1] \in chain'.late
      BY <1>1, <1>3, <2>1, <2>2
    <2> QED BY <1>0, <1>1, <1>2, <1>3, <2>3, Zenon DEF Writes
  <1>7. CopiedAll /\ FreshCache
    BY <1>0, <1>1, Zenon DEF Copied, Freshened
  <1>8. Whole'
    <2>1. ASSUME NEW n \in chain.first..chain.closed, n >= LastRotated
          PROVE  State[n] \subseteq Kept' \cup Pending(n)'
      <3>1. n \in run.seq..chain.closed
        BY <1>3, <2>1
      <3>2. State[n] \subseteq Writable \cup Pending(n)
        BY <1>7, <3>1, Zenon DEF CopiedAll
      <3> QED BY <1>2, <3>2, Zenon DEF Kept
    <2>2. ASSUME NEW m \in chain.first..chain.closed, NEW n \in chain.first..chain.closed,
                 m >= LastRotated + DeleteInterval, m <= n
          PROVE  State[n] \ State[m] \subseteq Writable'
      <3>1. m \in Nat /\ n \in Nat /\ n <= chain.closed
        BY <1>3
      <3>2. State[n] \ State[m] \subseteq Late
        BY <1>5, <2>2, <3>1, Zenon
      <3> QED BY <1>2, <3>2, Zenon
    <2> QED BY <1>1, <1>2, <1>3, <2>1, <2>2, Zenon DEF Whole
  <1>9. Copied' /\ Freshened'
    BY <1>1, Zenon DEF Copied, Freshened
  <1>10. CachedNodesAreStored'
    <2>1. db'.cache \subseteq Kept' \cup StoringNode'
      BY <1>1, <1>2, <1>7, Zenon DEF FreshCache, Kept
    <2> QED BY <2>1, CachedIsKept
  <1>11. Reads'
    <2>1. chain.valid \in run.seq..chain.closed
      BY <1>3
    <2>2. Pending(chain.valid) = {}
      BY <1>0, Zenon DEF Order, Pending, Unwritten, StoringNode
    <2>3. State[chain.valid] \subseteq Archive'
      BY <1>2, <1>7, <2>1, <2>2 DEF CopiedAll
    <2>4. reader.at # "idle" => chain.valid \in reader.from..chain.valid
      BY <1>0, <1>3 DEF Reads
    <2> QED BY <1>0, <1>1, <1>2, <2>3, <2>4, Zenon DEF Reads, FetchFindsValidated
  <1> QED BY <1>4, <1>6, <1>8, <1>9, <1>10, <1>11 DEF NodesInv

(* A stop, and the can_delete command. *)
LEMMA OtherNodes ==
    ASSUME DeleteInv, NodesInv, OnStop \/ \E c \in CanDeletes : SetCanDelete(c)
    PROVE  NodesInv'
  <1>0. /\ Fields /\ Order /\ Copied /\ Freshened /\ Whole /\ Writes /\ Reads
        /\ CachedNodesAreStored
    BY DEF DeleteInv, NodesInv
  <1>1. LastRotated' = LastRotated /\ UNCHANGED <<disk, db, chain, reader>>
    BY <1>0, Zenon DEF Fields, OnStop, SetCanDelete, durable, LastRotated
  <1>2. /\ run'.at = run.at /\ run'.seq = run.seq /\ run'.lastRotated = run.lastRotated
        /\ run'.newLedger_ = run.newLedger_ /\ run'.todo = run.todo
    BY <1>0, Zenon DEF Fields, OnStop, SetCanDelete
  <1>3. Undisturbed' => Undisturbed
    <2>1. CASE OnStop
      BY <1>0, <2>1 DEF OnStop, Fields, Undisturbed
    <2>2. CASE ~OnStop
      BY <2>2 DEF SetCanDelete, Undisturbed
    <2> QED BY <2>1, <2>2
  <1>4. /\ SameOrder /\ SameBackends
        /\ UNCHANGED <<Writable, Archive, Held, reader, StoringNode, Unwritten, CopiedAll, FreshCache>>
    BY <1>1, <1>2, Zenon DEF SameOrder, SameBackends, Writable, Archive, Held, StoringNode, Unwritten,
                      CopiedAll, Pending, FreshCache
  <1>5. Order'
    BY <1>0, <1>1, <1>2, ZenonT(40) DEF Order, Rotating
  <1>6. Copied' /\ Freshened'
    BY <1>0, <1>1, <1>2, <1>3, <1>4, Zenon DEF Copied, Freshened
  <1>7. Grows
    BY <1>4 DEF Grows
  <1>8. Writes' /\ Whole' /\ Reads'
    BY <1>0, <1>1, <1>2, <1>4, <1>7, WritesKept, WholeKept, ReadsKept, Zenon
  <1>9. CachedNodesAreStored'
    BY <1>0, <1>1, <1>4, Zenon DEF CachedNodesAreStored
  <1> QED BY <1>5, <1>6, <1>8, <1>9 DEF NodesInv

(* After a restart nothing is in use yet. *)
LEMMA RestartNodes ==
    ASSUME DeleteInv, NodesInv, Restart
    PROVE  NodesInv'
  <1>0. Order /\ LastRotated \in Nat /\ LastRotated # 0
    BY Zenon DEF NodesInv, Order
  <1>1. {state_db_.writableDb, state_db_.archiveDb} \subseteq DOMAIN disk
    BY DEF DeleteInv, BackendNames
  <1>2. /\ run'.at = "top" /\ run'.seq = 0 /\ run'.newLedger_ = 0
        /\ run'.lastRotated = LastRotated /\ LastRotated' = LastRotated
        /\ db'.cache = {} /\ chain'.closed = 0 /\ chain'.valid = 0 /\ chain'.first = 0
        /\ chain'.todo = {} /\ chain'.storing = <<>>
        /\ reader' = [at |-> "idle", key |-> None, from |-> None]
    BY <1>1, Zenon DEF Restart, LastRotated, None
  <1>3. Order'
    BY <1>0, <1>2 DEF Order, Rotating
  <1>4. Writes' /\ Whole' /\ Copied' /\ Freshened'
    BY <1>2, Zenon DEF Writes, Whole, Copied, Freshened
  <1>5. CachedNodesAreStored' /\ Reads'
    BY <1>2, Zenon DEF CachedNodesAreStored, Reads, FetchFindsValidated
  <1> QED BY <1>3, <1>4, <1>5 DEF NodesInv

(* Every step keeps the nodes that are in use. *)
LEMMA NextNodes == DeleteInv /\ NodesInv /\ [Next]_vars => NodesInv'
  <1> SUFFICES ASSUME DeleteInv, NodesInv, [Next]_vars PROVE NodesInv'
    OBVIOUS
  <1>1. CASE Fetch \/ \E k \in Node : Sweep(k)
    BY <1>1, FetchNodes, FetchCopyNodes DEF Fetch
  <1>2. CASE Ledgers
    BY <1>2, CloseNodes, ValidateNodes, LedgerNodes DEF Ledgers
  <1>3. CASE Run
    BY <1>3, EarlyNodes, RunWakeNodes, SwitchNodes, CopyNodesNodes, FreshenNodes, DirectoryNodes,
       SetStateNodes, rotateBackendsNodes, Zenon DEF Run
  <1>4. CASE UNCHANGED vars
    <2>1. UNCHANGED <<durable, run, chain, db, reader>>
      BY <1>4 DEF vars
    <2>2. SameOrder /\ Archive' = Archive /\ Reads
      BY <2>1 DEF SameOrder, LastRotated, Archive, durable, NodesInv
    <2> QED BY <2>1, <2>2, ReadsKept, FetchOnly DEF SameBackends
  <1> QED
    BY <1>1, <1>2, <1>3, <1>4, RunWakeNodes, OtherNodes, RestartNodes, Zenon DEF Next

(* No node of a ledger since the last rotation is lost: not by a rotation, *)
(* not by one that was aborted, and not by a store or a fetch that races   *)
(* with it; only by one after a rotation whose exchange came so late that  *)
(* a ledger an interval and more after its own had added the node.         *)
THEOREM CurrentLedgersStayWhole == Spec => []CurrentLedgersAreWhole
  <1>1. ASSUME DeleteInv, NodesInv PROVE CurrentLedgersAreWhole
    <2> SUFFICES ASSUME chain.valid # 0,
                        NEW n \in Max({chain.first, LastRotated})..chain.valid
                 PROVE  State[n] \subseteq Kept
      BY DEF CurrentLedgersAreWhole, None, LastRotated, Kept, Writable, Archive, Held
    <2>1. /\ {chain.closed, chain.first, chain.valid, LastRotated} \subseteq Nat
          /\ chain.first # 0 /\ chain.valid <= chain.closed
      BY <1>1, Zenon DEF NodesInv, Order
    <2>2. /\ Max({chain.first, LastRotated}) \in {chain.first, LastRotated}
          /\ chain.first <= Max({chain.first, LastRotated})
          /\ LastRotated <= Max({chain.first, LastRotated})
      <3>1. \E x \in {chain.first, LastRotated} : \A y \in {chain.first, LastRotated} : x >= y
        BY <2>1
      <3> QED BY <2>1, <3>1 DEF Max
    <2>3. n \in chain.first..chain.closed /\ n >= LastRotated
      BY <2>1, <2>2
    <2>4. State[n] \subseteq Kept \cup Pending(n)
      BY <1>1, <2>1, <2>3, Zenon DEF NodesInv, Whole
    <2>5. n = chain.closed => chain.valid = chain.closed
      BY <2>1, <2>2
    <2>6. Pending(n) = {}
      BY <1>1, <2>5, Zenon DEF NodesInv, Order, Pending, Unwritten, StoringNode
    <2> QED BY <2>4, <2>6
  <1> QED
    BY <1>1, InitInv, NextInv, InitNodes, NextNodes, PTL DEF Spec

(* A cached node is in the store or on its way, because the caches are     *)
(* freshened before the old backend goes; late rotations apart.            *)
THEOREM CachedNodesStayStored == Spec => []CachedNodesAreStored
  <1>1. NodesInv => CachedNodesAreStored
    BY DEF NodesInv
  <1> QED
    BY <1>1, InitInv, NextInv, InitNodes, NextNodes, PTL DEF Spec

(* fetchFrom finds what it should, although the backends may be exchanged  *)
(* between its two reads; late rotations apart.                            *)
THEOREM FetchAlwaysFinds == Spec => []FetchFindsValidated
  <1>1. NodesInv => FetchFindsValidated
    BY DEF NodesInv, Reads
  <1> QED
    BY <1>1, InitInv, NextInv, InitNodes, NextNodes, PTL DEF Spec
=============================================================================
