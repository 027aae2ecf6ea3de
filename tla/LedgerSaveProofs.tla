------------------------- MODULE LedgerSaveProofs -------------------------
(* One thread at a time saves the ledger of a sequence number, and what    *)
(* the Ledgers table has is whole, for any number of threads, jobs,        *)
(* ledgers, calls and crashes.                                             *)
EXTENDS LedgerSave, TLAPS

(* The prover of the leaves that name none. *)
USE SMTT(30)

(* Who is between startWork and finishWork has marked its number. *)
WorkIsMarked == \A t \in Thread : call[t].at \in Working => map_[SeqAt(t)] = "working"

(* The entry of the ledger is away while its transactions are replaced,    *)
(* and they are this ledger's when it is put back.                         *)
RowsInOrder ==
    \A t \in Thread :
        /\ call[t].at \in {"txns", "row"} => ledgers[SeqAt(t)] = None
        /\ call[t].at = "row" => txns[SeqAt(t)] = call[t].ledger

SaveInv ==
    TypeOK /\ WorkIsMarked /\ OneSaverPerSequence /\ RowsInOrder /\ EntriesHaveTransactions

CallRecord ==
    [at : Working \cup {"idle", "double", "should", "start", "returned"},
     ledger : Ledger \cup {None}, sync : BOOLEAN, ok : BOOLEAN]

(* A thread inside pendSaveValidated has a ledger with a sequence number. *)
LEMMA SeqAtType ==
    ASSUME TypeOK, NEW t \in Thread, call[t].at # "idle"
    PROVE  call[t].ledger \in Ledger /\ SeqAt(t) \in Seqs
  BY DEF TypeOK, SeqAt, Seqs

(* The server starts with empty tables and idle threads. *)
LEMMA InitInv == Init => SaveInv
  <1> SUFFICES ASSUME Init PROVE SaveInv
    OBVIOUS
  <1>1. TypeOK
    BY DEF Init, TypeOK, Idle, Working
  <1>2. WorkIsMarked /\ OneSaverPerSequence /\ RowsInOrder
    BY DEF Init, Idle, Working, WorkIsMarked, OneSaverPerSequence, RowsInOrder
  <1>3. EntriesHaveTransactions
    BY DEF Init, EntriesHaveTransactions
  <1> QED
    BY <1>1, <1>2, <1>3 DEF SaveInv

(* A step that leaves the tables and the marks of the numbers at work as   *)
(* they are, and lets no thread begin or go on with the work, keeps the    *)
(* invariant.                                                              *)
LEMMA QuietStep ==
    ASSUME SaveInv, TypeOK', UNCHANGED <<ledgers, txns>>,
           \A u \in Thread : call'[u].at \in Working => call'[u] = call[u],
           \A s \in Seqs : map_[s] = "working" => map_'[s] = "working"
    PROVE  SaveInv'
  <1>1. \A u \in Thread : call'[u].at \in Working =>
            /\ call[u].at \in Working /\ SeqAt(u)' = SeqAt(u) /\ SeqAt(u) \in Seqs
            /\ call'[u].ledger = call[u].ledger /\ call'[u].at = call[u].at
    BY SeqAtType DEF SaveInv, SeqAt, Working
  <1>2. WorkIsMarked'
    BY <1>1 DEF SaveInv, WorkIsMarked
  <1>3. OneSaverPerSequence'
    BY <1>1 DEF SaveInv, OneSaverPerSequence
  <1>4. RowsInOrder'
    BY <1>1 DEF SaveInv, RowsInOrder, Working
  <1>5. EntriesHaveTransactions'
    BY DEF SaveInv, EntriesHaveTransactions
  <1> QED
    BY <1>2, <1>3, <1>4, <1>5 DEF SaveInv

(* A call of pendSaveValidated. *)
LEMMA PendSaveInv ==
    ASSUME SaveInv, NEW t \in Thread, NEW l \in Ledger, NEW sync \in BOOLEAN, PendSave(t, l, sync)
    PROVE  SaveInv'
  <1>1. TypeOK'
    BY DEF SaveInv, TypeOK, PendSave, Working
  <1>2. \A u \in Thread : call'[u].at \in Working => call'[u] = call[u]
    BY DEF SaveInv, TypeOK, PendSave, Working
  <1> QED
    BY <1>1, <1>2, QuietStep DEF PendSave

(* Whoever returns is not at work. *)
LEMMA ReturnType ==
    ASSUME TypeOK, NEW t \in Thread, NEW ok \in BOOLEAN, call[t].at # "idle", Return(t, ok)
    PROVE  /\ call' \in [Thread -> CallRecord]
           /\ \A u \in Thread : call'[u].at # "idle" => call'[u].ledger \in Ledger
           /\ \A u \in Thread : u # t => call'[u] = call[u]
           /\ call'[t].at \in {"idle", "returned"}
  BY ZenonT(30) DEF TypeOK, Return, Idle, CallRecord, Working

(* Goto changes the line of one thread. *)
LEMMA GotoType ==
    ASSUME TypeOK, NEW t \in Thread, call[t].at # "idle",
           NEW line \in Working \cup {"should", "start"}, Goto(t, line)
    PROVE  /\ call' \in [Thread -> CallRecord]
           /\ \A u \in Thread : call'[u].at # "idle" => call'[u].ledger \in Ledger
           /\ \A u \in Thread : u # t => call'[u] = call[u]
           /\ call'[t].at = line /\ call'[t].ledger = call[t].ledger /\ call'[t].ok = call[t].ok
  BY DEF TypeOK, Goto, CallRecord, Working

(* A synchronous call for a ledger that was tried recently. *)
LEMMA DoublePendInv ==
    ASSUME SaveInv, NEW t \in Thread, DoublePend(t)
    PROVE  SaveInv'
  <1>1. /\ call' \in [Thread -> CallRecord]
        /\ \A u \in Thread : call'[u].at # "idle" => call'[u].ledger \in Ledger
        /\ \A u \in Thread : u # t => call'[u] = call[u]
        /\ call'[t].at \in {"idle", "returned", "should"}
    <2>1. CASE Return(t, TRUE)
      BY <2>1, ReturnType, Zenon DEF SaveInv, DoublePend, At
    <2>2. CASE Goto(t, "should")
      BY <2>2, GotoType DEF SaveInv, DoublePend, At
    <2> QED
      BY <2>1, <2>2, Zenon DEF DoublePend
  <1>2. TypeOK'
    BY <1>1 DEF SaveInv, TypeOK, DoublePend, CallRecord
  <1>3. \A u \in Thread : call'[u].at \in Working => call'[u] = call[u]
    BY <1>1 DEF Working
  <1> QED
    BY <1>2, <1>3, QuietStep DEF DoublePend

(* Dispatch sends the save on, in this thread or in a job. *)
LEMMA DispatchType ==
    ASSUME TypeOK, NEW t \in Thread, At(t, "should"), Dispatch(t)
    PROVE  /\ call' \in [Thread -> CallRecord]
           /\ \A u \in Thread : call'[u].at # "idle" => call'[u].ledger \in Ledger
           /\ \A u \in Thread : call'[u].at \in Working => call'[u] = call[u]
  <1>1. CASE call[t].sync
    BY <1>1, GotoType DEF Dispatch, At, Working
  <1>2. CASE ~call[t].sync
    <2>1. PICK j \in Job :
            /\ At(j, "idle")
            /\ call' = [call EXCEPT ![t] = [@ EXCEPT !.at = "returned", !.ok = TRUE],
                                    ![j] = [call[t] EXCEPT !.at = "start"]]
      BY <1>2 DEF Dispatch
    <2>2. j \in Thread /\ j # t
      BY <2>1 DEF At, Thread
    <2>3. /\ call'[t] = [call[t] EXCEPT !.at = "returned", !.ok = TRUE]
          /\ call'[j] = [call[t] EXCEPT !.at = "start"]
          /\ \A u \in Thread : u # t /\ u # j => call'[u] = call[u]
          /\ DOMAIN call' = Thread /\ call' = [u \in Thread |-> call'[u]]
      BY <2>1, <2>2, Zenon DEF TypeOK
    <2>4. call[t] \in CallRecord
      BY DEF TypeOK, CallRecord
    <2>5. call'[t] \in CallRecord /\ call'[j] \in CallRecord
      <3>1. [call[t] EXCEPT !.at = "returned", !.ok = TRUE] \in CallRecord
        BY <2>4, Zenon DEF CallRecord
      <3>2. [call[t] EXCEPT !.at = "start"] \in CallRecord
        BY <2>4 DEF CallRecord
      <3> QED
        BY <3>1, <3>2, <2>3
    <2>6. call[t].ledger \in Ledger
      BY SeqAtType DEF At
    <2>7. call' \in [Thread -> CallRecord]
      BY <2>3, <2>5, ZenonT(30) DEF TypeOK, CallRecord
    <2>8. /\ call'[t].ledger = call[t].ledger /\ call'[t].at = "returned"
          /\ call'[j].ledger = call[t].ledger /\ call'[j].at = "start"
      BY <2>3 DEF TypeOK
    <2> QED
      BY <2>3, <2>6, <2>7, <2>8, Zenon DEF TypeOK, Working
  <1> QED
    BY <1>1, <1>2

(* shouldWork marks a number that has no save. *)
LEMMA shouldWorkInv ==
    ASSUME SaveInv, NEW t \in Thread, shouldWork(t)
    PROVE  SaveInv'
  <1>1. call[t].at = "should" /\ SeqAt(t) \in Seqs
    BY SeqAtType DEF SaveInv, shouldWork, At
  <1>2. /\ map_' \in [Seqs -> {"none", "scheduled", "working"}]
        /\ \A s \in Seqs : map_[s] = "working" => map_'[s] = "working"
    BY <1>1, Zenon DEF SaveInv, TypeOK, shouldWork
  <1>a. await_' \subseteq Thread
    BY Zenon DEF SaveInv, TypeOK, shouldWork
  <1>3. /\ call' \in [Thread -> CallRecord]
        /\ \A u \in Thread : call'[u].at # "idle" => call'[u].ledger \in Ledger
        /\ \A u \in Thread : call'[u].at \in Working => call'[u] = call[u]
    <2>1. CASE Dispatch(t)
      BY <2>1, DispatchType DEF SaveInv, shouldWork
    <2>2. CASE Return(t, TRUE)
      BY <2>2, <1>1, ReturnType, Zenon DEF SaveInv, Working
    <2>3. CASE UNCHANGED call
      BY <2>3, Zenon DEF SaveInv, TypeOK, CallRecord
    <2> QED
      BY <2>1, <2>2, <2>3, Zenon DEF shouldWork
  <1>4. TypeOK'
    BY <1>2, <1>a, <1>3 DEF SaveInv, TypeOK, shouldWork, CallRecord
  <1> QED
    BY <1>2, <1>3, <1>4, QuietStep DEF shouldWork

(* startWork: the number was scheduled, so that nobody is at work on it. *)
LEMMA startWorkInv ==
    ASSUME SaveInv, NEW t \in Thread, startWork(t)
    PROVE  SaveInv'
  <1>1. call[t].at = "start" /\ SeqAt(t) \in Seqs
    BY SeqAtType DEF SaveInv, startWork, At
  <1>2. CASE map_[SeqAt(t)] # "scheduled"
    <2>1. /\ call' \in [Thread -> CallRecord]
          /\ \A u \in Thread : call'[u].at # "idle" => call'[u].ledger \in Ledger
          /\ \A u \in Thread : call'[u].at \in Working => call'[u] = call[u]
          /\ map_' = map_
      BY <1>1, <1>2, ReturnType, Zenon DEF SaveInv, startWork, Working
    <2>2. TypeOK'
      BY <2>1 DEF SaveInv, TypeOK, startWork, CallRecord
    <2> QED
      BY <2>1, <2>2, QuietStep DEF startWork
  <1>3. CASE map_[SeqAt(t)] = "scheduled"
    <2>1. PICK line \in {"unrow", "failed"} : Goto(t, line)
      BY <1>3 DEF startWork
    <2>2. map_' = [map_ EXCEPT ![SeqAt(t)] = "working"]
      BY <1>3 DEF startWork
    <2>3. /\ call' \in [Thread -> CallRecord]
          /\ \A u \in Thread : call'[u].at # "idle" => call'[u].ledger \in Ledger
          /\ \A u \in Thread : u # t => call'[u] = call[u]
          /\ call'[t].at = line /\ call'[t].ledger = call[t].ledger
      BY <1>1, <2>1, GotoType DEF SaveInv, Working
    <2>4. TypeOK'
      BY <1>1, <2>2, <2>3 DEF SaveInv, TypeOK, startWork, CallRecord
    <2>5. /\ \A u \in Thread : SeqAt(u)' = SeqAt(u)
          /\ \A u \in Thread : call[u].at \in Working => SeqAt(u) \in Seqs
      BY <2>3, SeqAtType DEF SaveInv, SeqAt, Working
    <2>6. \A u \in Thread : call[u].at \in Working => SeqAt(u) # SeqAt(t)
      BY <1>3 DEF SaveInv, WorkIsMarked
    <2>7. WorkIsMarked'
      BY <1>1, <2>2, <2>3, <2>5 DEF SaveInv, TypeOK, WorkIsMarked
    <2>8. OneSaverPerSequence'
      BY <2>3, <2>5, <2>6 DEF SaveInv, OneSaverPerSequence
    <2>9. RowsInOrder' /\ EntriesHaveTransactions'
      BY <2>3, <2>5 DEF SaveInv, RowsInOrder, EntriesHaveTransactions, startWork
    <2> QED
      BY <2>4, <2>7, <2>8, <2>9 DEF SaveInv
  <1> QED
    BY <1>2, <1>3

(* A thread at work takes its next step: the marks stay, it stays at work  *)
(* on its number, and so one thread is at work on each.                    *)
LEMMA WorkStep ==
    ASSUME SaveInv, NEW t \in Thread, call[t].at \in Working, UNCHANGED map_,
           call'[t].at \in Working, call'[t].ledger = call[t].ledger,
           \A u \in Thread : u # t => call'[u] = call[u]
    PROVE  /\ WorkIsMarked' /\ OneSaverPerSequence'
           /\ \A u \in Thread : SeqAt(u)' = SeqAt(u)
           /\ SeqAt(t) \in Seqs /\ call[t].ledger \in Ledger
           /\ \A u \in Thread : u # t /\ call[u].at \in Working => SeqAt(u) # SeqAt(t)
  <1>1. \A u \in Thread : SeqAt(u)' = SeqAt(u)
    BY DEF SeqAt
  <1>2. SeqAt(t) \in Seqs /\ call[t].ledger \in Ledger
    BY SeqAtType DEF SaveInv, Working
  <1>3. \A u \in Thread : u # t /\ call[u].at \in Working => SeqAt(u) # SeqAt(t)
    BY DEF SaveInv, OneSaverPerSequence
  <1>4. WorkIsMarked'
    BY <1>1 DEF SaveInv, WorkIsMarked
  <1>5. OneSaverPerSequence'
    BY <1>1 DEF SaveInv, OneSaverPerSequence
  <1> QED
    BY <1>1, <1>2, <1>3, <1>4, <1>5

(* A save that fails goes to finishWork. *)
LEMMA failedSaveInv ==
    ASSUME SaveInv, NEW t \in Thread, failedSave(t)
    PROVE  SaveInv'
  <1>1. /\ call' \in [Thread -> CallRecord]
        /\ \A u \in Thread : call'[u].at # "idle" => call'[u].ledger \in Ledger
        /\ \A u \in Thread : u # t => call'[u] = call[u]
        /\ call'[t].at = "finish" /\ call'[t].ledger = call[t].ledger
    BY GotoType DEF SaveInv, failedSave, At, Working
  <1>2. TypeOK'
    BY <1>1 DEF SaveInv, TypeOK, failedSave, CallRecord
  <1>3. WorkIsMarked' /\ OneSaverPerSequence' /\ \A u \in Thread : SeqAt(u)' = SeqAt(u)
    BY <1>1, WorkStep DEF failedSave, At, Working
  <1>4. RowsInOrder' /\ EntriesHaveTransactions'
    BY <1>1, <1>3 DEF SaveInv, RowsInOrder, EntriesHaveTransactions, failedSave
  <1> QED
    BY <1>2, <1>3, <1>4 DEF SaveInv

(* The old entry goes first: nothing is said of the number from then on. *)
LEMMA DeleteLedgerRowInv ==
    ASSUME SaveInv, NEW t \in Thread, DeleteLedgerRow(t)
    PROVE  SaveInv'
  <1>1. /\ call' \in [Thread -> CallRecord]
        /\ \A u \in Thread : call'[u].at # "idle" => call'[u].ledger \in Ledger
        /\ \A u \in Thread : u # t => call'[u] = call[u]
        /\ call'[t].at = "txns" /\ call'[t].ledger = call[t].ledger
    BY GotoType DEF SaveInv, DeleteLedgerRow, At, Working
  <1>2. /\ WorkIsMarked' /\ OneSaverPerSequence' /\ \A u \in Thread : SeqAt(u)' = SeqAt(u)
        /\ SeqAt(t) \in Seqs
        /\ \A u \in Thread : u # t /\ call[u].at \in Working => SeqAt(u) # SeqAt(t)
    BY <1>1, WorkStep DEF DeleteLedgerRow, At, Working
  <1>3. ledgers' = [ledgers EXCEPT ![SeqAt(t)] = None] /\ txns' = txns
    BY DEF DeleteLedgerRow
  <1>4. TypeOK'
    BY <1>1, <1>2, <1>3 DEF SaveInv, TypeOK, DeleteLedgerRow, CallRecord
  <1>5. \A u \in Thread : call[u].at \in Working => SeqAt(u) \in Seqs
    BY SeqAtType DEF SaveInv, Working
  <1>6. RowsInOrder'
    BY <1>1, <1>2, <1>3, <1>5 DEF SaveInv, TypeOK, RowsInOrder, Working
  <1>7. EntriesHaveTransactions'
    BY <1>3 DEF SaveInv, TypeOK, EntriesHaveTransactions
  <1> QED
    BY <1>2, <1>4, <1>6, <1>7 DEF SaveInv

(* The transactions are replaced while the number has no entry. *)
LEMMA SaveTransactionsInv ==
    ASSUME SaveInv, NEW t \in Thread, SaveTransactions(t)
    PROVE  SaveInv'
  <1>1. /\ call' \in [Thread -> CallRecord]
        /\ \A u \in Thread : call'[u].at # "idle" => call'[u].ledger \in Ledger
        /\ \A u \in Thread : u # t => call'[u] = call[u]
        /\ call'[t].at = "row" /\ call'[t].ledger = call[t].ledger
    BY GotoType DEF SaveInv, SaveTransactions, At, Working
  <1>2. /\ WorkIsMarked' /\ OneSaverPerSequence' /\ \A u \in Thread : SeqAt(u)' = SeqAt(u)
        /\ SeqAt(t) \in Seqs /\ call[t].ledger \in Ledger
        /\ \A u \in Thread : u # t /\ call[u].at \in Working => SeqAt(u) # SeqAt(t)
    BY <1>1, WorkStep DEF SaveTransactions, At, Working
  <1>3. txns' = [txns EXCEPT ![SeqAt(t)] = call[t].ledger] /\ ledgers' = ledgers
    BY DEF SaveTransactions
  <1>4. TypeOK'
    BY <1>1, <1>2, <1>3 DEF SaveInv, TypeOK, SaveTransactions, CallRecord
  <1>5. \A u \in Thread : call[u].at \in Working => SeqAt(u) \in Seqs
    BY SeqAtType DEF SaveInv, Working
  <1>6. ledgers[SeqAt(t)] = None
    BY DEF SaveInv, RowsInOrder, SaveTransactions, At
  <1>7. RowsInOrder'
    BY <1>1, <1>2, <1>3, <1>5, <1>6 DEF SaveInv, TypeOK, RowsInOrder, Working
  <1>8. EntriesHaveTransactions'
    BY <1>3, <1>6 DEF SaveInv, TypeOK, EntriesHaveTransactions
  <1> QED
    BY <1>2, <1>4, <1>7, <1>8 DEF SaveInv

(* The new entry is put back: its transactions are there. *)
LEMMA AddLedgerRowInv ==
    ASSUME SaveInv, NEW t \in Thread, AddLedgerRow(t)
    PROVE  SaveInv'
  <1>0. call[t].at = "row"
    BY DEF AddLedgerRow, At
  <1>1. /\ call' \in [Thread -> CallRecord]
        /\ \A u \in Thread : call'[u].at # "idle" => call'[u].ledger \in Ledger
        /\ \A u \in Thread : u # t => call'[u] = call[u]
        /\ call'[t].at = "finish" /\ call'[t].ledger = call[t].ledger
    BY <1>0, ZenonT(30) DEF SaveInv, TypeOK, AddLedgerRow, CallRecord, Working
  <1>2. /\ WorkIsMarked' /\ OneSaverPerSequence' /\ \A u \in Thread : SeqAt(u)' = SeqAt(u)
        /\ SeqAt(t) \in Seqs /\ call[t].ledger \in Ledger
        /\ \A u \in Thread : u # t /\ call[u].at \in Working => SeqAt(u) # SeqAt(t)
    BY <1>0, <1>1, WorkStep DEF AddLedgerRow, Working
  <1>3. ledgers' = [ledgers EXCEPT ![SeqAt(t)] = call[t].ledger] /\ txns' = txns
    BY DEF AddLedgerRow
  <1>4. TypeOK'
    BY <1>1, <1>2, <1>3 DEF SaveInv, TypeOK, AddLedgerRow, CallRecord
  <1>5. \A u \in Thread : call[u].at \in Working => SeqAt(u) \in Seqs
    BY SeqAtType DEF SaveInv, Working
  <1>6. txns[SeqAt(t)] = call[t].ledger
    BY <1>0 DEF SaveInv, RowsInOrder
  <1>7. RowsInOrder'
    BY <1>1, <1>2, <1>3, <1>5 DEF SaveInv, TypeOK, RowsInOrder, Working
  <1>8. EntriesHaveTransactions'
    BY <1>2, <1>3, <1>6 DEF SaveInv, TypeOK, EntriesHaveTransactions
  <1> QED
    BY <1>2, <1>4, <1>7, <1>8 DEF SaveInv

(* finishWork takes the mark away; nobody else is at work on the number. *)
LEMMA finishWorkInv ==
    ASSUME SaveInv, NEW t \in Thread, finishWork(t)
    PROVE  SaveInv'
  <1>0. call[t].at = "finish" /\ call[t].ok \in BOOLEAN /\ SeqAt(t) \in Seqs
    BY SeqAtType DEF SaveInv, TypeOK, finishWork, At
  <1>1. /\ call' \in [Thread -> CallRecord]
        /\ \A u \in Thread : call'[u].at # "idle" => call'[u].ledger \in Ledger
        /\ \A u \in Thread : u # t => call'[u] = call[u]
        /\ call'[t].at \notin Working
    BY <1>0, ReturnType DEF SaveInv, finishWork, Working
  <1>2. map_' = [map_ EXCEPT ![SeqAt(t)] = "none"] /\ UNCHANGED <<ledgers, txns>>
    BY DEF finishWork
  <1>3. TypeOK'
    BY <1>0, <1>1, <1>2 DEF SaveInv, TypeOK, finishWork, CallRecord
  <1>4. \A u \in Thread : u # t => SeqAt(u)' = SeqAt(u)
    BY <1>1 DEF SeqAt
  <1>5. \A u \in Thread : u # t /\ call[u].at \in Working =>
            SeqAt(u) \in Seqs /\ SeqAt(u) # SeqAt(t)
    BY <1>0, SeqAtType DEF SaveInv, OneSaverPerSequence, Working
  <1>6. WorkIsMarked'
    BY <1>1, <1>2, <1>4, <1>5 DEF SaveInv, TypeOK, WorkIsMarked
  <1>7. OneSaverPerSequence'
    BY <1>1, <1>4 DEF SaveInv, OneSaverPerSequence
  <1>8. RowsInOrder' /\ EntriesHaveTransactions'
    BY <1>1, <1>2, <1>4 DEF SaveInv, RowsInOrder, EntriesHaveTransactions, Working
  <1> QED
    BY <1>3, <1>6, <1>7, <1>8 DEF SaveInv

(* A caller goes on. *)
LEMMA LeaveInv ==
    ASSUME SaveInv, NEW t \in Caller, Leave(t)
    PROVE  SaveInv'
  <1>1. t \in Thread /\ call[t].at = "returned" /\ SeqAt(t) \in Seqs
    BY SeqAtType DEF SaveInv, Thread, Leave, At
  <1>2. TypeOK'
    BY <1>1 DEF SaveInv, TypeOK, Leave, Idle
  <1>3. \A u \in Thread : call'[u].at \in Working => call'[u] = call[u]
    BY <1>1 DEF SaveInv, TypeOK, Leave, Idle, Working
  <1> QED
    BY <1>2, <1>3, QuietStep DEF Leave

(* A thread is woken by nobody. *)
LEMMA SpuriousInv ==
    ASSUME SaveInv, NEW t \in Thread, SpuriousWake(t)
    PROVE  SaveInv'
  <1>1. TypeOK'
    BY DEF SaveInv, TypeOK, SpuriousWake
  <1> QED
    BY <1>1, QuietStep DEF SpuriousWake

(* A save that throws leaves the tables and the mark as they are. *)
LEMMA SqlErrorInv ==
    ASSUME SaveInv, NEW t \in Thread, SqlError(t)
    PROVE  SaveInv'
  <1>1. call[t].at # "idle" /\ SeqAt(t) \in Seqs
    BY SeqAtType DEF SaveInv, SqlError
  <1>2. TypeOK'
    BY <1>1 DEF SaveInv, TypeOK, SqlError, Idle
  <1>3. \A u \in Thread : call'[u].at \in Working => call'[u] = call[u]
    BY DEF SaveInv, TypeOK, SqlError, Idle, Working
  <1> QED
    BY <1>2, <1>3, QuietStep DEF SqlError

(* The hash router forgets a ledger. *)
LEMMA ExpireInv ==
    ASSUME SaveInv, NEW l \in Ledger, Expire(l)
    PROVE  SaveInv'
  <1>1. TypeOK'
    BY DEF SaveInv, TypeOK, Expire
  <1> QED
    BY <1>1, QuietStep DEF Expire

(* A crash between any two commits. *)
LEMMA CrashInv ==
    ASSUME SaveInv, Crash
    PROVE  SaveInv'
  <1>1. TypeOK'
    BY DEF SaveInv, TypeOK, Crash, Idle, Working
  <1>2. \A u \in Thread : call'[u].at \notin Working
    BY DEF Crash, Idle, Working
  <1>3. WorkIsMarked' /\ OneSaverPerSequence'
    BY <1>2 DEF WorkIsMarked, OneSaverPerSequence
  <1>4. RowsInOrder' /\ EntriesHaveTransactions'
    BY <1>2 DEF SaveInv, Crash, RowsInOrder, EntriesHaveTransactions, Working
  <1> QED
    BY <1>1, <1>3, <1>4 DEF SaveInv

(* Every step of pendSaveValidated, of its callers and of the server keeps *)
(* the invariant.                                                          *)
LEMMA NextInv == SaveInv /\ [Next]_vars => SaveInv'
  <1> SUFFICES ASSUME SaveInv, [Next]_vars PROVE SaveInv'
    OBVIOUS
  <1>1. ASSUME NEW c \in Calls, NEW l \in Ledger, PendSave(c[1], l, c[2])
        PROVE  SaveInv'
    <2>1. c[1] \in Thread /\ c[2] \in BOOLEAN
      BY LedgerSaveAssumption DEF Thread
    <2> QED
      BY <1>1, <2>1, PendSaveInv
  <1>2. ASSUME NEW t \in Thread, SaveStep(t)
        PROVE  SaveInv'
    BY <1>2, DoublePendInv, shouldWorkInv, startWorkInv, failedSaveInv, DeleteLedgerRowInv,
       SaveTransactionsInv, AddLedgerRowInv, finishWorkInv DEF SaveStep
  <1>3. CASE UNCHANGED vars
    <2>1. TypeOK'
      BY <1>3 DEF SaveInv, TypeOK, vars
    <2> QED
      BY <1>3, <2>1, QuietStep DEF vars
  <1> QED
    BY <1>1, <1>2, <1>3, LeaveInv, SpuriousInv, SqlErrorInv, ExpireInv, CrashInv DEF Next

(* Two threads never write the rows of one sequence number at once: the    *)
(* scheduled and working marks of PendingSaves exclude them, whoever asks. *)
THEOREM SaversExclude == Spec => []OneSaverPerSequence
  <1>1. SaveInv => OneSaverPerSequence
    BY DEF SaveInv
  <1> QED
    BY <1>1, InitInv, NextInv, PTL DEF Spec

(* An entry of the Ledgers table has its transactions beside it, also when *)
(* the process dies between two commits of saveValidatedLedger.            *)
THEOREM EntriesAreWhole == Spec => []EntriesHaveTransactions
  <1>1. SaveInv => EntriesHaveTransactions
    BY DEF SaveInv
  <1> QED
    BY <1>1, InitInv, NextInv, PTL DEF Spec

---------------------------------------------------------------------------
(* A number marked as being worked on has a thread at work, unless the     *)
(* save threw.                                                             *)
MarksHaveASaver ==
    \A s \in Seqs : map_[s] = "working" =>
        s \in thrown \/ \E u \in Thread : call[u].at \in Working /\ SeqAt(u) = s

(* Only a thread in shouldWork blocks, and only on such a number. *)
SleepersAwaitAMark ==
    \A t \in await_ : call[t].at = "should" /\ map_[SeqAt(t)] = "working"

WaitInv == SaveInv /\ MarksHaveASaver /\ SleepersAwaitAMark

(* A step that marks nothing and lets nobody stop working. *)
LEMMA KeepSavers ==
    ASSUME MarksHaveASaver, thrown' = thrown,
           \A s \in Seqs : map_'[s] = "working" => map_[s] = "working",
           \A u \in Thread : call[u].at \in Working =>
               call'[u].at \in Working /\ call'[u].ledger = call[u].ledger
    PROVE  MarksHaveASaver'
  <1>1. \A u \in Thread : call[u].at \in Working => SeqAt(u)' = SeqAt(u)
    BY DEF SeqAt
  <1> QED
    BY <1>1 DEF MarksHaveASaver

(* A step that takes no mark away and moves no thread that is blocked. *)
LEMMA KeepSleepers ==
    ASSUME TypeOK, SleepersAwaitAMark, await_' \subseteq await_,
           \A u \in await_ : call'[u] = call[u],
           \A s \in Seqs : map_[s] = "working" => map_'[s] = "working"
    PROVE  SleepersAwaitAMark'
  <1>1. \A u \in await_ : SeqAt(u)' = SeqAt(u)
    BY DEF SeqAt
  <1>2. \A u \in await_ : SeqAt(u) \in Seqs
    BY SeqAtType DEF SleepersAwaitAMark, TypeOK
  <1> QED
    BY <1>1, <1>2 DEF SleepersAwaitAMark

(* A step of one thread that is not blocked, which sets no mark and ends   *)
(* no work.                                                                *)
LEMMA OneThreadWaits ==
    ASSUME WaitInv, NEW t \in Thread, t \notin await_,
           call[t].at \in Working => call'[t].at \in Working /\ call'[t].ledger = call[t].ledger,
           \A u \in Thread : u # t /\ call[u].at # "idle" => call'[u] = call[u],
           UNCHANGED <<map_, await_, thrown>>
    PROVE  MarksHaveASaver' /\ SleepersAwaitAMark'
  <1>1. TypeOK /\ MarksHaveASaver /\ SleepersAwaitAMark /\ await_ \subseteq Thread
    BY DEF WaitInv, SaveInv, TypeOK
  <1>2. \A u \in Thread : call[u].at \in Working =>
            call'[u].at \in Working /\ call'[u].ledger = call[u].ledger
    BY DEF Working
  <1>3. \A u \in await_ : call'[u] = call[u]
    BY <1>1, Zenon DEF SleepersAwaitAMark
  <1> QED
    BY <1>1, <1>2, <1>3, KeepSavers, KeepSleepers

(* Whoever is not in shouldWork is not blocked. *)
LEMMA Awake ==
    ASSUME WaitInv, NEW t \in Thread, call[t].at # "should"
    PROVE  t \notin await_
  BY DEF WaitInv, SleepersAwaitAMark

(* shouldWork: a thread that blocks does so on a mark it has just seen. *)
LEMMA shouldWorkWaits ==
    ASSUME WaitInv, NEW t \in Thread, shouldWork(t)
    PROVE  MarksHaveASaver' /\ SleepersAwaitAMark'
  <1>1. /\ TypeOK /\ MarksHaveASaver /\ SleepersAwaitAMark
        /\ call[t].at = "should" /\ t \notin await_ /\ thrown' = thrown
        /\ SeqAt(t) \in Seqs /\ await_ \subseteq Thread
        /\ map_ \in [Seqs -> {"none", "scheduled", "working"}]
    BY SeqAtType DEF WaitInv, SaveInv, TypeOK, shouldWork, At
  <1>0. DOMAIN call = Thread
    BY <1>1, Zenon DEF TypeOK
  <1>2. \A u \in Thread : u # t /\ call[u].at # "idle" => call'[u] = call[u]
    <2>1. CASE Dispatch(t)
      <3>1. CASE Goto(t, "start")
        BY <1>1, <3>1, GotoType
      <3>2. CASE \E j \in Job :
                   /\ At(j, "idle")
                   /\ call' = [call EXCEPT ![t] = [@ EXCEPT !.at = "returned", !.ok = TRUE],
                                           ![j] = [call[t] EXCEPT !.at = "start"]]
        <4>1. PICK j \in Job :
                   /\ At(j, "idle")
                   /\ call' = [call EXCEPT ![t] = [@ EXCEPT !.at = "returned", !.ok = TRUE],
                                           ![j] = [call[t] EXCEPT !.at = "start"]]
          BY <3>2, Zenon
        <4>2. \A u \in Thread : u # t /\ u # j => call'[u] = call[u]
          BY <1>0, <4>1, Zenon
        <4> QED
          BY <4>1, <4>2, Zenon DEF At
      <3> QED
        BY <2>1, <3>1, <3>2, Zenon DEF Dispatch
    <2>2. CASE Return(t, TRUE)
      BY <1>0, <2>2, Zenon DEF Return
    <2>3. CASE UNCHANGED call
      BY <2>3
    <2> QED
      BY <2>1, <2>2, <2>3, Zenon DEF shouldWork
  <1>3. \A u \in Thread : call[u].at \in Working => call'[u] = call[u]
    BY <1>1, <1>2 DEF Working
  <1>4. \A u \in await_ : call'[u] = call[u]
    BY <1>1, <1>2, Zenon DEF SleepersAwaitAMark
  <1>5. \A s \in Seqs : map_'[s] = "working" <=> map_[s] = "working"
    BY <1>1, Zenon DEF shouldWork
  <1>6. MarksHaveASaver'
    BY <1>1, <1>3, <1>5, KeepSavers
  <1>7. CASE await_' = await_
    BY <1>1, <1>4, <1>5, <1>6, <1>7, KeepSleepers
  <1>8. CASE /\ map_[SeqAt(t)] = "working" /\ await_' = await_ \cup {t}
             /\ UNCHANGED <<map_, call>>
    BY <1>1, <1>6, <1>8 DEF SleepersAwaitAMark, SeqAt
  <1> QED
    BY <1>7, <1>8, Zenon DEF shouldWork

(* startWork: the thread that marks the number is the one at work. *)
LEMMA startWorkWaits ==
    ASSUME WaitInv, NEW t \in Thread, startWork(t)
    PROVE  MarksHaveASaver' /\ SleepersAwaitAMark'
  <1>1. /\ TypeOK /\ MarksHaveASaver /\ SleepersAwaitAMark
        /\ call[t].at = "start" /\ UNCHANGED <<await_, thrown>>
        /\ SeqAt(t) \in Seqs
        /\ map_ \in [Seqs -> {"none", "scheduled", "working"}]
    BY SeqAtType DEF WaitInv, SaveInv, TypeOK, startWork, At
  <1>2. t \notin await_
    BY <1>1, Awake
  <1>3. CASE map_[SeqAt(t)] # "scheduled"
    <2>1. Return(t, TRUE) /\ map_' = map_
      BY <1>3, Zenon DEF startWork
    <2>2. \A u \in Thread : u # t => call'[u] = call[u]
      BY <1>1, <2>1, Zenon DEF Return, TypeOK
    <2> QED
      BY <1>1, <1>2, <2>1, <2>2, OneThreadWaits DEF Working
  <1>4. CASE map_[SeqAt(t)] = "scheduled"
    <2>1. map_' = [map_ EXCEPT ![SeqAt(t)] = "working"]
      BY <1>4, Zenon DEF startWork
    <2>2. PICK line \in {"unrow", "failed"} : Goto(t, line)
      BY <1>4, Zenon DEF startWork
    <2>3. /\ \A u \in Thread : u # t => call'[u] = call[u]
          /\ call'[t].at \in Working /\ call'[t].ledger = call[t].ledger
      BY <1>1, <2>2, GotoType DEF Working
    <2>4. SleepersAwaitAMark'
      <3>1. \A u \in await_ : call'[u] = call[u]
        BY <1>1, <1>2, <2>3 DEF TypeOK
      <3>2. \A s \in Seqs : map_[s] = "working" => map_'[s] = "working"
        BY <1>1, <2>1
      <3> QED
        BY <1>1, <3>1, <3>2, KeepSleepers
    <2>5. \A u \in Thread : SeqAt(u)' = SeqAt(u)
      BY <2>3 DEF SeqAt
    <2>6. \A u \in Thread : call[u].at \in Working => call'[u].at \in Working
      BY <1>1, <2>3 DEF Working
    <2>7. MarksHaveASaver'
      BY <1>1, <2>1, <2>3, <2>5, <2>6 DEF MarksHaveASaver
    <2> QED
      BY <2>4, <2>7
  <1> QED
    BY <1>3, <1>4

(* finishWork takes its own mark away and wakes everybody. *)
LEMMA finishWorkWaits ==
    ASSUME WaitInv, NEW t \in Thread, finishWork(t)
    PROVE  MarksHaveASaver' /\ SleepersAwaitAMark'
  <1>1. /\ TypeOK /\ MarksHaveASaver /\ call[t].at = "finish"
        /\ SeqAt(t) \in Seqs /\ call[t].ok \in BOOLEAN
        /\ map_ \in [Seqs -> {"none", "scheduled", "working"}]
    BY SeqAtType DEF WaitInv, SaveInv, TypeOK, finishWork, At
  <1>2. /\ map_' = [map_ EXCEPT ![SeqAt(t)] = "none"] /\ await_' = {}
        /\ thrown' = thrown /\ Return(t, call[t].ok)
    BY DEF finishWork
  <1>3. \A u \in Thread : u # t => call'[u] = call[u] /\ SeqAt(u)' = SeqAt(u)
    BY <1>1, <1>2, ReturnType DEF SeqAt
  <1>4. \A s \in Seqs : map_'[s] = "working" => map_[s] = "working" /\ s # SeqAt(t)
    BY <1>1, <1>2
  <1>5. MarksHaveASaver'
    BY <1>1, <1>2, <1>3, <1>4 DEF MarksHaveASaver
  <1> QED
    BY <1>2, <1>5 DEF SleepersAwaitAMark

(* A save that throws is noted; its mark stays. *)
LEMMA SqlErrorWaits ==
    ASSUME WaitInv, NEW t \in Thread, SqlError(t)
    PROVE  MarksHaveASaver' /\ SleepersAwaitAMark'
  <1>1. /\ TypeOK /\ MarksHaveASaver /\ SleepersAwaitAMark /\ await_ \subseteq Thread
        /\ call[t].at \notin {"idle", "should"}
        /\ UNCHANGED <<map_, await_>> /\ thrown' = thrown \cup {SeqAt(t)}
    BY DEF WaitInv, SaveInv, TypeOK, SqlError
  <1>2. \A u \in Thread : u # t => call'[u] = call[u] /\ SeqAt(u)' = SeqAt(u)
    BY DEF SqlError, SeqAt
  <1>3. SleepersAwaitAMark'
    BY <1>1, <1>2, Awake, KeepSleepers
  <1>4. MarksHaveASaver'
    BY <1>1, <1>2 DEF MarksHaveASaver
  <1> QED
    BY <1>3, <1>4

(* Every step keeps what waiting rests on. *)
LEMMA NextWaits == WaitInv /\ [Next]_vars => WaitInv'
  <1> SUFFICES ASSUME WaitInv, [Next]_vars PROVE MarksHaveASaver' /\ SleepersAwaitAMark'
    BY NextInv DEF WaitInv
  <1>0. TypeOK /\ MarksHaveASaver /\ SleepersAwaitAMark /\ call \in [Thread -> CallRecord]
    BY DEF WaitInv, SaveInv, TypeOK, CallRecord
  <1>1. ASSUME NEW c \in Calls, NEW l \in Ledger, PendSave(c[1], l, c[2])
        PROVE  MarksHaveASaver' /\ SleepersAwaitAMark'
    <2>1. c[1] \in Thread /\ call[c[1]].at = "idle"
      BY <1>1, LedgerSaveAssumption DEF Thread, PendSave, At
    <2>2. \A u \in Thread : u # c[1] => call'[u] = call[u]
      BY <1>0, <1>1, Zenon DEF PendSave
    <2> QED
      BY <1>1, <2>1, <2>2, Awake, OneThreadWaits DEF PendSave, Working
  <1>2. ASSUME NEW t \in Thread, DoublePend(t)
        PROVE  MarksHaveASaver' /\ SleepersAwaitAMark'
    <2>1. call[t].at = "double"
      BY <1>2 DEF DoublePend, At
    <2>2. \A u \in Thread : u # t => call'[u] = call[u]
      BY <1>0, <1>2, Zenon DEF DoublePend, Return, Goto
    <2> QED
      BY <1>2, <2>1, <2>2, Awake, OneThreadWaits DEF DoublePend, Working
  <1>3. ASSUME NEW t \in Thread,
               failedSave(t) \/ DeleteLedgerRow(t) \/ SaveTransactions(t) \/ AddLedgerRow(t)
        PROVE  MarksHaveASaver' /\ SleepersAwaitAMark'
    <2>1. call[t].at \in Working /\ call[t].at # "should"
      BY <1>3 DEF failedSave, DeleteLedgerRow, SaveTransactions, AddLedgerRow, At, Working
    <2>2. \A u \in Thread : u # t => call'[u] = call[u]
      BY <1>0, <1>3, Zenon DEF failedSave, DeleteLedgerRow, SaveTransactions, AddLedgerRow, Goto
    <2>3. call'[t].at \in Working /\ call'[t].ledger = call[t].ledger
      BY <1>0, <1>3, ZenonT(30)
      DEF failedSave, DeleteLedgerRow, SaveTransactions, AddLedgerRow, Goto, Working, CallRecord
    <2>4. UNCHANGED <<map_, await_, thrown>>
      BY <1>3, Zenon DEF failedSave, DeleteLedgerRow, SaveTransactions, AddLedgerRow
    <2> QED
      BY <2>1, <2>2, <2>3, <2>4, Awake, OneThreadWaits
  <1>4. ASSUME NEW t \in Caller, Leave(t)
        PROVE  MarksHaveASaver' /\ SleepersAwaitAMark'
    <2>1. t \in Thread /\ call[t].at = "returned"
      BY <1>4 DEF Leave, At, Thread
    <2>2. \A u \in Thread : u # t => call'[u] = call[u]
      BY <1>0, <1>4, Zenon DEF Leave
    <2> QED
      BY <1>4, <2>1, <2>2, Awake, OneThreadWaits DEF Leave, Working
  <1>5. ASSUME NEW t \in Thread, SpuriousWake(t)
        PROVE  MarksHaveASaver' /\ SleepersAwaitAMark'
    BY <1>0, <1>5, KeepSavers, KeepSleepers DEF SpuriousWake
  <1>6. ASSUME NEW l \in Ledger, Expire(l)
        PROVE  MarksHaveASaver' /\ SleepersAwaitAMark'
    BY <1>0, <1>6, KeepSavers, KeepSleepers DEF Expire
  <1>7. CASE Crash
    BY <1>7 DEF Crash, MarksHaveASaver, SleepersAwaitAMark
  <1>8. CASE UNCHANGED vars
    BY <1>0, <1>8, KeepSavers, KeepSleepers DEF vars
  <1> QED
    BY <1>1, <1>2, <1>3, <1>4, <1>5, <1>6, <1>7, <1>8, shouldWorkWaits, startWorkWaits,
       finishWorkWaits, SqlErrorWaits, Zenon DEF Next, SaveStep

(* A thread that blocks in shouldWork does so only while another is at     *)
(* work on its number and has yet to call finishWork, which notifies it,   *)
(* or after an SQL exception left the number marked; for any threads,      *)
(* jobs, ledgers and crashes.                                              *)
THEOREM NoSaverAwaitedInVain == Spec => []SleepersHaveASaver
  <1>1. Init => WaitInv
    <2>1. Init => SaveInv
      BY InitInv
    <2>2. Init => MarksHaveASaver /\ SleepersAwaitAMark
      BY DEF Init, MarksHaveASaver, SleepersAwaitAMark
    <2> QED
      BY <2>1, <2>2 DEF WaitInv
  <1>2. WaitInv => SleepersHaveASaver
    <2> SUFFICES ASSUME WaitInv, NEW t \in await_
                 PROVE  /\ call[t].at = "should"
                        /\ \/ SeqAt(t) \in thrown
                           \/ \E u \in Thread : call[u].at \in Working /\ SeqAt(u) = SeqAt(t)
      BY DEF SleepersHaveASaver, At
    <2>1. call[t].at = "should" /\ map_[SeqAt(t)] = "working" /\ t \in Thread
      BY DEF WaitInv, SaveInv, TypeOK, SleepersAwaitAMark
    <2>2. SeqAt(t) \in Seqs
      BY <2>1, SeqAtType DEF WaitInv, SaveInv
    <2> QED
      BY <2>1, <2>2 DEF WaitInv, MarksHaveASaver
  <1> QED
    BY <1>1, <1>2, NextWaits, PTL DEF Spec
===========================================================================
