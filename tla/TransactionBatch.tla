-------------------------- MODULE TransactionBatch --------------------------
(***************************************************************************)
(* How NetworkOPsImp applies submitted transactions to the open ledger     *)
(* (app/misc/NetworkOPs.cpp): peers' transactions are queued and left to a *)
(* jtBATCH job (doTransactionAsync, transactionBatch), a client's          *)
(* transaction is applied by the client's own thread, or waited for when   *)
(* another thread is already applying a batch (doTransactionSync).         *)
(*                                                                         *)
(* mMutex protects mTransactions, mDispatchState and the mApplying flag of *)
(* the canonical Transaction objects.  apply() releases it while the batch *)
(* runs; every action below is one stretch of code that holds it, or one   *)
(* step of the batch that runs without it.                                 *)
(***************************************************************************)
EXTENDS Naturals, Sequences, FiniteSets

CONSTANTS
    Tx,          \* canonical Transaction objects
    Clients,     \* threads that call doTransactionSync
    Workers,     \* job queue threads that run transactionBatch
    Followers,   \* Followers[t]: same account, sequence number one higher
    NoTx,        \* no transaction
    MaxSubmit    \* bound on the submissions of one behaviour

ASSUME BatchAssumption ==
    /\ IsFiniteSet(Tx)
    /\ NoTx \notin Tx
    /\ Clients \cap Workers = {}
    /\ Followers \in [Tx -> SUBSET Tx]
    /\ MaxSubmit \in Nat

Threads == Clients \cup Workers

(* The classes of TER that apply() tells apart.  "claimed" is a tec code:  *)
(* applied to the ledger, and not tesSUCCESS.                              *)
Results ==
    {"success", "claimed", "pastSeq", "queued", "retry", "malformed", "failed"}

(* TransStatus of a Transaction. *)
Statuses == {"NEW", "INCLUDED", "OBSOLETE", "HELD", "INVALID"}

VARIABLES
    mDispatchState,    \* none, scheduled or running
    mTransactions,     \* the TransactionStatus vector waiting for a batch
    applying,          \* the Transactions whose mApplying flag is set
    batchJobs,         \* transactionBatch jobs waiting in the job queue
    pc,                \* where each thread is
    txOf,              \* the argument of a client's doTransactionSync
    batch,             \* apply()'s local vector `transactions'
    entry,             \* how many of its entries have been post-processed
    submit_held,       \* apply()'s local vector `submit_held'
    newOL,             \* doTransactionSync's local newOL is not null
    mCond,             \* the clients blocked in mCond.wait
    status,            \* TransStatus of each transaction
    result,            \* the result last set on each transaction
    mHeldTransactions, \* LedgerMaster's held transactions
    localTX,           \* the transactions pushed to m_localTX
    badTX,             \* the transactions HashRouter flags SF_BAD
    relayed,           \* the transactions HashRouter lets through to peers
    submits            \* submissions so far

vars == <<mDispatchState, mTransactions, applying, batchJobs, pc, txOf, batch,
          entry, submit_held, newOL, mCond, status, result, mHeldTransactions,
          localTX, badTX, relayed, submits>>

(* What post-processing leaves in the components around this one. *)
outputs == <<status, result, mHeldTransactions, localTX, badTX, relayed>>

(* `own' tells the canonical object, whose mApplying flag other threads    *)
(* read, from a fresh object made for a held transaction.                  *)
TransactionStatus ==
    [tx : Tx, own : BOOLEAN, local : BOOLEAN, failHard : BOOLEAN,
     result : Results \cup {"none"}]

NewEntry(t, own, local, failHard) ==
    [tx |-> t, own |-> own, local |-> local, failHard |-> failHard,
     result |-> "none"]

Init ==
    /\ mDispatchState = "none"
    /\ mTransactions = <<>>
    /\ applying = {}
    /\ batchJobs = 0
    /\ pc = [th \in Threads |-> "idle"]
    /\ txOf = [c \in Clients |-> NoTx]
    /\ batch = [th \in Threads |-> <<>>]
    /\ entry = [th \in Threads |-> 0]
    /\ submit_held = [th \in Threads |-> <<>>]
    /\ newOL = [c \in Clients |-> FALSE]
    /\ mCond = {}
    /\ status = [t \in Tx |-> "NEW"]
    /\ result = [t \in Tx |-> "none"]
    /\ mHeldTransactions = {}
    /\ localTX = {} /\ badTX = {} /\ relayed = {}
    /\ submits = 0

-----------------------------------------------------------------------------
(* The head of apply(): swap the waiting transactions out, announce the    *)
(* batch and release the lock.                                             *)
ApplyBegin(th, waiting) ==
    /\ batch' = [batch EXCEPT ![th] = waiting]
    /\ entry' = [entry EXCEPT ![th] = 0]
    /\ submit_held' = [submit_held EXCEPT ![th] = <<>>]
    /\ mTransactions' = <<>>
    /\ mDispatchState' = "running"
    /\ pc' = [pc EXCEPT ![th] = "modify"]

NoApply == UNCHANGED <<batch, entry, submit_held>>

(* One turn of doTransactionSync's loop, the waiting vector being `w':     *)
(* block on mCond while a batch runs, or apply one.                        *)
SyncTurn(c, w) ==
    \/ /\ mDispatchState = "running"
       /\ pc' = [pc EXCEPT ![c] = "wait"]
       /\ mCond' = mCond \cup {c}
       /\ mTransactions' = w
       /\ NoApply
       /\ UNCHANGED mDispatchState
    \/ /\ mDispatchState # "running"
       /\ ApplyBegin(c, w)
       /\ UNCHANGED mCond

(* Fault: the transaction is queued and its flag is not set. *)
DoTransactionAsyncUnflagged(t, failHard) ==
    /\ submits < MaxSubmit
    /\ submits' = submits + 1
    /\ t \notin applying
    /\ mTransactions' = Append(mTransactions, NewEntry(t, TRUE, FALSE, failHard))
    /\ mDispatchState = "none" /\ mDispatchState' = "scheduled"
    /\ batchJobs' = batchJobs + 1
    /\ NoApply
    /\ UNCHANGED <<applying, pc, txOf, newOL, mCond, outputs>>

DoTransactionAsync(t, failHard) ==
    /\ submits < MaxSubmit
    /\ submits' = submits + 1
    /\ t \notin applying
    /\ mTransactions' = Append(mTransactions, NewEntry(t, TRUE, FALSE, failHard))
    /\ applying' = applying \cup {t}
    /\ IF mDispatchState = "none"
       THEN /\ batchJobs' = batchJobs + 1
            /\ mDispatchState' = "scheduled"
       ELSE UNCHANGED <<batchJobs, mDispatchState>>
    /\ NoApply
    /\ UNCHANGED <<pc, txOf, newOL, mCond, outputs>>

DoTransactionSync(c, t, failHard) ==
    /\ submits < MaxSubmit
    /\ submits' = submits + 1
    /\ pc[c] = "idle"
    /\ txOf' = [txOf EXCEPT ![c] = t]
    /\ newOL' = [newOL EXCEPT ![c] = FALSE]
    /\ applying' = applying \cup {t}
    /\ SyncTurn(c, IF t \in applying THEN mTransactions
                   ELSE Append(mTransactions,
                               NewEntry(t, TRUE, TRUE, failHard)))
    /\ UNCHANGED <<batchJobs, outputs>>

(* Fault: the wait is followed by no second look at the flag. *)
SyncWakeUnchecked(c) ==
    /\ pc[c] = "wait"
    /\ c \notin mCond
    /\ pc' = [pc EXCEPT ![c] = "after"]
    /\ NoApply
    /\ UNCHANGED <<mTransactions, mDispatchState, applying, batchJobs, txOf,
                   newOL, mCond, outputs, submits>>

(* mCond.wait of a client that is no longer blocked gets the lock back and *)
(* returns, and the loop condition is evaluated.                           *)
SyncWake(c) ==
    /\ pc[c] = "wait"
    /\ c \notin mCond
    /\ \/ /\ txOf[c] \in applying
          /\ SyncTurn(c, mTransactions)
       \/ /\ txOf[c] \notin applying
          /\ pc' = [pc EXCEPT ![c] = "after"]
          /\ NoApply
          /\ UNCHANGED <<mTransactions, mDispatchState, mCond>>
    /\ UNCHANGED <<applying, batchJobs, txOf, newOL, outputs, submits>>

(* A condition variable may let a thread go that nobody notified. *)
SpuriousWake(c) ==
    /\ c \in mCond
    /\ mCond' = mCond \ {c}
    /\ UNCHANGED <<mDispatchState, mTransactions, applying, batchJobs, pc, txOf,
                   newOL, outputs, submits>>
    /\ NoApply

(* afterApply, given a reference to the ledger newOL points to, with the   *)
(* lock released; then return.  Neither afterApply nor the Payment it      *)
(* hands the reference to reads that ledger, so the call returns also when *)
(* the pointer was never set (SyncCallerHasLedger, below).                 *)
AfterApply(c) ==
    /\ pc[c] = "after"
    /\ pc' = [pc EXCEPT ![c] = "idle"]
    /\ UNCHANGED <<mDispatchState, mTransactions, applying, batchJobs, txOf,
                   newOL, mCond, outputs, submits>>
    /\ NoApply

(* A job queue thread takes a transactionBatch job. *)
TransactionBatchJob(w) ==
    /\ pc[w] = "idle"
    /\ batchJobs > 0
    /\ batchJobs' = batchJobs - 1
    /\ IF mDispatchState # "running" /\ mTransactions # <<>>
       THEN ApplyBegin(w, mTransactions)
       ELSE /\ NoApply
            /\ UNCHANGED <<mDispatchState, mTransactions, pc>>
    /\ UNCHANGED <<applying, txOf, newOL, mCond, outputs, submits>>

(* The entries with their results set to those of r. *)
SetResults(entries, r) ==
    [i \in DOMAIN entries |-> [entries[i] EXCEPT !.result = r[i]]]

(* OpenLedger::modify applies every entry of the batch; TxQ::apply decides *)
(* each result.  newOL is the open ledger that results.                    *)
Modify(th) ==
    /\ pc[th] = "modify"
    /\ \E r \in [DOMAIN batch[th] -> Results] :
          batch' = [batch EXCEPT ![th] = SetResults(batch[th], r)]
    /\ pc' = [pc EXCEPT ![th] = "process"]
    /\ UNCHANGED <<mDispatchState, mTransactions, applying, batchJobs, txOf,
                   entry, submit_held, newOL, mCond, outputs, submits>>

(* The vectors that list the elements of S once each. *)
Listings(S) ==
    {s \in UNION {[1 .. n -> S] : n \in 0 .. Cardinality(S)} :
        /\ S = {s[i] : i \in DOMAIN s}
        /\ \A i, j \in DOMAIN s : s[i] = s[j] => i = j}

(* Held transactions of the account with the next sequence number go into  *)
(* submit_held, in the order of the held set (which the model leaves open). *)
PruneHeld(th, t) ==
    LET ready == Followers[t] \cap mHeldTransactions
    IN  /\ mHeldTransactions' = mHeldTransactions \ ready
        /\ \E s \in Listings(ready) :
              submit_held' = [submit_held EXCEPT ![th] =
                 @ \o [i \in DOMAIN s |-> NewEntry(s[i], FALSE, FALSE, FALSE)]]

(* What post-processing an entry e leaves behind: in its Transaction       *)
(* object, in the held set (when it succeeded, PruneHeld), in HashRouter   *)
(* and m_localTX, and whether it is relayed to peers.  `full' is the       *)
(* operating mode the entry sees: mMode = omFULL.                          *)
StatusAfter(e) ==
    CASE e.result = "success" -> "INCLUDED"
      [] e.result = "pastSeq" -> "OBSOLETE"
      [] e.result = "queued"  -> "HELD"
      [] e.result = "retry"   -> IF e.failHard THEN status[e.tx] ELSE "HELD"
      [] OTHER                -> "INVALID"

IsHeld(e) == e.result = "queued" \/ (e.result = "retry" /\ ~e.failHard)

IsLocal(e) == e.local /\ ~(e.result = "retry" /\ e.failHard)

IsRelayed(e, full) ==
    \/ e.result \in {"success", "claimed", "queued"}
    \/ ~full /\ ~e.failHard /\ e.local

(* S, with t when it qualifies. *)
Noting(S, t, qualifies) == IF qualifies THEN S \cup {t} ELSE S

ProcessEntry(th, e, full) ==
    /\ status' = IF e.own THEN [status EXCEPT ![e.tx] = StatusAfter(e)]
                 ELSE status
    /\ result' = IF e.own THEN [result EXCEPT ![e.tx] = e.result]
                 ELSE result
    /\ IF e.result = "success"
       THEN PruneHeld(th, e.tx)
       ELSE /\ mHeldTransactions' = Noting(mHeldTransactions, e.tx, IsHeld(e))
            /\ UNCHANGED submit_held
    /\ badTX' = Noting(badTX, e.tx, e.result = "malformed")
    /\ localTX' = Noting(localTX, e.tx, IsLocal(e))
    /\ relayed' = Noting(relayed, e.tx, IsRelayed(e, full))

(* Post-processing of the next entry of the batch. *)
Process(th) ==
    /\ pc[th] = "process"
    /\ entry[th] < Len(batch[th])
    /\ entry' = [entry EXCEPT ![th] = @ + 1]
    /\ \E full \in BOOLEAN : ProcessEntry(th, batch[th][entry[th] + 1], full)
    /\ UNCHANGED <<mDispatchState, mTransactions, applying, batchJobs, pc,
                   txOf, batch, newOL, mCond, submits>>

(* The Transaction objects whose mApplying flag a batch owns. *)
Own(entries) ==
    {entries[i].tx : i \in {j \in DOMAIN entries : entries[j].own}}

(* Fault: what was queued meanwhile is left without a job. *)
ClientAfterNoJob(c, waiting) ==
    /\ newOL' = [newOL EXCEPT ![c] = TRUE]
    /\ mTransactions' = waiting
    /\ mDispatchState' = "none"
    /\ pc' = [pc EXCEPT ![c] = "after"]
    /\ NoApply
    /\ UNCHANGED batchJobs

(* After apply() a client leaves what is still queued to a job and looks   *)
(* at the flag of its own transaction: the loop ends, or its next turn     *)
(* begins another batch at once, since the lock is held and none runs.     *)
ClientAfter(c, waiting) ==
    /\ newOL' = [newOL EXCEPT ![c] = TRUE]
    /\ batchJobs' = IF waiting # <<>> THEN batchJobs + 1 ELSE batchJobs
    /\ IF txOf[c] \in applying'
       THEN ApplyBegin(c, waiting)
       ELSE /\ mDispatchState' = IF waiting # <<>> THEN "scheduled" ELSE "none"
            /\ mTransactions' = waiting
            /\ pc' = [pc EXCEPT ![c] = "after"]
            /\ NoApply

(* transactionBatch goes on until nothing is queued. *)
BatchAfter(w, waiting) ==
    /\ IF waiting # <<>>
       THEN ApplyBegin(w, waiting)
       ELSE /\ mDispatchState' = "none"
            /\ pc' = [pc EXCEPT ![w] = "idle"]
            /\ NoApply
            /\ UNCHANGED mTransactions
    /\ UNCHANGED <<batchJobs, newOL>>

(* The tail of apply() and what its caller does before it next releases    *)
(* the lock: clear the flags, queue the held transactions.                 *)
Finish(th) ==
    LET waiting == mTransactions \o submit_held[th]
    IN  /\ pc[th] = "process"
        /\ entry[th] = Len(batch[th])
        /\ applying' = applying \ Own(batch[th])
        /\ \/ th \in Clients /\ ClientAfter(th, waiting)
           \/ th \in Workers /\ BatchAfter(th, waiting)
        /\ UNCHANGED <<txOf, outputs, submits>>

(* Fault: the clients that wait are not notified. *)
ApplyEndSilent(th) == Finish(th) /\ UNCHANGED mCond

(* ... and mCond.notify_all(). *)
ApplyEnd(th) == Finish(th) /\ mCond' = {}

(* LedgerMaster::applyHeldTransactions, called when a ledger closes,       *)
(* offers the held transactions to the open ledger and empties the set.    *)
ApplyHeldTransactions ==
    /\ mHeldTransactions # {}
    /\ mHeldTransactions' = {}
    /\ UNCHANGED <<mDispatchState, mTransactions, applying, batchJobs, pc, txOf,
                   batch, entry, submit_held, newOL, mCond, status, result,
                   localTX, badTX, relayed, submits>>

ThreadStep(th) ==
    \/ Modify(th) \/ Process(th) \/ ApplyEnd(th)
    \/ th \in Clients /\ (SyncWake(th) \/ AfterApply(th))
    \/ th \in Workers /\ TransactionBatchJob(th)

Submit ==
    \E t \in Tx, failHard \in BOOLEAN :
        \/ DoTransactionAsync(t, failHard)
        \/ \E c \in Clients : DoTransactionSync(c, t, failHard)

(* All submissions were made and every thread is back. *)
Quiescent ==
    /\ submits = MaxSubmit
    /\ \A th \in Threads : pc[th] = "idle"
    /\ mTransactions = <<>>
    /\ UNCHANGED vars

Next ==
    \/ Submit
    \/ \E th \in Threads : ThreadStep(th)
    \/ \E c \in Clients : SpuriousWake(c)
    \/ ApplyHeldTransactions
    \/ Quiescent

(* The operating system runs every thread that is not blocked on mCond,    *)
(* and the job queue every job.  Nothing lets a blocked client go but the  *)
(* notification of a batch that ends: a spurious wakeup may never come.    *)
Spec == Init /\ [][Next]_vars /\ \A th \in Threads : WF_vars(ThreadStep(th))

-----------------------------------------------------------------------------
InApply(th) == pc[th] \in {"modify", "process"}

TypeOK ==
    /\ mDispatchState \in {"none", "scheduled", "running"}
    /\ mTransactions \in Seq(TransactionStatus)
    /\ applying \subseteq Tx
    /\ batchJobs \in Nat
    /\ pc \in [Threads -> {"idle", "wait", "modify", "process", "after"}]
    /\ txOf \in [Clients -> Tx \cup {NoTx}]
    /\ \A c \in Clients : pc[c] # "idle" => txOf[c] \in Tx
    /\ batch \in [Threads -> Seq(TransactionStatus)]
    /\ entry \in [Threads -> Nat]
    /\ submit_held \in [Threads -> Seq(TransactionStatus)]
    /\ newOL \in [Clients -> BOOLEAN]
    /\ mCond \subseteq Clients
    /\ status \in [Tx -> Statuses]
    /\ result \in [Tx -> Results \cup {"none"}]
    /\ mHeldTransactions \subseteq Tx
    /\ localTX \subseteq Tx /\ badTX \subseteq Tx /\ relayed \subseteq Tx
    /\ submits \in 0 .. MaxSubmit

(* apply() asserts that mDispatchState is not running: the state says      *)
(* running exactly while one thread is inside a batch, so no two threads   *)
(* ever run apply() at once.                                               *)
OneBatchAtATime ==
    /\ mDispatchState = "running" <=> \E th \in Threads : InApply(th)
    /\ \A a, b \in Threads : InApply(a) /\ InApply(b) => a = b

(* Queued transactions are never forgotten: whenever mTransactions is not  *)
(* empty a batch is running, whose thread will look at the vector again,   *)
(* or a transactionBatch job is waiting to run.                            *)
QueuedWorkHasARunner ==
    /\ mDispatchState = "none" => mTransactions = <<>>
    /\ mDispatchState = "scheduled" =>
          mTransactions # <<>> /\ batchJobs > 0

(* apply() asserts that the vector it took is not empty, though its caller *)
(* doTransactionSync only looked at a flag of its own transaction.         *)
BatchIsNotEmpty == \A th \in Threads : InApply(th) => batch[th] # <<>>

(* The mApplying flag of a transaction is set exactly while the vector or  *)
(* the running batch holds it, so neither doTransactionAsync nor           *)
(* doTransactionSync drops a submission that nobody will apply.            *)
FlagMeansQueued ==
    applying = Own(mTransactions)
               \cup UNION {Own(batch[th]) : th \in {r \in Threads : InApply(r)}}

(* doTransactionSync ``wait[s] for this transaction to complete'': the     *)
(* result a client is about to be shown has been set.                      *)
SyncCallerHasResult ==
    \A c \in Clients : pc[c] = "after" => result[txOf[c]] # "none"

(* doTransactionSync hands the ledger newOL points to on to afterApply: by *)
(* then the pointer has been set.                                          *)
SyncCallerHasLedger == \A c \in Clients : pc[c] = "after" => newOL[c]

(* Every transaction queued, by a peer or a client, is applied in the end. *)
EveryTransactionApplied ==
    \A t \in Tx : (t \in applying) ~> (t \notin applying)

(* A client blocked on mCond is one whose batch is running, and that batch *)
(* ends with notify_all: no client goes to sleep after the notification it *)
(* waits for.                                                              *)
SleepersHaveANotifier ==
    \A c \in mCond : pc[c] = "wait" /\ mDispatchState = "running"

(* Every doTransactionSync call returns: a client blocked on mCond is      *)
(* notified by the batch that ends, finds its flag cleared or starts or    *)
(* awaits the next batch, and none is left asleep, whoever applies its     *)
(* transaction and whether or not it is woken spuriously.                  *)
EverySyncCallReturns ==
    \A c \in Clients : (pc[c] # "idle") ~> (pc[c] = "idle")
=============================================================================
