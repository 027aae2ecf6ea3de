---------------------------- MODULE LedgerSave ----------------------------
(* Saving a validated ledger to the SQL databases: pendSaveValidated and   *)
(* saveValidatedLedger of app/ledger/Ledger.cpp over PendingSaves.  Any    *)
(* number of threads may ask for a ledger to be saved, at once or in a     *)
(* job; two ledgers may have one sequence number, because a validated      *)
(* ledger can turn out to be on a branch that was left.  LedgerMaster's    *)
(* setFullLedger declares the ledger complete when the call returns.  A    *)
(* server that crashes keeps its databases and nothing else.               *)
EXTENDS Naturals

CONSTANTS Ledger,   \* the ledgers there are, each its own hash
          seqOf,    \* their sequence numbers
          Caller,   \* threads that call pendSaveValidated
          Master,   \* those of them that do it in setFullLedger
          Calls,    \* which threads call it, synchronously or not
          Job,      \* jobs it may queue
          None,
          MaxCalls, MaxCrashes   \* bounds

ASSUME LedgerSaveAssumption ==
    /\ seqOf \in [Ledger -> Nat]
    /\ None \notin Ledger
    /\ Caller \cap Job = {} /\ Master \subseteq Caller
    /\ Calls \subseteq Caller \X BOOLEAN

VARIABLES
    map_,       \* PendingSaves: the save of a sequence number, if there is one
    await_,     \* PendingSaves: the threads blocked on the condition variable
    savedFlag,  \* the hashes with SF_SAVED in the hash router
    ledgers,    \* the Ledgers table: the ledger of each sequence number
    txns,       \* the transaction tables: whose transactions each number has
    complete,   \* LedgerMaster: mCompleteLedgers
    call,       \* what each thread is doing
    thrown,     \* history: the numbers whose save ended in an SQL exception
    calls, crashes   \* how many there were

vars == <<map_, await_, savedFlag, ledgers, txns, complete, call, thrown, calls, crashes>>

Seqs == {seqOf[l] : l \in Ledger}

Thread == Caller \cup Job

(* The lines of saveValidatedLedger between startWork and finishWork. *)
Working == {"failed", "unrow", "txns", "row", "finish"}

Idle == [at |-> "idle", ledger |-> None, sync |-> FALSE, ok |-> FALSE]

TypeOK ==
    /\ map_ \in [Seqs -> {"none", "scheduled", "working"}]
    /\ await_ \subseteq Thread /\ thrown \subseteq Seqs
    /\ savedFlag \subseteq Ledger
    /\ ledgers \in [Seqs -> Ledger \cup {None}]
    /\ txns \in [Seqs -> Ledger \cup {None}]
    /\ complete \subseteq Seqs
    /\ call \in [Thread -> [at : Working \cup {"idle", "double", "should", "start", "returned"},
                            ledger : Ledger \cup {None}, sync : BOOLEAN, ok : BOOLEAN]]
    /\ \A t \in Thread : call[t].at # "idle" => call[t].ledger \in Ledger
    /\ calls \in Nat /\ crashes \in Nat

Init ==
    /\ map_ = [s \in Seqs |-> "none"]
    /\ await_ = {} /\ thrown = {}
    /\ savedFlag = {}
    /\ ledgers = [s \in Seqs |-> None]
    /\ txns = [s \in Seqs |-> None]
    /\ complete = {}
    /\ call = [t \in Thread |-> Idle]
    /\ calls = 0 /\ crashes = 0

At(t, line) == call[t].at = line

SeqAt(t) == seqOf[call[t].ledger]

Goto(t, line) == call' = [call EXCEPT ![t].at = line]

(* The result of a job is lost. *)
Return(t, ok) ==
    call' = [call EXCEPT ![t] = IF t \in Job THEN Idle ELSE [@ EXCEPT !.at = "returned", !.ok = ok]]

(* pendSaveValidated: the flag of the hash router. *)
PendSave(t, l, sync) ==
    /\ At(t, "idle") /\ calls < MaxCalls
    /\ calls' = calls + 1
    /\ savedFlag' = savedFlag \cup {l}
    /\ call' = [call EXCEPT ![t] =
           [at |-> IF l \notin savedFlag THEN "should" ELSE IF sync THEN "double" ELSE "returned",
            ledger |-> l, sync |-> sync, ok |-> l \in savedFlag /\ ~sync]]
    /\ UNCHANGED <<map_, await_, thrown, ledgers, txns, complete, crashes>>

(* A synchronous call for a ledger that was tried recently: pending. *)
DoublePend(t) ==
    /\ At(t, "double")
    /\ IF map_[SeqAt(t)] = "none" THEN Return(t, TRUE) ELSE Goto(t, "should")
    /\ UNCHANGED <<map_, await_, thrown, savedFlag, ledgers, txns, complete, calls, crashes>>

(* Go on with the save: in this thread, or in a job. *)
Dispatch(t) ==
    IF call[t].sync
    THEN Goto(t, "start")
    ELSE \E j \in Job :
           /\ At(j, "idle")
           /\ call' = [call EXCEPT ![t] = [@ EXCEPT !.at = "returned", !.ok = TRUE],
                                   ![j] = [call[t] EXCEPT !.at = "start"]]

(* Fault: a synchronous call goes on beside the thread that is at work. *)
shouldWorkBeside(t) ==
    /\ At(t, "should")
    /\ LET s == SeqAt(t)
       IN  \/ /\ map_[s] = "none" \/ call[t].sync
              /\ map_' = [map_ EXCEPT ![s] = "scheduled"]
              /\ Dispatch(t)
           \/ map_[s] # "none" /\ ~call[t].sync /\ Return(t, TRUE) /\ UNCHANGED map_
    /\ UNCHANGED <<await_, thrown, savedFlag, ledgers, txns, complete, calls, crashes>>

(* shouldWork: a synchronous call blocks while a thread is at work, and    *)
(* looks again when it is woken.                                           *)
shouldWork(t) ==
    /\ At(t, "should") /\ t \notin await_
    /\ LET s == SeqAt(t)
       IN  \/ /\ map_[s] = "none" /\ map_' = [map_ EXCEPT ![s] = "scheduled"]
              /\ Dispatch(t) /\ UNCHANGED await_
           \/ map_[s] # "none" /\ ~call[t].sync /\ Return(t, TRUE) /\ UNCHANGED <<map_, await_>>
           \/ map_[s] = "scheduled" /\ call[t].sync /\ Dispatch(t) /\ UNCHANGED <<map_, await_>>
           \/ /\ map_[s] = "working" /\ call[t].sync /\ await_' = await_ \cup {t}
              /\ UNCHANGED <<map_, call>>
    /\ UNCHANGED <<thrown, savedFlag, ledgers, txns, complete, calls, crashes>>

(* A condition variable may let a thread go that nobody notified. *)
SpuriousWake(t) ==
    /\ t \in await_
    /\ await_' = await_ \ {t}
    /\ UNCHANGED <<map_, thrown, savedFlag, ledgers, txns, complete, call, calls, crashes>>

(* startWork, and the accepted ledger is read, unless nodes of it are      *)
(* missing.                                                                *)
startWork(t) ==
    /\ At(t, "start")
    /\ IF map_[SeqAt(t)] = "scheduled"
       THEN /\ map_' = [map_ EXCEPT ![SeqAt(t)] = "working"]
            /\ \E line \in {"unrow", "failed"} : Goto(t, line)
       ELSE UNCHANGED map_ /\ Return(t, TRUE)
    /\ UNCHANGED <<await_, thrown, savedFlag, ledgers, txns, complete, calls, crashes>>

(* Fault: a save that fails is not finished. *)
failedSaveOnly(t) ==
    /\ At(t, "failed")
    /\ complete' = complete \ {SeqAt(t)}
    /\ Return(t, FALSE)
    /\ UNCHANGED <<map_, await_, thrown, savedFlag, ledgers, txns, calls, crashes>>

(* LedgerMaster::failedSave, and then finishWork. *)
failedSave(t) ==
    /\ At(t, "failed")
    /\ complete' = complete \ {SeqAt(t)}
    /\ Goto(t, "finish")
    /\ UNCHANGED <<map_, await_, thrown, savedFlag, ledgers, txns, calls, crashes>>

(* Fault: the old entry of the ledger stays while the rest is replaced. *)
KeepLedgerRow(t) ==
    /\ At(t, "unrow")
    /\ Goto(t, "txns")
    /\ UNCHANGED <<map_, await_, thrown, savedFlag, ledgers, txns, complete, calls, crashes>>

DeleteLedgerRow(t) ==
    /\ At(t, "unrow")
    /\ ledgers' = [ledgers EXCEPT ![SeqAt(t)] = None]
    /\ Goto(t, "txns")
    /\ UNCHANGED <<map_, await_, thrown, savedFlag, txns, complete, calls, crashes>>

(* One transaction of the transaction database: the rows of the sequence   *)
(* number are deleted and those of this ledger inserted.                   *)
SaveTransactions(t) ==
    /\ At(t, "txns")
    /\ txns' = [txns EXCEPT ![SeqAt(t)] = call[t].ledger]
    /\ Goto(t, "row")
    /\ UNCHANGED <<map_, await_, thrown, savedFlag, ledgers, complete, calls, crashes>>

AddLedgerRow(t) ==
    /\ At(t, "row")
    /\ ledgers' = [ledgers EXCEPT ![SeqAt(t)] = call[t].ledger]
    /\ call' = [call EXCEPT ![t] = [@ EXCEPT !.at = "finish", !.ok = TRUE]]
    /\ UNCHANGED <<map_, await_, thrown, savedFlag, txns, complete, calls, crashes>>

(* The entry is erased and every thread that waits, for this number or     *)
(* another one, is notified.                                               *)
finishWork(t) ==
    /\ At(t, "finish")
    /\ map_' = [map_ EXCEPT ![SeqAt(t)] = "none"]
    /\ await_' = {}
    /\ Return(t, call[t].ok)
    /\ UNCHANGED <<thrown, savedFlag, ledgers, txns, complete, calls, crashes>>

(* A statement of saveValidatedLedger throws: its transaction is rolled    *)
(* back, and finishWork is not reached.  advanceThread catches the         *)
(* exception of its own thread.  Nothing catches one in a job or in the    *)
(* ledger cleaner, where it ends the process: that is Crash.               *)
SqlError(t) ==
    /\ t \in Master /\ call[t].at \in {"unrow", "txns", "row"}
    /\ call' = [call EXCEPT ![t] = Idle]
    /\ thrown' = thrown \cup {SeqAt(t)}
    /\ UNCHANGED <<map_, await_, savedFlag, ledgers, txns, complete, calls, crashes>>

SaveStep(t) ==
    \/ DoublePend(t) \/ shouldWork(t) \/ startWork(t) \/ failedSave(t)
    \/ DeleteLedgerRow(t) \/ SaveTransactions(t) \/ AddLedgerRow(t) \/ finishWork(t)

(* The caller goes on; setFullLedger sets the value in mCompleteLedgers. *)
Leave(t) ==
    /\ At(t, "returned")
    /\ call' = [call EXCEPT ![t] = Idle]
    /\ complete' = IF t \in Master THEN complete \cup {SeqAt(t)} ELSE complete
    /\ UNCHANGED <<map_, await_, thrown, savedFlag, ledgers, txns, calls, crashes>>

(* The hash router forgets what it has not been asked about for a while. *)
Expire(l) ==
    /\ l \in savedFlag
    /\ savedFlag' = savedFlag \ {l}
    /\ UNCHANGED <<map_, await_, thrown, ledgers, txns, complete, call, calls, crashes>>

(* The process dies, and another one starts on the same databases. *)
Crash ==
    /\ crashes < MaxCrashes /\ crashes' = crashes + 1
    /\ map_' = [s \in Seqs |-> "none"]
    /\ await_' = {} /\ thrown' = {}
    /\ savedFlag' = {}
    /\ complete' = {}
    /\ call' = [t \in Thread |-> Idle]
    /\ UNCHANGED <<ledgers, txns, calls>>

Next ==
    \/ \E c \in Calls, l \in Ledger : PendSave(c[1], l, c[2])
    \/ \E t \in Thread : SaveStep(t)
    \/ \E t \in Caller : Leave(t)
    \/ \E t \in Thread : SpuriousWake(t) \/ SqlError(t)
    \/ \E l \in Ledger : Expire(l)
    \/ Crash

Spec == Init /\ [][Next]_vars

(* Threads and jobs that can go on do; one blocked on the condition        *)
(* variable cannot until finishWork notifies it.                           *)
FairSpec ==
    /\ Spec
    /\ \A t \in Thread : WF_vars(SaveStep(t))
    /\ \A t \in Caller : WF_vars(Leave(t))

---------------------------------------------------------------------------

(* startWork and finishWork enclose the work of one thread: two threads    *)
(* never write the rows of one sequence number at once, whoever asked for  *)
(* the save, in whatever way, and for whichever ledger of that number.     *)
OneSaverPerSequence ==
    \A t, u \in Thread :
        call[t].at \in Working /\ call[u].at \in Working /\ t # u => SeqAt(t) # SeqAt(u)

(* A ledger that has an entry in the Ledgers table has its transactions in *)
(* the transaction tables, after a crash between any two commits too: the  *)
(* entry is what tryFill trusts when it declares a ledger complete.        *)
EntriesHaveTransactions ==
    \A s \in Seqs : ledgers[s] # None => txns[s] = ledgers[s]

(* A thread blocked in shouldWork has somebody to wait for: a thread at    *)
(* work on its number, which has yet to notify, or a save that left the    *)
(* number marked when it threw.                                            *)
SleepersHaveASaver ==
    \A t \in await_ :
        /\ At(t, "should")
        /\ \/ SeqAt(t) \in thrown
           \/ \E u \in Thread : call[u].at \in Working /\ SeqAt(u) = SeqAt(t)

(* Every call of pendSaveValidated returns and every queued save ends,     *)
(* also when nodes of the ledger are missing, another save begins before a *)
(* notified caller runs, or the process dies; only a synchronous call for  *)
(* a number whose save was left by an SQL exception may wait for ever.     *)
EverySaveEnds ==
    <>[](\A t \in Thread :
           At(t, "idle") \/ (At(t, "should") /\ call[t].sync /\ SeqAt(t) \in thrown))

(* "The tracking of the work in progress is removed and threads awaiting   *)
(* completion are notified" (PendingSaves.h:62): whoever waits for a save  *)
(* is let go in the end.                                                   *)
WaitersAreNotified == <>[](\A t \in Thread : At(t, "idle"))

(* "Either we don't need it to be finished or it is finished"              *)
(* (Ledger.cpp:1075): when a synchronous call returns true, its ledger, or *)
(* a later one of its number, is in the database.                          *)
SynchronousIsSaved ==
    \A t \in Caller : At(t, "returned") /\ call[t].sync /\ call[t].ok => ledgers[SeqAt(t)] # None

(* "Returns Ledgers we have all the nodes for and are indexed"             *)
(* (LedgerMaster.cpp:392): getValidatedRange takes the pending saves away  *)
(* from the complete ledgers, and what is left is in the database.         *)
RangeIsIndexed == \A s \in complete : map_[s] = "none" => ledgers[s] # None

===========================================================================
