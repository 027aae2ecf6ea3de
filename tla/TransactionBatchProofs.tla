----------------------- MODULE TransactionBatchProofs -----------------------
(***************************************************************************)
(* Proofs about TransactionBatch, for any number of transactions, clients  *)
(* and worker threads.                                                     *)
(***************************************************************************)
EXTENDS TransactionBatch, TLAPS

(* The prover of the leaves that name none. *)
USE SMTT(30)

(* Queued and running copies of one transaction never coexist: the running *)
(* batch and the waiting vector own different objects.                     *)
OwnedOnce ==
    \A th \in Threads :
        InApply(th) => Own(mTransactions) \cap Own(batch[th]) = {}

(* Transactions taken from the held set are fresh objects. *)
HeldCopiesAreFresh ==
    \A th \in Threads : \A i \in DOMAIN submit_held[th] :
        ~submit_held[th][i].own

(* The dispatch protocol: with TypeOK, its inductive invariant. *)
Dispatch ==
    /\ OneBatchAtATime
    /\ QueuedWorkHasARunner
    /\ BatchIsNotEmpty
    /\ FlagMeansQueued
    /\ OwnedOnce
    /\ HeldCopiesAreFresh

DispatchInv == TypeOK /\ Dispatch

-----------------------------------------------------------------------------
(* What Append makes. *)
LEMMA AppendType ==
  ASSUME NEW S, NEW s \in Seq(S), NEW x \in S
  PROVE  /\ Append(s, x) \in Seq(S)
         /\ Len(Append(s, x)) = Len(s) + 1
         /\ Append(s, x) # <<>>
         /\ \A i \in 1 .. Len(s) : Append(s, x)[i] = s[i]
         /\ Append(s, x)[Len(s) + 1] = x
  OBVIOUS

(* A function on 1 .. n is a sequence. *)
LEMMA ListType ==
  ASSUME NEW S, NEW n \in Nat, NEW f \in [1 .. n -> S]
  PROVE  f \in Seq(S) /\ Len(f) = n
  OBVIOUS

(* Own of an empty vector, of a pushed entry, and of appended held copies. *)
LEMMA OwnEmpty == Own(<<>>) = {}
  BY DEF Own

(* Pushing an entry adds its object, if the entry owns it. *)
LEMMA OwnAppend ==
  ASSUME NEW s \in Seq(TransactionStatus), NEW e \in TransactionStatus, e.own
  PROVE  Own(Append(s, e)) = Own(s) \cup {e.tx}
  <1> DEFINE r == Append(s, e)
  <1>1. /\ r \in Seq(TransactionStatus)
        /\ Len(r) = Len(s) + 1
        /\ DOMAIN r = 1 .. Len(s) + 1
        /\ DOMAIN s = 1 .. Len(s)
        /\ Len(s) \in Nat
        /\ \A i \in 1 .. Len(s) : r[i] = s[i]
        /\ r[Len(s) + 1] = e
    OBVIOUS
  <1> HIDE DEF r
  <1>2. Own(r) \subseteq Own(s) \cup {e.tx}
    BY <1>1 DEF Own
  <1>3. Own(s) \cup {e.tx} \subseteq Own(r)
    BY <1>1 DEF Own
  <1> QED BY <1>2, <1>3 DEF r

(* Appending fresh objects changes nothing that is owned. *)
LEMMA OwnConcatFresh ==
  ASSUME NEW s \in Seq(TransactionStatus), NEW h \in Seq(TransactionStatus),
         \A i \in DOMAIN h : ~h[i].own
  PROVE  Own(s \o h) = Own(s)
  <1> DEFINE r == s \o h
  <1>1. /\ DOMAIN r = 1 .. Len(s) + Len(h)
        /\ DOMAIN s = 1 .. Len(s)
        /\ DOMAIN h = 1 .. Len(h)
        /\ Len(s) \in Nat /\ Len(h) \in Nat
        /\ \A i \in 1 .. Len(s) : r[i] = s[i]
        /\ \A i \in Len(s) + 1 .. Len(s) + Len(h) : r[i] = h[i - Len(s)]
    OBVIOUS
  <1> HIDE DEF r
  <1>2. \A i \in DOMAIN r : r[i].own => i \in DOMAIN s
    <2> SUFFICES ASSUME NEW i \in DOMAIN r, i \notin DOMAIN s PROVE ~r[i].own
      OBVIOUS
    <2>1. i \in Len(s) + 1 .. Len(s) + Len(h) /\ i - Len(s) \in DOMAIN h
      BY <1>1
    <2> QED BY <2>1, <1>1
  <1>3. Own(r) \subseteq Own(s)
    BY <1>1, <1>2 DEF Own
  <1>4. Own(s) \subseteq Own(r)
    BY <1>1 DEF Own
  <1> QED BY <1>3, <1>4, Zenon DEF r

(* Setting results changes neither the objects nor who owns them. *)
LEMMA OwnSetResult ==
  ASSUME NEW s \in Seq(TransactionStatus), NEW r \in [DOMAIN s -> Results]
  PROVE  /\ SetResults(s, r) \in Seq(TransactionStatus)
         /\ Own(SetResults(s, r)) = Own(s)
         /\ DOMAIN SetResults(s, r) = DOMAIN s
         /\ \A i \in DOMAIN s :
               /\ SetResults(s, r)[i].result # "none"
               /\ SetResults(s, r)[i].own = s[i].own
               /\ SetResults(s, r)[i].tx = s[i].tx
  <1> DEFINE u == [i \in DOMAIN s |-> [s[i] EXCEPT !.result = r[i]]]
  <1>1. DOMAIN s = 1 .. Len(s) /\ Len(s) \in Nat /\ DOMAIN u = DOMAIN s
    OBVIOUS
  <1>2. \A i \in DOMAIN s : s[i] \in TransactionStatus
    OBVIOUS
  <1>3. \A i \in DOMAIN s :
           /\ u[i] \in TransactionStatus
           /\ u[i].tx = s[i].tx
           /\ u[i].own = s[i].own
           /\ u[i].result = r[i]
    BY <1>2 DEF TransactionStatus
  <1> HIDE DEF u
  <1>4. u \in [1 .. Len(s) -> TransactionStatus]
    BY <1>1, <1>3 DEF u
  <1>5. u \in Seq(TransactionStatus)
    BY <1>1, <1>4, ListType
  <1>6. Own(u) = Own(s)
    <2>1. \A i \in DOMAIN s : u[i].own = s[i].own /\ u[i].tx = s[i].tx
      BY <1>3
    <2>2. {j \in DOMAIN u : u[j].own} = {j \in DOMAIN s : s[j].own}
      BY <1>1, <2>1
    <2> QED BY <1>1, <2>1, <2>2 DEF Own
  <1>7. \A i \in DOMAIN s : r[i] # "none"
    BY DEF Results
  <1>8. SetResults(s, r) = u
    BY DEF SetResults, u
  <1> QED BY <1>1, <1>3, <1>5, <1>6, <1>7, <1>8

(* A listing of a set of transactions is a vector of them, and the entries *)
(* made from it are fresh.                                                 *)
LEMMA ListingEntries ==
  ASSUME NEW S \in SUBSET Tx, NEW s \in Listings(S)
  PROVE  LET h == [i \in DOMAIN s |-> NewEntry(s[i], FALSE, FALSE, FALSE)]
         IN  /\ h \in Seq(TransactionStatus)
             /\ \A i \in DOMAIN h : ~h[i].own
  <1> DEFINE h == [i \in DOMAIN s |-> NewEntry(s[i], FALSE, FALSE, FALSE)]
  <1>1. PICK n \in 0 .. Cardinality(S) : s \in [1 .. n -> S]
    BY DEF Listings
  <1>2. n \in Nat
    OBVIOUS
  <1>3. \A i \in DOMAIN s : h[i] \in TransactionStatus /\ ~h[i].own
    BY <1>1 DEF NewEntry, TransactionStatus, Results
  <1>4. h \in [1 .. n -> TransactionStatus]
    BY <1>1, <1>3, Zenon
  <1>5. h \in Seq(TransactionStatus)
    BY <1>2, <1>4, ListType, Zenon
  <1>6. \A i \in DOMAIN h : ~h[i].own
    BY <1>1, <1>3, <1>4, Zenon
  <1> QED BY <1>5, <1>6, Zenon

-----------------------------------------------------------------------------
(* Every variable keeps its type. *)
LEMMA TypeInit == Init => TypeOK
  <1> SUFFICES ASSUME Init PROVE TypeOK
    OBVIOUS
  <1>1. <<>> \in Seq(TransactionStatus)
    OBVIOUS
  <1>2. /\ mTransactions \in Seq(TransactionStatus)
        /\ batch \in [Threads -> Seq(TransactionStatus)]
        /\ submit_held \in [Threads -> Seq(TransactionStatus)]
    BY <1>1 DEF Init
  <1>3. /\ pc \in [Threads -> {"idle", "wait", "modify", "process", "after"}]
        /\ \A c \in Clients : pc[c] = "idle"
    BY DEF Init, Threads
  <1>4. /\ status \in [Tx -> Statuses]
        /\ result \in [Tx -> Results \cup {"none"}]
        /\ newOL \in [Clients -> BOOLEAN]
    BY DEF Init, Statuses
  <1>5. /\ txOf \in [Clients -> Tx \cup {NoTx}]
        /\ entry \in [Threads -> Nat]
        /\ submits \in 0 .. MaxSubmit
        /\ batchJobs \in Nat
    BY BatchAssumption DEF Init
  <1> QED BY <1>2, <1>3, <1>4, <1>5 DEF Init, TypeOK

(* The variables the dispatch loop handles, and their types. *)
LoopTypes ==
    /\ mTransactions \in Seq(TransactionStatus)
    /\ mDispatchState \in {"none", "scheduled", "running"}
    /\ pc \in [Threads -> {"idle", "wait", "modify", "process", "after"}]
    /\ batch \in [Threads -> Seq(TransactionStatus)]
    /\ entry \in [Threads -> Nat]
    /\ submit_held \in [Threads -> Seq(TransactionStatus)]

(* Starting a batch keeps them. *)
LEMMA ApplyBeginType ==
  ASSUME TypeOK, NEW th \in Threads, NEW w \in Seq(TransactionStatus),
         ApplyBegin(th, w)
  PROVE  LoopTypes' /\ \A d \in Threads : d # th => pc'[d] = pc[d]
  <1>1. <<>> \in Seq(TransactionStatus)
    OBVIOUS
  <1>2. mTransactions' \in Seq(TransactionStatus) /\ mDispatchState' = "running"
    BY <1>1 DEF ApplyBegin
  <1>3. /\ pc' \in [Threads -> {"idle", "wait", "modify", "process", "after"}]
        /\ \A d \in Threads : d # th => pc'[d] = pc[d]
    BY DEF ApplyBegin, TypeOK
  <1>4. batch' \in [Threads -> Seq(TransactionStatus)] /\ entry' \in [Threads -> Nat]
    BY DEF ApplyBegin, TypeOK
  <1>5. submit_held' \in [Threads -> Seq(TransactionStatus)]
    BY <1>1 DEF ApplyBegin, TypeOK
  <1> QED BY <1>2, <1>3, <1>4, <1>5 DEF LoopTypes

(* So does a turn of the client's loop. *)
LEMMA SyncTurnType ==
  ASSUME TypeOK, NEW c \in Clients, NEW w \in Seq(TransactionStatus),
         SyncTurn(c, w)
  PROVE  /\ LoopTypes' /\ mCond' \subseteq Clients
         /\ \A d \in Threads : d # c => pc'[d] = pc[d]
  <1> c \in Threads
    BY DEF Threads
  <1>a. mCond' \subseteq Clients
    BY Zenon DEF SyncTurn, TypeOK
  <1>1. CASE mDispatchState = "running"
    BY <1>a, <1>1, ApplyBeginType, Zenon DEF SyncTurn, NoApply, LoopTypes, TypeOK
  <1>2. CASE mDispatchState # "running"
    BY <1>a, <1>2, ApplyBeginType DEF SyncTurn
  <1> QED BY <1>1, <1>2

(* Entries are made well typed. *)
LEMMA NewEntryType ==
  \A t \in Tx, o, l, f \in BOOLEAN : NewEntry(t, o, l, f) \in TransactionStatus
  BY DEF NewEntry, TransactionStatus

(* Types after doTransactionAsync. *)
LEMMA TypeAsync ==
  ASSUME TypeOK, NEW t \in Tx, NEW f \in BOOLEAN, DoTransactionAsync(t, f)
  PROVE  TypeOK'
  <1>1. mTransactions' \in Seq(TransactionStatus)
    <2>1. NewEntry(t, TRUE, FALSE, f) \in TransactionStatus
      BY NewEntryType, Zenon
    <2> QED BY <2>1, AppendType, Zenon DEF DoTransactionAsync, TypeOK
  <1>2. /\ mDispatchState' \in {"none", "scheduled", "running"}
        /\ batchJobs' \in Nat
        /\ submits' \in 0 .. MaxSubmit
    BY BatchAssumption DEF DoTransactionAsync, TypeOK
  <1> QED BY <1>1, <1>2, Zenon
          DEF DoTransactionAsync, NoApply, outputs, TypeOK

(* Types after doTransactionSync. *)
LEMMA TypeSync ==
  ASSUME TypeOK, NEW c \in Clients, NEW t \in Tx, NEW f \in BOOLEAN,
         DoTransactionSync(c, t, f)
  PROVE  TypeOK'
  <1> DEFINE w == IF t \in applying THEN mTransactions
                  ELSE Append(mTransactions, NewEntry(t, TRUE, TRUE, f))
  <1>1. w \in Seq(TransactionStatus)
    <2>1. NewEntry(t, TRUE, TRUE, f) \in TransactionStatus
      BY NewEntryType, Zenon
    <2> QED BY <2>1, AppendType, Zenon DEF TypeOK
  <1>2. SyncTurn(c, w)
    BY Zenon DEF DoTransactionSync
  <1>3. /\ txOf' \in [Clients -> Tx \cup {NoTx}]
        /\ txOf' = [txOf EXCEPT ![c] = t]
        /\ newOL' \in [Clients -> BOOLEAN]
        /\ applying' \subseteq Tx
        /\ submits' \in 0 .. MaxSubmit
        /\ UNCHANGED <<batchJobs, outputs>>
    BY BatchAssumption DEF DoTransactionSync, TypeOK
  <1> HIDE DEF w
  <1>4. /\ LoopTypes' /\ mCond' \subseteq Clients
        /\ \A d \in Clients : d # c => pc'[d] = pc[d]
    BY <1>1, <1>2, SyncTurnType DEF Threads
  <1> QED BY <1>3, <1>4 DEF outputs, LoopTypes, TypeOK

(* Types after a wakeup. *)
LEMMA TypeWake ==
  ASSUME TypeOK, NEW c \in Clients, SyncWake(c)
  PROVE  TypeOK'
  <1>1. /\ LoopTypes' /\ mCond' \subseteq Clients
        /\ \A d \in Clients : d # c => pc'[d] = pc[d]
    <2>1. mTransactions \in Seq(TransactionStatus) /\ c \in Threads
      BY DEF Threads, TypeOK
    <2>2. CASE SyncTurn(c, mTransactions)
      BY <2>1, <2>2, SyncTurnType DEF Threads
    <2>3. CASE /\ pc' = [pc EXCEPT ![c] = "after"]
               /\ NoApply
               /\ UNCHANGED <<mTransactions, mDispatchState, mCond>>
      BY <2>1, <2>3 DEF NoApply, Threads, LoopTypes, TypeOK
    <2> QED BY <2>2, <2>3 DEF SyncWake
  <1>2. txOf[c] \in Tx
    BY DEF SyncWake, TypeOK
  <1> QED BY <1>1, <1>2 DEF SyncWake, outputs, LoopTypes, TypeOK

(* Types after a transactionBatch job starts. *)
LEMMA TypeJob ==
  ASSUME TypeOK, NEW w \in Workers, TransactionBatchJob(w)
  PROVE  TypeOK'
  <1>1. /\ LoopTypes'
        /\ batchJobs' \in Nat
        /\ \A d \in Clients : pc'[d] = pc[d]
    <2>1. /\ mTransactions \in Seq(TransactionStatus)
          /\ w \in Threads /\ w \notin Clients /\ Clients \subseteq Threads
      BY BatchAssumption DEF Threads, TypeOK
    <2>2. batchJobs' \in Nat
      BY DEF TransactionBatchJob, TypeOK
    <2>3. CASE ApplyBegin(w, mTransactions)
      BY <2>1, <2>2, <2>3, ApplyBeginType
    <2>4. CASE NoApply /\ UNCHANGED <<mDispatchState, mTransactions, pc>>
      BY <2>2, <2>4 DEF NoApply, LoopTypes, TypeOK
    <2> QED BY <2>3, <2>4 DEF TransactionBatchJob
  <1> QED BY <1>1 DEF TransactionBatchJob, outputs, LoopTypes, TypeOK

(* Types after the batch is applied. *)
LEMMA TypeModify ==
  ASSUME TypeOK, NEW th \in Threads, Modify(th)
  PROVE  TypeOK'
  <1>1. PICK r \in [DOMAIN batch[th] -> Results] :
           batch' = [batch EXCEPT ![th] = SetResults(batch[th], r)]
    BY ZenonT(40) DEF Modify
  <1>2. batch[th] \in Seq(TransactionStatus)
    BY DEF TypeOK
  <1>3. batch' \in [Threads -> Seq(TransactionStatus)]
    <2>1. SetResults(batch[th], r) \in Seq(TransactionStatus)
      BY <1>2, OwnSetResult
    <2> QED BY <1>1, <2>1 DEF TypeOK
  <1> QED BY <1>3 DEF Modify, outputs, TypeOK

(* Types after an entry is processed. *)
LEMMA TypeProcess ==
  ASSUME TypeOK, NEW th \in Threads, Process(th)
  PROVE  TypeOK'
  <1> DEFINE e == batch[th][entry[th] + 1]
  <1>1. PICK full \in BOOLEAN : ProcessEntry(th, e, full)
    BY Zenon DEF Process
  <1>2. /\ entry[th] < Len(batch[th])
        /\ entry' = [entry EXCEPT ![th] = @ + 1]
        /\ UNCHANGED <<mDispatchState, mTransactions, applying, batchJobs, pc,
                       txOf, batch, newOL, mCond, submits>>
    BY Zenon DEF Process
  <1>3. e \in TransactionStatus
    BY <1>2 DEF TypeOK
  <1>4. /\ e.tx \in Tx /\ e.own \in BOOLEAN
        /\ e.result \in Results \cup {"none"}
    BY <1>3 DEF TransactionStatus
  <1> HIDE DEF e
  <1>5. /\ mHeldTransactions' \subseteq Tx
        /\ submit_held' \in [Threads -> Seq(TransactionStatus)]
    <2>0. mHeldTransactions \subseteq Tx
          /\ submit_held \in [Threads -> Seq(TransactionStatus)]
      BY DEF TypeOK
    <2>1. CASE e.result = "success"
      <3> DEFINE ready == Followers[e.tx] \cap mHeldTransactions
      <3>1. PICK s \in Listings(ready) :
               submit_held' = [submit_held EXCEPT ![th] =
                  @ \o [i \in DOMAIN s |-> NewEntry(s[i], FALSE, FALSE, FALSE)]]
        BY <1>1, <2>1, Zenon DEF ProcessEntry, PruneHeld
      <3>2. ready \in SUBSET Tx
        BY <2>0
      <3>3. [i \in DOMAIN s |-> NewEntry(s[i], FALSE, FALSE, FALSE)]
               \in Seq(TransactionStatus)
        BY <3>2, ListingEntries, ZenonT(40)
      <3>4. mHeldTransactions' = mHeldTransactions \ ready
        BY <1>1, <2>1, Zenon DEF ProcessEntry, PruneHeld
      <3> HIDE DEF ready
      <3> QED BY <2>0, <3>1, <3>3, <3>4
    <2>2. CASE e.result # "success"
      BY <1>1, <1>4, <2>0, <2>2 DEF ProcessEntry, Noting
    <2> QED BY <2>1, <2>2
  <1>6. /\ status' \in [Tx -> Statuses]
        /\ result' \in [Tx -> Results \cup {"none"}]
    BY <1>1, <1>4 DEF ProcessEntry, StatusAfter, Statuses, TypeOK
  <1>7. localTX' \subseteq Tx /\ badTX' \subseteq Tx /\ relayed' \subseteq Tx
    BY <1>1, <1>4 DEF ProcessEntry, Noting, TypeOK
  <1>8. entry' \in [Threads -> Nat]
    BY <1>2 DEF TypeOK
  <1> QED BY <1>2, <1>5, <1>6, <1>7, <1>8 DEF TypeOK

(* Types after the tail of apply(). *)
LEMMA TypeApplyEnd ==
  ASSUME TypeOK, NEW th \in Threads, ApplyEnd(th)
  PROVE  TypeOK'
  <1> DEFINE waiting == mTransactions \o submit_held[th]
  <1>1. waiting \in Seq(TransactionStatus)
    BY DEF TypeOK
  <1>2. /\ applying' \subseteq Tx /\ mCond' \subseteq Clients
        /\ UNCHANGED <<txOf, outputs, submits>>
    BY DEF ApplyEnd, Finish, TypeOK
  <1>3. CASE th \in Clients
    <2> HIDE DEF waiting
    <2>0. /\ newOL' = [newOL EXCEPT ![th] = TRUE]
          /\ \/ batchJobs' = batchJobs + 1
             \/ batchJobs' = batchJobs
          /\ \/ ApplyBegin(th, waiting)
             \/ /\ mDispatchState' \in {"scheduled", "none"}
                /\ mTransactions' = waiting
                /\ pc' = [pc EXCEPT ![th] = "after"]
                /\ UNCHANGED <<batch, entry, submit_held>>
      BY BatchAssumption, <1>3 DEF ApplyEnd, Finish, ClientAfter, BatchAfter, NoApply, waiting
    <2>a. newOL' \in [Clients -> BOOLEAN] /\ batchJobs' \in Nat
      BY <1>3, <2>0 DEF TypeOK
    <2>b. LoopTypes' /\ \A d \in Clients : d # th => pc'[d] = pc[d]
      <3>1. CASE ApplyBegin(th, waiting)
        BY <1>1, <3>1, ApplyBeginType DEF Threads
      <3>2. CASE /\ mDispatchState' \in {"scheduled", "none"}
                 /\ mTransactions' = waiting
                 /\ pc' = [pc EXCEPT ![th] = "after"]
                 /\ UNCHANGED <<batch, entry, submit_held>>
        BY <1>1, <3>2 DEF LoopTypes, Threads, TypeOK
      <3> QED BY <2>0, <3>1, <3>2
    <2>2. txOf[th] \in Tx
      BY <1>3 DEF ApplyEnd, Finish, TypeOK
    <2> QED BY <1>2, <2>a, <2>b, <2>2, SMTT(30) DEF outputs, LoopTypes, TypeOK
  <1>4. CASE th \in Workers
    <2> HIDE DEF waiting
    <2>0. /\ \/ ApplyBegin(th, waiting)
             \/ /\ mDispatchState' = "none"
                /\ pc' = [pc EXCEPT ![th] = "idle"]
                /\ UNCHANGED <<batch, entry, submit_held, mTransactions>>
          /\ UNCHANGED <<batchJobs, newOL>>
          /\ th \notin Clients /\ Clients \subseteq Threads
      BY BatchAssumption, <1>4 DEF ApplyEnd, Finish, ClientAfter, BatchAfter, NoApply, Threads, waiting
    <2>1. LoopTypes' /\ \A d \in Clients : pc'[d] = pc[d]
      <3>1. CASE ApplyBegin(th, waiting)
        BY <1>1, <2>0, <3>1, ApplyBeginType
      <3>2. CASE /\ mDispatchState' = "none"
                 /\ pc' = [pc EXCEPT ![th] = "idle"]
                 /\ UNCHANGED <<batch, entry, submit_held, mTransactions>>
        BY <2>0, <3>2 DEF LoopTypes, TypeOK
      <3> QED BY <2>0, <3>1, <3>2
    <2> QED BY <1>2, <2>0, <2>1, Zenon DEF outputs, LoopTypes, TypeOK
  <1> QED BY <1>3, <1>4 DEF Threads

(* The types are preserved by every step. *)
LEMMA TypeStep == TypeOK /\ [Next]_vars => TypeOK'
  <1> SUFFICES ASSUME TypeOK, [Next]_vars PROVE TypeOK'
    OBVIOUS
  <1> USE BatchAssumption
  <1>1. ASSUME NEW t \in Tx, NEW f \in BOOLEAN, DoTransactionAsync(t, f)
        PROVE  TypeOK'
    BY <1>1, TypeAsync
  <1>2. ASSUME NEW c \in Clients, NEW t \in Tx, NEW f \in BOOLEAN,
               DoTransactionSync(c, t, f)
        PROVE  TypeOK'
    BY <1>2, TypeSync
  <1>3. ASSUME NEW c \in Clients, SyncWake(c)
        PROVE  TypeOK'
    BY <1>3, TypeWake
  <1>4. ASSUME NEW c \in Clients, AfterApply(c)
        PROVE  TypeOK'
    BY <1>4 DEF AfterApply, NoApply, Threads, outputs, TypeOK
  <1>5. ASSUME NEW w \in Workers, TransactionBatchJob(w)
        PROVE  TypeOK'
    BY <1>5, TypeJob
  <1>6. ASSUME NEW th \in Threads, Modify(th)
        PROVE  TypeOK'
    BY <1>6, TypeModify
  <1>7. ASSUME NEW th \in Threads, Process(th)
        PROVE  TypeOK'
    BY <1>7, TypeProcess
  <1>8. ASSUME NEW th \in Threads, ApplyEnd(th)
        PROVE  TypeOK'
    BY <1>8, TypeApplyEnd
  <1>9. CASE ApplyHeldTransactions
    BY <1>9 DEF ApplyHeldTransactions, TypeOK
  <1>10. ASSUME NEW c \in Clients, SpuriousWake(c)
         PROVE  TypeOK'
    BY <1>10 DEF SpuriousWake, NoApply, outputs, TypeOK
  <1>11. CASE UNCHANGED vars
    BY <1>11 DEF vars, TypeOK
  <1> QED BY <1>1, <1>2, <1>3, <1>4, <1>5, <1>6, <1>7, <1>8, <1>9, <1>10, <1>11
          DEF Next, Submit, ThreadStep, Quiescent

-----------------------------------------------------------------------------
(* The objects of the running batch, when `th' is the thread running it and *)
(* when none is; P and B stand for pc and batch, now or after a step.      *)
LEMMA RunnerOwns ==
  ASSUME NEW P, NEW B, NEW th \in Threads, P[th] \in {"modify", "process"},
         \A r \in Threads : r # th => P[r] \notin {"modify", "process"}
  PROVE  UNION {Own(B[q]) : q \in {r \in Threads : P[r] \in {"modify", "process"}}}
           = Own(B[th])
  <1>1. {r \in Threads : P[r] \in {"modify", "process"}} = {th}
    OBVIOUS
  <1>2. {Own(B[q]) : q \in {th}} = {Own(B[th])}
    OBVIOUS
  <1> QED BY <1>1, <1>2

(* Nobody runs a batch, and nothing is owned by one. *)
LEMMA NobodyOwns ==
  ASSUME NEW P, NEW B, \A r \in Threads : P[r] \notin {"modify", "process"}
  PROVE  UNION {Own(B[q]) : q \in {r \in Threads : P[r] \in {"modify", "process"}}}
           = {}
  <1>1. {r \in Threads : P[r] \in {"modify", "process"}} = {}
    OBVIOUS
  <1> QED BY <1>1

(* A thread that starts a batch while no other runs one establishes the    *)
(* protocol, if the batch holds exactly the flagged transactions.          *)
LEMMA BeginBatch ==
  ASSUME TypeOK, HeldCopiesAreFresh, NEW th \in Threads,
         NEW w \in Seq(TransactionStatus), w # <<>>, ApplyBegin(th, w),
         \A r \in Threads : r # th => ~InApply(r),
         applying' = Own(w)
  PROVE  Dispatch'
  <1>1. /\ pc'[th] = "modify"
        /\ \A r \in Threads : r # th => pc'[r] = pc[r]
        /\ batch'[th] = w
        /\ mTransactions' = <<>>
        /\ mDispatchState' = "running"
    BY DEF ApplyBegin, TypeOK
  <1>2. \A r \in Threads : r # th => pc'[r] \notin {"modify", "process"}
    BY <1>1 DEF InApply
  <1>3. OneBatchAtATime'
    BY <1>1, <1>2 DEF OneBatchAtATime, InApply
  <1>4. QueuedWorkHasARunner' /\ BatchIsNotEmpty'
    BY <1>1, <1>2 DEF QueuedWorkHasARunner, BatchIsNotEmpty, InApply
  <1>5. UNION {Own(batch'[q]) : q \in {r \in Threads : pc'[r] \in {"modify", "process"}}}
          = Own(w)
    BY <1>1, <1>2, RunnerOwns
  <1>6. FlagMeansQueued'
    BY <1>1, <1>5, OwnEmpty DEF FlagMeansQueued, InApply
  <1>7. OwnedOnce'
    BY <1>1, OwnEmpty DEF OwnedOnce
  <1>8. HeldCopiesAreFresh'
    BY DEF HeldCopiesAreFresh, ApplyBegin, TypeOK
  <1> QED BY <1>3, <1>4, <1>6, <1>7, <1>8 DEF Dispatch

(* A step that leaves the running batch alone, and flags what it queues.   *)
LEMMA QueueOnly ==
  ASSUME TypeOK, Dispatch, NoApply,
         \A r \in Threads : InApply(r)' <=> InApply(r),
         QueuedWorkHasARunner',
         mDispatchState' = "running" <=> mDispatchState = "running",
         \/ mTransactions' = mTransactions /\ applying' = applying
         \/ \E e \in TransactionStatus :
               /\ e.own
               /\ e.tx \notin applying
               /\ mTransactions' = Append(mTransactions, e)
               /\ applying' = applying \cup {e.tx}
  PROVE  Dispatch'
  <1>0. mTransactions \in Seq(TransactionStatus)
    BY DEF TypeOK
  <1> DEFINE R == {r \in Threads : InApply(r)}
             RunningOwn == UNION {Own(batch[q]) : q \in R}
  <1>1. {r \in Threads : InApply(r)'} = R
    OBVIOUS
  <1>2. OneBatchAtATime' /\ BatchIsNotEmpty' /\ HeldCopiesAreFresh'
    BY DEF Dispatch, OneBatchAtATime, BatchIsNotEmpty, HeldCopiesAreFresh, NoApply
  <1>3. applying = Own(mTransactions) \cup RunningOwn
    BY DEF Dispatch, FlagMeansQueued
  <1>4. \A q \in Threads : InApply(q) => Own(batch[q]) \subseteq applying
    BY <1>3
  <1>5. applying' = Own(mTransactions') \cup RunningOwn /\ OwnedOnce'
    <2>1. CASE mTransactions' = mTransactions /\ applying' = applying
      BY <1>3, <2>1 DEF Dispatch, OwnedOnce, NoApply
    <2>2. CASE \E e \in TransactionStatus :
                  /\ e.own
                  /\ e.tx \notin applying
                  /\ mTransactions' = Append(mTransactions, e)
                  /\ applying' = applying \cup {e.tx}
      <3>1. PICK e \in TransactionStatus :
                  /\ e.own
                  /\ e.tx \notin applying
                  /\ mTransactions' = Append(mTransactions, e)
                  /\ applying' = applying \cup {e.tx}
        BY <2>2
      <3>2. Own(mTransactions') = Own(mTransactions) \cup {e.tx}
        BY <1>0, <3>1, OwnAppend
      <3> HIDE DEF RunningOwn
      <3>3. applying' = Own(mTransactions') \cup RunningOwn
        BY <1>3, <3>1, <3>2
      <3>4. OwnedOnce'
        BY <1>4, <3>1, <3>2 DEF Dispatch, OwnedOnce, NoApply
      <3> QED BY <3>3, <3>4
    <2> QED BY <2>1, <2>2
  <1>6. FlagMeansQueued'
    BY <1>1, <1>5 DEF FlagMeansQueued, NoApply
  <1> QED BY <1>2, <1>5, <1>6 DEF Dispatch

(* No batch runs, so the flagged transactions are the queued ones. *)
LEMMA IdleFlags ==
  ASSUME Dispatch, mDispatchState # "running"
  PROVE  /\ \A r \in Threads : ~InApply(r)
         /\ applying = Own(mTransactions)
  <1>1. \A r \in Threads : ~InApply(r)
    BY DEF Dispatch, OneBatchAtATime
  <1>2. UNION {Own(batch[q]) : q \in {r \in Threads : pc[r] \in {"modify", "process"}}}
          = {}
    BY <1>1, NobodyOwns DEF InApply
  <1> QED BY <1>1, <1>2 DEF Dispatch, FlagMeansQueued, InApply

(* A turn of a client's loop, after its transaction was queued if need be. *)
LEMMA SyncTurnStep ==
  ASSUME TypeOK, Dispatch, NEW c \in Clients, ~InApply(c),
         NEW t \in Tx, NEW f \in BOOLEAN,
         NEW w, w = IF t \in applying THEN mTransactions
                    ELSE Append(mTransactions, NewEntry(t, TRUE, TRUE, f)),
         SyncTurn(c, w), applying' = applying \cup {t}
  PROVE  Dispatch'
  <1> DEFINE e == NewEntry(t, TRUE, TRUE, f)
  <1>1. e \in TransactionStatus /\ e.own /\ e.tx = t
    BY DEF NewEntry, TransactionStatus
  <1>2. c \in Threads /\ mTransactions \in Seq(TransactionStatus)
    BY DEF Threads, TypeOK
  <1> HIDE DEF e
  <1>3. CASE mDispatchState = "running"
    <2>1. /\ pc' = [pc EXCEPT ![c] = "wait"]
          /\ mTransactions' = w /\ NoApply /\ mDispatchState' = mDispatchState
      BY <1>3, Zenon DEF SyncTurn, ApplyBegin
    <2>2. \A r \in Threads : InApply(r)' <=> InApply(r)
      BY <1>2, <2>1 DEF InApply, TypeOK
    <2>3. QueuedWorkHasARunner'
      BY <1>3, <2>1 DEF QueuedWorkHasARunner
    <2>4. \/ mTransactions' = mTransactions /\ applying' = applying
          \/ /\ t \notin applying
             /\ mTransactions' = Append(mTransactions, e)
             /\ applying' = applying \cup {e.tx}
      BY <1>1, <2>1, Zenon DEF e
    <2> QED BY <1>1, <2>1, <2>2, <2>3, <2>4, QueueOnly, Zenon
  <1>4. CASE mDispatchState # "running"
    <2>1. ApplyBegin(c, w)
      BY <1>4, Zenon DEF SyncTurn
    <2>2. (\A r \in Threads : ~InApply(r)) /\ applying = Own(mTransactions)
      BY <1>4, IdleFlags
    <2>3. w \in Seq(TransactionStatus) /\ w # <<>> /\ Own(w) = applying \cup {t}
      <3>1. CASE t \in applying
        <4>1. w = mTransactions /\ mTransactions # <<>>
          BY <2>2, <3>1, OwnEmpty
        <4> QED BY <1>2, <2>2, <3>1, <4>1
      <3>2. CASE t \notin applying
        <4>1. w = Append(mTransactions, e)
          BY <3>2, Zenon DEF e
        <4>2. Own(w) = Own(mTransactions) \cup {t}
          BY <1>1, <1>2, <4>1, OwnAppend, Zenon
        <4>3. w \in Seq(TransactionStatus)
          <5>1. Append(mTransactions, e) \in Seq(TransactionStatus)
            BY <1>1, <1>2
          <5> QED BY <4>1, <5>1, Zenon
        <4>4. w # <<>>
          BY <4>2, OwnEmpty, Zenon
        <4> QED BY <2>2, <4>2, <4>3, <4>4, Zenon
      <3> QED BY <3>1, <3>2, Zenon
    <2>4. HeldCopiesAreFresh
      BY DEF Dispatch
    <2> QED BY <1>2, <2>1, <2>2, <2>3, <2>4, BeginBatch, Zenon
  <1> QED BY <1>3, <1>4

(* The tail of apply(), by a client or by a worker. *)
LEMMA ApplyEndStep ==
  ASSUME TypeOK, Dispatch, NEW th \in Threads, ApplyEnd(th)
  PROVE  Dispatch'
  <1> DEFINE waiting == mTransactions \o submit_held[th]
  <1>1. /\ waiting \in Seq(TransactionStatus)
        /\ mTransactions \in Seq(TransactionStatus)
        /\ submit_held[th] \in Seq(TransactionStatus)
    BY DEF TypeOK
  <1>2. InApply(th) /\ applying' = applying \ Own(batch[th])
    BY DEF ApplyEnd, Finish, ClientAfter, BatchAfter, InApply
  <1>3. \A r \in Threads : r # th => ~InApply(r)
    BY <1>2 DEF Dispatch, OneBatchAtATime
  <1>4. applying = Own(mTransactions) \cup Own(batch[th])
    <2>1. UNION {Own(batch[q]) : q \in {r \in Threads : pc[r] \in {"modify", "process"}}}
            = Own(batch[th])
      BY <1>2, <1>3, RunnerOwns DEF InApply
    <2> QED BY <2>1 DEF Dispatch, FlagMeansQueued, InApply
  <1>5. Own(waiting) = Own(mTransactions)
    BY <1>1, OwnConcatFresh DEF Dispatch, HeldCopiesAreFresh
  <1>6. applying' = Own(waiting)
    BY <1>2, <1>4, <1>5 DEF Dispatch, OwnedOnce
  <1> HIDE DEF waiting
  <1>7. ASSUME NoApply, mTransactions' = waiting,
               \A r \in Threads : pc'[r] \notin {"modify", "process"},
               mDispatchState' # "running", QueuedWorkHasARunner'
        PROVE  Dispatch'
    <2>1. OneBatchAtATime' /\ BatchIsNotEmpty' /\ OwnedOnce'
      BY <1>7 DEF OneBatchAtATime, BatchIsNotEmpty, OwnedOnce, InApply
    <2>2. HeldCopiesAreFresh'
      BY <1>7 DEF Dispatch, HeldCopiesAreFresh, NoApply
    <2>3. UNION {Own(batch'[q]) :
                   q \in {r \in Threads : pc'[r] \in {"modify", "process"}}} = {}
      BY <1>7, NobodyOwns
    <2>4. FlagMeansQueued'
      BY <1>6, <1>7, <2>3 DEF FlagMeansQueued, InApply
    <2> QED BY <1>7, <2>1, <2>2, <2>4 DEF Dispatch
  <1>8. CASE th \in Clients
    <2>1. /\ newOL' = [newOL EXCEPT ![th] = TRUE]
          /\ \/ txOf[th] \in applying' /\ ApplyBegin(th, waiting)
             \/ /\ NoApply
                /\ mTransactions' = waiting
                /\ pc' = [pc EXCEPT ![th] = "after"]
                /\ \/ /\ waiting # <<>> /\ batchJobs' = batchJobs + 1
                      /\ mDispatchState' = "scheduled"
                   \/ waiting = <<>> /\ mDispatchState' = "none"
      BY <1>8, BatchAssumption DEF ApplyEnd, Finish, ClientAfter, BatchAfter, waiting
    <2>2. CASE txOf[th] \in applying' /\ ApplyBegin(th, waiting)
      <3>1. waiting # <<>>
        BY <1>6, <2>2, OwnEmpty, Zenon
      <3> QED BY <1>1, <1>3, <1>6, <2>2, <3>1, BeginBatch DEF Dispatch
    <2>3. CASE /\ NoApply
               /\ mTransactions' = waiting
               /\ pc' = [pc EXCEPT ![th] = "after"]
               /\ \/ /\ waiting # <<>> /\ batchJobs' = batchJobs + 1
                     /\ mDispatchState' = "scheduled"
                  \/ waiting = <<>> /\ mDispatchState' = "none"
      <3>1. \A r \in Threads : pc'[r] \notin {"modify", "process"}
        BY <1>3, <2>3, Zenon DEF InApply, TypeOK
      <3>2. QueuedWorkHasARunner' /\ mDispatchState' # "running"
        BY <2>3 DEF QueuedWorkHasARunner, TypeOK
      <3> QED BY <1>7, <2>3, <3>1, <3>2, SMTT(30)
    <2> QED BY <2>1, <2>2, <2>3
  <1>9. CASE th \in Workers
    <2>1. \/ waiting # <<>> /\ ApplyBegin(th, waiting)
          \/ /\ waiting = <<>> /\ mDispatchState' = "none" /\ NoApply
             /\ pc' = [pc EXCEPT ![th] = "idle"] /\ mTransactions' = mTransactions
      BY <1>9, BatchAssumption DEF ApplyEnd, Finish, ClientAfter, BatchAfter, waiting
    <2>2. CASE waiting # <<>> /\ ApplyBegin(th, waiting)
      BY <1>1, <1>3, <1>6, <2>2, BeginBatch DEF Dispatch
    <2>3. CASE /\ waiting = <<>> /\ mDispatchState' = "none" /\ NoApply
               /\ pc' = [pc EXCEPT ![th] = "idle"]
               /\ mTransactions' = mTransactions
      <3>1. mTransactions = <<>>
        BY <1>1, <2>3 DEF waiting
      <3>2. \A r \in Threads : pc'[r] \notin {"modify", "process"}
        BY <1>3, <2>3 DEF InApply, TypeOK
      <3>3. QueuedWorkHasARunner' /\ mDispatchState' # "running"
        BY <2>3, <3>1 DEF QueuedWorkHasARunner
      <3> QED BY <1>7, <2>3, <3>1, <3>2, <3>3
    <2> QED BY <2>1, <2>2, <2>3
  <1> QED BY <1>8, <1>9 DEF Threads

(* Processing one entry keeps the protocol: only submit_held matters. *)
LEMMA ProcessStep ==
  ASSUME TypeOK, Dispatch, NEW th \in Threads, Process(th)
  PROVE  Dispatch'
  <1> DEFINE e == batch[th][entry[th] + 1]
  <1>1. UNCHANGED <<mDispatchState, mTransactions, applying, batchJobs, pc, batch>>
    BY ZenonT(40) DEF Process
  <1>2. e \in TransactionStatus
    <2>1. batch[th] \in Seq(TransactionStatus) /\ entry[th] \in Nat
      BY Zenon DEF TypeOK
    <2>2. entry[th] < Len(batch[th])
      BY Zenon DEF Process
    <2> QED BY <2>1, <2>2
  <1> HIDE DEF e
  <1>3. HeldCopiesAreFresh'
    <2>1. CASE e.result = "success"
      <3> DEFINE ready == Followers[e.tx] \cap mHeldTransactions
      <3>1. PICK s \in Listings(ready) :
               submit_held' = [submit_held EXCEPT ![th] =
                  @ \o [i \in DOMAIN s |-> NewEntry(s[i], FALSE, FALSE, FALSE)]]
        BY <2>1, Zenon DEF Process, ProcessEntry, PruneHeld, e
      <3> DEFINE h == [i \in DOMAIN s |-> NewEntry(s[i], FALSE, FALSE, FALSE)]
                 g == submit_held[th]
      <3>2. ready \in SUBSET Tx
        BY ZenonT(40) DEF TypeOK
      <3>3. h \in Seq(TransactionStatus) /\ \A i \in DOMAIN h : ~h[i].own
        BY <3>2, ListingEntries, Zenon
      <3>4. g \in Seq(TransactionStatus) /\ \A i \in DOMAIN g : ~g[i].own
        BY DEF TypeOK, Dispatch, HeldCopiesAreFresh
      <3>5. submit_held' = [submit_held EXCEPT ![th] = g \o h]
        BY <3>1
      <3> HIDE DEF h, g
      <3>6. \A i \in DOMAIN (g \o h) : ~(g \o h)[i].own
        BY <3>3, <3>4, SMTT(30)
      <3>7. submit_held \in [Threads -> Seq(TransactionStatus)]
        BY DEF TypeOK
      <3>8. HeldCopiesAreFresh
        BY DEF Dispatch
      <3> QED BY <3>5, <3>6, <3>7, <3>8 DEF HeldCopiesAreFresh
    <2>2. CASE e.result # "success"
      BY <2>2, Zenon DEF Process, ProcessEntry, HeldCopiesAreFresh, Dispatch, e
    <2> QED BY <2>1, <2>2
  <1> QED BY <1>1, <1>3, SMTT(30) DEF Dispatch, OneBatchAtATime, QueuedWorkHasARunner,
          BatchIsNotEmpty, FlagMeansQueued, OwnedOnce, InApply

(* Applying the batch to the open ledger only sets results. *)
LEMMA ModifyStep ==
  ASSUME TypeOK, Dispatch, NEW th \in Threads, Modify(th)
  PROVE  Dispatch'
  <1>1. PICK r \in [DOMAIN batch[th] -> Results] :
           batch' = [batch EXCEPT ![th] = SetResults(batch[th], r)]
    BY Zenon DEF Modify
  <1> DEFINE u == SetResults(batch[th], r)
  <1>3. batch' = [batch EXCEPT ![th] = u]
    BY <1>1
  <1>4. batch[th] \in Seq(TransactionStatus)
    BY DEF TypeOK
  <1>5. /\ u \in Seq(TransactionStatus)
        /\ Own(u) = Own(batch[th])
        /\ DOMAIN u = DOMAIN batch[th]
    BY <1>4, OwnSetResult
  <1> HIDE DEF u
  <1>6. pc[th] = "modify" /\ pc' = [pc EXCEPT ![th] = "process"]
    BY DEF Modify
  <1>7. UNCHANGED <<mDispatchState, mTransactions, applying, batchJobs, submit_held>>
    BY DEF Modify
  <1>8. \A q \in Threads : InApply(q)' <=> InApply(q)
    BY <1>6 DEF InApply, TypeOK
  <1>9. \A q \in Threads : Own(batch'[q]) = Own(batch[q])
    BY <1>3, <1>5 DEF TypeOK
  <1>10. BatchIsNotEmpty'
    <2>1. batch[th] # <<>>
      BY <1>6 DEF Dispatch, BatchIsNotEmpty, InApply
    <2>2. u # <<>>
      BY <1>4, <1>5, <2>1
    <2> QED BY <1>3, <1>8, <2>2 DEF Dispatch, BatchIsNotEmpty, TypeOK
  <1>11. FlagMeansQueued'
    <2>1. {q \in Threads : InApply(q)'} = {q \in Threads : InApply(q)}
      BY <1>8
    <2>2. {Own(batch'[q]) : q \in {p \in Threads : InApply(p)}}
            = {Own(batch[q]) : q \in {p \in Threads : InApply(p)}}
      BY <1>9
    <2> QED BY <1>7, <2>1, <2>2 DEF Dispatch, FlagMeansQueued
  <1>12. OneBatchAtATime' /\ QueuedWorkHasARunner'
    BY <1>7, <1>8 DEF Dispatch, OneBatchAtATime, QueuedWorkHasARunner
  <1>13. OwnedOnce' /\ HeldCopiesAreFresh'
    BY <1>7, <1>8, <1>9 DEF Dispatch, OwnedOnce, HeldCopiesAreFresh
  <1> QED BY <1>10, <1>11, <1>12, <1>13 DEF Dispatch

-----------------------------------------------------------------------------
(* The dispatch invariant holds initially and is preserved. *)
LEMMA DispatchInit == Init => DispatchInv
  <1> SUFFICES ASSUME Init PROVE Dispatch
    BY TypeInit DEF DispatchInv
  <1>1. \A r \in Threads : pc[r] \notin {"modify", "process"}
    BY DEF Init
  <1>2. UNION {Own(batch[q]) : q \in {r \in Threads : pc[r] \in {"modify", "process"}}}
          = {}
    BY <1>1, NobodyOwns
  <1>3. FlagMeansQueued
    BY <1>2, OwnEmpty DEF Init, FlagMeansQueued, InApply
  <1>4. HeldCopiesAreFresh
    BY DEF Init, HeldCopiesAreFresh
  <1>5. OneBatchAtATime /\ QueuedWorkHasARunner /\ BatchIsNotEmpty /\ OwnedOnce
    BY <1>1 DEF Init, OneBatchAtATime, QueuedWorkHasARunner, BatchIsNotEmpty,
                OwnedOnce, InApply
  <1> QED BY <1>3, <1>4, <1>5 DEF Dispatch

(* doTransactionAsync keeps the protocol. *)
LEMMA DispatchAsync ==
  ASSUME TypeOK, Dispatch, NEW t \in Tx, NEW f \in BOOLEAN, DoTransactionAsync(t, f)
  PROVE  Dispatch'
  <1> DEFINE e == NewEntry(t, TRUE, FALSE, f)
  <1>1. e \in TransactionStatus /\ e.own /\ e.tx = t
    BY DEF NewEntry, TransactionStatus
  <1> HIDE DEF e
  <1>2. /\ e.tx \notin applying
        /\ mTransactions' = Append(mTransactions, e)
        /\ applying' = applying \cup {e.tx}
        /\ NoApply /\ pc' = pc
        /\ \/ /\ mDispatchState = "none" /\ mDispatchState' = "scheduled"
              /\ batchJobs' = batchJobs + 1
           \/ /\ mDispatchState # "none" /\ mDispatchState' = mDispatchState
              /\ batchJobs' = batchJobs
    BY <1>1, Zenon DEF DoTransactionAsync, e
  <1>3. mTransactions' # <<>>
    <2>1. Own(mTransactions') = Own(mTransactions) \cup {t}
      BY <1>1, <1>2, OwnAppend DEF TypeOK
    <2> QED BY <2>1, OwnEmpty
  <1>4. QueuedWorkHasARunner'
    BY <1>2, <1>3 DEF QueuedWorkHasARunner, Dispatch, TypeOK
  <1>5. \A r \in Threads : InApply(r)' <=> InApply(r)
    BY <1>2 DEF InApply
  <1> QED BY <1>1, <1>2, <1>4, <1>5, QueueOnly

(* A wakeup keeps the protocol. *)
LEMMA DispatchWake ==
  ASSUME TypeOK, Dispatch, NEW c \in Clients, SyncWake(c)
  PROVE  Dispatch'
  <1>1. ~InApply(c) /\ txOf[c] \in Tx /\ applying' = applying
    BY DEF SyncWake, InApply, TypeOK
  <1>2. CASE txOf[c] \in applying /\ SyncTurn(c, mTransactions)
    <2>1. applying' = applying \cup {txOf[c]}
      BY <1>1, <1>2
    <2> QED BY <1>1, <1>2, <2>1, SyncTurnStep, Zenon
  <1>3. CASE /\ pc' = [pc EXCEPT ![c] = "after"]
             /\ NoApply
             /\ UNCHANGED <<mTransactions, mDispatchState>>
    <2>1. \A r \in Threads : InApply(r)' <=> InApply(r)
      BY <1>1, <1>3 DEF InApply, Threads, TypeOK
    <2>2. QueuedWorkHasARunner'
      BY <1>3 DEF SyncWake, QueuedWorkHasARunner, Dispatch
    <2> QED BY <1>1, <1>3, <2>1, <2>2, QueueOnly
  <1> QED BY <1>2, <1>3 DEF SyncWake

(* A client's return keeps the protocol. *)
LEMMA DispatchAfter ==
  ASSUME TypeOK, Dispatch, NEW c \in Clients, AfterApply(c)
  PROVE  Dispatch'
  <1>1. \A r \in Threads : InApply(r)' <=> InApply(r)
    BY DEF AfterApply, InApply, Threads, TypeOK
  <1>2. QueuedWorkHasARunner'
    BY DEF AfterApply, QueuedWorkHasARunner, Dispatch
  <1> QED BY <1>1, <1>2, QueueOnly DEF AfterApply

(* Taking a job keeps the protocol. *)
LEMMA DispatchJob ==
  ASSUME TypeOK, Dispatch, NEW w \in Workers, TransactionBatchJob(w)
  PROVE  Dispatch'
  <1>1. CASE mDispatchState # "running" /\ mTransactions # <<>>
    <2>1. ApplyBegin(w, mTransactions) /\ applying' = applying
      BY <1>1 DEF TransactionBatchJob
    <2>2. w \in Threads /\ mTransactions \in Seq(TransactionStatus)
      BY DEF Threads, TypeOK
    <2>3. (\A r \in Threads : ~InApply(r)) /\ applying' = Own(mTransactions)
      BY <1>1, <2>1, IdleFlags
    <2> QED BY <1>1, <2>1, <2>2, <2>3, BeginBatch DEF Dispatch
  <1>2. CASE ~(mDispatchState # "running" /\ mTransactions # <<>>)
    <2>1. NoApply /\ UNCHANGED <<mDispatchState, mTransactions, pc, applying>>
      BY <1>2 DEF TransactionBatchJob
    <2>2. \A r \in Threads : InApply(r)' <=> InApply(r)
      BY <2>1 DEF InApply
    <2>3. QueuedWorkHasARunner'
      BY <1>2, <2>1 DEF QueuedWorkHasARunner, Dispatch
    <2> QED BY <2>1, <2>2, <2>3, QueueOnly
  <1> QED BY <1>1, <1>2

(* One case per action; the work is in the lemmas above. *)
LEMMA DispatchStep == DispatchInv /\ [Next]_vars => DispatchInv'
  <1> SUFFICES ASSUME TypeOK, Dispatch, [Next]_vars PROVE Dispatch'
    BY TypeStep DEF DispatchInv
  <1>1. ASSUME NEW t \in Tx, NEW f \in BOOLEAN, DoTransactionAsync(t, f)
        PROVE  Dispatch'
    BY <1>1, DispatchAsync
  <1>2. ASSUME NEW c \in Clients, NEW t \in Tx, NEW f \in BOOLEAN,
               DoTransactionSync(c, t, f)
        PROVE  Dispatch'
    BY <1>2, SyncTurnStep, Zenon DEF DoTransactionSync, InApply
  <1>3. ASSUME NEW c \in Clients, SyncWake(c)
        PROVE  Dispatch'
    BY <1>3, DispatchWake
  <1>4. ASSUME NEW c \in Clients, AfterApply(c)
        PROVE  Dispatch'
    BY <1>4, DispatchAfter
  <1>5. ASSUME NEW w \in Workers, TransactionBatchJob(w)
        PROVE  Dispatch'
    BY <1>5, DispatchJob
  <1>6. CASE ApplyHeldTransactions
    BY <1>6 DEF ApplyHeldTransactions, Dispatch, OneBatchAtATime, InApply,
       QueuedWorkHasARunner, BatchIsNotEmpty, FlagMeansQueued, OwnedOnce,
       HeldCopiesAreFresh
  <1>8. ASSUME NEW c \in Clients, SpuriousWake(c)
        PROVE  Dispatch'
    BY <1>8, ZenonT(40) DEF SpuriousWake, NoApply, Dispatch, OneBatchAtATime,
       InApply, QueuedWorkHasARunner, BatchIsNotEmpty, FlagMeansQueued,
       OwnedOnce, HeldCopiesAreFresh
  <1>7. CASE UNCHANGED vars
    BY <1>7, ZenonT(40) DEF vars, Dispatch, OneBatchAtATime, InApply, QueuedWorkHasARunner,
       BatchIsNotEmpty, FlagMeansQueued, OwnedOnce, HeldCopiesAreFresh
  <1> QED BY <1>1, <1>2, <1>3, <1>4, <1>5, <1>6, <1>7, <1>8,
             ModifyStep, ProcessStep, ApplyEndStep
          DEF Next, Submit, ThreadStep, Quiescent

(* In every behaviour, with any number of transactions and threads: the    *)
(* variables of NetworkOPs' batching keep their types.                     *)
THEOREM BatchTyping == Spec => []TypeOK
  <1>1. Init => TypeOK
    BY TypeInit
  <1>2. TypeOK /\ [Next]_vars => TypeOK'
    BY TypeStep
  <1> QED BY <1>1, <1>2, PTL DEF Spec

(* Dispatch is safe for any number of threads: apply()'s two assertions    *)
(* hold (no batch runs twice, none is empty), and the queued vector always *)
(* has a runner.                                                           *)
THEOREM DispatchIsSafe ==
  Spec => [](OneBatchAtATime /\ QueuedWorkHasARunner /\ BatchIsNotEmpty)
  <1>1. Init => DispatchInv
    BY DispatchInit
  <1>2. DispatchInv /\ [Next]_vars => DispatchInv'
    BY DispatchStep
  <1>3. DispatchInv => OneBatchAtATime /\ QueuedWorkHasARunner /\ BatchIsNotEmpty
    BY SMTT(30) DEF DispatchInv, Dispatch
  <1> QED BY <1>1, <1>2, <1>3, PTL DEF Spec

(* mApplying is set on exactly the transactions that are queued or in the  *)
(* running batch, for any number of threads and transactions: a submission *)
(* that doTransactionAsync or doTransactionSync turns away because of the  *)
(* flag is one that somebody will apply.                                   *)
THEOREM FlagIsTrue == Spec => []FlagMeansQueued
  <1>1. Init => DispatchInv
    BY DispatchInit
  <1>2. DispatchInv /\ [Next]_vars => DispatchInv'
    BY DispatchStep
  <1>3. DispatchInv => FlagMeansQueued
    BY DEF DispatchInv, Dispatch
  <1> QED BY <1>1, <1>2, <1>3, PTL DEF Spec
-----------------------------------------------------------------------------
(* Each entry the batch has gone past has set its result on its object.    *)
ProcessedHasResult ==
    /\ \A th \in Threads : pc[th] = "modify" => entry[th] = 0
    /\ \A th \in Threads : pc[th] = "process" =>
        /\ \A i \in DOMAIN batch[th] : batch[th][i].result # "none"
        /\ entry[th] \in 0 .. Len(batch[th])
        /\ \A i \in 1 .. entry[th] :
              batch[th][i].own => result[batch[th][i].tx] # "none"

(* A client's transaction is still to be applied, or has its result; it    *)
(* has the result once the client has left the loop.                       *)
ClientServed ==
    \A c \in Clients :
        /\ pc[c] # "idle" => txOf[c] \in applying \/ result[txOf[c]] # "none"
        /\ pc[c] = "after" => result[txOf[c]] # "none"

(* With what a waiting client relies on. *)
ServiceInv == DispatchInv /\ ProcessedHasResult /\ ClientServed

-----------------------------------------------------------------------------
(* Starting a batch puts its thread before the first entry. *)
LEMMA BeginService ==
  ASSUME TypeOK, ProcessedHasResult, NEW th \in Threads,
         NEW w \in Seq(TransactionStatus), ApplyBegin(th, w), result' = result
  PROVE  ProcessedHasResult'
  <1>1. /\ pc'[th] = "modify" /\ entry'[th] = 0
        /\ \A r \in Threads : r # th =>
              pc'[r] = pc[r] /\ entry'[r] = entry[r] /\ batch'[r] = batch[r]
    BY DEF ApplyBegin, TypeOK
  <1>2. ASSUME NEW r \in Threads, pc'[r] = "modify"
        PROVE  entry'[r] = 0
    <2>1. CASE r = th
      BY <1>1, <2>1, Zenon
    <2>2. CASE r # th
      BY <1>1, <1>2, <2>2, Zenon DEF ProcessedHasResult
    <2> QED BY <2>1, <2>2
  <1>3. ASSUME NEW r \in Threads, pc'[r] = "process"
        PROVE  /\ \A i \in DOMAIN batch'[r] : batch'[r][i].result # "none"
               /\ entry'[r] \in 0 .. Len(batch'[r])
               /\ \A i \in 1 .. entry'[r] :
                    batch'[r][i].own => result'[batch'[r][i].tx] # "none"
    <2>1. r # th
      BY <1>1, <1>3, Zenon
    <2>2. pc[r] = "process" /\ entry'[r] = entry[r] /\ batch'[r] = batch[r]
      BY <1>1, <1>3, <2>1, Zenon
    <2> QED BY <2>2, Zenon DEF ProcessedHasResult
  <1> QED BY <1>2, <1>3, Zenon DEF ProcessedHasResult

(* A step that starts no batch and leaves the running one alone. *)
LEMMA NoBatchService ==
  ASSUME ProcessedHasResult, NoApply, result' = result,
         \A r \in Threads : pc'[r] \in {"modify", "process"} => pc'[r] = pc[r]
  PROVE  ProcessedHasResult'
  BY DEF ProcessedHasResult, NoApply

(* A turn of a client's loop is one or the other. *)
LEMMA SyncTurnService ==
  ASSUME TypeOK, ProcessedHasResult, NEW c \in Clients,
         NEW w \in Seq(TransactionStatus), SyncTurn(c, w), result' = result
  PROVE  /\ ProcessedHasResult' /\ pc'[c] # "after"
         /\ \A d \in Clients : d # c => pc'[d] = pc[d]
  <1> c \in Threads
    BY DEF Threads
  <1>1. CASE mDispatchState = "running"
    <2>1. pc' = [pc EXCEPT ![c] = "wait"] /\ NoApply
      BY <1>1 DEF SyncTurn
    <2>2. \A r \in Threads : pc'[r] \in {"modify", "process"} => pc'[r] = pc[r]
      BY <2>1 DEF TypeOK
    <2>3. ProcessedHasResult'
      BY <2>1, <2>2, NoBatchService
    <2> QED BY <2>1, <2>3 DEF Threads, TypeOK
  <1>2. CASE mDispatchState # "running"
    <2>1. ApplyBegin(c, w)
      BY <1>2 DEF SyncTurn
    <2>2. \A d \in Threads : d # c => pc'[d] = pc[d]
      BY <2>1, ApplyBeginType
    <2>3. pc'[c] = "modify"
      BY <2>1 DEF ApplyBegin, TypeOK
    <2> QED BY <2>1, <2>2, <2>3, BeginService DEF Threads
  <1> QED BY <1>1, <1>2

(* Processing an entry sets its result. *)
LEMMA ProcessService ==
  ASSUME TypeOK, ProcessedHasResult, ClientServed, NEW th \in Threads, Process(th)
  PROVE  ProcessedHasResult' /\ ClientServed'
  <1> DEFINE e == batch[th][entry[th] + 1]
  <1>1. /\ UNCHANGED <<applying, txOf, batch, pc>>
        /\ pc[th] = "process" /\ entry[th] < Len(batch[th])
        /\ entry' = [entry EXCEPT ![th] = @ + 1]
        /\ result' = IF e.own THEN [result EXCEPT ![e.tx] = e.result]
                     ELSE result
    BY Zenon DEF Process, ProcessEntry
  <1>2. /\ batch[th] \in Seq(TransactionStatus)
        /\ entry[th] \in Nat
        /\ entry[th] + 1 \in 1 .. Len(batch[th])
    <2>1. batch[th] \in Seq(TransactionStatus) /\ entry[th] \in Nat
      BY Zenon DEF TypeOK
    <2> QED BY <1>1, <2>1
  <1>3. e \in TransactionStatus /\ e.result # "none"
    BY <1>1, <1>2 DEF ProcessedHasResult
  <1>4. e.tx \in Tx
    BY <1>3, SMTT(30) DEF TransactionStatus
  <1> HIDE DEF e
  <1>5. \A t \in Tx : result[t] # "none" => result'[t] # "none"
    BY <1>1, <1>3, SMTT(30) DEF TypeOK
  <1>6. e.own => result'[e.tx] # "none"
    BY <1>1, <1>3, <1>4 DEF TypeOK
  <1>7. \A q \in Threads : \A i \in DOMAIN batch[q] : batch[q][i].tx \in Tx
    <2> TAKE q \in Threads
    <2> TAKE i \in DOMAIN batch[q]
    <2>1. batch[q] \in Seq(TransactionStatus)
      BY DEF TypeOK
    <2>2. batch[q][i] \in TransactionStatus
      BY <2>1
    <2> QED BY <2>2 DEF TransactionStatus
  <1>8. ASSUME NEW q \in Threads, pc[q] = "process"
        PROVE  /\ entry'[q] \in 0 .. Len(batch[q])
               /\ \A i \in 1 .. entry'[q] :
                    batch[q][i].own => result'[batch[q][i].tx] # "none"
    <2>0. /\ entry[q] \in 0 .. Len(batch[q])
          /\ \A i \in 1 .. entry[q] :
                batch[q][i].own => result[batch[q][i].tx] # "none"
          /\ DOMAIN batch[q] = 1 .. Len(batch[q])
          /\ Len(batch[q]) \in Nat
      <3>1. batch[q] \in Seq(TransactionStatus)
        BY Zenon DEF TypeOK
      <3>2. DOMAIN batch[q] = 1 .. Len(batch[q]) /\ Len(batch[q]) \in Nat
        BY <3>1
      <3> QED BY <1>8, <3>2, Zenon DEF ProcessedHasResult
    <2>1. \A i \in 1 .. entry[q] :
             batch[q][i].own => result'[batch[q][i].tx] # "none"
      BY <1>5, <1>7, <2>0, SMTT(30)
    <2>2. CASE q = th
      <3>1. entry'[q] = entry[th] + 1
        BY <1>1, <2>2 DEF TypeOK
      <3>2. batch[q][entry[th] + 1] = e
        BY <2>2, SMTT(30) DEF e
      <3> QED BY <1>2, <1>6, <2>0, <2>1, <2>2, <3>1, <3>2, SMTT(30)
    <2>3. CASE q # th
      BY <1>1, <2>0, <2>1, <2>3, ZenonT(40) DEF TypeOK
    <2> QED BY <2>2, <2>3, SMTT(30)
  <1>9. \A q \in Threads : pc[q] = "modify" => entry'[q] = 0
    <2>1. \A q \in Threads : pc[q] = "modify" => entry[q] = 0 /\ q # th
      BY <1>1, Zenon DEF ProcessedHasResult
    <2>2. entry \in [Threads -> Nat]
      BY DEF TypeOK
    <2> QED BY <1>1, <2>1, <2>2
  <1>10. ProcessedHasResult'
    <2>1. \A q \in Threads : pc[q] = "process" =>
             \A i \in DOMAIN batch[q] : batch[q][i].result # "none"
      BY Zenon DEF ProcessedHasResult
    <2>2. pc' = pc /\ batch' = batch
      BY <1>1, Zenon
    <2> QED BY <1>8, <1>9, <2>1, <2>2, SMTT(30) DEF ProcessedHasResult
  <1>11. ClientServed'
    BY <1>1, <1>5, Zenon DEF ClientServed, TypeOK
  <1> QED BY <1>10, <1>11, SMTT(30)

(* A client is a thread. *)
LEMMA ClientThreads == Clients \subseteq Threads
  BY DEF Threads

(* doTransactionSync serves its client. *)
LEMMA ServiceSync ==
  ASSUME TypeOK, Dispatch, ProcessedHasResult, ClientServed,
         NEW c \in Clients, NEW t \in Tx, NEW f \in BOOLEAN,
         DoTransactionSync(c, t, f)
  PROVE  ProcessedHasResult' /\ ClientServed'
  <1> DEFINE w == IF t \in applying THEN mTransactions
                  ELSE Append(mTransactions, NewEntry(t, TRUE, TRUE, f))
  <1>1. NewEntry(t, TRUE, TRUE, f) \in TransactionStatus
    BY SMTT(30) DEF NewEntry, TransactionStatus
  <1>2. w \in Seq(TransactionStatus)
    BY <1>1, AppendType, Zenon DEF TypeOK
  <1>3. SyncTurn(c, w) /\ UNCHANGED result
    BY Zenon DEF DoTransactionSync, outputs
  <1> HIDE DEF w
  <1>4. /\ ProcessedHasResult' /\ pc'[c] # "after"
        /\ \A d \in Clients : d # c => pc'[d] = pc[d]
    BY <1>2, <1>3, SyncTurnService, Zenon
  <1>5. txOf' = [txOf EXCEPT ![c] = t] /\ applying' = applying \cup {t}
    BY DEF DoTransactionSync
  <1>6. ClientServed'
    BY <1>3, <1>4, <1>5, Zenon DEF ClientServed, TypeOK
  <1> QED BY <1>4, <1>6

(* A wakeup serves its client. *)
LEMMA ServiceWake ==
  ASSUME TypeOK, Dispatch, ProcessedHasResult, ClientServed,
         NEW c \in Clients, SyncWake(c)
  PROVE  ProcessedHasResult' /\ ClientServed'
  <1>1. /\ UNCHANGED <<applying, txOf, result>> /\ pc[c] = "wait"
        /\ mTransactions \in Seq(TransactionStatus)
    BY DEF SyncWake, outputs, TypeOK
  <1>2. /\ ProcessedHasResult'
        /\ pc'[c] = "after" => txOf[c] \notin applying
        /\ \A d \in Clients : d # c => pc'[d] = pc[d]
    <2>1. CASE SyncTurn(c, mTransactions)
      BY <1>1, <2>1, SyncTurnService, SMTT(30)
    <2>2. CASE /\ pc' = [pc EXCEPT ![c] = "after"] /\ NoApply
               /\ txOf[c] \notin applying
      <3>1. \A r \in Threads : pc'[r] \in {"modify", "process"} => pc'[r] = pc[r]
        BY ClientThreads, <2>2 DEF TypeOK
      <3>2. ProcessedHasResult'
        BY <1>1, <2>2, <3>1, NoBatchService
      <3> QED BY ClientThreads, <2>2, <3>2, SMTT(30) DEF TypeOK
    <2> QED BY <2>1, <2>2 DEF SyncWake
  <1> QED BY <1>1, <1>2, Zenon DEF ClientServed

(* A return serves the others. *)
LEMMA ServiceAfter ==
  ASSUME TypeOK, Dispatch, ProcessedHasResult, ClientServed,
         NEW c \in Clients, AfterApply(c)
  PROVE  ProcessedHasResult' /\ ClientServed'
  <1>1. /\ NoApply /\ UNCHANGED <<applying, txOf, result>>
        /\ pc' = [pc EXCEPT ![c] = "idle"]
    BY DEF AfterApply, outputs
  <1>2. \A r \in Threads : pc'[r] = pc[r] \/ pc'[r] = "idle"
    BY ClientThreads, <1>1 DEF TypeOK
  <1> QED BY ClientThreads, <1>1, <1>2, NoBatchService, Zenon DEF ClientServed

(* Taking a job serves the clients. *)
LEMMA ServiceJob ==
  ASSUME TypeOK, Dispatch, ProcessedHasResult, ClientServed,
         NEW w \in Workers, TransactionBatchJob(w)
  PROVE  ProcessedHasResult' /\ ClientServed'
  <1>1. /\ UNCHANGED <<applying, txOf, result>>
        /\ mTransactions \in Seq(TransactionStatus)
        /\ w \in Threads /\ w \notin Clients
    BY BatchAssumption DEF TransactionBatchJob, outputs, TypeOK, Threads
  <1>2. CASE ApplyBegin(w, mTransactions)
    <2>1. ProcessedHasResult'
      BY <1>1, <1>2, BeginService
    <2>2. \A d \in Clients : pc'[d] = pc[d]
      BY ClientThreads, <1>1, <1>2, ApplyBeginType, Zenon
    <2> QED BY <1>1, <2>1, <2>2, Zenon DEF ClientServed
  <1>3. CASE NoApply /\ UNCHANGED pc
    <2>1. ProcessedHasResult'
      BY <1>1, <1>3, NoBatchService, Zenon
    <2> QED BY <1>1, <1>3, <2>1, Zenon DEF ClientServed
  <1> QED BY <1>2, <1>3, SMTT(30) DEF TransactionBatchJob

(* Applying the batch serves the clients. *)
LEMMA ServiceModify ==
  ASSUME TypeOK, Dispatch, ProcessedHasResult, ClientServed,
         NEW th \in Threads, Modify(th)
  PROVE  ProcessedHasResult' /\ ClientServed'
  <1>1. PICK r \in [DOMAIN batch[th] -> Results] :
           batch' = [batch EXCEPT ![th] = SetResults(batch[th], r)]
    BY Zenon DEF Modify
  <1>2. /\ UNCHANGED <<applying, txOf, result, entry>>
        /\ pc[th] = "modify" /\ pc' = [pc EXCEPT ![th] = "process"]
    BY DEF Modify, outputs
  <1> DEFINE u == SetResults(batch[th], r)
  <1>3. batch[th] \in Seq(TransactionStatus)
    BY DEF TypeOK
  <1>4. /\ u \in Seq(TransactionStatus)
        /\ DOMAIN u = DOMAIN batch[th]
        /\ \A i \in DOMAIN batch[th] : u[i].result # "none"
    BY <1>3, OwnSetResult, Zenon
  <1> HIDE DEF u
  <1>5. batch'[th] = u /\ \A q \in Threads : q # th => batch'[q] = batch[q]
    BY <1>1 DEF u, TypeOK
  <1>6. entry[th] = 0
    BY <1>2, Zenon DEF ProcessedHasResult
  <1>7. entry'[th] \in 0 .. Len(batch'[th])
    BY <1>2, <1>4, <1>5, <1>6
  <1>8. \A q \in Threads : q # th => pc'[q] = pc[q]
    BY <1>2 DEF TypeOK
  <1>9. pc'[th] = "process"
    BY <1>2, SMTT(30) DEF TypeOK
  <1>10. ProcessedHasResult'
    BY <1>2, <1>4, <1>5, <1>6, <1>7, <1>8, <1>9, SMTT(30) DEF ProcessedHasResult
  <1>11. ClientServed'
    BY ClientThreads, <1>2, <1>8, <1>9, Zenon DEF ClientServed
  <1> QED BY <1>10, <1>11

(* Clearing the flags serves the clients. *)
LEMMA ServiceApplyEnd ==
  ASSUME TypeOK, Dispatch, ProcessedHasResult, ClientServed,
         NEW th \in Threads, ApplyEnd(th)
  PROVE  ProcessedHasResult' /\ ClientServed'
  <1>1. /\ pc[th] = "process" /\ entry[th] = Len(batch[th])
        /\ applying' = applying \ Own(batch[th])
        /\ UNCHANGED <<txOf, result>>
    BY Zenon DEF ApplyEnd, Finish, ClientAfter, BatchAfter, outputs
  <1>2. /\ batch[th] \in Seq(TransactionStatus)
        /\ mTransactions \o submit_held[th] \in Seq(TransactionStatus)
    BY SMTT(30) DEF TypeOK
  <1>3. \A t \in Own(batch[th]) : result[t] # "none"
    <2> SUFFICES ASSUME NEW i \in DOMAIN batch[th], batch[th][i].own
                 PROVE  result[batch[th][i].tx] # "none"
      BY Zenon DEF Own
    <2>1. \A k \in 1 .. Len(batch[th]) : batch[th][k].own => result[batch[th][k].tx] # "none"
      BY <1>1, Zenon DEF ProcessedHasResult
    <2>2. i \in 1 .. Len(batch[th])
      BY <1>2
    <2> QED BY <2>1, <2>2, Zenon
  <1>a. th \in Clients => (pc'[th] = "after" => txOf[th] \notin applying')
    BY BatchAssumption, Zenon DEF ApplyEnd, Finish, ClientAfter, BatchAfter,
       ApplyBegin, TypeOK
  <1>4. /\ ProcessedHasResult'
        /\ \A d \in Clients : d # th => pc'[d] = pc[d]
    <2>1. CASE ApplyBegin(th, mTransactions \o submit_held[th])
      <3>1. ProcessedHasResult'
        BY <1>1, <1>2, <2>1, BeginService, Zenon
      <3>2. \A d \in Threads : d # th => pc'[d] = pc[d]
        BY <1>2, <2>1, ApplyBeginType, ZenonT(40)
      <3> QED BY ClientThreads, <3>1, <3>2, Zenon
    <2>2. CASE /\ NoApply
               /\ \E s \in {"after", "idle"} : pc' = [pc EXCEPT ![th] = s]
      <3>1. /\ \A r \in Threads : r # th => pc'[r] = pc[r]
            /\ pc'[th] \notin {"modify", "process"}
        BY <2>2 DEF TypeOK
      <3>2. ProcessedHasResult'
        BY <1>1, <2>2, <3>1, NoBatchService
      <3> QED BY ClientThreads, <3>1, <3>2
    <2> QED BY <2>1, <2>2, Zenon DEF ApplyEnd, Finish, ClientAfter, BatchAfter
  <1>5. ClientServed'
    BY <1>1, <1>3, <1>a, <1>4, Zenon DEF ClientServed
  <1> QED BY <1>4, <1>5, SMTT(30)

(* The service invariant is preserved, one case per action. *)
LEMMA ServiceStep == ServiceInv /\ [Next]_vars => ServiceInv'
  <1> SUFFICES ASSUME TypeOK, Dispatch, ProcessedHasResult, ClientServed,
                      [Next]_vars
               PROVE  ProcessedHasResult' /\ ClientServed'
    BY DispatchStep DEF ServiceInv, DispatchInv
  <1> USE BatchAssumption
  <1>1. ASSUME NEW t \in Tx, NEW f \in BOOLEAN, DoTransactionAsync(t, f)
        PROVE  ProcessedHasResult' /\ ClientServed'
    <2>1. /\ NoApply /\ UNCHANGED <<pc, txOf, result>>
          /\ applying' = applying \cup {t}
      BY <1>1 DEF DoTransactionAsync, outputs
    <2>2. ProcessedHasResult'
      BY <2>1, NoBatchService, Zenon
    <2> QED BY <2>1, <2>2, Zenon DEF ClientServed
  <1>2. ASSUME NEW c \in Clients, NEW t \in Tx, NEW f \in BOOLEAN,
               DoTransactionSync(c, t, f)
        PROVE  ProcessedHasResult' /\ ClientServed'
    BY <1>2, ServiceSync
  <1>3. ASSUME NEW c \in Clients, SyncWake(c)
        PROVE  ProcessedHasResult' /\ ClientServed'
    BY <1>3, ServiceWake
  <1>4. ASSUME NEW c \in Clients, AfterApply(c)
        PROVE  ProcessedHasResult' /\ ClientServed'
    BY <1>4, ServiceAfter
  <1>5. ASSUME NEW w \in Workers, TransactionBatchJob(w)
        PROVE  ProcessedHasResult' /\ ClientServed'
    BY <1>5, ServiceJob
  <1>6. ASSUME NEW th \in Threads, Modify(th)
        PROVE  ProcessedHasResult' /\ ClientServed'
    BY <1>6, ServiceModify
  <1>7. ASSUME NEW th \in Threads, Process(th)
        PROVE  ProcessedHasResult' /\ ClientServed'
    BY <1>7, ProcessService
  <1>8. ASSUME NEW th \in Threads, ApplyEnd(th)
        PROVE  ProcessedHasResult' /\ ClientServed'
    BY <1>8, ServiceApplyEnd
  <1>9. CASE ApplyHeldTransactions
    BY <1>9, ZenonT(40) DEF ApplyHeldTransactions, ProcessedHasResult, ClientServed
  <1>10. ASSUME NEW c \in Clients, SpuriousWake(c)
         PROVE  ProcessedHasResult' /\ ClientServed'
    BY <1>10, ZenonT(40) DEF SpuriousWake, NoApply, outputs, ProcessedHasResult,
       ClientServed
  <1>11. CASE UNCHANGED vars
    BY <1>11, Zenon DEF vars, ProcessedHasResult, ClientServed
  <1> QED BY <1>1, <1>2, <1>3, <1>4, <1>5, <1>6, <1>7, <1>8, <1>9, <1>10, <1>11,
             SMTT(30)
          DEF Next, Submit, ThreadStep, Quiescent

(* doTransactionSync waits ``for this transaction to complete'': no client *)
(* leaves its loop before its transaction's result is set, whoever applied *)
(* the batch that held it.                                                 *)
THEOREM SyncWaits == Spec => []SyncCallerHasResult
  <1>1. Init => ServiceInv
    <2> SUFFICES ASSUME Init PROVE ProcessedHasResult /\ ClientServed
      BY DispatchInit DEF ServiceInv
    <2>1. \A r \in Threads : pc[r] = "idle"
      BY DEF Init
    <2> QED BY <2>1, Zenon DEF ProcessedHasResult, ClientServed, Threads
  <1>2. ServiceInv /\ [Next]_vars => ServiceInv'
    BY ServiceStep
  <1>3. ServiceInv => SyncCallerHasResult
    BY Zenon DEF ServiceInv, ClientServed, SyncCallerHasResult
  <1> QED BY <1>1, <1>2, <1>3, PTL DEF Spec
-----------------------------------------------------------------------------
(* Nobody but the client itself goes to sleep or leaves the wait, and the  *)
(* state leaves running only with the notification.                        *)
LEMMA SleepersStep ==
  ASSUME TypeOK, SleepersHaveANotifier, [Next]_vars
  PROVE  SleepersHaveANotifier'
  <1>0. /\ mCond \subseteq Clients /\ Clients \subseteq Threads
        /\ DOMAIN pc = Threads
    BY DEF TypeOK, Threads
  <1>1. ASSUME NEW t \in Tx, NEW f \in BOOLEAN, DoTransactionAsync(t, f)
        PROVE  SleepersHaveANotifier'
    BY <1>1, Zenon DEF DoTransactionAsync, SleepersHaveANotifier
  <1>2. ASSUME NEW c \in Clients, pc[c] \in {"idle", "wait"}, c \notin mCond,
               NEW w, SyncTurn(c, w)
        PROVE  SleepersHaveANotifier'
    <2>1. CASE mDispatchState = "running"
      BY <1>0, <1>2, <2>1 DEF SyncTurn, SleepersHaveANotifier
    <2>2. CASE mDispatchState # "running"
      BY <1>2, <2>2 DEF SyncTurn, SleepersHaveANotifier
    <2> QED BY <2>1, <2>2
  <1>3. ASSUME NEW c \in Clients, NEW t \in Tx, NEW f \in BOOLEAN,
               DoTransactionSync(c, t, f)
        PROVE  SleepersHaveANotifier'
    <2>1. pc[c] = "idle" /\ c \notin mCond
      BY <1>3 DEF DoTransactionSync, SleepersHaveANotifier
    <2>2. PICK w : SyncTurn(c, w)
      BY <1>3, Zenon DEF DoTransactionSync
    <2> QED BY <1>2, <2>1, <2>2
  <1>4. ASSUME NEW c \in Clients, SyncWake(c)
        PROVE  SleepersHaveANotifier'
    <2>1. pc[c] = "wait" /\ c \notin mCond
      BY <1>4 DEF SyncWake
    <2>2. CASE SyncTurn(c, mTransactions)
      BY <1>2, <2>1, <2>2
    <2>3. CASE /\ pc' = [pc EXCEPT ![c] = "after"]
               /\ UNCHANGED <<mDispatchState, mCond>>
      BY <1>0, <2>1, <2>3 DEF SleepersHaveANotifier
    <2> QED BY <1>4, <2>2, <2>3 DEF SyncWake
  <1>5. ASSUME NEW c \in Clients, AfterApply(c)
        PROVE  SleepersHaveANotifier'
    BY <1>0, <1>5 DEF AfterApply, SleepersHaveANotifier
  <1>6. ASSUME NEW w \in Workers, TransactionBatchJob(w)
        PROVE  SleepersHaveANotifier'
    <2>1. CASE mDispatchState # "running"
      BY <1>6, <2>1, Zenon DEF TransactionBatchJob, SleepersHaveANotifier
    <2>2. CASE mDispatchState = "running"
      BY <1>6, <2>2, Zenon DEF TransactionBatchJob, SleepersHaveANotifier
    <2> QED BY <2>1, <2>2
  <1>7. ASSUME NEW th \in Threads, Modify(th) \/ Process(th)
        PROVE  SleepersHaveANotifier'
    <2>1. UNCHANGED <<mDispatchState, mCond>>
      BY <1>7, Zenon DEF Modify, Process
    <2>2. \A c \in Clients : pc[c] = "wait" => pc'[c] = "wait"
      BY <1>0, <1>7 DEF Modify, Process
    <2> QED BY <1>0, <2>1, <2>2, Zenon DEF SleepersHaveANotifier
  <1>8. ASSUME NEW th \in Threads, ApplyEnd(th)
        PROVE  SleepersHaveANotifier'
    BY <1>8, Zenon DEF ApplyEnd, SleepersHaveANotifier
  <1>9. ASSUME NEW c \in Clients, SpuriousWake(c)
        PROVE  SleepersHaveANotifier'
    BY <1>9, Zenon DEF SpuriousWake, SleepersHaveANotifier
  <1>10. CASE ApplyHeldTransactions \/ UNCHANGED vars
    BY <1>10, Zenon DEF ApplyHeldTransactions, vars, SleepersHaveANotifier
  <1> QED BY <1>1, <1>3, <1>4, <1>5, <1>6, <1>7, <1>8, <1>9, <1>10
          DEF Next, Submit, ThreadStep, Quiescent

(* With any number of threads, a client is blocked on mCond only while a   *)
(* batch is running: the notify_all at the end of apply() always comes     *)
(* after the wait it is meant for.                                         *)
THEOREM NoWakeupMissed == Spec => []SleepersHaveANotifier
  <1>1. Init => TypeOK /\ SleepersHaveANotifier
    BY TypeInit DEF Init, SleepersHaveANotifier
  <1>2. TypeOK /\ SleepersHaveANotifier /\ [Next]_vars
           => TypeOK' /\ SleepersHaveANotifier'
    BY TypeStep, SleepersStep
  <1> QED BY <1>1, <1>2, PTL DEF Spec
=============================================================================
