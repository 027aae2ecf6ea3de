--------------------------- MODULE LedgerAdvance ---------------------------
(* LedgerMaster: which ledger is the last validated one, which are         *)
(* published, and how history is filled in.  One job (advanceThread)       *)
(* publishes and fetches; it gives m_mutex up while it looks for ledgers   *)
(* and while it saves them.  Meanwhile ledgers are validated and acquired, *)
(* and the ledger cleaner and clients' requests save some of them again.   *)
(* A save is one step here, which enters the ledger in the database or     *)
(* does not; LedgerSave has the steps it is made of.                       *)
EXTENDS Naturals, Sequences, FiniteSetsExt

CONSTANTS Ledger,         \* the ledgers there are, each its own hash
          chain,          \* the ledgers from the first one to each, itself the last
          None,
          MaxLedgerGap,   \* MAX_LEDGER_GAP
          LedgerHistory,  \* ledger_history_
          FetchSize,      \* ledger_fetch_size_
          CanDelete,      \* getCanDelete, past all ledgers unless deletion is advisory
          Early,          \* ledgers at hand soon after the server starts
          MaxEvents       \* bounds failures, evictions, repeated saves and crashes

ASSUME LedgerAdvanceAssumption ==
    /\ chain \in [Ledger -> Seq(Ledger)]
    /\ \A l \in Ledger : chain[l] # <<>> /\ chain[l][Len(chain[l])] = l
    /\ \A l \in Ledger : \A s \in 1 .. Len(chain[l]) : chain[chain[l][s]] = SubSeq(chain[l], 1, s)
    /\ None \notin Ledger /\ Early \subseteq Ledger
    /\ {MaxLedgerGap, LedgerHistory, FetchSize, CanDelete, MaxEvents} \subseteq Nat

VARIABLES
    mValidLedger, mPubLedger,
    accepting,              \* the first validated ledger is being saved
    adv,                    \* the advance job: its line and its locals
    mAdvanceWork,
    last_missing_ledger_,
    mHistLedger,
    fill,                   \* mFillInProgress, and the job that fills
    complete,               \* mCompleteLedgers
    ledgers,                \* the Ledgers table
    saves,                  \* saves that are under way
    cached,                 \* ledgers in memory
    arrived,                \* AcquisitionDone jobs that have not run
    untold,                 \* in memory without a call of tryAdvance since then
    broken,                 \* numbers whose save has ended in an exception
    events                  \* how many of these have happened

head == <<mValidLedger, mPubLedger, accepting>>

job == <<adv, mAdvanceWork, last_missing_ledger_>>

history == <<mHistLedger, fill>>

store == <<complete, ledgers, saves, broken>>

outside == <<cached, arrived, untold, events>>

vars == <<head, job, history, store, outside>>

seqOf(l) == Len(chain[l])

Seqs == {seqOf(l) : l \in Ledger}

seqNo(l) == IF l = None THEN 0 ELSE seqOf(l)

Absent == 1 + Max(Seqs)

(* The ledger names those before it. *)
hashOfSeq(l, s) == chain[l][s]

(* LedgerHistory::getLedgerByHash, or a complete acquisition. *)
Available(l) == l \in cached \/ ledgers[seqOf(l)] = l

Off == [at |-> "off", ledger |-> None, todo |-> <<>>, missing |-> 0, last |-> 0, count |-> 0]

NoFill == [seq |-> 0, ledger |-> None, low |-> 0]

Init ==
    /\ mValidLedger = None /\ mPubLedger = None /\ accepting = FALSE
    /\ adv = Off /\ mAdvanceWork = FALSE /\ last_missing_ledger_ = Absent
    /\ mHistLedger = None /\ fill = NoFill
    /\ complete = {} /\ ledgers = [s \in Seqs |-> None] /\ saves = {} /\ broken = {}
    /\ cached = Early /\ arrived = {} /\ untold = {}
    /\ events = 0

Disturb == events < MaxEvents /\ events' = events + 1

(* m_mutex is held over the first save, and from the end of one turn of    *)
(* doAdvance to the beginning of the next.                                 *)
MutexFree == ~accepting /\ adv.at # "again"

(* What is saved is in the database afterwards, unless it fails or another *)
(* thread is at it.                                                        *)
Saved(l) ==
    \/ ledgers' = [ledgers EXCEPT ![seqOf(l)] = l] /\ UNCHANGED events
    \/ l \in saves /\ UNCHANGED <<ledgers, events>>
    \/ Disturb /\ UNCHANGED ledgers

---------------------------------------------------------------------------
(* Ledgers arrive and are validated.                                       *)

(* The server starts from a ledger it has: setFullLedger makes it the      *)
(* validated and the published one before anything else runs.              *)
LoadLedger(l) ==
    /\ mValidLedger = None /\ ~mAdvanceWork /\ arrived = {} /\ untold = {}
    /\ mValidLedger' = l /\ mPubLedger' = l
    /\ Saved(l)
    /\ complete' = {seqOf(l)}
    /\ UNCHANGED <<accepting, job, history, saves, broken, cached, arrived, untold>>

tryAdvance(v) ==
    /\ mAdvanceWork' = TRUE
    /\ adv' = IF adv.at = "off" /\ v # None THEN [Off EXCEPT !.at = "queued"] ELSE adv
    /\ untold' = {}
    /\ UNCHANGED last_missing_ledger_

(* A ledger comes into memory and nobody is told: consensus has built one  *)
(* that is older than the validated ledger, InboundLedger::init has found  *)
(* all of it in the node store, or somebody's query has loaded it.         *)
StoreLedger(l) ==
    /\ l \notin cached
    /\ cached' = cached \cup {l}
    /\ untold' = untold \cup {l}
    /\ UNCHANGED <<head, job, history, store, arrived, events>>

(* An acquisition is complete. *)
Arrive(l) ==
    /\ l \notin cached
    /\ cached' = cached \cup {l}
    /\ arrived' = arrived \cup {l}
    /\ UNCHANGED <<head, job, history, store, untold, events>>

(* Fault: the job of a finished acquisition does not look for work. *)
AcquisitionDoneQuiet(l) ==
    /\ l \in arrived /\ MutexFree
    /\ arrived' = arrived \ {l}
    /\ UNCHANGED <<head, job, history, store, cached, untold, events>>

(* The job calls checkAccept, which is CheckAccept below, and tryAdvance. *)
AcquisitionDone(l) ==
    /\ l \in arrived /\ MutexFree
    /\ arrived' = arrived \ {l}
    /\ tryAdvance(mValidLedger)
    /\ UNCHANGED <<head, history, store, cached, events>>

(* tryAdvanceTimer_ *)
OnTimer ==
    /\ MutexFree
    /\ tryAdvance(mValidLedger)
    /\ UNCHANGED <<head, history, store, cached, arrived, events>>

(* checkAccept finds enough validations for a later ledger. *)
CheckAccept(l) ==
    /\ MutexFree
    /\ Available(l) /\ seqOf(l) > seqNo(mValidLedger) /\ mPubLedger # None
    /\ mValidLedger' = l
    /\ tryAdvance(l)
    /\ UNCHANGED <<mPubLedger, accepting, history, store, cached, arrived, events>>

(* The first one is saved at once, under the lock. *)
CheckAcceptFirst(l) ==
    /\ MutexFree
    /\ Available(l) /\ seqOf(l) > seqNo(mValidLedger) /\ mPubLedger = None
    /\ mValidLedger' = l
    /\ accepting' = TRUE
    /\ UNCHANGED <<mPubLedger, job, history, store, outside>>

FirstSaved ==
    /\ accepting
    /\ accepting' = FALSE
    /\ Saved(mValidLedger)
    /\ mPubLedger' = mValidLedger
    /\ tryAdvance(mValidLedger)
    /\ UNCHANGED <<mValidLedger, history, complete, saves, broken, cached, arrived>>

---------------------------------------------------------------------------
(* doAdvance.                                                              *)

(* Fault: a job that ends leaves mAdvanceThread set. *)
EndTurnKeeps(a, work, progress) ==
    /\ mAdvanceWork' = (work \/ progress)
    /\ adv' = [a EXCEPT !.at = IF work \/ progress THEN "again" ELSE "lost"]
    /\ UNCHANGED last_missing_ledger_

(* The end of a turn: another one when there was progress, and fetches are *)
(* left, or somebody called tryAdvance meanwhile.                          *)
EndTurn(a, work, progress) ==
    LET again == work \/ (progress /\ a.count < FetchSize)
    IN  /\ mAdvanceWork' = again
        /\ adv' = IF again THEN [a EXCEPT !.at = "again", !.ledger = None, !.todo = <<>>, !.last = 0]
                   ELSE Off
        /\ last_missing_ledger_' =
               IF ~again /\ (a.missing < last_missing_ledger_ \/ a.missing = Absent)
               THEN a.missing ELSE last_missing_ledger_

(* A turn begins, under the lock; the job begins with its first turn. *)
Turn ==
    IF adv.at = "queued" THEN [adv EXCEPT !.missing = last_missing_ledger_] ELSE adv

TurnBegins == adv.at = "again" \/ (adv.at = "queued" /\ MutexFree)

(* findNewLedgersToPublish: too far behind, the stream skips. *)
FindGap ==
    /\ TurnBegins
    /\ seqNo(mValidLedger) > seqNo(mPubLedger) + MaxLedgerGap
    /\ mPubLedger' = mValidLedger
    /\ adv' = [Turn EXCEPT !.at = "full", !.ledger = mValidLedger, !.todo = <<mValidLedger>>]
    /\ mAdvanceWork' = FALSE
    /\ UNCHANGED <<mValidLedger, accepting, last_missing_ledger_, history, store, outside>>

(* It gives the lock up to walk from the published to the validated one. *)
FindSome ==
    /\ TurnBegins
    /\ seqNo(mValidLedger) \in seqNo(mPubLedger) + 1 .. seqNo(mPubLedger) + MaxLedgerGap
    /\ adv' = [Turn EXCEPT !.at = "walk", !.ledger = mValidLedger]
    /\ mAdvanceWork' = FALSE
    /\ UNCHANGED <<head, last_missing_ledger_, history, store, outside>>

(* Fault: the ledgers at hand are published, whatever is missing between. *)
ToPublishSkips(val) ==
    LET at == {s \in seqNo(mPubLedger) + 1 .. seqOf(val) : Available(hashOfSeq(val, s))}
    IN  {[i \in 1 .. Cardinality(at) |->
             hashOfSeq(val, CHOOSE s \in at : Cardinality({r \in at : r <= s}) = i)]}

(* The ledgers that are at hand, up to the first that is not: the one list *)
(* that findNewLedgersToPublish can return.                                *)
ToPublish(val) ==
    LET next == seqNo(mPubLedger) + 1
        Have(s) == s = seqOf(val) \/ Available(hashOfSeq(val, s))
    IN  {SubSeq(chain[val], next, last) : last \in
            {s \in next - 1 .. seqOf(val) : /\ \A r \in next .. s : Have(r)
                                            /\ s < seqOf(val) => ~Have(s + 1)}}

(* It returns its list; an exception cuts the list short.                  *)
Walk ==
    /\ adv.at = "walk" /\ MutexFree
    /\ \E found \in ToPublish(adv.ledger) : \E n \in 0 .. Len(found) :
          LET todo == SubSeq(found, 1, n)
          IN  /\ \/ todo = <<>> /\ EndTurn(adv, mAdvanceWork, FALSE) /\ mHistLedger' = None
                 \/ /\ todo # <<>>
                    /\ adv' = [adv EXCEPT !.at = "full", !.ledger = Head(todo), !.todo = todo]
                    /\ UNCHANGED <<mAdvanceWork, last_missing_ledger_, mHistLedger>>
              /\ \/ n = Len(found) /\ UNCHANGED <<untold, events>>
                 \/ n < Len(found) /\ untold' = untold \cup cached /\ Disturb
    /\ UNCHANGED <<head, fill, store, cached, arrived>>

PrevMissing(v) == IF v = 0 THEN Absent ELSE Max({s \in 0 .. v - 1 : s \notin complete})

shouldAcquire(s) ==
    \/ seqNo(mValidLedger) <= s + LedgerHistory
    \/ CanDelete > 0 /\ s > CanDelete

(* Nothing to publish: look for history, if the server is in sync. *)
FindHistory(inSync) ==
    /\ TurnBegins
    /\ seqNo(mValidLedger) <= seqNo(mPubLedger)
    /\ LET a == Turn
           m == PrevMissing(IF a.missing = Absent THEN seqNo(mPubLedger) ELSE a.missing)
           wanted == m \notin {0, Absent} /\ shouldAcquire(m)
       IN  \/ ~inSync /\ EndTurn(a, FALSE, FALSE) /\ mHistLedger' = None
           \/ inSync /\ ~wanted /\ EndTurn([a EXCEPT !.missing = m], FALSE, FALSE)
              /\ UNCHANGED mHistLedger
           \/ inSync /\ wanted /\ m <= fill.seq /\ EndTurn(a, FALSE, FALSE)
              /\ UNCHANGED mHistLedger
           \/ /\ inSync /\ wanted /\ m > fill.seq
              /\ adv' = [a EXCEPT !.at = "fetch", !.missing = m, !.last = a.missing]
              /\ mAdvanceWork' = FALSE
              /\ UNCHANGED <<last_missing_ledger_, mHistLedger>>
    /\ UNCHANGED <<head, fill, store, outside>>

(* getLedgerHashForHistory *)
HistoryLedger(s) ==
    hashOfSeq(IF seqNo(mHistLedger) >= s THEN mHistLedger ELSE mValidLedger, s)

(* Without the lock.  A ledger that is not at hand is asked for, with or   *)
(* without a fetch pack, unless asking has failed recently; the count is   *)
(* kept up to its limit.                                                   *)
FetchHistory ==
    /\ adv.at = "fetch"
    /\ LET l == HistoryLedger(adv.missing)
       IN  \/ /\ Available(l)
              /\ adv' = [adv EXCEPT !.at = "full", !.ledger = l]
              /\ UNCHANGED <<mAdvanceWork, last_missing_ledger_>>
           \/ /\ ~Available(l) /\ MutexFree
              /\ \E k \in 0 .. 2 :
                    EndTurn([adv EXCEPT !.count = Min({@ + k, FetchSize}), !.missing = IF k = 0 THEN @ ELSE adv.last],
                            mAdvanceWork, TRUE)
    /\ UNCHANGED <<head, history, store, outside>>

Current == adv.todo # <<>>

(* setFullLedger: an entry of another ledger before this one is invalid. *)
SetFull ==
    /\ adv.at = "full"
    /\ LET s == seqOf(adv.ledger)
       IN  complete' = IF s - 1 \in Seqs /\ ledgers[s - 1] \notin {None, hashOfSeq(adv.ledger, s - 1)}
                       THEN complete \ {s - 1} ELSE complete
    /\ cached' = IF Current THEN cached \cup {adv.ledger} ELSE cached
    /\ adv' = [adv EXCEPT !.at = "save"]
    /\ UNCHANGED <<head, mAdvanceWork, last_missing_ledger_, history, ledgers, saves, broken, arrived, untold, events>>

(* Saved now, or in a job; the ledger is complete, well saved or not.  A   *)
(* number whose save has thrown is at work for ever: to save it now is to  *)
(* wait for ever, and a job is not made.                                   *)
SetFullSave ==
    /\ adv.at = "save"
    /\ LET s == seqOf(adv.ledger)
       IN  /\ IF Current
              THEN s \notin broken /\ Saved(adv.ledger) /\ UNCHANGED saves
              ELSE /\ saves' = IF s \in broken THEN saves ELSE saves \cup {adv.ledger}
                   /\ UNCHANGED <<ledgers, events>>
           /\ complete' = complete \cup {s}
    /\ adv' = [adv EXCEPT !.at = "check"]
    /\ UNCHANGED <<head, mAdvanceWork, last_missing_ledger_, history, broken, cached, arrived, untold>>

(* getLedgerBySeq prefers the chain of the validated ledger. *)
SameBySeq(l, s) ==
    LET a == hashOfSeq(mValidLedger, s) IN Available(a) /\ a = hashOfSeq(l, s)

(* The sequence numbers fixMismatch clears: down to the first that agrees. *)
Mismatched(l) ==
    {s \in complete : s < seqOf(l) /\ \A r \in complete \cap (s .. seqOf(l) - 1) : ~SameBySeq(l, r)}

(* The rest of setFullLedger, under the lock. *)
SetFullCheck ==
    /\ adv.at = "check" /\ MutexFree
    /\ LET prev == seqOf(adv.ledger) - 1
       IN  complete' = IF prev \in complete /\ ~SameBySeq(adv.ledger, prev)
                       THEN complete \ Mismatched(adv.ledger) ELSE complete
    /\ adv' = [adv EXCEPT !.at = IF Current THEN "publish" ELSE "hist"]
    /\ UNCHANGED <<head, mAdvanceWork, last_missing_ledger_, history, ledgers, saves, broken, outside>>

(* Under the next lock the ledger is published, and then the one after it. *)
Publish ==
    /\ adv.at = "publish" /\ MutexFree
    /\ mPubLedger' = adv.ledger
    /\ adv' = IF Tail(adv.todo) = <<>>
              THEN [adv EXCEPT !.at = "end", !.todo = <<>>]
              ELSE [adv EXCEPT !.at = "full", !.todo = Tail(@), !.ledger = Head(Tail(adv.todo))]
    /\ UNCHANGED <<mValidLedger, accepting, mAdvanceWork, last_missing_ledger_, history, store, outside>>

(* Or the history is longer by one, and more of it is filled in from the   *)
(* entries of the database.                                                *)
SetHist ==
    /\ adv.at = "hist" /\ MutexFree
    /\ mHistLedger' = adv.ledger
    /\ adv' = [adv EXCEPT !.at = IF fill = NoFill THEN "fill" ELSE "end"]
    /\ UNCHANGED <<head, mAdvanceWork, last_missing_ledger_, fill, store, outside>>

StartFill ==
    /\ adv.at = "fill" /\ MutexFree
    /\ LET s == seqOf(adv.ledger)
       IN  fill' = IF s - 1 \in Seqs /\ ledgers[s - 1] = hashOfSeq(adv.ledger, s - 1)
                   THEN [seq |-> s, ledger |-> adv.ledger, low |-> 0] ELSE fill
    /\ adv' = [adv EXCEPT !.at = "end"]
    /\ UNCHANGED <<head, mAdvanceWork, last_missing_ledger_, mHistLedger, store, outside>>

TurnEnds ==
    /\ adv.at = "end" /\ MutexFree
    /\ EndTurn(adv, mAdvanceWork, TRUE)
    /\ UNCHANGED <<head, history, store, outside>>

(* advanceThread catches what a query or a missing node throws: the job is *)
(* over, and what it has left waits for the next call of tryAdvance.  The  *)
(* save it may have been at stays at work in pendingSaves.                 *)
AdvanceThrows ==
    /\ adv.at \in {"fetch", "full", "check", "fill"} \/ (adv.at = "save" /\ Current)
    /\ MutexFree /\ Disturb
    /\ adv' = Off
    /\ untold' = untold \cup cached
    /\ broken' = IF adv.at = "save" THEN broken \cup {seqOf(adv.ledger)} ELSE broken
    /\ UNCHANGED <<head, mAdvanceWork, last_missing_ledger_, history, complete, ledgers, saves, cached, arrived>>

---------------------------------------------------------------------------
(* tryFill, the saves, the caches and the process.                         *)

(* The entries are read, and followed down the chain. *)
FillRead ==
    /\ fill # NoFill /\ fill.low = 0 /\ MutexFree
    /\ LET Down(s) == \A r \in s .. fill.seq - 1 :
                          r \notin complete /\ ledgers[r] = hashOfSeq(fill.ledger, r)
       IN  fill' = [fill EXCEPT !.low = Min({s \in Seqs : s <= fill.seq /\ Down(s)})]
    /\ complete' = complete \cup {fill.seq}
    /\ UNCHANGED <<head, job, mHistLedger, ledgers, saves, broken, outside>>

FillSet ==
    /\ fill.low > 0 /\ MutexFree
    /\ complete' = complete \cup (fill.low .. fill.seq)
    /\ fill' = NoFill
    /\ UNCHANGED <<head, job, mHistLedger, ledgers, saves, broken, outside>>

(* A save that fails makes the ledger incomplete; one whose number another *)
(* thread is at does nothing.                                              *)
SaveEnds(l) ==
    /\ l \in saves
    /\ saves' = saves \ {l}
    /\ \/ seqOf(l) \in broken /\ UNCHANGED <<ledgers, complete, events>>
       \/ /\ seqOf(l) \notin broken
          /\ \/ ledgers' = [ledgers EXCEPT ![seqOf(l)] = l] /\ UNCHANGED <<complete, events>>
             \/ Disturb /\ complete' = complete \ {seqOf(l)} /\ UNCHANGED ledgers
    /\ UNCHANGED <<head, job, history, broken, cached, arrived, untold>>

(* The ledger cleaner, or a request that meets missing metadata. *)
Resave(s) ==
    /\ mValidLedger # None /\ s <= seqOf(mValidLedger)
    /\ Available(hashOfSeq(mValidLedger, s)) /\ Disturb
    /\ s \notin broken
    /\ saves' = saves \cup {hashOfSeq(mValidLedger, s)}
    /\ UNCHANGED <<head, job, history, complete, ledgers, broken, cached, arrived, untold>>

(* The cleaner finds a ledger that is not whole. *)
Unclean(s) ==
    /\ mValidLedger # None /\ s <= seqOf(mValidLedger) /\ Disturb
    /\ complete' = complete \ {s}
    /\ UNCHANGED <<head, job, history, ledgers, saves, broken, cached, arrived, untold>>

Evict(l) ==
    /\ Disturb /\ l \in cached
    /\ cached' = cached \ {l}
    /\ UNCHANGED <<head, job, history, store, arrived, untold>>

Crash ==
    /\ Disturb
    /\ mValidLedger' = None /\ mPubLedger' = None /\ accepting' = FALSE
    /\ adv' = Off /\ mAdvanceWork' = FALSE /\ last_missing_ledger_' = Absent
    /\ mHistLedger' = None /\ fill' = NoFill
    /\ complete' = {} /\ saves' = {} /\ broken' = {}
    /\ cached' = Early /\ arrived' = {} /\ untold' = {}
    /\ UNCHANGED ledgers

Advance ==
    \/ FindGap \/ FindSome \/ Walk \/ FetchHistory
    \/ SetFull \/ SetFullSave \/ SetFullCheck \/ Publish \/ SetHist \/ StartFill \/ TurnEnds
    \/ \E inSync \in BOOLEAN : FindHistory(inSync)

Next ==
    \/ \E l \in Ledger : LoadLedger(l) \/ StoreLedger(l) \/ Arrive(l) \/ AcquisitionDone(l)
    \/ \E l \in Ledger : CheckAccept(l) \/ CheckAcceptFirst(l)
    \/ OnTimer \/ FirstSaved \/ Advance \/ AdvanceThrows \/ FillRead \/ FillSet
    \/ \E l \in Ledger : SaveEnds(l) \/ Evict(l)
    \/ \E s \in Seqs : Resave(s) \/ Unclean(s)
    \/ Crash

Spec == Init /\ [][Next]_vars

(* The jobs run, and the timer sets itself again. *)
Fairness == WF_vars(Advance) /\ WF_vars(FirstSaved) /\ WF_vars(OnTimer)

FairSpec == Spec /\ Fairness

---------------------------------------------------------------------------

(* A published ledger is followed by the next one or, when the validated   *)
(* ledger is more than MAX_LEDGER_GAP ahead, by that: setPubLedger is      *)
(* called for nothing else, although findNewLedgersToPublish walks from a  *)
(* validated ledger that may be an old one when the list is published.     *)
Stream == INSTANCE PublishedStream WITH
              valid <- seqNo(mValidLedger), published <- seqNo(mPubLedger)

ImplementsPublishedStream == Stream!StreamSpec

nextLedger == hashOfSeq(mValidLedger, seqNo(mPubLedger) + 1)

Behind == mPubLedger # None /\ seqNo(mValidLedger) > seqNo(mPubLedger)

(* tryAdvance is never lost: when no advance job is there although the     *)
(* next ledger to publish is in memory, the job of the acquisition that    *)
(* brought it has still to run, or nobody has called tryAdvance since it   *)
(* came or since an exception ended a job that should have published it.   *)
AdvanceIsNotLost ==
    adv.at = "off" /\ Behind /\ nextLedger \in cached => nextLedger \in arrived \cup untold

(* The stream does not stop: the next ledger to publish is not at hand for *)
(* ever, in memory or in the database, without being published, although   *)
(* a save that fails, or an entry that shows up late, calls nobody; unless *)
(* the save of that ledger has ended in an exception.                      *)
StreamGoesOn ==
    []<>(Behind /\ Available(nextLedger) => seqNo(mPubLedger) + 1 \in broken)

============================================================================
