------------------------ MODULE LedgerAdvanceProofs ------------------------
(* The ledger master implements the published stream, and no call of       *)
(* tryAdvance is lost: for any tree of ledgers, any gap, history and fetch *)
(* size, and any number of failures and crashes.                           *)
EXTENDS LedgerAdvance, TLAPS

(* The prover of the leaves that name none. *)
USE SMTT(30)

Fields ==
    /\ mValidLedger \in Ledger \cup {None} /\ mPubLedger \in Ledger \cup {None}
    /\ accepting \in BOOLEAN /\ mAdvanceWork \in BOOLEAN
    /\ DOMAIN adv = {"at", "ledger", "todo", "missing", "last", "count"}
    /\ adv.todo \in Seq(Ledger)

(* Nothing is published before a ledger is validated and saved, and no     *)
(* advance job is there before that.                                       *)
Started ==
    /\ seqNo(mPubLedger) <= seqNo(mValidLedger)
    /\ accepting => mValidLedger # None /\ mPubLedger = None
    /\ mValidLedger # None /\ mPubLedger = None => accepting
    /\ adv.at # "off" => mPubLedger # None

(* What the job has to publish follows what is published, one by one, and  *)
(* has been validated; after a gap it is the published ledger itself.      *)
Listed ==
    /\ adv.at = "walk" => adv.ledger \in Ledger
                            /\ seqOf(adv.ledger) \in seqNo(mPubLedger) + 1 .. seqNo(mValidLedger)
    /\ adv.at \notin {"full", "save", "check", "publish"} => adv.todo = <<>>
    /\ adv.at = "publish" => Current
    /\ Current => adv.ledger = Head(adv.todo)
    /\ Current => \/ adv.todo = <<mPubLedger>>
                  \/ /\ \A i \in 1 .. Len(adv.todo) : seqOf(adv.todo[i]) = seqNo(mPubLedger) + i
                     /\ seqNo(mPubLedger) + Len(adv.todo) <= seqNo(mValidLedger)

(* The next one to publish after n is not in memory, or its job will run,  *)
(* or nobody has been told of it.                                          *)
Awaited(n) ==
    n < seqNo(mValidLedger) /\ hashOfSeq(mValidLedger, n + 1) \in cached =>
        hashOfSeq(mValidLedger, n + 1) \in arrived \cup untold

(* A job that nobody has called meanwhile knows the validated ledger, and  *)
(* all that is at hand between that and the published one.                 *)
Informed ==
    ~mAdvanceWork =>
        /\ adv.at = "walk" => adv.ledger = mValidLedger
        /\ adv.at \in {"fetch", "full", "save", "check", "hist", "fill"} /\ ~Current =>
               seqNo(mValidLedger) = seqNo(mPubLedger)
        /\ Current => Awaited(seqOf(adv.todo[Len(adv.todo)]))
        /\ adv.at = "end" => Awaited(seqNo(mPubLedger))

AdvanceInv == Fields /\ Started /\ Listed /\ Informed /\ AdvanceIsNotLost

---------------------------------------------------------------------------
(* Sequences and chains.                                                   *)

(* A ledger is the last of its chain, which numbers the ones before it.    *)
LEMMA ChainFacts ==
    ASSUME NEW l \in Ledger
    PROVE  /\ chain[l] \in Seq(Ledger) /\ seqOf(l) \in Nat /\ seqOf(l) > 0
           /\ \A s \in 1 .. seqOf(l) : hashOfSeq(l, s) \in Ledger /\ seqOf(hashOfSeq(l, s)) = s
  <1>1. chain[l] \in Seq(Ledger) /\ chain[l] # <<>>
    BY LedgerAdvanceAssumption
  <1>2. seqOf(l) \in Nat /\ seqOf(l) > 0
    BY <1>1 DEF seqOf
  <1>3. ASSUME NEW s \in 1 .. seqOf(l)
        PROVE  hashOfSeq(l, s) \in Ledger /\ seqOf(hashOfSeq(l, s)) = s
    <2>1. hashOfSeq(l, s) \in Ledger
      BY <1>1, <1>3 DEF seqOf, hashOfSeq
    <2>2. chain[chain[l][s]] = SubSeq(chain[l], 1, s)
      BY <1>3, LedgerAdvanceAssumption DEF seqOf
    <2>3. Len(SubSeq(chain[l], 1, s)) = s
      BY <1>1, <1>3 DEF seqOf
    <2> QED
      BY <2>1, <2>2, <2>3 DEF seqOf, hashOfSeq
  <1> QED
    BY <1>1, <1>2, <1>3

(* The number of a ledger, zero for none. *)
LEMMA Numbers ==
    ASSUME NEW l \in Ledger \cup {None}
    PROVE  /\ seqNo(l) \in Nat /\ (seqNo(l) = 0 <=> l = None)
           /\ l # None => l \in Ledger /\ seqNo(l) = seqOf(l)
  BY ChainFacts, LedgerAdvanceAssumption DEF seqNo

(* The elements of a part of a sequence. *)
LEMMA PartOf ==
    ASSUME NEW S, NEW q \in Seq(S), NEW m \in Nat \ {0}, NEW n \in Nat,
           n \in m - 1 .. Len(q)
    PROVE  /\ SubSeq(q, m, n) \in Seq(S) /\ Len(SubSeq(q, m, n)) = n - m + 1
           /\ \A i \in 1 .. n - m + 1 : SubSeq(q, m, n)[i] = q[m + i - 1]
  OBVIOUS

(* The sequence without elements. *)
LEMMA NoElements == ASSUME NEW S, NEW q \in Seq(S) PROVE q = <<>> <=> Len(q) = 0
  OBVIOUS

(* The first element of a sequence, and the others. *)
LEMMA HeadAndTail ==
    ASSUME NEW S, NEW q \in Seq(S), q # <<>>
    PROVE  /\ Len(q) \in Nat \ {0} /\ Head(q) = q[1] /\ Head(q) \in S
           /\ Tail(q) \in Seq(S) /\ Len(Tail(q)) = Len(q) - 1
           /\ \A i \in 1 .. Len(q) - 1 : Tail(q)[i] = q[i + 1]
           /\ Tail(q) = <<>> <=> Len(q) = 1
  <1>1. Len(q) \in Nat \ {0}
    OBVIOUS
  <1>2. Head(q) = q[1] /\ Head(q) \in S
    BY <1>1
  <1>3. Tail(q) \in Seq(S) /\ Len(Tail(q)) = Len(q) - 1
    BY <1>1
  <1>4. \A i \in 1 .. Len(q) - 1 : Tail(q)[i] = q[i + 1]
    BY <1>1
  <1>5. Tail(q) = <<>> <=> Len(Tail(q)) = 0
    BY <1>3, NoElements, Zenon
  <1> QED
    BY <1>1, <1>2, <1>3, <1>4, <1>5

---------------------------------------------------------------------------
(* The invariant.                                                          *)

(* A server that has just started has published nothing. *)
LEMMA InitInv == Init => AdvanceInv
  <1> SUFFICES ASSUME Init PROVE AdvanceInv
    OBVIOUS
  <1> USE DEF Init, Off
  <1>1. Fields
    <2>1. adv.todo = <<>> /\ <<>> \in Seq(Ledger)
      OBVIOUS
    <2>2. DOMAIN adv = {"at", "ledger", "todo", "missing", "last", "count"}
      OBVIOUS
    <2> QED
      BY <2>1, <2>2, Zenon DEF Fields
  <1>2. Started
    BY DEF Started, seqNo
  <1>3. Listed
    BY DEF Listed, Current
  <1>4. Informed
    BY DEF Informed, Current
  <1>5. AdvanceIsNotLost
    BY DEF AdvanceIsNotLost, Behind
  <1> QED
    BY <1>1, <1>2, <1>3, <1>4, <1>5 DEF AdvanceInv

(* A step of neither the advance job nor a validation, in which a ledger   *)
(* comes into memory with its job or untold, keeps the invariant.          *)
LEMMA AsideStep ==
    ASSUME AdvanceInv, UNCHANGED <<head, adv, mAdvanceWork>>,
           cached' \ (arrived' \cup untold') \subseteq cached \ (arrived \cup untold)
    PROVE  AdvanceInv'
  <1>1. Fields'
    BY DEF AdvanceInv, Fields, head
  <1>2. Started'
    BY DEF AdvanceInv, Started, head
  <1>3. Listed'
    BY DEF AdvanceInv, Listed, Current, head
  <1>4. Informed'
    BY DEF AdvanceInv, Informed, Current, Awaited, head
  <1>5. AdvanceIsNotLost'
    BY DEF AdvanceInv, AdvanceIsNotLost, Behind, nextLedger, head
  <1> QED
    BY <1>1, <1>2, <1>3, <1>4, <1>5 DEF AdvanceInv

(* Arrivals, the filling of history, saves, the cleaner and evictions. *)
LEMMA AsideInv ==
    ASSUME AdvanceInv,
           \/ FillRead \/ FillSet
           \/ \E l \in Ledger : StoreLedger(l) \/ Arrive(l) \/ SaveEnds(l) \/ Evict(l)
           \/ \E s \in Seqs : Resave(s) \/ Unclean(s)
    PROVE  AdvanceInv'
  <1>1. ASSUME NEW l \in Ledger, StoreLedger(l) \/ Arrive(l) PROVE AdvanceInv'
    BY <1>1, AsideStep DEF StoreLedger, Arrive, job
  <1>2. ASSUME NEW l \in Ledger, Evict(l) PROVE AdvanceInv'
    BY <1>2, AsideStep DEF Evict, job
  <1>3. ASSUME NEW l \in Ledger, SaveEnds(l) PROVE AdvanceInv'
    BY <1>3, AsideStep DEF SaveEnds, job
  <1>4. ASSUME NEW s \in Seqs, Resave(s) \/ Unclean(s) PROVE AdvanceInv'
    BY <1>4, AsideStep DEF Resave, Unclean, job
  <1>5. ASSUME FillRead \/ FillSet PROVE AdvanceInv'
    BY <1>5, AsideStep DEF FillRead, FillSet, job, outside
  <1> QED
    BY <1>1, <1>2, <1>3, <1>4, <1>5

(* tryAdvance, for the validated ledger or a later one: somebody will see  *)
(* the flag.                                                               *)
LEMMA TryAdvanceStep ==
    ASSUME AdvanceInv, MutexFree, tryAdvance(mValidLedger'),
           UNCHANGED <<mPubLedger, accepting>>,
           \/ mValidLedger' = mValidLedger
           \/ /\ mPubLedger # None /\ mValidLedger' \in Ledger
              /\ seqOf(mValidLedger') > seqNo(mValidLedger)
    PROVE  AdvanceInv'
  <1> USE DEF AdvanceInv
  <1>0. accepting = FALSE /\ (mValidLedger' # None => mPubLedger # None)
    BY DEF Fields, MutexFree, Started
  <1>1. seqNo(mValidLedger) \in Nat /\ seqNo(mValidLedger)' \in Nat
          /\ seqNo(mValidLedger) <= seqNo(mValidLedger)' /\ mValidLedger' \in Ledger \cup {None}
          /\ seqNo(mPubLedger) \in Nat /\ seqNo(mPubLedger)' = seqNo(mPubLedger)
    <2>1. mValidLedger' \in Ledger \cup {None}
      BY DEF Fields
    <2>2. seqNo(mValidLedger) \in Nat /\ seqNo(mPubLedger) \in Nat
      BY Numbers DEF Fields
    <2>3. mValidLedger' \in Ledger => seqNo(mValidLedger)' = seqOf(mValidLedger')
                                        /\ seqOf(mValidLedger') \in Nat
      BY ChainFacts, LedgerAdvanceAssumption DEF seqNo
    <2>4. mValidLedger' = mValidLedger => seqNo(mValidLedger)' = seqNo(mValidLedger)
      BY DEF seqNo
    <2>5. seqNo(mPubLedger)' = seqNo(mPubLedger)
      BY DEF seqNo
    <2> QED
      BY <2>1, <2>2, <2>3, <2>4, <2>5
  <1>2. CASE adv.at = "off" /\ mValidLedger' # None
    <2>1. adv' = [Off EXCEPT !.at = "queued"] /\ mAdvanceWork' = TRUE
      BY <1>2 DEF tryAdvance
    <2>2. Fields'
      BY <1>1, <2>1 DEF Fields, Off
    <2>3. Started'
      BY <1>0, <1>1, <1>2, <2>1 DEF Started
    <2>4. Listed'
      BY <2>1 DEF Listed, Current, Off
    <2>5. Informed' /\ AdvanceIsNotLost'
      BY <2>1 DEF Informed, AdvanceIsNotLost, Off
    <2> QED
      BY <2>2, <2>3, <2>4, <2>5
  <1>3. CASE ~(adv.at = "off" /\ mValidLedger' # None)
    <2>1. adv' = adv /\ mAdvanceWork' = TRUE
      BY <1>3 DEF tryAdvance
    <2>2. Fields'
      BY <1>1, <2>1 DEF Fields
    <2>3. Started'
      BY <1>0, <1>1, <2>1 DEF Started
    <2>4. Listed'
      BY <1>1, <2>1 DEF Listed, Current, Fields
    <2>5. Informed'
      BY <2>1 DEF Informed
    <2>6. AdvanceIsNotLost'
      BY <1>1, <1>3, <2>1 DEF AdvanceIsNotLost, Behind, seqNo
    <2> QED
      BY <2>2, <2>3, <2>4, <2>5, <2>6
  <1> QED
    BY <1>2, <1>3

(* The timer, the job of an acquisition, and a later validated ledger. *)
LEMMA CallInv ==
    ASSUME AdvanceInv,
           OnTimer \/ \E l \in Ledger : AcquisitionDone(l) \/ CheckAccept(l)
    PROVE  AdvanceInv'
  <1>1. ASSUME OnTimer PROVE AdvanceInv'
    BY <1>1, TryAdvanceStep DEF OnTimer, head
  <1>2. ASSUME NEW l \in Ledger, AcquisitionDone(l) PROVE AdvanceInv'
    BY <1>2, TryAdvanceStep DEF AcquisitionDone, head
  <1>3. ASSUME NEW l \in Ledger, CheckAccept(l) PROVE AdvanceInv'
    BY <1>3, TryAdvanceStep DEF CheckAccept
  <1> QED
    BY <1>1, <1>2, <1>3

(* The first validated ledger, and a crash. *)
LEMMA FirstInv ==
    ASSUME AdvanceInv, Crash \/ FirstSaved \/ \E l \in Ledger : LoadLedger(l) \/ CheckAcceptFirst(l)
    PROVE  AdvanceInv'
  <1> USE DEF AdvanceInv
  <1>0. <<>> \in Seq(Ledger)
    OBVIOUS
  <1>1. CASE Crash
    <2>1. /\ mValidLedger' = None /\ mPubLedger' = None /\ accepting' = FALSE
          /\ adv' = Off /\ mAdvanceWork' = FALSE
      BY <1>1 DEF Crash
    <2>2. Fields'
      BY <1>0, <2>1, Zenon DEF Fields, Off
    <2>3. Started'
      BY <2>1 DEF Started, Off, seqNo
    <2>4. Listed' /\ Informed'
      BY <2>1 DEF Listed, Informed, Current, Off
    <2>5. AdvanceIsNotLost'
      BY <2>1 DEF AdvanceIsNotLost, Behind
    <2> QED
      BY <2>2, <2>3, <2>4, <2>5
  <1>2. ASSUME NEW l \in Ledger, CheckAcceptFirst(l) PROVE AdvanceInv'
    <2>1. /\ mValidLedger' = l /\ accepting' = TRUE /\ mPubLedger' = None /\ mPubLedger = None
          /\ UNCHANGED <<adv, mAdvanceWork>>
      BY <1>2 DEF CheckAcceptFirst, job
    <2>2. Fields'
      BY <2>1 DEF Fields
    <2>3. Started'
      BY <2>1, ChainFacts, LedgerAdvanceAssumption DEF Started, seqNo
    <2>4. adv.at = "off" /\ ~Current
      BY <2>1 DEF Started, Listed, Current
    <2>5. Listed' /\ Informed'
      BY <2>1, <2>4 DEF Listed, Informed, Current
    <2>6. AdvanceIsNotLost'
      BY <2>1 DEF AdvanceIsNotLost, Behind
    <2> QED
      BY <2>2, <2>3, <2>5, <2>6
  <1>3. CASE FirstSaved
    <2>1. accepting /\ mValidLedger # None /\ mPubLedger = None /\ adv.at = "off"
      BY <1>3 DEF FirstSaved, Started
    <2>2. /\ mValidLedger' = mValidLedger /\ mPubLedger' = mValidLedger /\ accepting' = FALSE
          /\ adv' = [Off EXCEPT !.at = "queued"] /\ mAdvanceWork' = TRUE
      BY <1>3, <2>1 DEF FirstSaved, tryAdvance
    <2>3. Fields'
      BY <1>0, <2>2, Zenon DEF Fields, Off
    <2>4. Started'
      BY <2>1, <2>2, ChainFacts, LedgerAdvanceAssumption DEF Started, Fields, seqNo
    <2>5. Listed' /\ Informed' /\ AdvanceIsNotLost'
      BY <2>2 DEF Listed, Informed, AdvanceIsNotLost, Current, Off
    <2> QED
      BY <2>3, <2>4, <2>5
  <1>4. ASSUME NEW l \in Ledger, LoadLedger(l) PROVE AdvanceInv'
    <2>1. /\ mValidLedger = None /\ mValidLedger' = l /\ mPubLedger' = l
          /\ UNCHANGED <<accepting, adv, mAdvanceWork>>
      BY <1>4 DEF LoadLedger, job
    <2>2. mPubLedger = None
      BY <2>1, Numbers DEF Fields, Started
    <2>3. accepting = FALSE /\ adv.at = "off" /\ ~Current
      BY <2>1, <2>2 DEF Started, Fields, Listed, Current
    <2>4. Fields'
      BY <2>1 DEF Fields
    <2>5. l # None /\ seqOf(l) \in Nat
      BY ChainFacts, LedgerAdvanceAssumption
    <2>6. Started'
      BY <2>1, <2>3, <2>5 DEF Started, seqNo
    <2>7. Listed' /\ Informed'
      BY <2>1, <2>3 DEF Listed, Informed, Current
    <2>8. AdvanceIsNotLost'
      BY <2>1, <2>5 DEF AdvanceIsNotLost, Behind, seqNo
    <2> QED
      BY <2>4, <2>6, <2>7, <2>8
  <1> QED
    BY <1>1, <1>2, <1>3, <1>4

(* While there is an advance job a ledger has been published. *)
LEMMA Running ==
    ASSUME AdvanceInv, adv.at # "off"
    PROVE  /\ mPubLedger \in Ledger /\ mValidLedger \in Ledger /\ accepting = FALSE
           /\ mPubLedger # None /\ mValidLedger # None
           /\ seqNo(mPubLedger) \in Nat /\ seqNo(mPubLedger) = seqOf(mPubLedger)
           /\ seqNo(mValidLedger) \in Nat /\ seqNo(mValidLedger) = seqOf(mValidLedger)
           /\ seqNo(mPubLedger) <= seqNo(mValidLedger)
  <1> USE DEF AdvanceInv
  <1>1. mPubLedger # None /\ mPubLedger \in Ledger /\ seqNo(mPubLedger) <= seqNo(mValidLedger)
    BY DEF Started, Fields
  <1>2. seqNo(mPubLedger) \in Nat /\ seqNo(mPubLedger) # 0 /\ seqNo(mPubLedger) = seqOf(mPubLedger)
    BY <1>1, Numbers
  <1>3. seqNo(mValidLedger) \in Nat /\ (seqNo(mValidLedger) = 0 <=> mValidLedger = None)
    BY Numbers DEF Fields
  <1>4. mValidLedger # None
    BY <1>1, <1>2, <1>3
  <1>5. mValidLedger \in Ledger /\ seqNo(mValidLedger) = seqOf(mValidLedger)
    BY <1>4, Numbers DEF Fields
  <1>6. accepting = FALSE
    BY <1>1 DEF Started, Fields
  <1> QED
    BY <1>1, <1>2, <1>3, <1>4, <1>5, <1>6

(* The end of a turn.  The job goes on if it was called meanwhile; if it   *)
(* ends, nothing is left for it.                                           *)
LEMMA EndTurnStep ==
    ASSUME AdvanceInv, adv.at # "off", UNCHANGED <<mValidLedger, accepting>>,
           mPubLedger' \in Ledger, seqNo(mPubLedger)' <= seqNo(mValidLedger),
           NEW a, DOMAIN a = DOMAIN adv, NEW work \in BOOLEAN, NEW progress \in BOOLEAN,
           EndTurn(a, work, progress),
           ~work => Awaited(seqNo(mPubLedger))'
    PROVE  AdvanceInv'
  <1> USE DEF AdvanceInv
  <1>0. <<>> \in Seq(Ledger)
    OBVIOUS
  <1>1. accepting = FALSE /\ mValidLedger # None /\ mPubLedger' # None
    BY Running, LedgerAdvanceAssumption
  <1>2. /\ mAdvanceWork' \in BOOLEAN /\ (work => mAdvanceWork')
        /\ \/ adv' = [a EXCEPT !.at = "again", !.ledger = None, !.todo = <<>>, !.last = 0]
              /\ mAdvanceWork'
           \/ adv' = Off /\ ~work
    BY DEF EndTurn
  <1>3. /\ adv'.at \in {"again", "off"} /\ adv'.todo = <<>>
        /\ (adv'.at = "off" => ~work)
        /\ DOMAIN adv' = {"at", "ledger", "todo", "missing", "last", "count"}
    <2>1. DOMAIN a = {"at", "ledger", "todo", "missing", "last", "count"}
      BY DEF Fields
    <2>2. CASE adv' = Off /\ ~work
      BY <2>2 DEF Off
    <2>3. CASE adv' = [a EXCEPT !.at = "again", !.ledger = None, !.todo = <<>>, !.last = 0]
      BY <2>1, <2>3
    <2> QED
      BY <1>2, <2>2, <2>3
  <1>4. Fields'
    BY <1>0, <1>2, <1>3 DEF Fields
  <1>5. Started'
    BY <1>1 DEF Started, seqNo
  <1>6. Listed'
    BY <1>3 DEF Listed, Current
  <1>7. Informed'
    BY <1>3 DEF Informed, Current
  <1>8. AdvanceIsNotLost'
    BY <1>3 DEF AdvanceIsNotLost, Behind, nextLedger, Awaited
  <1> QED
    BY <1>4, <1>5, <1>6, <1>7, <1>8

(* A turn that finds the stream too far behind, or something to look for.  *)
LEMMA FindInv ==
    ASSUME AdvanceInv, FindGap \/ FindSome
    PROVE  AdvanceInv'
  <1> USE DEF AdvanceInv
  <1>0. /\ adv.at \in {"queued", "again"} /\ adv.todo = <<>> /\ mPubLedger \in Ledger
        /\ accepting = FALSE /\ mValidLedger \in Ledger /\ mAdvanceWork' = FALSE
        /\ Turn.todo = <<>> /\ DOMAIN Turn = DOMAIN adv
        /\ mValidLedger' = mValidLedger /\ accepting' = accepting
    <2>1. adv.at \in {"queued", "again"}
      BY DEF FindGap, FindSome, TurnBegins
    <2>2. mAdvanceWork' = FALSE /\ mValidLedger' = mValidLedger /\ accepting' = accepting
      BY DEF FindGap, FindSome, head
    <2>3. adv.todo = <<>>
      BY <2>1 DEF Listed
    <2>4. Turn.todo = <<>> /\ DOMAIN Turn = DOMAIN adv
      BY <2>3 DEF Turn, Fields
    <2> QED
      BY <2>1, <2>2, <2>3, <2>4, Running, Zenon
  <1>1. /\ seqNo(mValidLedger) \in Nat /\ seqNo(mPubLedger) \in Nat
        /\ seqNo(mValidLedger) = seqOf(mValidLedger)
    BY <1>0, Running, Zenon
  <1>2. CASE FindGap
    <2>1. /\ mPubLedger' = mValidLedger
          /\ adv' = [Turn EXCEPT !.at = "full", !.ledger = mValidLedger, !.todo = <<mValidLedger>>]
      BY <1>2 DEF FindGap
    <2>2. /\ adv'.at = "full" /\ adv'.ledger = mValidLedger /\ adv'.todo = <<mValidLedger>>
          /\ DOMAIN adv' = DOMAIN adv
      BY <1>0, <2>1 DEF Fields
    <2>3. <<mValidLedger>> \in Seq(Ledger) /\ <<mValidLedger>> # <<>>
            /\ Len(<<mValidLedger>>) = 1 /\ <<mValidLedger>>[1] = mValidLedger
            /\ Head(<<mValidLedger>>) = mValidLedger
      BY <1>0
    <2>4. Fields'
      BY <1>0, <2>1, <2>2, <2>3, Zenon DEF Fields
    <2>5. Started'
      <3>1. seqNo(mPubLedger)' = seqNo(mValidLedger) /\ seqNo(mValidLedger)' = seqNo(mValidLedger)
        BY <1>0, <2>1 DEF seqNo
      <3>2. mValidLedger # None
        BY <1>0, Running, Zenon
      <3> QED
        BY <1>0, <1>1, <2>1, <3>1, <3>2 DEF Started
    <2>6. Listed'
      BY <1>0, <2>1, <2>2, <2>3 DEF Listed, Current
    <2>7. Informed'
      BY <1>0, <1>1, <2>1, <2>2, <2>3 DEF Informed, Current, Awaited
    <2>8. AdvanceIsNotLost'
      BY <2>2 DEF AdvanceIsNotLost
    <2> QED
      BY <2>4, <2>5, <2>6, <2>7, <2>8
  <1>3. CASE FindSome
    <2>1. /\ mPubLedger' = mPubLedger /\ adv' = [Turn EXCEPT !.at = "walk", !.ledger = mValidLedger]
      BY <1>3 DEF FindSome, head
    <2>2. /\ adv'.at = "walk" /\ adv'.ledger = mValidLedger /\ adv'.todo = <<>>
          /\ DOMAIN adv' = DOMAIN adv
      BY <1>0, <2>1 DEF Fields
    <2>3. Fields'
      BY <1>0, <2>1, <2>2, Zenon DEF Fields
    <2>4. Started'
      BY <1>0, <2>1, LedgerAdvanceAssumption DEF Started, seqNo
    <2>5. seqNo(mValidLedger) \in seqNo(mPubLedger) + 1 .. seqNo(mValidLedger)
      BY <1>1, <1>3, LedgerAdvanceAssumption DEF FindSome
    <2>6. Listed'
      BY <1>0, <1>1, <2>1, <2>2, <2>5 DEF Listed, Current
    <2>7. Informed' /\ AdvanceIsNotLost'
      BY <1>0, <2>2 DEF Informed, AdvanceIsNotLost, Current
    <2> QED
      BY <2>3, <2>4, <2>6, <2>7
  <1> QED
    BY <1>2, <1>3

(* A turn with nothing to publish. *)
LEMMA HistoryInv ==
    ASSUME AdvanceInv, NEW inSync \in BOOLEAN, FindHistory(inSync)
    PROVE  AdvanceInv'
  <1> USE DEF AdvanceInv
  <1>0. /\ adv.at \in {"queued", "again"} /\ adv.todo = <<>>
        /\ Turn.todo = <<>> /\ DOMAIN Turn = DOMAIN adv
        /\ UNCHANGED <<mValidLedger, mPubLedger, accepting>>
    <2>1. adv.at \in {"queued", "again"} /\ UNCHANGED <<mValidLedger, mPubLedger, accepting>>
      BY DEF FindHistory, TurnBegins, head
    <2>2. adv.todo = <<>>
      BY <2>1 DEF Listed
    <2> QED
      BY <2>1, <2>2 DEF Turn, Fields
  <1>1. seqNo(mValidLedger) = seqNo(mPubLedger)
    <2>1. seqNo(mValidLedger) <= seqNo(mPubLedger)
      BY DEF FindHistory
    <2>2. adv.at # "off"
      BY <1>0
    <2> QED
      BY <2>1, <2>2, Running
  <1>2. Awaited(seqNo(mPubLedger))' /\ seqNo(mPubLedger)' <= seqNo(mValidLedger)
    <2>1. seqNo(mValidLedger)' = seqNo(mPubLedger)' /\ seqNo(mPubLedger)' = seqNo(mPubLedger)
      BY <1>0, <1>1 DEF seqNo
    <2>2. seqNo(mPubLedger) \in Nat
      BY <1>0, Running, Zenon
    <2> QED
      BY <1>1, <2>1, <2>2 DEF Awaited
  <1>3. ASSUME NEW a, DOMAIN a = DOMAIN adv, EndTurn(a, FALSE, FALSE) PROVE AdvanceInv'
    BY <1>0, <1>2, <1>3, EndTurnStep, Running, Zenon
  <1>4. ASSUME NEW m, NEW n, mAdvanceWork' = FALSE,
               adv' = [Turn EXCEPT !.at = "fetch", !.missing = m, !.last = n]
        PROVE  AdvanceInv'
    <2>1. /\ adv'.at = "fetch" /\ adv'.todo = <<>> /\ DOMAIN adv' = DOMAIN adv
      BY <1>0, <1>4 DEF Fields
    <2>2. Fields'
      BY <1>0, <1>4, <2>1, Zenon DEF Fields
    <2>3. Started'
      BY <1>0, <2>1 DEF Started, seqNo
    <2>4. Listed'
      BY <2>1 DEF Listed, Current
    <2>5. seqNo(mValidLedger)' = seqNo(mPubLedger)'
      BY <1>0, <1>1 DEF seqNo
    <2>6. Informed' /\ AdvanceIsNotLost'
      BY <2>1, <2>5 DEF Informed, AdvanceIsNotLost, Current
    <2> QED
      BY <2>2, <2>3, <2>4, <2>6
  <1>5. \E m, n :
           \/ EndTurn(Turn, FALSE, FALSE) \/ EndTurn([Turn EXCEPT !.missing = m], FALSE, FALSE)
           \/ /\ adv' = [Turn EXCEPT !.at = "fetch", !.missing = m, !.last = n]
              /\ mAdvanceWork' = FALSE
    BY Zenon DEF FindHistory
  <1>6. \A m : DOMAIN [Turn EXCEPT !.missing = m] = DOMAIN adv
    BY <1>0
  <1> QED
    BY <1>0, <1>3, <1>4, <1>5, <1>6, Zenon

(* The ledger of the history, found or asked for. *)
LEMMA FetchHistoryInv ==
    ASSUME AdvanceInv, FetchHistory
    PROVE  AdvanceInv'
  <1> USE DEF AdvanceInv
  <1>0. adv.at = "fetch" /\ adv.todo = <<>> 
        /\ UNCHANGED <<mValidLedger, mPubLedger, accepting, cached, arrived, untold>>
    BY DEF FetchHistory, Listed, head, outside
  <1>1. CASE \E l : adv' = [adv EXCEPT !.at = "full", !.ledger = l] /\ UNCHANGED mAdvanceWork
    <2>1. /\ adv'.at = "full" /\ adv'.todo = <<>> /\ DOMAIN adv' = DOMAIN adv
          /\ mAdvanceWork' = mAdvanceWork
      BY <1>0, <1>1 DEF Fields
    <2>2. Fields'
      BY <1>0, <2>1 DEF Fields
    <2>3. Started'
      BY <1>0, <2>1 DEF Started, seqNo
    <2>4. Listed'
      BY <2>1 DEF Listed, Current
    <2>5. Informed' /\ AdvanceIsNotLost'
      BY <1>0, <2>1 DEF Informed, AdvanceIsNotLost, Current, seqNo
    <2> QED
      BY <2>2, <2>3, <2>4, <2>5
  <1>2. ASSUME NEW c, NEW m, EndTurn([adv EXCEPT !.count = c, !.missing = m], mAdvanceWork, TRUE)
        PROVE  AdvanceInv'
    <2>1. DOMAIN [adv EXCEPT !.count = c, !.missing = m] = DOMAIN adv
      OBVIOUS
    <2>2. ~mAdvanceWork => Awaited(seqNo(mPubLedger))'
      BY <1>0, Running DEF Informed, Current, Awaited, seqNo
    <2>3. seqNo(mPubLedger)' <= seqNo(mValidLedger)
      BY <1>0, Running DEF seqNo
    <2> QED
      BY <1>0, <1>2, <2>1, <2>2, <2>3, EndTurnStep, Running, Zenon DEF Fields
  <1> QED
    BY <1>1, <1>2, Zenon DEF FetchHistory

(* The list made of a part of the validated ledger's chain follows what is *)
(* published, and what comes after it is not at hand.                      *)
LEMMA ListFacts ==
    ASSUME AdvanceInv, adv.at = "walk", NEW todo \in ToPublish(adv.ledger)
    PROVE  /\ todo \in Seq(Ledger)
           /\ \A i \in 1 .. Len(todo) : seqOf(todo[i]) = seqNo(mPubLedger) + i
           /\ seqNo(mPubLedger) + Len(todo) \in Nat
           /\ seqNo(mPubLedger) + Len(todo) <= seqNo(mValidLedger)
           /\ ~mAdvanceWork => Awaited(seqNo(mPubLedger) + Len(todo))
  <1> USE DEF AdvanceInv
  <1> DEFINE v == adv.ledger
             p == seqNo(mPubLedger)
             Have(s) == s = seqOf(v) \/ Available(hashOfSeq(v, s))
  <1>1. p \in Nat /\ v \in Ledger /\ seqOf(v) \in p + 1 .. seqNo(mValidLedger)
          /\ seqNo(mValidLedger) \in Nat
    BY Running, Zenon DEF Listed
  <1>2. PICK last \in p .. seqOf(v) : todo = SubSeq(chain[v], p + 1, last)
                                     /\ (last < seqOf(v) => ~Have(last + 1))
    BY <1>1 DEF ToPublish
  <1>3. chain[v] \in Seq(Ledger) /\ Len(chain[v]) = seqOf(v) /\ seqOf(v) \in Nat
    BY <1>1, ChainFacts DEF seqOf
  <1>4. /\ todo \in Seq(Ledger) /\ Len(todo) = last - p
        /\ \A i \in 1 .. last - p : todo[i] = chain[v][p + i]
    <2> HIDE DEF p, v
    <2>1. p + 1 \in Nat \ {0} /\ last \in Nat /\ last \in (p + 1) - 1 .. Len(chain[v])
      BY <1>1, <1>2, <1>3
    <2>2. /\ SubSeq(chain[v], p + 1, last) \in Seq(Ledger)
          /\ Len(SubSeq(chain[v], p + 1, last)) = last - (p + 1) + 1
          /\ \A i \in 1 .. last - (p + 1) + 1 :
                 SubSeq(chain[v], p + 1, last)[i] = chain[v][(p + 1) + i - 1]
      BY <1>3, <2>1, PartOf
    <2>3. last - (p + 1) + 1 = last - p /\ \A i \in 1 .. last - p : (p + 1) + i - 1 = p + i
      BY <1>1, <2>1
    <2> QED
      BY <1>2, <2>2, <2>3
  <1>5. \A i \in 1 .. Len(todo) : seqOf(todo[i]) = p + i
    <2> HIDE DEF p, v
    <2>1. ASSUME NEW i \in 1 .. Len(todo) PROVE seqOf(todo[i]) = p + i
      <3>1. p + i \in 1 .. seqOf(v) /\ todo[i] = hashOfSeq(v, p + i)
        BY <1>1, <1>2, <1>4 DEF hashOfSeq
      <3> QED
        BY <1>1, <3>1, ChainFacts
    <2> QED
      BY <2>1
  <1>6. p + Len(todo) = last
    <2> HIDE DEF p, v
    <2> QED
      BY <1>1, <1>2, <1>4
  <1>7. ~mAdvanceWork => Awaited(last)
    <2>1. ~mAdvanceWork => v = mValidLedger /\ seqNo(mValidLedger) = seqOf(v)
      BY Running, Zenon DEF Informed
    <2> QED
      BY <1>2, <2>1 DEF Awaited, Available
  <1>8. p + Len(todo) \in Nat /\ p + Len(todo) <= seqNo(mValidLedger)
    <2> HIDE DEF p, v
    <2> QED
      BY <1>1, <1>2, <1>6
  <1>9. ~mAdvanceWork => Awaited(p + Len(todo))
    BY <1>6, <1>7, Zenon
  <1> QED
    BY <1>4, <1>5, <1>8, <1>9, Zenon

(* findNewLedgersToPublish returns its list, or a part of it. *)
LEMMA WalkInv ==
    ASSUME AdvanceInv, Walk
    PROVE  AdvanceInv'
  <1> USE DEF AdvanceInv
  <1>0. /\ adv.at = "walk" /\ UNCHANGED <<mValidLedger, mPubLedger, accepting, cached, arrived>>
    BY DEF Walk, head
  <1>1. PICK found, n, todo :
           /\ found \in ToPublish(adv.ledger)
           /\ n \in 0 .. Len(found) /\ todo = SubSeq(found, 1, n)
           /\ \/ todo = <<>> /\ EndTurn(adv, mAdvanceWork, FALSE)
              \/ /\ todo # <<>>
                 /\ adv' = [adv EXCEPT !.at = "full", !.ledger = Head(todo), !.todo = todo]
                 /\ mAdvanceWork' = mAdvanceWork
           /\ \/ n = Len(found) /\ untold' = untold
              \/ n < Len(found) /\ untold' = untold \cup cached
    BY Zenon DEF Walk
  <1>a. /\ found \in Seq(Ledger)
        /\ \A i \in 1 .. Len(found) : seqOf(found[i]) = seqNo(mPubLedger) + i
        /\ seqNo(mPubLedger) + Len(found) <= seqNo(mValidLedger)
        /\ ~mAdvanceWork => Awaited(seqNo(mPubLedger) + Len(found))
    BY <1>0, <1>1, ListFacts
  <1>b. seqNo(mPubLedger) \in Nat /\ seqNo(mValidLedger) \in Nat
    BY <1>0, Running
  <1>c. /\ todo \in Seq(Ledger) /\ Len(todo) = n
        /\ \A i \in 1 .. n : todo[i] = found[i]
    <2>1. 1 \in Nat \ {0} /\ n \in Nat /\ n \in 1 - 1 .. Len(found)
      BY <1>1, <1>a
    <2>2. /\ SubSeq(found, 1, n) \in Seq(Ledger) /\ Len(SubSeq(found, 1, n)) = n - 1 + 1
          /\ \A i \in 1 .. n - 1 + 1 : SubSeq(found, 1, n)[i] = found[1 + i - 1]
      BY <1>a, <2>1, PartOf
    <2>3. n - 1 + 1 = n /\ \A i \in 1 .. n : 1 + i - 1 = i
      BY <2>1
    <2> QED
      BY <1>1, <2>2, <2>3
  <1>2. /\ todo \in Seq(Ledger)
        /\ \A i \in 1 .. Len(todo) : seqOf(todo[i]) = seqNo(mPubLedger) + i
        /\ seqNo(mPubLedger) + Len(todo) \in Nat
        /\ seqNo(mPubLedger) + Len(todo) <= seqNo(mValidLedger)
    <2>1. n \in Nat /\ n <= Len(found) /\ Len(found) \in Nat
      BY <1>1, <1>a
    <2>2. \A i \in 1 .. n : seqOf(todo[i]) = seqNo(mPubLedger) + i
      BY <1>a, <1>c, <2>1
    <2> QED
      BY <1>a, <1>b, <1>c, <2>1, <2>2
  <1>d. ~mAdvanceWork => Awaited(seqNo(mPubLedger) + Len(todo))'
    <2>1. seqNo(mPubLedger)' = seqNo(mPubLedger) /\ seqNo(mValidLedger)' = seqNo(mValidLedger)
      BY <1>0 DEF seqNo
    <2>2. CASE n = Len(found) /\ untold' = untold
      BY <1>0, <1>a, <1>c, <2>1, <2>2 DEF Awaited
    <2>3. CASE untold' = untold \cup cached
      BY <1>0, <2>3 DEF Awaited
    <2> QED
      BY <1>1, <2>2, <2>3
  <1>3. seqNo(mPubLedger)' = seqNo(mPubLedger) /\ seqNo(mValidLedger)' = seqNo(mValidLedger)
    BY <1>0 DEF seqNo
  <1>4. CASE todo = <<>> /\ EndTurn(adv, mAdvanceWork, FALSE)
    <2>1. Len(todo) = 0 /\ seqNo(mPubLedger)' + 0 = seqNo(mPubLedger)'
      BY <1>3, <1>4, <1>b
    <2>2. ~mAdvanceWork => Awaited(seqNo(mPubLedger))'
      BY <1>3, <1>b, <1>d, <2>1 DEF Awaited
    <2>3. mAdvanceWork \in BOOLEAN
      BY DEF Fields
    <2> QED
      BY <1>0, <1>3, <1>4, <2>2, <2>3, EndTurnStep, Running, Zenon
  <1>5. CASE /\ todo # <<>> /\ mAdvanceWork' = mAdvanceWork
             /\ adv' = [adv EXCEPT !.at = "full", !.ledger = Head(todo), !.todo = todo]
    <2>1. /\ adv'.at = "full" /\ adv'.ledger = Head(todo) /\ adv'.todo = todo
          /\ DOMAIN adv' = DOMAIN adv
      BY <1>5 DEF Fields
    <2>2. Len(todo) \in Nat \ {0}
      BY <1>2, <1>5, HeadAndTail
    <2>3. Fields'
      BY <1>0, <1>2, <1>5, <2>1 DEF Fields
    <2>4. Started'
      BY <1>0, <1>3, <2>1, Running DEF Started
    <2>5. Listed'
      BY <1>2, <1>3, <2>1 DEF Listed, Current
    <2>6. seqOf(todo[Len(todo)]) = seqNo(mPubLedger) + Len(todo)
      BY <1>2, <2>2
    <2>7. Informed'
      <3>1. (seqOf(adv.todo[Len(adv.todo)]))' = (seqNo(mPubLedger) + Len(todo))'
        BY <1>3, <2>1, <2>6 DEF seqOf
      <3>2. Current' /\ ~mAdvanceWork' => Awaited(seqOf(adv.todo[Len(adv.todo)]))'
        BY <1>5, <1>d, <3>1 DEF Awaited
      <3> QED
        BY <1>5, <2>1, <3>2 DEF Informed, Current
    <2>8. AdvanceIsNotLost'
      BY <2>1 DEF AdvanceIsNotLost
    <2> QED
      BY <2>3, <2>4, <2>5, <2>7, <2>8
  <1> QED
    BY <1>1, <1>4, <1>5, Zenon

(* The numbers of what is being published. *)
LEMMA TodoFacts ==
    ASSUME AdvanceInv, Current
    PROVE  /\ adv.at \in {"full", "save", "check", "publish"} /\ Len(adv.todo) \in Nat \ {0}
           /\ adv.ledger = adv.todo[1] /\ adv.ledger \in Ledger
           /\ seqOf(adv.ledger) \in Nat
           /\ seqOf(adv.ledger) \in {seqNo(mPubLedger), seqNo(mPubLedger) + 1}
           /\ seqOf(adv.ledger) <= seqNo(mValidLedger)
           /\ seqOf(adv.todo[Len(adv.todo)]) \in Nat
           /\ seqOf(adv.ledger) <= seqOf(adv.todo[Len(adv.todo)])
  <1> USE DEF AdvanceInv
  <1>1. adv.at \in {"full", "save", "check", "publish"} /\ adv.at # "off"
    BY DEF Listed, Current
  <1>2. /\ Len(adv.todo) \in Nat \ {0} /\ Head(adv.todo) = adv.todo[1]
        /\ Head(adv.todo) \in Ledger
    BY HeadAndTail DEF Fields, Current
  <1>3. adv.ledger = adv.todo[1] /\ adv.ledger \in Ledger /\ seqOf(adv.ledger) \in Nat
    BY <1>2, ChainFacts DEF Listed
  <1>4. CASE adv.todo = <<mPubLedger>>
    <2>1. Len(adv.todo) = 1 /\ adv.todo[1] = mPubLedger
      BY <1>4
    <2> QED
      BY <1>1, <1>2, <1>3, <2>1, Running
  <1>5. CASE /\ \A i \in 1 .. Len(adv.todo) : seqOf(adv.todo[i]) = seqNo(mPubLedger) + i
             /\ seqNo(mPubLedger) + Len(adv.todo) <= seqNo(mValidLedger)
    <2>1. /\ seqOf(adv.todo[1]) = seqNo(mPubLedger) + 1
          /\ seqOf(adv.todo[Len(adv.todo)]) = seqNo(mPubLedger) + Len(adv.todo)
      BY <1>2, <1>5
    <2> QED
      BY <1>1, <1>2, <1>3, <1>5, <2>1, Running
  <1> QED
    BY <1>4, <1>5 DEF Listed

(* A ledger that is made complete is in memory, if it is to be published:  *)
(* the one that comes after the list is another one.                       *)
LEMMA SetFullInv ==
    ASSUME AdvanceInv, SetFull \/ SetFullSave
    PROVE  AdvanceInv'
  <1> USE DEF AdvanceInv
  <1>0. /\ adv.at \in {"full", "save"} /\ UNCHANGED <<mValidLedger, mPubLedger, accepting, mAdvanceWork>>
        /\ arrived' = arrived /\ untold' = untold
        /\ cached' \in {cached, IF Current THEN cached \cup {adv.ledger} ELSE cached}
    BY DEF SetFull, SetFullSave, head
  <1>1. \E x \in {"save", "check"} : adv' = [adv EXCEPT !.at = x]
    BY DEF SetFull, SetFullSave
  <1>2. /\ adv'.at \in {"save", "check"} /\ adv'.ledger = adv.ledger /\ adv'.todo = adv.todo
        /\ DOMAIN adv' = DOMAIN adv
    BY <1>1 DEF Fields
  <1>3. Fields'
    BY <1>0, <1>2 DEF Fields
  <1>4. seqNo(mPubLedger)' = seqNo(mPubLedger) /\ seqNo(mValidLedger)' = seqNo(mValidLedger)
    BY <1>0 DEF seqNo
  <1>5. Started'
    BY <1>0, <1>2, <1>4 DEF Started
  <1>6. Listed'
    BY <1>0, <1>2, <1>4 DEF Listed, Current
  <1>7. ASSUME Current, ~mAdvanceWork PROVE Awaited(seqOf(adv.todo[Len(adv.todo)]))'
    <2>1. PICK n \in Nat : n = seqOf(adv.todo[Len(adv.todo)])
      BY <1>7, TodoFacts
    <2>2. Awaited(n) /\ seqOf(adv.ledger) <= n /\ seqOf(adv.ledger) \in Nat
      BY <1>7, <2>1, TodoFacts DEF Informed
    <2>3. ASSUME n < seqNo(mValidLedger)
          PROVE  hashOfSeq(mValidLedger, n + 1) # adv.ledger
      <3>1. n + 1 \in 1 .. seqOf(mValidLedger)
        <4>1. /\ mValidLedger \in Ledger /\ seqNo(mValidLedger) = seqOf(mValidLedger)
              /\ seqNo(mValidLedger) \in Nat
          BY <1>0, Running, Zenon
        <4> QED
          BY <2>3, <4>1
      <3>2. seqOf(hashOfSeq(mValidLedger, n + 1)) = n + 1
        BY <1>0, <3>1, Running, ChainFacts, Zenon
      <3> QED
        BY <2>2, <3>2
    <2>4. (seqOf(adv.todo[Len(adv.todo)]))' = n
      BY <1>2, <2>1 DEF seqOf
    <2>5. /\ n < seqNo(mValidLedger)' /\ hashOfSeq(mValidLedger, n + 1)' \in cached'
             => hashOfSeq(mValidLedger, n + 1)' \in arrived' \cup untold'
      BY <1>0, <1>4, <2>2, <2>3 DEF Awaited, hashOfSeq
    <2> QED
      BY <2>4, <2>5 DEF Awaited
  <1>8. Informed'
    BY <1>0, <1>2, <1>4, <1>7 DEF Informed, Current
  <1>9. AdvanceIsNotLost'
    BY <1>2 DEF AdvanceIsNotLost
  <1> QED
    BY <1>3, <1>5, <1>6, <1>8, <1>9

(* The previous ledger is looked at, and the history is one ledger longer. *)
LEMMA AfterSetFullInv ==
    ASSUME AdvanceInv, SetFullCheck \/ SetHist \/ StartFill
    PROVE  AdvanceInv'
  <1> USE DEF AdvanceInv
  <1>0. /\ adv.at \in {"check", "hist", "fill"}
        /\ UNCHANGED <<mValidLedger, mPubLedger, accepting, mAdvanceWork, cached, arrived, untold>>
    BY DEF SetFullCheck, SetHist, StartFill, head, outside
  <1>1. \E x \in {"publish", "hist", "fill", "end"} :
           adv' = [adv EXCEPT !.at = x] /\ (Current <=> x = "publish")
    BY DEF SetFullCheck, SetHist, StartFill, Listed, Current
  <1>2. /\ adv'.at \in {"publish", "hist", "fill", "end"} /\ (Current <=> adv'.at = "publish")
        /\ adv'.ledger = adv.ledger /\ adv'.todo = adv.todo /\ DOMAIN adv' = DOMAIN adv
    BY <1>1 DEF Fields
  <1>3. seqNo(mPubLedger)' = seqNo(mPubLedger) /\ seqNo(mValidLedger)' = seqNo(mValidLedger)
    BY <1>0 DEF seqNo
  <1>4. Fields'
    BY <1>0, <1>2 DEF Fields
  <1>5. Started'
    BY <1>0, <1>2, <1>3 DEF Started
  <1>6. Listed'
    BY <1>0, <1>2, <1>3 DEF Listed, Current
  <1>7. ~mAdvanceWork /\ ~Current => Awaited(seqNo(mPubLedger))'
    <2> SUFFICES ASSUME ~mAdvanceWork, ~Current PROVE Awaited(seqNo(mPubLedger))'
      OBVIOUS
    <2>1. seqNo(mValidLedger) = seqNo(mPubLedger)
      BY <1>0 DEF Informed
    <2>2. seqNo(mPubLedger) \in Nat
      <3>1. adv.at # "off"
        BY <1>0
      <3> QED
        BY <3>1, Running, Zenon
    <2>3. ~(seqNo(mPubLedger)' < seqNo(mValidLedger)')
      BY <1>3, <2>1, <2>2
    <2> QED
      BY <2>3, Zenon DEF Awaited
  <1>8. Current /\ ~mAdvanceWork => Awaited(seqOf(adv.todo[Len(adv.todo)]))'
    BY <1>0, <1>2, <1>3 DEF Informed, Awaited, seqOf
  <1>9. Informed'
    BY <1>0, <1>2, <1>3, <1>7, <1>8 DEF Informed, Current
  <1>10. AdvanceIsNotLost'
    BY <1>2 DEF AdvanceIsNotLost
  <1> QED
    BY <1>4, <1>5, <1>6, <1>9, <1>10

(* A ledger is published, the last of the list or not. *)
LEMMA PublishInv ==
    ASSUME AdvanceInv, Publish
    PROVE  AdvanceInv'
  <1> USE DEF AdvanceInv
  <1>0. /\ adv.at = "publish" /\ adv.at # "off" /\ mAdvanceWork \in BOOLEAN /\ Current
        /\ UNCHANGED <<mValidLedger, accepting, mAdvanceWork, cached, arrived, untold>>
        /\ mPubLedger' = adv.ledger
    BY DEF Publish, outside, Fields, Listed
  <1>1. seqNo(mValidLedger)' = seqNo(mValidLedger)
    BY <1>0 DEF seqNo
  <1>2. /\ adv.ledger = adv.todo[1] /\ adv.ledger \in Ledger /\ seqOf(adv.ledger) \in Nat
        /\ seqOf(adv.ledger) <= seqNo(mValidLedger)
    BY <1>0, TodoFacts
  <1>3. seqNo(mPubLedger)' = seqOf(adv.ledger)
    BY <1>0, <1>2, LedgerAdvanceAssumption DEF seqNo
  <1>4. /\ adv.todo \in Seq(Ledger) /\ adv.todo # <<>> /\ Len(adv.todo) \in Nat \ {0}
        /\ Tail(adv.todo) \in Seq(Ledger) /\ Len(Tail(adv.todo)) = Len(adv.todo) - 1
        /\ \A i \in 1 .. Len(adv.todo) - 1 : Tail(adv.todo)[i] = adv.todo[i + 1]
        /\ Tail(adv.todo) = <<>> <=> Len(adv.todo) = 1
    BY <1>0, HeadAndTail DEF Fields, Current
  <1>5. ~mAdvanceWork => Awaited(seqOf(adv.todo[Len(adv.todo)]))
    BY <1>0 DEF Informed
  <1>6. CASE Tail(adv.todo) = <<>>
    <2>1. adv'.at = "end" /\ adv'.todo = <<>> /\ DOMAIN adv' = DOMAIN adv
      BY <1>6 DEF Publish, Fields
    <2>2. Fields'
      BY <1>0, <1>2, <2>1 DEF Fields
    <2>3. Started'
      BY <1>0, <1>1, <1>2, <1>3, <2>1, Running, LedgerAdvanceAssumption, Zenon DEF Started
    <2>4. Listed'
      BY <2>1 DEF Listed, Current
    <2>5. ~mAdvanceWork => Awaited(seqOf(adv.ledger))
      BY <1>2, <1>4, <1>5, <1>6
    <2>6. ~mAdvanceWork => Awaited(seqNo(mPubLedger))'
      BY <1>0, <1>1, <1>3, <2>5 DEF Awaited
    <2>7. Informed'
      BY <1>0, <2>1, <2>6 DEF Informed, Current
    <2>8. AdvanceIsNotLost'
      BY <2>1 DEF AdvanceIsNotLost
    <2> QED
      BY <2>2, <2>3, <2>4, <2>7, <2>8
  <1>7. CASE /\ Tail(adv.todo) # <<>> /\ mAdvanceWork' = mAdvanceWork
             /\ adv' = [adv EXCEPT !.at = "full", !.todo = Tail(@), !.ledger = Head(Tail(adv.todo))]
    <2>1. /\ adv'.at = "full" /\ adv'.ledger = Head(Tail(adv.todo)) /\ adv'.todo = Tail(adv.todo)
          /\ DOMAIN adv' = DOMAIN adv
      BY <1>7 DEF Fields
    <2>2. Len(adv.todo) # 1 /\ adv.todo # <<mPubLedger>>
      BY <1>4, <1>7
    <2>3. /\ \A i \in 1 .. Len(adv.todo) : seqOf(adv.todo[i]) = seqNo(mPubLedger) + i
          /\ seqNo(mPubLedger) + Len(adv.todo) <= seqNo(mValidLedger)
          /\ seqNo(mPubLedger) \in Nat
      BY <1>0, <2>2, Running, Zenon DEF Listed
    <2>4. seqNo(mPubLedger)' = seqNo(mPubLedger) + 1
      BY <1>2, <1>3, <1>4, <2>3
    <2>5. \A i \in 1 .. Len(Tail(adv.todo)) :
             seqOf(Tail(adv.todo)[i]) = (seqNo(mPubLedger) + 1) + i
      <3>1. ASSUME NEW i \in 1 .. Len(Tail(adv.todo))
            PROVE  seqOf(Tail(adv.todo)[i]) = (seqNo(mPubLedger) + 1) + i
        <4>1. i + 1 \in 1 .. Len(adv.todo) /\ i \in 1 .. Len(adv.todo) - 1
          BY <1>4
        <4>2. seqOf(adv.todo[i + 1]) = seqNo(mPubLedger) + (i + 1)
          BY <2>3, <4>1
        <4>3. Tail(adv.todo)[i] = adv.todo[i + 1]
          BY <1>4, <4>1
        <4> QED
          BY <2>3, <4>1, <4>2, <4>3
      <3> QED
        BY <3>1
    <2>6. Fields'
      BY <1>0, <1>1, <1>2, <1>4, <1>7, <2>1 DEF Fields
    <2>7. Started'
      BY <1>0, <1>1, <1>1, <1>2, <1>3, <2>1, Running, LedgerAdvanceAssumption, Zenon DEF Started
    <2>8. Listed'
      <3>1. (seqNo(mPubLedger) + 1) + Len(Tail(adv.todo)) <= seqNo(mValidLedger)
        BY <1>4, <2>3
      <3> QED
        BY <1>1, <2>1, <2>4, <2>5, <3>1 DEF Listed, Current
    <2>9. Tail(adv.todo)[Len(Tail(adv.todo))] = adv.todo[Len(adv.todo)]
      BY <1>4, <2>2
    <2>10. Informed'
      BY <1>0, <1>1, <1>5, <1>7, <2>1, <2>9 DEF Informed, Current, Awaited
    <2>11. AdvanceIsNotLost'
      BY <2>1 DEF AdvanceIsNotLost
    <2> QED
      BY <2>6, <2>7, <2>8, <2>10, <2>11
  <1> QED
    BY <1>0, <1>6, <1>7, Zenon DEF Publish

(* The end of a turn that has made progress, and of one that has thrown. *)
LEMMA TurnEndsInv ==
    ASSUME AdvanceInv, TurnEnds \/ AdvanceThrows
    PROVE  AdvanceInv'
  <1> USE DEF AdvanceInv
  <1>1. CASE TurnEnds
    <2>1. /\ adv.at = "end" /\ EndTurn(adv, mAdvanceWork, TRUE) /\ mAdvanceWork \in BOOLEAN
          /\ UNCHANGED <<mValidLedger, mPubLedger, accepting, cached, arrived, untold>>
      BY <1>1, Zenon DEF TurnEnds, head, outside, Fields
    <2>2. seqNo(mPubLedger)' = seqNo(mPubLedger) /\ seqNo(mValidLedger)' = seqNo(mValidLedger)
      BY <2>1 DEF seqNo
    <2>3. ~mAdvanceWork => Awaited(seqNo(mPubLedger))'
      BY <2>1, <2>2 DEF Informed, Awaited
    <2> QED
      BY <2>1, <2>2, <2>3, EndTurnStep, Running, Zenon
  <1>2. CASE AdvanceThrows
    <2>1. /\ adv' = Off /\ untold' = untold \cup cached
          /\ UNCHANGED <<mValidLedger, mPubLedger, accepting, mAdvanceWork, cached, arrived>>
      BY <1>2 DEF AdvanceThrows, head
    <2>2. <<>> \in Seq(Ledger)
      OBVIOUS
    <2>3. Fields'
      BY <2>1, <2>2, Zenon DEF Fields, Off
    <2>4. Started'
      BY <2>1 DEF Started, Off, seqNo
    <2>5. Listed' /\ Informed'
      BY <2>1 DEF Listed, Informed, Current, Off
    <2>6. AdvanceIsNotLost'
      BY <2>1 DEF AdvanceIsNotLost
    <2> QED
      BY <2>3, <2>4, <2>5, <2>6
  <1> QED
    BY <1>1, <1>2

(* The invariant is kept by every step. *)
LEMMA StepInv == AdvanceInv /\ [Next]_vars => AdvanceInv'
  <1> SUFFICES ASSUME AdvanceInv, [Next]_vars PROVE AdvanceInv'
    OBVIOUS
  <1>1. CASE UNCHANGED vars
    BY <1>1, AsideStep DEF vars, head, job, outside
  <1>2. ASSUME Advance PROVE AdvanceInv'
    BY <1>2, FindInv, HistoryInv, FetchHistoryInv, WalkInv, SetFullInv, AfterSetFullInv,
       PublishInv, TurnEndsInv DEF Advance
  <1> QED
    BY <1>1, <1>2, AsideInv, CallInv, FirstInv, TurnEndsInv DEF Next

---------------------------------------------------------------------------
(* The theorems.                                                           *)

(* Every step of the ledger master is one of the stream's, or none. *)
LEMMA StreamStep ==
    ASSUME AdvanceInv, [Next]_vars
    PROVE  [Stream!StreamNext]_(Stream!streamVars)
  <1> USE DEF AdvanceInv, Stream!StreamNext, Stream!streamVars
  <1>0. /\ mValidLedger \in Ledger \cup {None} /\ mPubLedger \in Ledger \cup {None}
        /\ seqNo(mValidLedger) \in Nat /\ seqNo(mPubLedger) \in Nat
        /\ (seqNo(mPubLedger) = 0 <=> mPubLedger = None)
        /\ (seqNo(mValidLedger) = 0 <=> mValidLedger = None)
    BY Numbers DEF Fields
  <1>1. ASSUME UNCHANGED <<mValidLedger, mPubLedger>> PROVE [Stream!StreamNext]_(Stream!streamVars)
    BY <1>1 DEF seqNo
  <1>2. ASSUME NEW l \in Ledger, CheckAccept(l) \/ CheckAcceptFirst(l)
        PROVE  [Stream!StreamNext]_(Stream!streamVars)
    <2>1. /\ mValidLedger' = l /\ seqOf(l) > seqNo(mValidLedger) /\ mPubLedger' = mPubLedger
      BY <1>2 DEF CheckAccept, CheckAcceptFirst
    <2>2. seqNo(mValidLedger)' = seqOf(l) /\ seqOf(l) \in Nat
            /\ seqNo(mPubLedger)' = seqNo(mPubLedger)
      BY <2>1, ChainFacts, LedgerAdvanceAssumption DEF seqNo
    <2> QED
      BY <2>1, <2>2 DEF Stream!Validated
  <1>3. CASE FirstSaved
    <2>1. mPubLedger = None /\ mValidLedger # None /\ mPubLedger' = mValidLedger
            /\ mValidLedger' = mValidLedger
      BY <1>3 DEF FirstSaved, Started
    <2>2. seqNo(mPubLedger)' = seqNo(mValidLedger) /\ seqNo(mValidLedger)' = seqNo(mValidLedger)
      BY <2>1 DEF seqNo
    <2> QED
      BY <1>0, <2>1, <2>2 DEF Stream!PublishFirst
  <1>4. CASE FindGap
    <2>1. seqNo(mValidLedger) > seqNo(mPubLedger) + MaxLedgerGap
            /\ mPubLedger' = mValidLedger /\ mValidLedger' = mValidLedger
      BY <1>4 DEF FindGap
    <2>2. seqNo(mPubLedger)' = seqNo(mValidLedger) /\ seqNo(mValidLedger)' = seqNo(mValidLedger)
      BY <2>1 DEF seqNo
    <2> QED
      BY <2>1, <2>2 DEF Stream!SkipGap
  <1>5. CASE Publish
    <2>1. /\ mPubLedger' = adv.ledger /\ mValidLedger' = mValidLedger /\ adv.at # "off"
          /\ Current
      BY <1>5 DEF Publish, Listed
    <2>2. /\ adv.ledger \in Ledger /\ seqOf(adv.ledger) <= seqNo(mValidLedger)
          /\ seqOf(adv.ledger) \in {seqNo(mPubLedger), seqNo(mPubLedger) + 1}
      BY <2>1, TodoFacts
    <2>3. seqNo(mPubLedger)' = seqOf(adv.ledger) /\ seqNo(mValidLedger)' = seqNo(mValidLedger)
      BY <2>1, <2>2, LedgerAdvanceAssumption DEF seqNo
    <2>4. seqNo(mPubLedger) > 0
      BY <1>0, <2>1, Running
    <2> QED
      BY <1>0, <2>2, <2>3, <2>4 DEF Stream!PublishNext
  <1>6. CASE Crash
    BY <1>6 DEF Crash, Stream!Restart, seqNo
  <1>7. ASSUME NEW l \in Ledger, LoadLedger(l) PROVE [Stream!StreamNext]_(Stream!streamVars)
    <2>1. mValidLedger = None /\ mValidLedger' = l /\ mPubLedger' = l
      BY <1>7 DEF LoadLedger
    <2>2. seqNo(mValidLedger)' = seqOf(l) /\ seqNo(mPubLedger)' = seqOf(l)
            /\ seqOf(l) \in Nat /\ seqOf(l) > 0
      BY <2>1, ChainFacts, LedgerAdvanceAssumption DEF seqNo
    <2>3. seqNo(mValidLedger) = 0 /\ seqNo(mPubLedger) = 0
      BY <1>0, <2>1 DEF Started
    <2> QED
      BY <2>2, <2>3 DEF Stream!Load
  <1>8. CASE \/ UNCHANGED vars \/ OnTimer \/ FillRead \/ FillSet \/ AdvanceThrows
             \/ FindSome \/ Walk \/ FetchHistory \/ SetFull \/ SetFullSave \/ SetFullCheck
             \/ SetHist \/ StartFill \/ TurnEnds
             \/ \E inSync \in BOOLEAN : FindHistory(inSync)
             \/ \E l \in Ledger : \/ StoreLedger(l) \/ Arrive(l) \/ AcquisitionDone(l)
                                 \/ SaveEnds(l) \/ Evict(l)
             \/ \E s \in Seqs : Resave(s) \/ Unclean(s)
    <2>1. UNCHANGED <<mValidLedger, mPubLedger>>
      BY <1>8, Zenon DEF vars, head, OnTimer, FillRead, FillSet, AdvanceThrows, FindSome, Walk,
                  FetchHistory, SetFull, SetFullSave, SetFullCheck, SetHist, StartFill, TurnEnds,
                  FindHistory, StoreLedger, Arrive, AcquisitionDone, SaveEnds, Evict, Resave, Unclean
    <2> QED
      BY <1>1, <2>1
  <1> QED
    BY <1>2, <1>3, <1>4, <1>5, <1>6, <1>7, <1>8 DEF Next, Advance

(* The ledger master implements the published stream: subscribers see      *)
(* every validated ledger in turn, unless setPubLedger skips a gap larger  *)
(* than MAX_LEDGER_GAP, whatever doAdvance meets while it has no lock.     *)
THEOREM StreamImplemented == Spec => ImplementsPublishedStream
  <1>1. Init => Stream!StreamInit
    BY DEF Init, Stream!StreamInit, seqNo
  <1>2. Init => AdvanceInv
    BY InitInv
  <1>3. AdvanceInv /\ [Next]_vars => AdvanceInv'
    BY StepInv
  <1>4. AdvanceInv /\ [Next]_vars => [Stream!StreamNext]_(Stream!streamVars)
    BY StreamStep
  <1> QED
    BY <1>1, <1>2, <1>3, <1>4, PTL DEF Spec, ImplementsPublishedStream, Stream!StreamSpec

(* tryAdvance is never lost: a job that ends leaves no ledger in memory    *)
(* that could be published next, unless its AcquisitionDone is queued or   *)
(* nobody has called tryAdvance since it came or since a job has thrown.   *)
THEOREM AdvanceNeverLost == Spec => []AdvanceIsNotLost
  <1>1. Init => AdvanceInv
    BY InitInv
  <1>2. AdvanceInv /\ [Next]_vars => AdvanceInv'
    BY StepInv
  <1>3. AdvanceInv => AdvanceIsNotLost
    BY DEF AdvanceInv
  <1> QED
    BY <1>1, <1>2, <1>3, PTL DEF Spec

============================================================================
