------------------------ MODULE ConsensusPartsProofs ------------------------
(***************************************************************************)
(* The parts of consensus around the engine, for every value of their      *)
(* constants.  No fetch of a transaction set is forgotten half way, and    *)
(* none is given up that is asked for, for any number of sets, nodes,      *)
(* peers, rounds, calls, answers and fetches (TxSetAcquire).  Close times         *)
(* increase along the chain and the resolution stays one of the possible   *)
(* ones, for every set of proposed close times and every length of the     *)
(* chain (CloseTimeChain).  A dispute that is settled stays settled, for   *)
(* any servers and any times at which their timers fire (Avalanche).       *)
(***************************************************************************)
EXTENDS TxSetAcquire, CloseTimeChain, Avalanche, FiniteSetTheorems, TLAPS

(* The prover of the leaves that name none. *)
USE SMTT(30)
-----------------------------------------------------------------------------
(* The acquisition of transaction sets. *)

AcquireFields ==
    {"hash", "at", "have", "mTimeouts", "unasked", "mProgress", "done", "mPeers", "timer", "give"}

FetchTypes ==
    /\ DOMAIN acquire = Id /\ \A i \in Id : DOMAIN acquire[i] = AcquireFields
    /\ DOMAIN m_map = Hash
    /\ \A h \in Hash : /\ DOMAIN m_map[h] = {"mSeq", "mAcquire", "mSet", "there"}
                       /\ m_map[h].mAcquire \in Id \cup {None}
    /\ DOMAIN taking = {"id", "packet", "from"} /\ taking.id \in Id \cup {None}

(* What the container holds has been made: no entry refers to a fetch that *)
(* is still to come.                                                       *)
EntriesAreMade ==
    \A h \in Hash : m_map[h].mAcquire # None => acquire[m_map[h].mAcquire].at # "unused"

FetchInv == FetchTypes /\ EntriesAreMade /\ FetchGoesOn

(* Identities are positive. *)
LEMMA IdIsNotNone == None \notin Id
  BY TxSetAcquireAssumption DEF None, Id

(* The container starts empty. *)
LEMMA InitInv == Init => FetchInv
  BY IdIsNotNone DEF Init, FetchInv, FetchTypes, EntriesAreMade, FetchGoesOn, Unused, NoEntry,
     AcquireFields

(* What a part of TransactionAcquire may do to a fetch: it keeps its line  *)
(* and its timer, and it does not come back when it is done.               *)
GoesOn(a, b) ==
    /\ DOMAIN b = AcquireFields /\ b.at = a.at /\ b.timer = a.timer
    /\ isDone(a) => isDone(b)

(* trigger is such a part. *)
LEMMA TriggerGoesOn ==
    ASSUME NEW a, DOMAIN a = AcquireFields
    PROVE  GoesOn(a, trigger(a)) /\ trigger(a).mPeers = a.mPeers /\ trigger(a).have = a.have
  BY DEF GoesOn, trigger, isDone, AcquireFields

(* addPeers is. *)
LEMMA AddPeersGoesOn ==
    ASSUME NEW a, NEW q, DOMAIN a = AcquireFields
    PROVE  GoesOn(a, addPeers(a, q))
  BY TriggerGoesOn DEF GoesOn, addPeers, isDone, AcquireFields

(* takeNodes is. *)
LEMMA TakeNodesGoesOn ==
    ASSUME NEW a, NEW p, DOMAIN a = AcquireFields
    PROVE  GoesOn(a, takeNodes(a, p))
  <1>1. CASE isDone(a)
    BY <1>1 DEF GoesOn, takeNodes
  <1>2. CASE ~isDone(a)
    <2>1. PICK have : \/ takeNodes(a, p) = [a EXCEPT !.have = have]
                      \/ takeNodes(a, p) = [trigger([a EXCEPT !.have = have]) EXCEPT !.mProgress = TRUE]
      BY <1>2, Zenon DEF takeNodes
    <2> DEFINE b == [a EXCEPT !.have = have]
    <2>2. DOMAIN b = AcquireFields /\ b.at = a.at /\ b.timer = a.timer
      BY DEF AcquireFields
    <2>3. GoesOn(b, trigger(b))
      BY <2>2, TriggerGoesOn
    <2> HIDE DEF b
    <2> QED
      BY <1>2, <2>1, <2>2, <2>3 DEF GoesOn, AcquireFields, b
  <1> QED
    BY <1>1, <1>2

(* The two steps of a tick are. *)
LEMMA TickGoesOn ==
    ASSUME NEW a, NEW q, DOMAIN a = AcquireFields
    PROVE  GoesOn(a, Tick(a)) /\ GoesOn(a, onTimer(a, q))
  <1>1. GoesOn(a, Tick(a))
    BY DEF GoesOn, Tick, isDone, AcquireFields
  <1>2. GoesOn(a, onTimer(a, q))
    <2> DEFINE b == IF a.mTimeouts >= NormTimeouts THEN trigger(a) ELSE a
    <2>1. GoesOn(a, b)
      BY TriggerGoesOn DEF GoesOn
    <2>2. GoesOn(b, addPeers(b, q))
      BY <2>1, AddPeersGoesOn DEF GoesOn
    <2>3. GoesOn(a, [a EXCEPT !.done = "failed"])
      BY DEF GoesOn, isDone, AcquireFields
    <2>4. onTimer(a, q) \in {[a EXCEPT !.done = "failed"], b, addPeers(b, q)}
      BY DEF onTimer
    <2> HIDE DEF b
    <2> QED
      BY <2>1, <2>2, <2>3, <2>4, Zenon DEF GoesOn
  <1> QED
    BY <1>1, <1>2

(* A step on one fetch that keeps it going, or done, keeps the invariant.  *)
LEMMA FetchStep ==
    ASSUME FetchInv, NEW i \in Id, UNCHANGED m_map,
           DOMAIN acquire' = Id, DOMAIN acquire'[i] = AcquireFields,
           \A j \in Id \ {i} : acquire'[j] = acquire[j],
           acquire[i].at # "unused" => acquire'[i].at # "unused",
           (\E h \in Hash : m_map[h].mAcquire = i) =>
               \/ isDone(acquire'[i]) \/ acquire'[i].timer \in {"armed", "queued"}
               \/ ~isDone(acquire[i]) /\ acquire'[i].at = acquire[i].at
                    /\ acquire'[i].timer = acquire[i].timer,
           DOMAIN taking' = DOMAIN taking, taking'.id \in Id \cup {None}
    PROVE  FetchInv'
  <1>1. FetchTypes'
    BY DEF FetchInv, FetchTypes
  <1>2. EntriesAreMade'
    BY DEF FetchInv, EntriesAreMade, FetchTypes
  <1>3. FetchGoesOn'
    BY DEF FetchInv, FetchGoesOn, FetchTypes
  <1> QED
    BY <1>1, <1>2, <1>3 DEF FetchInv

(* init arms the timer. *)
LEMMA initInv ==
    ASSUME FetchInv, NEW i \in Id, init(i)
    PROVE  FetchInv'
  <1>1. PICK q : LET a == IF q = {} THEN acquire[i] ELSE addPeers(acquire[i], q)
                 IN  acquire' = [acquire EXCEPT ![i] = [a EXCEPT !.at = "live", !.timer = "armed"]]
    BY Zenon DEF init
  <1> DEFINE a == IF q = {} THEN acquire[i] ELSE addPeers(acquire[i], q)
  <1>2. DOMAIN a = AcquireFields
    BY AddPeersGoesOn DEF FetchInv, FetchTypes, GoesOn
  <1>3. acquire' = [acquire EXCEPT ![i] = [a EXCEPT !.at = "live", !.timer = "armed"]]
    BY <1>1
  <1> HIDE DEF a
  <1>4. /\ DOMAIN acquire' = Id /\ DOMAIN acquire'[i] = AcquireFields
        /\ \A j \in Id \ {i} : acquire'[j] = acquire[j]
        /\ acquire'[i].at = "live" /\ acquire'[i].timer = "armed"
    BY <1>2, <1>3 DEF FetchInv, FetchTypes, AcquireFields
  <1>5. UNCHANGED <<m_map, taking>>
    BY DEF init
  <1> QED
    BY <1>4, <1>5, FetchStep, Zenon DEF FetchInv, FetchTypes

(* A timer that expires posts the job of what the container holds. *)
LEMMA ExpireInv ==
    ASSUME FetchInv, NEW i \in Id, Expire(i)
    PROVE  FetchInv'
  <1>1. UNCHANGED <<m_map, taking>>
    BY DEF Expire
  <1>2. /\ DOMAIN acquire' = Id /\ DOMAIN acquire'[i] = AcquireFields
        /\ \A j \in Id \ {i} : acquire'[j] = acquire[j]
        /\ acquire'[i].at = acquire[i].at
        /\ acquire'[i].timer = IF Held(i) THEN "queued" ELSE "off"
    BY DEF FetchInv, FetchTypes, AcquireFields, Expire
  <1>3. (\E h \in Hash : m_map[h].mAcquire = i) => acquire'[i].timer = "queued"
    BY <1>2 DEF Held
  <1> QED
    BY <1>1, <1>2, <1>3, FetchStep, Zenon DEF FetchInv, FetchTypes

(* The job arms the timer again, unless the fetch is done. *)
LEMMA invokeOnTimerInv ==
    ASSUME FetchInv, NEW i \in Id, invokeOnTimer(i)
    PROVE  FetchInv'
  <1> DEFINE a == acquire[i]
  <1>1. UNCHANGED <<m_map, taking>>
    BY DEF invokeOnTimer
  <1>2. CASE isDone(a)
    <2>1. acquire' = [acquire EXCEPT ![i].timer = "off"]
      BY <1>2 DEF invokeOnTimer
    <2>2. /\ DOMAIN acquire' = Id /\ DOMAIN acquire'[i] = AcquireFields
          /\ \A j \in Id \ {i} : acquire'[j] = acquire[j]
          /\ acquire'[i].at = a.at /\ isDone(acquire'[i])
      BY <1>2, <2>1 DEF FetchInv, FetchTypes, AcquireFields, isDone
    <2> QED
      BY <1>1, <2>2, FetchStep, Zenon DEF FetchInv, FetchTypes
  <1>3. CASE ~isDone(a)
    <2>1. PICK q : acquire' = [acquire EXCEPT ![i] = Rearm(a, onTimer(Tick(a), q))]
      BY <1>3 DEF invokeOnTimer
    <2> DEFINE b == onTimer(Tick(a), q)
    <2>2. DOMAIN b = AcquireFields /\ b.at = a.at
      BY TickGoesOn DEF FetchInv, FetchTypes, GoesOn
    <2>3. acquire' = [acquire EXCEPT ![i] = Rearm(a, b)]
      BY <2>1
    <2> HIDE DEF b
    <2>4. /\ DOMAIN Rearm(a, b) = AcquireFields /\ Rearm(a, b).at = a.at
          /\ isDone(Rearm(a, b)) \/ Rearm(a, b).timer = "armed"
      BY <2>2 DEF Rearm, AcquireFields, isDone
    <2>5. /\ DOMAIN acquire' = Id /\ acquire'[i] = Rearm(a, b)
          /\ \A j \in Id \ {i} : acquire'[j] = acquire[j]
      BY <2>3 DEF FetchInv, FetchTypes
    <2> QED
      BY <1>1, <2>4, <2>5, FetchStep, ZenonT(40) DEF FetchInv, FetchTypes
  <1> QED
    BY <1>2, <1>3

(* Nodes are taken by the fetch that was looked up, dropped or not. *)
LEMMA TakeNodesInv ==
    ASSUME FetchInv, TakeNodes
    PROVE  FetchInv'
  <1> DEFINE i == taking.id
             b == takeNodes(acquire[i], taking.packet)
  <1>1. i \in Id /\ UNCHANGED m_map /\ DOMAIN taking' = DOMAIN taking /\ taking'.id = None
    BY Zenon DEF FetchInv, FetchTypes, TakeNodes
  <1>2. acquire' = [acquire EXCEPT ![i] = b]
    BY DEF TakeNodes
  <1>3. GoesOn(acquire[i], b)
    BY <1>1, TakeNodesGoesOn DEF FetchInv, FetchTypes
  <1> HIDE DEF b
  <1>4. /\ DOMAIN acquire' = Id /\ acquire'[i] = b
        /\ \A j \in Id \ {i} : acquire'[j] = acquire[j]
    BY <1>1, <1>2 DEF FetchInv, FetchTypes
  <1> QED
    BY <1>1, <1>3, <1>4, FetchStep, Zenon DEF FetchInv, FetchTypes, GoesOn

(* The job of a complete fetch, a set we made, a new round and a stop only *)
(* take fetches out of the container.                                      *)
LEMMA DropStep ==
    ASSUME FetchInv, UNCHANGED taking,
           DOMAIN acquire' = Id, \A i \in Id : GoesOn(acquire[i], acquire'[i]),
           DOMAIN m_map' = Hash,
           \A h \in Hash : /\ DOMAIN m_map'[h] = {"mSeq", "mAcquire", "mSet", "there"}
                           /\ m_map'[h].mAcquire \in {m_map[h].mAcquire, None}
    PROVE  FetchInv'
  <1>1. FetchTypes'
    BY DEF FetchInv, FetchTypes, GoesOn
  <1>2. EntriesAreMade'
    BY ZenonT(40) DEF FetchInv, EntriesAreMade, FetchTypes, GoesOn
  <1>3. FetchGoesOn'
    BY DEF FetchInv, FetchGoesOn, FetchTypes, GoesOn
  <1> QED
    BY <1>1, <1>2, <1>3 DEF FetchInv

(* giveSet leaves one entry without a fetch. *)
LEMMA giveSetType ==
    ASSUME FetchTypes, NEW h, giveSet(h)
    PROVE  /\ DOMAIN m_map' = Hash
           /\ \A g \in Hash : /\ DOMAIN m_map'[g] = {"mSeq", "mAcquire", "mSet", "there"}
                               /\ m_map'[g].mAcquire \in {m_map[g].mAcquire, None}
  BY DEF FetchTypes, giveSet

(* The job of a complete fetch. *)
LEMMA CompleteAcquireInv ==
    ASSUME FetchInv, NEW i \in Id, CompleteAcquire(i)
    PROVE  FetchInv'
  <1>1. DOMAIN acquire' = Id /\ \A j \in Id : GoesOn(acquire[j], acquire'[j])
    BY DEF FetchInv, FetchTypes, CompleteAcquire, GoesOn, isDone, AcquireFields
  <1> QED
    BY <1>1, giveSetType, DropStep DEF FetchInv, CompleteAcquire

(* The steps of the container that leave the fetches alone. *)
LEMMA ContainerInv ==
    ASSUME FetchInv,
           onStop \/ (\E h \in Hash : ShareSet(h)) \/ (\E round \in 1..MaxRound : newRound(round))
    PROVE  FetchInv'
  <1>1. \A i \in Id : GoesOn(acquire[i], acquire[i])
    BY DEF FetchInv, FetchTypes, GoesOn
  <1>2. CASE onStop
    BY <1>1, <1>2, DropStep, Zenon DEF FetchInv, FetchTypes, onStop, NoEntry
  <1>3. ASSUME NEW h \in Hash, ShareSet(h) PROVE FetchInv'
    BY <1>1, <1>3, giveSetType, DropStep, Zenon DEF FetchInv, FetchTypes, ShareSet
  <1>4. ASSUME NEW round \in 1..MaxRound, newRound(round) PROVE FetchInv'
    BY <1>1, <1>4, DropStep, Zenon DEF FetchInv, FetchTypes, newRound, NoEntry
  <1> QED
    BY <1>2, <1>3, <1>4

(* A call that finds an entry. *)
LEMMA GetSetFoundInv ==
    ASSUME FetchInv, NEW h \in Hash, GetSetFound(h)
    PROVE  FetchInv'
  <1>1. \A i \in Id : GoesOn(acquire[i], stillNeed(acquire[i])) /\ GoesOn(acquire[i], acquire[i])
    BY DEF FetchInv, FetchTypes, GoesOn, stillNeed, isDone, AcquireFields
  <1>2. DOMAIN acquire' = Id /\ \A i \in Id : GoesOn(acquire[i], acquire'[i])
    BY <1>1 DEF GetSetFound
  <1>3. /\ UNCHANGED taking /\ DOMAIN m_map' = Hash
        /\ \A g \in Hash : /\ DOMAIN m_map'[g] = {"mSeq", "mAcquire", "mSet", "there"}
                            /\ m_map'[g].mAcquire = m_map[g].mAcquire
    BY DEF FetchInv, FetchTypes, GetSetFound
  <1> QED
    BY <1>2, <1>3, DropStep

(* A call that makes a fetch, which goes on with init. *)
LEMMA GetSetNewInv ==
    ASSUME FetchInv, NEW h \in Hash, GetSetNew(h)
    PROVE  FetchInv'
  <1>1. PICK i \in Id :
          /\ acquire[i] = Unused
          /\ acquire' = [acquire EXCEPT ![i] = [@ EXCEPT !.hash = h, !.at = "init"]]
          /\ m_map' = [m_map EXCEPT ![h] = [mSeq |-> m_seq, mAcquire |-> i, mSet |-> FALSE,
                                            there |-> TRUE]]
    BY Zenon DEF GetSetNew
  <1>2. /\ DOMAIN acquire' = Id /\ DOMAIN acquire'[i] = AcquireFields /\ acquire'[i].at = "init"
        /\ acquire[i].at = "unused" /\ \A j \in Id \ {i} : acquire'[j] = acquire[j]
    BY <1>1 DEF FetchInv, FetchTypes, Unused, AcquireFields
  <1>3. /\ DOMAIN m_map' = Hash /\ DOMAIN m_map'[h] = {"mSeq", "mAcquire", "mSet", "there"}
        /\ m_map'[h].mAcquire = i /\ \A g \in Hash \ {h} : m_map'[g] = m_map[g]
    BY <1>1 DEF FetchInv, FetchTypes
  <1>4. \A g \in Hash : m_map[g].mAcquire # i
    BY <1>2, IdIsNotNone DEF FetchInv, EntriesAreMade
  <1>5. UNCHANGED taking
    BY DEF GetSetNew
  <1>6. FetchTypes'
    BY <1>2, <1>3, <1>5, ZenonT(40) DEF FetchInv, FetchTypes
  <1>7. EntriesAreMade'
    BY <1>2, <1>3, <1>4 DEF FetchInv, EntriesAreMade, FetchTypes
  <1>8. FetchGoesOn'
    BY <1>2, <1>3, <1>4 DEF FetchInv, FetchGoesOn, FetchTypes
  <1> QED
    BY <1>6, <1>7, <1>8 DEF FetchInv

(* A step that changes neither the entries nor the fetches. *)
LEMMA OutsideInv ==
    ASSUME FetchInv, UNCHANGED <<m_map, acquire>>,
           DOMAIN taking' = DOMAIN taking, taking'.id \in Id \cup {None}
    PROVE  FetchInv'
  BY Zenon DEF FetchInv, FetchTypes, EntriesAreMade, FetchGoesOn

(* Every step of the fetches, of the container and of the threads in them  *)
(* keeps the invariant.                                                    *)
LEMMA NextInv == FetchInv /\ [Next]_vars => FetchInv'
  <1> SUFFICES ASSUME FetchInv, [Next]_vars PROVE FetchInv'
    OBVIOUS
  <1>1. ASSUME NEW i \in Id, Timer(i) \/ CompleteAcquire(i) PROVE FetchInv'
    BY <1>1, initInv, ExpireInv, invokeOnTimerInv, CompleteAcquireInv DEF Timer
  <1>2. ASSUME NEW h \in Hash, GetSetFound(h) \/ GetSetNew(h) \/ ShareSet(h) PROVE FetchInv'
    BY <1>2, GetSetFoundInv, GetSetNewInv, ContainerInv
  <1>3. ASSUME NEW h \in Hash, NEW n \in Peer, NEW p \in Packet, GotData(h, n, p) PROVE FetchInv'
    BY <1>3, OutsideInv DEF FetchInv, FetchTypes, GotData
  <1>4. CASE UNCHANGED vars
    BY <1>4, OutsideInv DEF FetchInv, FetchTypes, vars
  <1> QED
    BY <1>1, <1>2, <1>3, <1>4, TakeNodesInv, ContainerInv DEF Next

(* A fetch that the container holds and that is not done has its timer     *)
(* armed, its job posted, or init still before it, so that the next        *)
(* time-out counts.                                                        *)
THEOREM FetchAlwaysGoesOn == Spec => []FetchGoesOn
  <1>1. FetchInv => FetchGoesOn
    BY DEF FetchInv
  <1> QED
    BY <1>1, InitInv, NextInv, PTL DEF Spec

(* The time-outs a fetch counts are no more than the ones it may have when *)
(* it is asked for and those since then; it fails of a sound tree only     *)
(* when they are past the limit.                                           *)
CountsTimeouts(a, malformed) ==
    /\ a.mTimeouts \in Nat /\ a.unasked \in Nat
    /\ ~isDone(a) => a.mTimeouts <= NormTimeouts + a.unasked
    /\ a.done = "failed" /\ a.hash \notin malformed => a.unasked > MaxTimeouts - NormTimeouts

CountInv ==
    /\ FetchTypes /\ DOMAIN env = {"calls", "packets", "rounds", "malformed"}
    /\ \A i \in Id : CountsTimeouts(acquire[i], env.malformed)

(* What the parts of TransactionAcquire that count nothing do to a fetch:  *)
(* they end it, if they do, with the set, or because the tree is not sound. *)
Uncounted(a, b) ==
    /\ b.hash = a.hash /\ b.mTimeouts = a.mTimeouts /\ b.unasked = a.unasked
    /\ \/ b.done = a.done \/ b.done = "complete"
       \/ b.done = "failed" /\ a.hash \in env.malformed
    /\ isDone(a) => b.done = a.done

(* Such a part keeps the count true. *)
LEMMA UncountedCounted ==
    ASSUME NEW a, NEW b, CountsTimeouts(a, env.malformed), Uncounted(a, b)
    PROVE  CountsTimeouts(b, env.malformed)
  BY DEF CountsTimeouts, Uncounted, isDone

(* trigger, addPeers and takeNodes are such parts. *)
LEMMA TriggerUncounted ==
    ASSUME NEW a, DOMAIN a = AcquireFields
    PROVE  Uncounted(a, trigger(a))
  BY DEF Uncounted, trigger, isDone, AcquireFields

LEMMA AddPeersUncounted ==
    ASSUME NEW a, NEW q, DOMAIN a = AcquireFields
    PROVE  Uncounted(a, addPeers(a, q))
  <1>1. DOMAIN trigger(a) = AcquireFields
    BY TriggerGoesOn DEF GoesOn
  <1> QED
    BY <1>1, TriggerUncounted DEF Uncounted, addPeers, AcquireFields

LEMMA TakeNodesUncounted ==
    ASSUME NEW a, NEW p, DOMAIN a = AcquireFields
    PROVE  Uncounted(a, takeNodes(a, p))
  <1>1. CASE isDone(a)
    BY <1>1 DEF Uncounted, takeNodes
  <1>2. CASE ~isDone(a)
    <2>1. PICK have : \/ takeNodes(a, p) = [a EXCEPT !.have = have]
                      \/ takeNodes(a, p) = [trigger([a EXCEPT !.have = have]) EXCEPT !.mProgress = TRUE]
      BY <1>2, Zenon DEF takeNodes
    <2> DEFINE b == [a EXCEPT !.have = have]
    <2>2. /\ DOMAIN b = AcquireFields /\ b.hash = a.hash /\ b.mTimeouts = a.mTimeouts
          /\ b.unasked = a.unasked /\ b.done = a.done
      BY DEF AcquireFields
    <2> HIDE DEF b
    <2>3. Uncounted(b, trigger(b)) /\ DOMAIN trigger(b) = AcquireFields
      BY <2>2, TriggerUncounted, TriggerGoesOn DEF GoesOn
    <2>4. CASE takeNodes(a, p) = b
      BY <1>2, <2>2, <2>4 DEF Uncounted
    <2>5. CASE takeNodes(a, p) = [trigger(b) EXCEPT !.mProgress = TRUE]
      BY <1>2, <2>2, <2>3, <2>5 DEF Uncounted, AcquireFields, isDone
    <2> QED
      BY <2>1, <2>4, <2>5 DEF b
  <1> QED
    BY <1>1, <1>2

(* A tick counts, on both sides, and onTimer gives up only past the limit. *)
LEMMA TickCounted ==
    ASSUME NEW a, NEW q, DOMAIN a = AcquireFields, CountsTimeouts(a, env.malformed), ~isDone(a)
    PROVE  CountsTimeouts(onTimer(Tick(a), q), env.malformed)
  <1> DEFINE t == Tick(a)
             b == IF t.mTimeouts >= NormTimeouts THEN trigger(t) ELSE t
  <1>1. /\ DOMAIN t = AcquireFields /\ ~isDone(t) /\ CountsTimeouts(t, env.malformed)
    BY TxSetAcquireAssumption DEF Tick, CountsTimeouts, isDone, AcquireFields
  <1> HIDE DEF t
  <1>2. CountsTimeouts(b, env.malformed) /\ DOMAIN b = AcquireFields
    BY <1>1, TriggerUncounted, UncountedCounted, TriggerGoesOn DEF GoesOn
  <1>3. CountsTimeouts(addPeers(b, q), env.malformed)
    <2> HIDE DEF b
    <2> QED
      BY <1>2, AddPeersUncounted, UncountedCounted
  <1>4. CASE t.mTimeouts > MaxTimeouts
    <2>1. /\ [t EXCEPT !.done = "failed"].mTimeouts = t.mTimeouts
          /\ [t EXCEPT !.done = "failed"].unasked = t.unasked
          /\ [t EXCEPT !.done = "failed"].done = "failed"
      BY <1>1 DEF AcquireFields
    <2>2. t.unasked > MaxTimeouts - NormTimeouts /\ t.mTimeouts \in Nat /\ t.unasked \in Nat
      BY <1>1, <1>4, TxSetAcquireAssumption DEF CountsTimeouts
    <2>3. CountsTimeouts([t EXCEPT !.done = "failed"], env.malformed)
      BY <2>1, <2>2, Zenon DEF CountsTimeouts, isDone
    <2> QED
      BY <1>4, <2>3 DEF onTimer, t
  <1>5. CASE ~(t.mTimeouts > MaxTimeouts)
    <2>1. onTimer(Tick(a), q) \in {b, addPeers(b, q)}
      BY <1>5 DEF onTimer, t
    <2> HIDE DEF b
    <2> QED
      BY <1>2, <1>3, <2>1
  <1> QED
    BY <1>4, <1>5

(* Every step keeps the counts true. *)
LEMMA NextCounted ==
    ASSUME FetchInv, DOMAIN env = {"calls", "packets", "rounds", "malformed"},
           \A i \in Id : CountsTimeouts(acquire[i], env.malformed), Next
    PROVE  /\ DOMAIN env' = {"calls", "packets", "rounds", "malformed"}
           /\ \A i \in Id : CountsTimeouts(acquire'[i], env'.malformed)
  <1>0. DOMAIN acquire = Id /\ \A i \in Id : DOMAIN acquire[i] = AcquireFields
    BY Zenon DEF FetchInv, FetchTypes
  <1>1. env'.malformed = env.malformed /\ DOMAIN env' = DOMAIN env
    <2>1. \/ UNCHANGED env \/ env' = [env EXCEPT !.calls = @ - 1]
          \/ env' = [env EXCEPT !.packets = @ - 1] \/ env' = [env EXCEPT !.rounds = @ - 1]
      BY Zenon DEF Next, Timer, init, Expire, invokeOnTimer, CompleteAcquire, TakeNodes, GetSetFound,
         GetSetNew, ShareSet, GotData, newRound, onStop
    <2> QED
      BY <2>1
  <1> SUFFICES ASSUME NEW k \in Id PROVE CountsTimeouts(acquire'[k], env.malformed)
    BY <1>1
  <1>2. ASSUME NEW j \in Id, init(j) PROVE Uncounted(acquire[k], acquire'[k])
    <2>1. PICK q : LET a == IF q = {} THEN acquire[j] ELSE addPeers(acquire[j], q)
                   IN  acquire' = [acquire EXCEPT ![j] = [a EXCEPT !.at = "live", !.timer = "armed"]]
      BY <1>2, Zenon DEF init
    <2> DEFINE a == IF q = {} THEN acquire[j] ELSE addPeers(acquire[j], q)
    <2>2. DOMAIN a = AcquireFields /\ Uncounted(acquire[j], a)
      <3>1. Uncounted(acquire[j], acquire[j])
        BY DEF Uncounted
      <3> QED
        BY <1>0, <3>1, AddPeersGoesOn, AddPeersUncounted DEF GoesOn
    <2>3. acquire' = [acquire EXCEPT ![j] = [a EXCEPT !.at = "live", !.timer = "armed"]]
      BY <2>1
    <2> HIDE DEF a
    <2> QED
      BY <1>0, <2>2, <2>3 DEF Uncounted, AcquireFields
  <1>3. ASSUME NEW j \in Id, Expire(j) \/ CompleteAcquire(j) PROVE Uncounted(acquire[k], acquire'[k])
    BY <1>0, <1>3 DEF Expire, CompleteAcquire, Uncounted, AcquireFields
  <1>4. ASSUME NEW j \in Id, invokeOnTimer(j) PROVE CountsTimeouts(acquire'[k], env.malformed)
    <2>1. CASE isDone(acquire[j])
      <3>1. acquire' = [acquire EXCEPT ![j].timer = "off"]
        BY <1>4, <2>1 DEF invokeOnTimer
      <3>2. Uncounted(acquire[k], acquire'[k])
        BY <1>0, <3>1 DEF Uncounted, AcquireFields
      <3> QED
        BY <3>2, UncountedCounted
    <2>2. CASE ~isDone(acquire[j])
      <3>1. PICK q : acquire' = [acquire EXCEPT ![j] = Rearm(acquire[j], onTimer(Tick(acquire[j]), q))]
        BY <1>4, <2>2 DEF invokeOnTimer
      <3> DEFINE b == onTimer(Tick(acquire[j]), q)
      <3>2. CountsTimeouts(b, env.malformed) /\ DOMAIN b = AcquireFields
        BY <1>0, <2>2, TickCounted, TickGoesOn DEF GoesOn
      <3>3. acquire'[k] = IF k = j THEN Rearm(acquire[j], b) ELSE acquire[k]
        BY <1>0, <3>1
      <3> HIDE DEF b
      <3>4. Uncounted(b, Rearm(acquire[j], b))
        BY <3>2 DEF Uncounted, Rearm, AcquireFields
      <3> QED
        BY <3>2, <3>3, <3>4, UncountedCounted
    <2> QED
      BY <2>1, <2>2
  <1>5. CASE TakeNodes
    <2> DEFINE b == takeNodes(acquire[taking.id], taking.packet)
    <2>1. taking.id \in Id /\ acquire' = [acquire EXCEPT ![taking.id] = b]
      BY <1>5, Zenon DEF FetchInv, FetchTypes, TakeNodes
    <2>2. Uncounted(acquire[taking.id], b)
      BY <1>0, <2>1, TakeNodesUncounted
    <2> HIDE DEF b
    <2>3. acquire'[k] = IF k = taking.id THEN b ELSE acquire[k]
      BY <1>0, <2>1
    <2> QED
      BY <2>1, <2>2, <2>3, UncountedCounted
  <1>6. ASSUME NEW h \in Hash, GetSetFound(h) PROVE CountsTimeouts(acquire'[k], env.malformed)
    <2>1. acquire'[k] \in {stillNeed(acquire[k]), acquire[k]}
      BY <1>6 DEF GetSetFound
    <2>2. CountsTimeouts(stillNeed(acquire[k]), env.malformed)
      BY <1>0, TxSetAcquireAssumption DEF stillNeed, CountsTimeouts, isDone, AcquireFields
    <2> QED
      BY <2>1, <2>2
  <1>7. ASSUME NEW h \in Hash, GetSetNew(h) PROVE CountsTimeouts(acquire'[k], env.malformed)
    <2>1. PICK i \in Id :
            /\ acquire[i] = Unused
            /\ acquire' = [acquire EXCEPT ![i] = [@ EXCEPT !.hash = h, !.at = "init"]]
      BY <1>7, Zenon DEF GetSetNew
    <2>2. CASE k = i
      <3>1. acquire'[k].mTimeouts = 0 /\ acquire'[k].unasked = 0 /\ acquire'[k].done = "no"
        BY <1>0, <2>1, <2>2 DEF Unused, AcquireFields
      <3> QED
        BY <3>1, TxSetAcquireAssumption DEF CountsTimeouts
    <2>3. CASE k # i
      BY <1>0, <2>1, <2>3
    <2> QED
      BY <2>2, <2>3
  <1>8. CASE onStop \/ (\E h \in Hash : ShareSet(h)) \/ (\E round \in 1..MaxRound : newRound(round))
             \/ (\E h \in Hash, n \in Peer, p \in Packet : GotData(h, n, p))
    BY <1>8 DEF onStop, ShareSet, newRound, GotData
  <1> QED
    BY <1>2, <1>3, <1>4, <1>5, <1>6, <1>7, <1>8, UncountedCounted DEF Next, Timer

(* However the timer's job, calls, packets and rounds interleave, a fetch  *)
(* of a sound set fails only when it has not been asked for during more    *)
(* than MAX - NORM time-outs.                                              *)
THEOREM NeededNeverGivenUp == Spec => []NeededIsNotGivenUp
  <1>1. Init => CountInv
    BY InitInv, TxSetAcquireAssumption DEF Init, FetchInv, CountInv, CountsTimeouts, Unused
  <1>2. FetchInv /\ FetchInv' /\ CountInv /\ [Next]_vars => CountInv'
    <2>1. ASSUME FetchInv, FetchInv', CountInv, Next PROVE CountInv'
      BY <2>1, NextCounted, Zenon DEF CountInv, FetchInv
    <2>2. ASSUME FetchInv', CountInv, UNCHANGED vars PROVE CountInv'
      BY <2>2, Zenon DEF CountInv, FetchInv, vars
    <2> QED
      BY <2>1, <2>2
  <1>3. CountInv => NeededIsNotGivenUp
    BY DEF CountInv, CountsTimeouts, NeededIsNotGivenUp
  <1> QED
    BY <1>1, <1>2, <1>3, InitInv, NextInv, PTL DEF Spec

-----------------------------------------------------------------------------
(* The chain of ledgers. *)

(* A resolution is a positive number of seconds. *)
LEMMA ResolutionValues == Resolutions = {10, 20, 30, 60, 90, 120}
BY DEF Resolutions, ledgerPossibleTimeResolutions

(* The next resolution is a possible one: getNextLedgerTimeResolution      *)
(* never steps off the list.                                               *)
LEMMA NextResolution ==
    ASSUME NEW r \in Resolutions, NEW agree \in BOOLEAN, NEW s \in Nat
    PROVE  getNextLedgerTimeResolution(r, agree, s) \in Resolutions
<1> DEFINE R == ledgerPossibleTimeResolutions
           i == CHOOSE k \in 1 .. 6 : R[k] = r
<1>1. \E k \in 1 .. 6 : R[k] = r
    BY DEF Resolutions
<1>2. i \in 1 .. 6 /\ R[i] = r
    BY <1>1
<1>3. \A k \in 1 .. 6 : R[k] \in Resolutions
    BY DEF Resolutions
<1> HIDE DEF i, R
<1>4. /\ i < 6 => R[i + 1] \in Resolutions
      /\ i > 1 => R[i - 1] \in Resolutions
    BY <1>2, <1>3
<1> QED
    <2>1. getNextLedgerTimeResolution(r, agree, s) =
             CASE ~agree /\ s % 1 = 0 /\ i < 6 -> R[i + 1]
               [] agree /\ s % 8 = 0 /\ i > 1 -> R[i - 1]
               [] OTHER -> r
        BY DEF getNextLedgerTimeResolution, i, R,
               decreaseLedgerTimeResolutionEvery,
               increaseLedgerTimeResolutionEvery
    <2> QED BY <2>1, <1>4

(* Rounding a close time yields a close time. *)
LEMMA RoundedTime ==
    ASSUME NEW t \in Nat, NEW r \in Resolutions
    PROVE  roundCloseTime(t, r) \in Nat
<1>1. r \in Nat /\ r > 0 /\ r \div 2 \in Nat
    BY ResolutionValues
<1>2. \A x \in Nat : x % r \in 0 .. x
    BY <1>1
<1> QED BY <1>1, <1>2 DEF roundCloseTime

(* The effective close time lies past the previous one. *)
LEMMA EffectiveTime ==
    ASSUME NEW t \in Nat \ {0}, NEW r \in Resolutions, NEW p \in Nat
    PROVE  /\ effectiveCloseTime(t, r, p) \in Nat
           /\ effectiveCloseTime(t, r, p) > p
<1>1. roundCloseTime(t, r) \in Nat
    BY RoundedTime
<1> QED BY <1>1 DEF effectiveCloseTime

ChainInv == TypeOK /\ CloseTimesIncrease

(* The genesis ledger satisfies the invariant. *)
LEMMA ChainBegins == ChainInit => ChainInv
BY ResolutionValues DEF ChainInit, ChainInv, TypeOK, CloseTimesIncrease

(* Closing a ledger, with or without agreement on its time, keeps it. *)
LEMMA ChainStep ==
    ASSUME ChainInv, [ChainNext]_chainVars
    PROVE  ChainInv'
<1> SUFFICES ASSUME TypeOK, CloseTimesIncrease, [ChainNext]_chainVars
             PROVE  TypeOK' /\ CloseTimesIncrease'
    BY DEF ChainInv
<1>0. closeResolution \in Resolutions
    BY NextResolution DEF closeResolution, TypeOK
<1>1. CASE AcceptDisagreed
    <2>1. closeTime' \in Nat /\ closeTime' > closeTime
        BY <1>1 DEF AcceptDisagreed, TypeOK
    <2>2. closeAgree' \in BOOLEAN
        BY <1>1, Zenon DEF AcceptDisagreed
    <2>3. /\ seq' \in Nat /\ resolution' \in Resolutions
          /\ parentClose' \in Nat /\ parentClose' = closeTime
        BY <1>0, <1>1 DEF AcceptDisagreed, TypeOK
    <2> QED BY <2>1, <2>2, <2>3 DEF TypeOK, CloseTimesIncrease
<1>2. ASSUME NEW t \in Times \ {0}, AcceptAgreed(t)
      PROVE  TypeOK' /\ CloseTimesIncrease'
    <2>1. t \in Nat \ {0}
        BY ChainAssumption
    <2>2. closeTime' \in Nat /\ closeTime' > closeTime
        BY <1>0, <1>2, <2>1, EffectiveTime DEF AcceptAgreed, TypeOK
    <2> QED BY <1>0, <1>2, <2>1, <2>2
            DEF AcceptAgreed, TypeOK, CloseTimesIncrease
<1>3. CASE UNCHANGED chainVars
    BY <1>3 DEF chainVars, TypeOK, CloseTimesIncrease
<1> QED BY <1>1, <1>2, <1>3 DEF ChainNext, AtBound

(* Along every chain the close time of a ledger is later than its          *)
(* parent's, and every resolution is one of the list.                      *)
THEOREM CloseTimesAlwaysIncrease ==
    ChainSpec => [](TypeOK /\ CloseTimesIncrease)
<1>1. ChainInv => TypeOK /\ CloseTimesIncrease
    BY DEF ChainInv
<1>2. ChainInv /\ [ChainNext]_chainVars => ChainInv'
    BY ChainStep
<1> QED BY ChainBegins, <1>1, <1>2, PTL DEF ChainSpec

Between(a, b) == {r \in Resolutions : (a < r /\ r < b) \/ (b < r /\ r < a)}

(* Neighbours in the list of resolutions have none between them. *)
LEMMA Neighbours ==
    ASSUME NEW k \in 1 .. 5
    PROVE  LET R == ledgerPossibleTimeResolutions
           IN  /\ R[k] < R[k + 1]
               /\ Between(R[k], R[k + 1]) = {} /\ Between(R[k + 1], R[k]) = {}
<1>1. k \in {1, 2, 3, 4, 5}
    OBVIOUS
<1> QED
    BY <1>1, ResolutionValues DEF ledgerPossibleTimeResolutions, Between

(* getNextLedgerTimeResolution moves by one notch or not at all: coarser   *)
(* without agreement, finer with it and only for every eighth ledger.      *)
LEMMA ResolutionMove ==
    ASSUME NEW r \in Resolutions, NEW agree \in BOOLEAN, NEW s \in Nat,
           NEW q, q = getNextLedgerTimeResolution(r, agree, s)
    PROVE  /\ q > r => ~agree
           /\ q < r => agree /\ s % 8 = 0
           /\ Between(r, q) = {}
<1> DEFINE R == ledgerPossibleTimeResolutions
           i == CHOOSE k \in 1 .. 6 : R[k] = r
<1>1. \E k \in 1 .. 6 : R[k] = r
    BY DEF Resolutions
<1>2. i \in 1 .. 6 /\ R[i] = r
    BY <1>1
<1>3. q = CASE ~agree /\ s % 1 = 0 /\ i < 6 -> R[i + 1]
            [] agree /\ s % 8 = 0 /\ i > 1 -> R[i - 1]
            [] OTHER -> r
    BY DEF getNextLedgerTimeResolution, decreaseLedgerTimeResolutionEvery,
           increaseLedgerTimeResolutionEvery
<1>4. \A k \in 1 .. 5 : /\ R[k] < R[k + 1]
                       /\ Between(R[k], R[k + 1]) = {}
                       /\ Between(R[k + 1], R[k]) = {}
    BY Neighbours
<1>5. \A k \in 1 .. 6 : R[k] \in Nat
    BY DEF ledgerPossibleTimeResolutions
<1>6. Between(r, r) = {}
    BY ResolutionValues DEF Between
<1> HIDE DEF i, R
<1>7. CASE ~agree /\ s % 1 = 0 /\ i < 6
    <2>1. q = R[i + 1] /\ i \in 1 .. 5 /\ i + 1 \in 1 .. 6
        BY <1>2, <1>3, <1>7
    <2>2. r = R[i] /\ r < q /\ q \in Nat /\ r \in Nat
        BY <1>2, <1>4, <1>5, <2>1
    <2>3. Between(r, q) = {}
        BY <1>4, <2>1, <2>2, Zenon
    <2>4. ~(q < r)
        BY <2>2
    <2> QED BY <1>7, <2>3, <2>4, Zenon
<1>8. CASE agree /\ s % 8 = 0 /\ i > 1
    <2>1. PICK k \in 1 .. 5 : i = k + 1
        BY <1>2, <1>8
    <2>2. q = R[k]
        BY <1>3, <1>8, <2>1
    <2>3. r = R[k + 1] /\ q < r /\ q \in Nat /\ r \in Nat
        BY <1>2, <1>4, <1>5, <2>1, <2>2
    <2>4. Between(r, q) = {}
        BY <1>4, <2>2, <2>3, Zenon
    <2>5. ~(q > r)
        BY <2>3
    <2> QED BY <1>8, <2>4, <2>5, Zenon
<1>9. CASE ~(~agree /\ s % 1 = 0 /\ i < 6) /\ ~(agree /\ s % 8 = 0 /\ i > 1)
    <2>1. q = r /\ r \in Nat
        BY <1>3, <1>9, <1>2, <1>5
    <2> QED BY <2>1, <1>6
<1> QED BY <1>7, <1>8, <1>9

(* Along every chain the resolution follows what the last ledger agreed    *)
(* on: startRound never makes it coarser after an agreement, never finer   *)
(* after a disagreement or out of turn, and never skips a notch.           *)
THEOREM ResolutionAlwaysFollows ==
    ChainSpec => ResolutionFollowsAgreement
<1> DEFINE Follows ==
      /\ resolution' > resolution => ~closeAgree
      /\ resolution' < resolution => closeAgree /\ seq' % 8 = 0
      /\ ~\E r \in Resolutions :
             \/ resolution < r /\ r < resolution'
             \/ resolution' < r /\ r < resolution
<1>1. ChainInv /\ [ChainNext]_chainVars => [Follows]_chainVars
    <2> SUFFICES ASSUME ChainInv, ChainNext PROVE Follows \/ UNCHANGED chainVars
        OBVIOUS
    <2>1. CASE AtBound
        BY <2>1 DEF AtBound
    <2>2. CASE AcceptDisagreed \/ \E t \in Times \ {0} : AcceptAgreed(t)
        <3>1. /\ resolution' = getNextLedgerTimeResolution(resolution,
                                                           closeAgree, seq')
              /\ seq' \in Nat
            BY <2>2 DEF AcceptDisagreed, AcceptAgreed, closeResolution, ChainInv,
                        TypeOK
        <3>2. resolution \in Resolutions /\ closeAgree \in BOOLEAN
            BY DEF ChainInv, TypeOK
        <3>3. /\ resolution' > resolution => ~closeAgree
              /\ resolution' < resolution => closeAgree /\ seq' % 8 = 0
              /\ Between(resolution, resolution') = {}
            BY <3>1, <3>2, ResolutionMove, Zenon
        <3> QED BY <3>3 DEF Between
    <2> QED BY <2>1, <2>2 DEF ChainNext
<1>2. ChainInv /\ [ChainNext]_chainVars => ChainInv'
    BY ChainStep
<1> QED
    BY ChainBegins, <1>1, <1>2, PTL DEF ChainSpec, ResolutionFollowsAgreement
-----------------------------------------------------------------------------
(* The avalanche.  The counters of a DisputedTx are those of its votes,    *)
(* which is why updateVote recognises unanimity.                           *)

(* The votes of a dispute are those of some of the peers in P, and counted. *)
Counted(d, P) ==
    /\ d \in [ourVote : BOOLEAN, yays : Nat, nays : Nat,
               votes : UNION {[Q -> BOOLEAN] : Q \in SUBSET P}]
    /\ d.yays = Cardinality({p \in DOMAIN d.votes : d.votes[p]})
    /\ d.nays = Cardinality({p \in DOMAIN d.votes : ~d.votes[p]})

(* A dispute is counted when its counters are those of its votes. *)
LEMMA CountedFields ==
  ASSUME NEW P, NEW d, NEW V \in SUBSET P, NEW f \in [V -> BOOLEAN], NEW o \in BOOLEAN,
         NEW y, NEW n, IsFiniteSet(P),
         d = [ourVote |-> o, yays |-> y, nays |-> n, votes |-> f],
         y = Cardinality({p \in V : f[p]}), n = Cardinality({p \in V : ~f[p]})
  PROVE  Counted(d, P)
  <1>1. IsFiniteSet({p \in V : f[p]}) /\ IsFiniteSet({p \in V : ~f[p]})
    BY FS_Subset
  <1>2. y \in Nat /\ n \in Nat
    BY <1>1, FS_CardinalityType
  <1>3. d.ourVote = o /\ d.yays = y /\ d.nays = n /\ d.votes = f /\ DOMAIN f = V
    OBVIOUS
  <1>4. f \in UNION {[Q -> BOOLEAN] : Q \in SUBSET P}
    OBVIOUS
  <1>5. d \in [ourVote : BOOLEAN, yays : Nat, nays : Nat,
               votes : UNION {[Q -> BOOLEAN] : Q \in SUBSET P}]
    BY <1>2, <1>4
  <1> QED
    BY <1>3, <1>5, Zenon DEF Counted

(* The fields of a counted dispute. *)
LEMMA CountedType ==
  ASSUME NEW P, NEW d, Counted(d, P), IsFiniteSet(P)
  PROVE  /\ d.ourVote \in BOOLEAN /\ d.yays \in Nat /\ d.nays \in Nat
         /\ d.votes \in [DOMAIN d.votes -> BOOLEAN] /\ DOMAIN d.votes \subseteq P
         /\ IsFiniteSet(DOMAIN d.votes)
         /\ d = [ourVote |-> d.ourVote, yays |-> d.yays, nays |-> d.nays,
                 votes |-> d.votes]
  <1>1. d \in [ourVote : BOOLEAN, yays : Nat, nays : Nat,
               votes : UNION {[Q -> BOOLEAN] : Q \in SUBSET P}]
    BY DEF Counted
  <1>2. PICK Q \in SUBSET P : d.votes \in [Q -> BOOLEAN]
    BY <1>1
  <1>3. IsFiniteSet(Q)
    BY FS_Subset
  <1> QED
    BY <1>1, <1>2, <1>3

(* setVote counts the votes it sets. *)
LEMMA SetVotesCounts ==
  ASSUME NEW P, IsFiniteSet(P), NEW d, Counted(d, P), NEW peers \in SUBSET P,
         NEW b \in BOOLEAN
  PROVE  /\ Counted(setVotes(d, peers, b), P)
         /\ setVotes(d, peers, b).ourVote = d.ourVote
  <1> DEFINE V == DOMAIN d.votes
             f == d.votes
             g == [p \in V \cup peers |-> IF p \in peers THEN b ELSE f[p]]
             Y == {p \in V : f[p]}
             N == {p \in V : ~f[p]}
             moved == {p \in peers : p \notin V \/ f[p] # b}
             Y2 == {p \in V \cup peers : g[p]}
             N2 == {p \in V \cup peers : ~g[p]}
             y == IF b THEN d.yays + Cardinality(moved)
                  ELSE d.yays - Cardinality(moved \cap V)
             n == IF b THEN d.nays - Cardinality(moved \cap V)
                  ELSE d.nays + Cardinality(moved)
             r == setVotes(d, peers, b)
  <1>1. /\ d = [ourVote |-> d.ourVote, yays |-> d.yays, nays |-> d.nays, votes |-> f]
        /\ f \in [V -> BOOLEAN] /\ V \subseteq P /\ IsFiniteSet(V)
        /\ d.ourVote \in BOOLEAN
    BY CountedType
  <1>2. r = [ourVote |-> d.ourVote, yays |-> y, nays |-> n, votes |-> g]
    <2>1. r = [d EXCEPT !.votes = g, !.yays = y, !.nays = n]
      BY DEF setVotes
    <2> HIDE DEF r, g, y, n, f
    <2> QED BY <1>1, <2>1, Zenon
  <1>3. /\ IsFiniteSet(Y) /\ IsFiniteSet(N) /\ IsFiniteSet(moved)
        /\ IsFiniteSet(moved \cap V)
    <2>1. Y \subseteq P /\ N \subseteq P /\ moved \subseteq P /\ moved \cap V \subseteq P
      BY <1>1
    <2> HIDE DEF Y, N, moved, V
    <2> QED BY <2>1, FS_Subset
  <1>4. /\ Cardinality(Y) \in Nat /\ Cardinality(N) \in Nat
        /\ Cardinality(moved) \in Nat /\ Cardinality(moved \cap V) \in Nat
        /\ d.yays = Cardinality(Y) /\ d.nays = Cardinality(N)
    BY <1>3, FS_CardinalityType, Zenon DEF Counted
  <1>5. g \in [V \cup peers -> BOOLEAN] /\ V \cup peers \subseteq P
    BY <1>1
  <1>6. y = Cardinality(Y2) /\ n = Cardinality(N2)
    <2>1. CASE b
      <3>1. /\ Y2 = Y \cup moved /\ Y \cap moved = {}
            /\ N2 = N \ (moved \cap V) /\ N \cap (moved \cap V) = moved \cap V
        BY <1>1, <2>1, Zenon
      <3>2. y = d.yays + Cardinality(moved) /\ n = d.nays - Cardinality(moved \cap V)
        BY <2>1
      <3> HIDE DEF Y, N, moved, V, Y2, N2, y, n
      <3>3. Cardinality(Y \cup moved) = Cardinality(Y) + Cardinality(moved) - Cardinality(Y \cap moved)
        BY <1>3, FS_Union
      <3>4. Cardinality(N \ (moved \cap V)) = Cardinality(N) - Cardinality(N \cap (moved \cap V))
        BY <1>3, FS_Difference, Zenon
      <3>5. Cardinality(Y \cap moved) = 0
        BY <3>1, FS_EmptySet
      <3>6. /\ Cardinality(Y2) = Cardinality(Y) + Cardinality(moved) - 0
            /\ Cardinality(N2) = Cardinality(N) - Cardinality(moved \cap V)
        BY <3>1, <3>3, <3>4, <3>5, Zenon
      <3> QED BY <1>4, <3>2, <3>6
    <2>2. CASE ~b
      <3>1. /\ N2 = N \cup moved /\ N \cap moved = {}
            /\ Y2 = Y \ (moved \cap V) /\ Y \cap (moved \cap V) = moved \cap V
        BY <1>1, <2>2
      <3>2. y = d.yays - Cardinality(moved \cap V) /\ n = d.nays + Cardinality(moved)
        BY <2>2
      <3> HIDE DEF Y, N, moved, V, Y2, N2, y, n
      <3>3. Cardinality(N \cup moved) = Cardinality(N) + Cardinality(moved) - Cardinality(N \cap moved)
        BY <1>3, FS_Union
      <3>4. Cardinality(Y \ (moved \cap V)) = Cardinality(Y) - Cardinality(Y \cap (moved \cap V))
        BY <1>3, FS_Difference, Zenon
      <3>5. Cardinality(N \cap moved) = 0
        BY <3>1, FS_EmptySet
      <3>6. /\ Cardinality(N2) = Cardinality(N) + Cardinality(moved) - 0
            /\ Cardinality(Y2) = Cardinality(Y) - Cardinality(moved \cap V)
        BY <3>1, <3>3, <3>4, <3>5, Zenon
      <3> QED BY <1>4, <3>2, <3>6
    <2> QED BY <2>1, <2>2, ZenonT(40)
  <1>7. Counted(r, P)
    <2>1. y = Cardinality({p \in V \cup peers : g[p]})
          /\ n = Cardinality({p \in V \cup peers : ~g[p]})
      BY <1>6, ZenonT(40)
    <2> DEFINE W == V \cup peers
    <2> HIDE DEF g, y, n, r, V, f
    <2> QED BY <1>1, <1>2, <1>5, <2>1, CountedFields, Zenon
  <1> QED
    BY <1>2, <1>7

(* A new dispute has no votes. *)
LEMMA NewDisputeCounts ==
  ASSUME NEW P, IsFiniteSet(P), NEW o \in BOOLEAN
  PROVE  Counted(NewDispute(o), P) /\ NewDispute(o).ourVote = o
  <1>1. NewDispute(o) = [ourVote |-> o, yays |-> 0, nays |-> 0, votes |-> <<>>]
    BY DEF NewDispute
  <1>2. <<>> \in [{} -> BOOLEAN] /\ {} \in SUBSET P
    OBVIOUS
  <1>3. Cardinality({p \in {} : <<>>[p]}) = 0 /\ Cardinality({p \in {} : ~<<>>[p]}) = 0
    <2>1. {p \in {} : <<>>[p]} = {} /\ {p \in {} : ~<<>>[p]} = {}
      OBVIOUS
    <2> QED BY <2>1, FS_EmptySet, Zenon
  <1>4. Counted(NewDispute(o), P)
    BY <1>1, <1>2, <1>3, CountedFields, Zenon
  <1> QED
    BY <1>1, <1>4

(* updateVote leaves the votes heard alone. *)
LEMMA UpdateVoteCounts ==
  ASSUME NEW P, IsFiniteSet(P), NEW d, Counted(d, P), NEW percent
  PROVE  LET r == updateVote(d, percent, TRUE)
         IN  /\ Counted(r, P) /\ r.votes = d.votes
             /\ r.ourVote = updatedVote(d, percent, TRUE)
  <1> DEFINE u == updatedVote(d, percent, TRUE)
             r == updateVote(d, percent, TRUE)
             V == DOMAIN d.votes
             f == d.votes
  <1>1. /\ d = [ourVote |-> d.ourVote, yays |-> d.yays, nays |-> d.nays, votes |-> f]
        /\ f \in [V -> BOOLEAN] /\ V \subseteq P
    BY CountedType
  <1>2. u \in BOOLEAN
    <2> DEFINE heavy == weightOf(d) > neededWeight(percent)
    <2>1. heavy \in BOOLEAN
      OBVIOUS
    <2>2. CASE d.ourVote /\ d.nays = 0
      BY <2>2 DEF updatedVote
    <2>3. CASE ~d.ourVote /\ d.yays = 0
      BY <2>3 DEF updatedVote
    <2>4. CASE ~(d.ourVote /\ d.nays = 0) /\ ~(~d.ourVote /\ d.yays = 0)
      <3>1. u = heavy
        BY <2>4, Zenon DEF updatedVote
      <3> HIDE DEF u, heavy
      <3> QED BY <2>1, <3>1, Zenon
    <2> QED BY <2>2, <2>3, <2>4, Zenon
  <1>3. r = [d EXCEPT !.ourVote = u]
    BY DEF updateVote
  <1>4. /\ d.yays = Cardinality({p \in V : f[p]})
        /\ d.nays = Cardinality({p \in V : ~f[p]})
    BY DEF Counted
  <1> HIDE DEF u, r, V, f
  <1>5. r = [ourVote |-> u, yays |-> d.yays, nays |-> d.nays, votes |-> f]
    BY <1>1, <1>3
  <1>6. Counted(r, P)
    BY <1>1, <1>2, <1>4, <1>5, CountedFields, Zenon
  <1>7. r.votes = f /\ r.ourVote = u
    BY <1>5
  <1> QED BY <1>6, <1>7, Zenon DEF r, u, f

(* Unanimity changes no vote: when the peers heard all vote as we do, the  *)
(* counter of the others is zero.                                          *)
LEMMA UnanimousVote ==
  ASSUME NEW P, IsFiniteSet(P), NEW d, Counted(d, P), NEW percent,
         \A p \in DOMAIN d.votes : d.votes[p] = d.ourVote
  PROVE  updatedVote(d, percent, TRUE) = d.ourVote
  <1>1. d.ourVote \in BOOLEAN
    BY CountedType
  <1>2. CASE d.ourVote
    <2>1. {p \in DOMAIN d.votes : ~d.votes[p]} = {}
      BY <1>2, Zenon
    <2>2. d.nays = 0
      BY <2>1, FS_EmptySet, Zenon DEF Counted
    <2> QED BY <1>1, <1>2, <2>2 DEF updatedVote
  <1>3. CASE ~d.ourVote
    <2>1. {p \in DOMAIN d.votes : d.votes[p]} = {}
      BY <1>3, Zenon
    <2>2. d.yays = 0
      BY <2>1, FS_EmptySet, Zenon DEF Counted
    <2> QED BY <1>1, <1>3, <2>2, Zenon DEF updatedVote
  <1> QED BY <1>2, <1>3, Zenon

(* The inductive invariant: each server's dispute is counted. *)
AllCounted ==
    /\ dispute = [n \in Nodes |-> dispute[n]]
    /\ \A n \in Nodes : Counted(dispute[n], Nodes)

(* The servers begin with no vote heard. *)
LEMMA VotesBegin ==
  ASSUME IsFiniteSet(Nodes), AvalancheInit
  PROVE  AllCounted
  <1>1. PICK v \in [Nodes -> BOOLEAN] :
           dispute = [n \in Nodes |-> NewDispute(v[n])]
    BY Zenon DEF AvalancheInit
  <1>2. ASSUME NEW n \in Nodes PROVE Counted(dispute[n], Nodes)
    <2>1. dispute[n] = NewDispute(v[n]) /\ v[n] \in BOOLEAN
      BY <1>1
    <2> QED BY <2>1, NewDisputeCounts, Zenon
  <1> QED BY <1>1, <1>2 DEF AllCounted

(* A server that counts the vote it hears from a peer. *)
LEMMA PeerPositionStep ==
  ASSUME IsFiniteSet(Nodes), AllCounted, NEW n \in Nodes, NEW p \in Nodes,
         PeerPosition(n, p)
  PROVE  AllCounted' /\ (Settled => Settled')
  <1> DEFINE d == dispute[n]
             b == dispute[p].ourVote
             r == setVotes(d, {p}, b)
  <1>1. Counted(d, Nodes) /\ b \in BOOLEAN
    BY CountedType, Zenon DEF AllCounted
  <1>2. Counted(r, Nodes) /\ r.ourVote = d.ourVote
    BY <1>1, SetVotesCounts
  <1>3. DOMAIN dispute = Nodes
    BY DEF AllCounted
  <1>4. dispute' = [dispute EXCEPT ![n] = r]
    BY Zenon DEF PeerPosition, setVote
  <1>5. /\ dispute' = [m \in Nodes |-> dispute'[m]]
        /\ dispute'[n] = r /\ \A m \in Nodes \ {n} : dispute'[m] = dispute[m]
    BY <1>3, <1>4, Zenon
  <1>6. /\ DOMAIN r.votes = DOMAIN d.votes \cup {p}
        /\ r.votes[p] = b
        /\ \A q \in DOMAIN d.votes \ {p} : r.votes[q] = d.votes[q]
    <2>1. d = [ourVote |-> d.ourVote, yays |-> d.yays, nays |-> d.nays, votes |-> d.votes]
      BY <1>1, CountedType
    <2>2. r.votes = [q \in DOMAIN d.votes \cup {p} |-> IF q \in {p} THEN b ELSE d.votes[q]]
      BY <2>1 DEF setVotes
    <2> HIDE DEF r, d, b
    <2> QED BY <2>2, Zenon
  <1>7. AllCounted'
    <2>1. \A m \in Nodes : Counted(dispute'[m], Nodes)
      <3> HIDE DEF r, d, b
      <3> QED BY <1>2, <1>5, Zenon DEF AllCounted
    <2> QED BY <1>5, <2>1, Zenon DEF AllCounted
  <1>8. ASSUME Settled PROVE Settled'
    <2>1. PICK v \in BOOLEAN : \A m \in Nodes :
             /\ dispute[m].ourVote = v
             /\ \A q \in DOMAIN dispute[m].votes : dispute[m].votes[q] = v
      BY <1>8, Zenon DEF Settled
    <2>2. r.ourVote = v /\ \A q \in DOMAIN r.votes : r.votes[q] = v
      <3>1. b = v /\ d.ourVote = v /\ \A q \in DOMAIN d.votes : d.votes[q] = v
        BY <2>1
      <3> HIDE DEF r, d, b
      <3> QED BY <1>2, <1>6, <3>1, Zenon
    <2>3. \A m \in Nodes :
             /\ dispute'[m].ourVote = v
             /\ \A q \in DOMAIN dispute'[m].votes : dispute'[m].votes[q] = v
      <3> HIDE DEF r, d, b
      <3> QED BY <1>5, <2>1, <2>2, ZenonT(30)
    <2> QED BY <2>3, Zenon DEF Settled
  <1> QED BY <1>7, <1>8

(* A server whose timer fires. *)
LEMMA UpdateOurPositionStep ==
  ASSUME IsFiniteSet(Nodes), AllCounted, NEW n \in Nodes, NEW percent,
         UpdateOurPosition(n, percent)
  PROVE  AllCounted' /\ (Settled => Settled')
  <1> DEFINE d == dispute[n]
             r == updateVote(d, percent, TRUE)
  <1>1. Counted(d, Nodes)
    BY Zenon DEF AllCounted
  <1>2. /\ Counted(r, Nodes) /\ r.votes = d.votes
        /\ r.ourVote = updatedVote(d, percent, TRUE)
    BY <1>1, UpdateVoteCounts, Zenon
  <1>3. DOMAIN dispute = Nodes
    BY DEF AllCounted
  <1>4. dispute' = [dispute EXCEPT ![n] = r]
    BY Zenon DEF UpdateOurPosition
  <1> HIDE DEF r
  <1>5. /\ dispute' = [m \in Nodes |-> dispute'[m]]
        /\ dispute'[n] = r /\ \A m \in Nodes \ {n} : dispute'[m] = dispute[m]
    BY <1>3, <1>4, Zenon
  <1>6. AllCounted'
    <2>1. \A m \in Nodes : Counted(dispute'[m], Nodes)
      BY <1>2, <1>5, Zenon DEF AllCounted
    <2> QED BY <1>5, <2>1, Zenon DEF AllCounted
  <1>7. ASSUME Settled PROVE Settled'
    <2>1. PICK v \in BOOLEAN : \A m \in Nodes :
             /\ dispute[m].ourVote = v
             /\ \A q \in DOMAIN dispute[m].votes : dispute[m].votes[q] = v
      BY <1>7, Zenon DEF Settled
    <2>2. d.ourVote = v /\ \A q \in DOMAIN d.votes : d.votes[q] = v
      BY <2>1
    <2> HIDE DEF d
    <2>3. r.ourVote = v /\ \A q \in DOMAIN r.votes : r.votes[q] = v
      <3>1. updatedVote(d, percent, TRUE) = v
        BY <1>1, <2>2, UnanimousVote, Zenon
      <3> QED BY <1>2, <2>2, <3>1, Zenon
    <2>4. \A m \in Nodes :
             /\ dispute'[m].ourVote = v
             /\ \A q \in DOMAIN dispute'[m].votes : dispute'[m].votes[q] = v
      BY <1>5, <2>1, <2>3, ZenonT(30)
    <2> QED BY <2>4, Zenon DEF Settled
  <1> QED BY <1>6, <1>7

(* A settled dispute stays settled, whoever the servers are and whenever   *)
(* their timers fire: once all votes agree and every view says so, neither *)
(* a late proposal nor any weight updateVote asks for changes one.         *)
THEOREM SettledStaysSettled ==
  AvalancheSpec => SettledIsStable
  <1>1. IsFiniteSet(Nodes)
    BY AvalancheAssumption
  <1>2. AvalancheInit => AllCounted
    BY <1>1, VotesBegin
  <1>3. ASSUME AllCounted, AvalancheNext
        PROVE  AllCounted' /\ (Settled => Settled')
    <2>1. ASSUME NEW n \in Nodes, NEW p \in Nodes, PeerPosition(n, p)
          PROVE  AllCounted' /\ (Settled => Settled')
      BY <1>1, <1>3, <2>1, PeerPositionStep
    <2>2. ASSUME NEW n \in Nodes, NEW percent \in Percents,
                 UpdateOurPosition(n, percent)
          PROVE  AllCounted' /\ (Settled => Settled')
      BY <1>1, <1>3, <2>2, UpdateOurPositionStep
    <2> QED BY <1>3, <2>1, <2>2 DEF AvalancheNext
  <1>4. AllCounted /\ UNCHANGED voteVars => AllCounted'
    BY DEF AllCounted, voteVars
  <1>5. AllCounted /\ [AvalancheNext]_voteVars => AllCounted'
    BY <1>3, <1>4
  <1>6. AllCounted /\ [AvalancheNext]_voteVars
           => [Settled => Settled']_voteVars
    BY <1>3
  <1> QED
    BY <1>2, <1>5, <1>6, PTL DEF AvalancheSpec, SettledIsStable
=============================================================================
