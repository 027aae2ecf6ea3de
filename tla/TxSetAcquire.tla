---------------------------- MODULE TxSetAcquire ----------------------------
(***************************************************************************)
(* Transaction sets fetched from peers (app/ledger/impl/                   *)
(* InboundTransactions.cpp, TransactionAcquire.cpp, overlay/impl/          *)
(* PeerSet.cpp).  The container holds, by hash, the sets the server made,  *)
(* has or fetches, and drops those no round has asked for lately.  A fetch *)
(* asks peers, whose answers may be lost, late, doubled or bad; its timer  *)
(* posts a job that counts the time-outs, asks again and arms the timer.   *)
(* The timer and the job queue only know a fetch while something holds it. *)
(***************************************************************************)
EXTENDS Integers, FiniteSets, FiniteSetsExt

CONSTANTS
    Hash,          \* the sets, by hash
    Part,          \* the nodes of a set below its root
    Local,         \* nodes that the temporary cache or the open ledger has
    Peer,
    Packet,        \* what answers hold
    NormTimeouts, MaxTimeouts, StartPeers, SetKeepRounds,
    MaxAcquires,   \* bounds: fetches made,
    MaxCalls,      \* calls of getSet,
    MaxPackets,    \* answers of peers,
    MaxRound,      \* numbers of rounds,
    MaxRounds      \* and rounds that start

Root == 0

ASSUME TxSetAcquireAssumption ==
    /\ Root \notin Part /\ Local \subseteq Part
    /\ IsFiniteSet(Peer)
    /\ Packet \subseteq [root : {"none", "good", "bad"}, parts : SUBSET Part, junk : BOOLEAN]
    /\ NormTimeouts \in Nat /\ MaxTimeouts \in Nat /\ NormTimeouts <= MaxTimeouts
    /\ {StartPeers, SetKeepRounds, MaxAcquires, MaxCalls, MaxPackets, MaxRound, MaxRounds} \subseteq Nat

VARIABLES
    m_seq,     \* the round
    m_map,     \* the container's entries
    acquire,   \* the fetches, in the order they were made; unasked is history:
               \* its time-outs since it was made or last asked for
    asked,     \* the peers that have been asked for each set
    taking,    \* the thread in gotData: the fetch it has found, and the packet
    stopping,
    env        \* calls, answers and rounds still to come; the sets whose tree is
               \* malformed, which only shows once it is there

vars == <<m_seq, m_map, acquire, asked, taking, stopping, env>>

None == 0
NoEntry == [mSeq |-> 0, mAcquire |-> None, mSet |-> FALSE, there |-> FALSE]
Id == 1..MaxAcquires
Unused == [hash |-> None, at |-> "unused", have |-> {}, mTimeouts |-> 0, unasked |-> 0,
           mProgress |-> FALSE, done |-> "no", mPeers |-> {}, timer |-> "off", give |-> "no"]

Init ==
    /\ m_seq = 1
    /\ m_map = [h \in Hash |-> NoEntry]
    /\ acquire = [i \in Id |-> Unused]
    /\ asked = [h \in Hash |-> {}]
    /\ taking = [id |-> None, packet |-> None, from |-> None]
    /\ stopping = FALSE
    /\ env \in [calls : {MaxCalls}, packets : {MaxPackets}, rounds : {MaxRounds},
               malformed : SUBSET Hash]

isDone(a) == a.done # "no"

(* What keeps a fetch alive: the container, a job, a thread that is in it. *)
Held(i) ==
    \/ \E h \in Hash : m_map[h].mAcquire = i
    \/ acquire[i].at = "init" \/ acquire[i].timer = "queued" \/ taking.id = i
-----------------------------------------------------------------------------
(* TransactionAcquire. *)

(* trigger: with the root, a tree that cannot be fails, one that is whole   *)
(* is complete and posts completeAcquire.  Otherwise a request is sent.    *)
trigger(a) ==
    IF isDone(a) \/ Root \notin a.have THEN a
    ELSE IF a.hash \in env.malformed /\ Part \subseteq a.have THEN [a EXCEPT !.done = "failed"]
    ELSE IF Part \subseteq a.have \cup Local
         THEN [a EXCEPT !.done = "complete", !.give = "queued"]
         ELSE a

(* The peers asked by a trigger for them. *)
Requests(a, peers) == IF isDone(a) THEN {} ELSE peers

(* selectPeers adds up to n peers; each is asked as it is added.           *)
More(a, n) == {q \in SUBSET (Peer \ a.mPeers) : Cardinality(q) <= n}
addPeers(a, q) == [trigger(a) EXCEPT !.mPeers = @ \cup q]

(* The second half of getSet, without the container's lock. *)
init(i) ==
    /\ acquire[i].at = "init"
    /\ \E q \in More(acquire[i], StartPeers) :
          LET a == IF q = {} THEN acquire[i] ELSE addPeers(acquire[i], q)
          IN  /\ acquire' = [acquire EXCEPT ![i] = [a EXCEPT !.at = "live", !.timer = "armed"]]
              /\ asked' = [asked EXCEPT ![a.hash] = @ \cup Requests(a, q)]
    /\ UNCHANGED <<m_seq, m_map, taking, stopping, env>>

(* Fault: only a fetch that is past its limit is brought back to normal.   *)
stillNeedLate(a) ==
    [a EXCEPT !.mTimeouts = IF @ > MaxTimeouts THEN NormTimeouts ELSE @,
              !.unasked = IF isDone(a) THEN @ ELSE 0]

stillNeed(a) ==
    [a EXCEPT !.mTimeouts = IF @ > NormTimeouts THEN NormTimeouts ELSE @,
              !.unasked = IF isDone(a) THEN @ ELSE 0]

(* The timer's callback has a weak pointer; execute posts the job.         *)
Expire(i) ==
    /\ acquire[i].timer = "armed"
    /\ acquire' = [acquire EXCEPT ![i].timer = IF Held(i) THEN "queued" ELSE "off"]
    /\ UNCHANGED <<m_seq, m_map, asked, taking, stopping, env>>

(* onTimer, for q more peers. *)
onTimer(a, q) ==
    IF a.mTimeouts > MaxTimeouts THEN [a EXCEPT !.done = "failed"]
    ELSE LET b == IF a.mTimeouts >= NormTimeouts THEN trigger(a) ELSE a
         IN  IF q = {} THEN b ELSE addPeers(b, q)

(* Fault: the mark of progress stays. *)
TickForgets(a) ==
    IF a.mProgress THEN a ELSE [a EXCEPT !.mTimeouts = @ + 1, !.unasked = @ + 1]

(* A tick without progress is a time-out. *)
Tick(a) ==
    IF a.mProgress THEN [a EXCEPT !.mProgress = FALSE]
    ELSE [a EXCEPT !.mTimeouts = @ + 1, !.unasked = @ + 1]

(* Fault: the timer is armed again after a time-out only. *)
RearmSlow(a, b) ==
    [b EXCEPT !.timer = IF isDone(b) \/ a.mProgress THEN "off" ELSE "armed"]

Rearm(a, b) == [b EXCEPT !.timer = IF isDone(b) THEN "off" ELSE "armed"]

(* The job: PeerSet::invokeOnTimer. *)
invokeOnTimer(i) ==
    /\ acquire[i].timer = "queued"
    /\ \E q \in More(acquire[i], 1) :
          LET a == acquire[i]
              b == onTimer(Tick(a), q)
              all == IF Tick(a).mTimeouts >= NormTimeouts THEN a.mPeers ELSE {}
          IN  IF isDone(a)
              THEN acquire' = [acquire EXCEPT ![i].timer = "off"] /\ UNCHANGED asked
              ELSE /\ acquire' = [acquire EXCEPT ![i] = Rearm(a, b)]
                   /\ asked' = [asked EXCEPT ![a.hash] = @ \cup Requests(b, q \cup all)]
    /\ UNCHANGED <<m_seq, m_map, taking, stopping, env>>

(* takeNodes: a bad root is passed over, a bad node, or one without a root *)
(* above it, ends the call; otherwise trigger, and progress.               *)
takeNodes(a, p) ==
    LET rooted == IF p.root = "good" THEN a.have \cup {Root} ELSE a.have
        parted == IF Root \in rooted THEN rooted \cup p.parts ELSE rooted
        bad == p.junk \/ (p.parts # {} /\ Root \notin rooted) \/ (p.root = "none" /\ p.parts = {})
    IN  IF isDone(a) THEN a
        ELSE IF bad THEN [a EXCEPT !.have = parted]
        ELSE [trigger([a EXCEPT !.have = parted]) EXCEPT !.mProgress = TRUE]
-----------------------------------------------------------------------------
(* InboundTransactionsImp. *)

(* getSet with acquire, when there is an entry and when there is none.     *)
GetSetFound(h) ==
    /\ m_map[h].there /\ env.calls > 0
    /\ m_map' = [m_map EXCEPT ![h].mSeq = m_seq]
    /\ acquire' = [i \in Id |-> IF i = m_map[h].mAcquire THEN stillNeed(acquire[i]) ELSE acquire[i]]
    /\ env' = [env EXCEPT !.calls = @ - 1]
    /\ UNCHANGED <<m_seq, asked, taking, stopping>>

GetSetNew(h) ==
    /\ ~m_map[h].there /\ ~stopping /\ env.calls > 0
    /\ \E i \in Id :
          /\ acquire[i] = Unused /\ \A j \in 1..(i - 1) : acquire[j] # Unused
          /\ acquire' = [acquire EXCEPT ![i] = [@ EXCEPT !.hash = h, !.at = "init"]]
          /\ m_map' = [m_map EXCEPT ![h] = [mSeq |-> m_seq, mAcquire |-> i, mSet |-> FALSE,
                                            there |-> TRUE]]
    /\ env' = [env EXCEPT !.calls = @ - 1]
    /\ UNCHANGED <<m_seq, asked, taking, stopping>>

(* gotData: the fetch is looked up under the container's lock, and takes   *)
(* the nodes under its own.  Without a fetch the peer is charged.          *)
GotData(h, n, p) ==
    /\ n \in asked[h] /\ taking.id = None /\ env.packets > 0
    /\ m_map[h].mAcquire # None
    /\ taking' = [id |-> m_map[h].mAcquire, packet |-> p, from |-> n]
    /\ env' = [env EXCEPT !.packets = @ - 1]
    /\ UNCHANGED <<m_seq, m_map, acquire, asked, stopping>>

TakeNodes ==
    /\ taking.id # None
    /\ LET a == takeNodes(acquire[taking.id], taking.packet)
       IN  /\ acquire' = [acquire EXCEPT ![taking.id] = a]
           /\ asked' = [asked EXCEPT ![a.hash] = @ \cup Requests(a, {taking.from})]
    /\ taking' = [id |-> None, packet |-> None, from |-> None]
    /\ UNCHANGED <<m_seq, m_map, stopping, env>>

(* giveSet; m_gotSet is called when the entry had no set. *)
giveSet(h) ==
    m_map' = [m_map EXCEPT ![h] = [mSeq |-> Max({@.mSeq, m_seq}), mAcquire |-> None,
                                   mSet |-> TRUE, there |-> TRUE]]

(* The job of a complete fetch, and a set the engine has made itself.      *)
CompleteAcquire(i) ==
    /\ acquire[i].give = "queued"
    /\ giveSet(acquire[i].hash)
    /\ acquire' = [acquire EXCEPT ![i].give = "given"]
    /\ UNCHANGED <<m_seq, asked, taking, stopping, env>>

ShareSet(h) ==
    /\ ~m_map[h].mSet
    /\ giveSet(h)
    /\ UNCHANGED <<m_seq, acquire, asked, taking, stopping, env>>

(* newRound.  Each change of view restarts the round, so the number may    *)
(* jump either way.                                                        *)
newRound(seq) ==
    /\ seq # m_seq /\ env.rounds > 0
    /\ m_seq' = seq
    /\ m_map' = [h \in Hash |-> IF m_map[h].mSeq < seq - SetKeepRounds
                                    \/ m_map[h].mSeq > seq + SetKeepRounds
                                THEN NoEntry ELSE m_map[h]]
    /\ env' = [env EXCEPT !.rounds = @ - 1]
    /\ UNCHANGED <<acquire, asked, taking, stopping>>

onStop ==
    /\ ~stopping /\ stopping' = TRUE
    /\ m_map' = [h \in Hash |-> NoEntry]
    /\ UNCHANGED <<m_seq, acquire, asked, taking, env>>
-----------------------------------------------------------------------------
Timer(i) == init(i) \/ Expire(i) \/ invokeOnTimer(i)

Next ==
    \/ \E i \in Id : Timer(i) \/ CompleteAcquire(i)
    \/ TakeNodes
    \/ \E h \in Hash : GetSetFound(h) \/ GetSetNew(h) \/ ShareSet(h)
    \/ \E h \in Hash, n \in Peer, p \in Packet : GotData(h, n, p)
    \/ \E seq \in 1..MaxRound : newRound(seq)
    \/ onStop

(* The timers expire, the job queue runs its jobs and threads go on. *)
Fairness ==
    /\ \A i \in Id : WF_vars(Timer(i)) /\ WF_vars(CompleteAcquire(i))
    /\ WF_vars(TakeNodes)

Spec == Init /\ [][Next]_vars /\ Fairness
-----------------------------------------------------------------------------
(* A fetch that the container holds and that is not done has its timer     *)
(* armed, or the job of it posted, or is about to arm it: whatever answers *)
(* come, rounds pass or calls meet, none is forgotten half way.            *)
FetchGoesOn ==
    \A h \in Hash : LET i == m_map[h].mAcquire
                    IN  i # None /\ ~isDone(acquire[i]) =>
                            acquire[i].at = "init" \/ acquire[i].timer \in {"armed", "queued"}

(* A set the engine keeps asking for is not given up: a fetch that fails   *)
(* although its tree is sound has run into more than MAX - NORM time-outs  *)
(* since it was last asked for, whatever answers, bad or partial, came in  *)
(* between, and however calls, packets and the timer's job interleave.     *)
NeededIsNotGivenUp ==
    \A i \in Id : acquire[i].done = "failed" /\ acquire[i].hash \notin env.malformed =>
                    acquire[i].unasked > MaxTimeouts - NormTimeouts

(* Every fetch comes to an end, with the set, without it, or dropped: a    *)
(* bounded number of answers and calls only delays its last time-out.      *)
FetchEnds == <>[](\A i \in Id : acquire[i].timer = "off" /\ acquire[i].at # "init")

(* "A transaction set we generated, acquired, or are acquiring"            *)
(* (InboundTransactions.cpp:37).                                           *)
EntryIsSetOrFetch ==
    \A h \in Hash : m_map[h].there => m_map[h].mSet \/ ~isDone(acquire[m_map[h].mAcquire])
                                        \/ acquire[m_map[h].mAcquire].give = "queued"

(* "Called to indicate that forward progress has been made" (PeerSet.h:72). *)
ProgressIsMade ==
    [][\A i \in Id : acquire'[i].mProgress /\ ~acquire[i].mProgress =>
                        acquire'[i].have # acquire[i].have]_vars
=============================================================================
