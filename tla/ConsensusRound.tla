--------------------------- MODULE ConsensusRound ---------------------------
(***************************************************************************)
(* One server's consensus engine: LedgerConsensusImp, with the parts of    *)
(* NetworkOPsImp, ConsensusImp and InboundTransactions it calls.           *)
(*                                                                         *)
(* timerEntry, peerPosition, gotMap and startRound hold lock_ from end to  *)
(* end and call one another, so the members they share are the fields of   *)
(* one record and each function of the code is an operator from the record *)
(* before it to the record after it.  An action is one call made by a      *)
(* thread: the heartbeat job, a peer's proposal, an acquired transaction   *)
(* set, or a step of the accept job, which holds lock_ only at its end.    *)
(*                                                                         *)
(* A transaction set is identified with its hash, a ledger with the        *)
(* sequence of transaction sets closed since the first one.  Close times   *)
(* are left to CloseTimeChain: here the vote on them is a choice.          *)
(***************************************************************************)
EXTENDS DisputedTx, Sequences, FiniteSetsExt

CONSTANTS
    Peers,        \* the trusted validators
    Tx,           \* transaction ids
    Proposals,    \* the proposals the peers send, each delivered once or lost
    Views,        \* what a timer tick may find; see Tick
    NetLedgers,   \* ledgers the network may prefer to ours
    Validator,    \* this server has validation keys and a network ledger
    MaxLedgers,   \* bound on the length of our chain
    MaxStored,    \* proposals kept for each peer (10 in the code)
    SetKeepRounds,\* rounds for which a transaction set is kept (3 in the code)
    NoLedger      \* no ledger

(* The sequence number of a bow out, above that of every position          *)
(* (0xffffffff in the code, which TLC cannot represent).                   *)
seqLeave == 2147483647

(* The first ledger, which every server has. *)
Genesis == <<>>

NoPosition == [taken |-> FALSE, set |-> {}, bowOut |-> FALSE]
NoJob == [at |-> "none", set |-> {}, seen |-> {}, retries |-> {}, net |-> Genesis,
          mode |-> "none"]

ASSUME RoundAssumption ==
    /\ IsFiniteSet(Peers) /\ IsFiniteSet(Tx)
    /\ Proposals \subseteq
          [from : Peers, prev : NetLedgers \cup {Genesis},
           seq : 0 .. seqLeave, set : SUBSET Tx]
    /\ Validator \in BOOLEAN
    /\ MaxLedgers \in Nat /\ MaxStored \in Nat \ {0}
    /\ SetKeepRounds \in Nat

VARIABLES
    node,         \* the engine and what it keeps elsewhere in the server
    undelivered,  \* proposals still on their way
    arrived       \* sets InboundTransactions has that gotMap has not seen

vars == <<node, undelivered, arrived>>

Modes == {"disconnected", "connected", "tracking", "full"}

SymmetricDifference(m1, m2) == (m1 \ m2) \cup (m2 \ m1)

Without(f, S) == [x \in DOMAIN f \ S |-> f[x]]

ForAllDisputes(s, op(_, _)) ==
    [s EXCEPT !.disputes = [t \in DOMAIN @ |-> op(@[t], t)]]

closePercent(s) == closePercentOf(s.roundTime, s.previousRoundTime)
-----------------------------------------------------------------------------
(* Disputes and transaction sets. *)

(* addDisputedTransaction: our vote is what our set says, a peer's vote is *)
(* what its set says if we have that set.                                  *)
Disputed(s, t) ==
    LET known == {p \in DOMAIN s.peerPositions :
                    s.peerPositions[p].set \in s.acquired}
        for == {p \in known : t \in s.peerPositions[p].set}
    IN setVotes(setVotes(NewDispute(t \in s.ourSet), for, TRUE),
                known \ for, FALSE)

(* Fault: a transaction only the other set has is not disputed. *)
createDisputesOneWay(s, m1, others) ==
    LET differences == UNION {m1 \ m : m \in others}
    IN [s EXCEPT !.disputes =
          [t \in DOMAIN @ \cup differences |->
              IF t \in DOMAIN @ THEN @[t] ELSE Disputed(s, t)]]

(* createDisputes between one set and each of the sets in `others'. *)
createDisputes(s, m1, others) ==
    LET differences ==
            UNION {SymmetricDifference(m1, m) : m \in others}
    IN [s EXCEPT !.disputes =
          [t \in DOMAIN @ \cup differences |->
              IF t \in DOMAIN @ THEN @[t] ELSE Disputed(s, t)]]

(* Our set is compared with each of the sets in `others'. *)
compareWith(s, m1, others) ==
    [createDisputes(s, m1, others) EXCEPT !.compares = @ \cup others]

adjustCount(s, map, peers) ==
    ForAllDisputes(s, LAMBDA d, t : setVotes(d, peers, t \in map))

(* The sets the peers propose. *)
peerSets(s) == {s.peerPositions[p].set : p \in DOMAIN s.peerPositions}

(* The peers that propose a set. *)
proposersOf(s, map) ==
    {p \in DOMAIN s.peerPositions : s.peerPositions[p].set = map}

(* The sets InboundTransactions has; it fetches the others of its entries. *)
sets(s) == {x \in DOMAIN s.inbound : s.inbound[x].has}

(* The round InboundTransactions is in: newRound gets that of              *)
(* previousLedger_.                                                        *)
roundOf(s) == Len(s.previousLedger)

setEntry(s, set, seq, has) ==
    [s EXCEPT !.inbound = [x \in DOMAIN @ \cup {set} |->
        IF x = set THEN [mSeq |-> seq, has |-> has] ELSE @[x]]]

(* Fault: the set is not stored. *)
shareSetNothing(s, set) == s

(* InboundTransactions::giveSet. *)
shareSet(s, set) ==
    setEntry(s, set, IF set \in DOMAIN s.inbound /\ s.inbound[set].mSeq > roundOf(s)
                     THEN s.inbound[set].mSeq ELSE roundOf(s), TRUE)

(* InboundTransactions::getSet with acquire set. *)
getSet(s, set) == setEntry(s, set, roundOf(s), set \in sets(s))

(* InboundTransactions::newRound: what no recent round has asked for is    *)
(* dropped, the empty set excepted.                                        *)
keepRecent(inbound, seq) ==
    [x \in {y \in DOMAIN inbound : \/ y = {}
                                   \/ /\ inbound[y].mSeq >= seq - SetKeepRounds
                                      /\ inbound[y].mSeq <= seq + SetKeepRounds} |->
        IF x = {} THEN [inbound[x] EXCEPT !.mSeq = seq] ELSE inbound[x]]

(* A set we do not propose is compared with ours while we hold a position. *)
compareMap(s, map) ==
    IF \/ ~s.ourPosition.taken
       \/ s.ourPosition.bowOut
       \/ map = s.ourPosition.set
    THEN s
    ELSE compareWith(s, s.ourSet, {map})

mapCompleteInternal(s, map, fromPeer) ==
    IF map \in s.acquired THEN s
    ELSE [adjustCount(compareMap(IF fromPeer THEN s ELSE shareSet(s, map), map),
                      map, proposersOf(s, map))
          EXCEPT !.acquired = @ \cup {map}]
-----------------------------------------------------------------------------
(* Proposals. *)

propose(s) ==
    [s EXCEPT !.sent = IF s.ourPosition.bowOut THEN "bowOut" ELSE "position"]

proposeIfProposing(s) == IF s.proposing THEN propose(s) ELSE s

leaveConsensus(s) ==
    [IF s.ourPosition.taken /\ ~s.ourPosition.bowOut
     THEN propose([s EXCEPT !.ourPosition.bowOut = TRUE]) ELSE s
     EXCEPT !.proposing = FALSE]

(* A peer bows out: it is not heard again in this round. *)
peerLeaves(s, peer) ==
    [ForAllDisputes(s, LAMBDA d, t : unVotes(d, {peer})) EXCEPT
        !.peerPositions = Without(@, {peer}),
        !.deadNodes = @ \cup {peer}]

placePosition(s, m) ==
    [s EXCEPT !.peerPositions =
        [p \in DOMAIN @ \cup {m.from} |->
            IF p = m.from THEN [seq |-> m.seq, set |-> m.set] ELSE @[p]]]

(* The set of a new position is asked for, unless the engine or            *)
(* InboundTransactions has it.                                             *)
findSet(s, set) ==
    IF set \in s.acquired THEN s
    ELSE [getSet(s, set) EXCEPT !.acquired = IF set \in sets(s) THEN @ \cup {set} ELSE @]

(* The votes of the peer whose set we have are counted. *)
countVotes(s, m) ==
    IF m.set \in s.acquired THEN adjustCount(s, m.set, {m.from}) ELSE s

peerTakes(s, m) == countVotes(findSet(placePosition(s, m), m.set), m)

peerPosition(s, m) ==
    IF \/ m.prev # s.prevLedgerHash
       \/ m.from \in s.deadNodes
       \/ /\ m.from \in DOMAIN s.peerPositions
          /\ m.seq <= s.peerPositions[m.from].seq
    THEN s
    ELSE IF m.seq = seqLeave THEN peerLeaves(s, m.from) ELSE peerTakes(s, m)

(* Fault: only the newest stored proposal of each peer is kept. *)
storeProposalOne(s, m) == [s EXCEPT !.storedProposals[m.from] = <<m>>]

(* lost is history: the proposals that have fallen out. *)
storeProposal(s, m) ==
    LET q == s.storedProposals[m.from]
        full == Len(q) >= MaxStored
    IN  [s EXCEPT !.storedProposals[m.from] = Append(IF full THEN Tail(q) ELSE q, m),
                  !.lost = IF full THEN @ \cup {Head(q)} ELSE @]

(* getStoredProposals selects the proposals for the ledger we work towards, *)
(* peer by peer; peerPosition takes each of them.                          *)
replay(s, m) == IF m.prev = s.prevLedgerHash THEN peerPosition(s, m) ELSE s

replayPeer(s, p) ==
    LET q == s.storedProposals[p]
    IN  MapThenFoldSet(LAMBDA m, r : replay(r, m), s, LAMBDA i : q[i], Max, DOMAIN q)

playbackProposals(s) == FoldSet(LAMBDA p, r : replayPeer(r, p), s, Peers)
-----------------------------------------------------------------------------
(* Closing the ledger and taking a position. *)

(* checkOurValidation makes the partial validation of a ledger this server *)
(* did not validate, without its sequence number; nothing sends it.        *)
checkOurValidation(s) ==
    IF \/ ~s.haveCorrectLCL \/ ~Validator
       \/ /\ s.lastValidation # NoLedger
          /\ \/ s.lastIsFull /\ Len(s.lastValidation) = Len(s.previousLedger)
             \/ s.lastValidation = s.prevLedgerHash
    THEN s
    ELSE [s EXCEPT !.lastValidation = s.previousLedger, !.lastIsFull = FALSE]

takePosition(s, initialSet) ==
    [ForAllDisputes(s, LAMBDA d, t : [d EXCEPT !.ourVote = t \in initialSet])
     EXCEPT
        !.ourPosition = [taken |-> TRUE, set |-> initialSet, bowOut |-> FALSE],
        !.ourSet = initialSet,
        !.compares = @ \cup {initialSet}]

(* Our set is compared with the peers' sets we have. *)
compareInitial(s) ==
    compareWith(s, s.ourSet, (peerSets(s) \cap s.acquired) \ s.compares)

(* The transactions of the open ledger are our initial set. *)
takeInitialPosition(s, initialSet) ==
    proposeIfProposing(
        mapCompleteInternal(compareInitial(takePosition(s, initialSet)),
                            initialSet, FALSE))

closeLedger(s, openTxs) ==
    takeInitialPosition(
        [checkOurValidation(s) EXCEPT !.state = "establish", !.elapsed = 0],
        openTxs)
-----------------------------------------------------------------------------
(* Establishing consensus.  A view v says what the tick finds: which ledger *)
(* the validations prefer (net), the time since consensusStartTime_ (time), *)
(* whether the idle interval is over (idle), the validators seen to have    *)
(* moved on (finished), the proposals that have become stale (stale), the   *)
(* outcome of the close time vote (timeAgreed), whether our close time      *)
(* changes or our proposal needs refreshing (refresh), and the open         *)
(* ledger's transactions (open).                                            *)

(* Fault: a stale proposal is removed and its votes are kept. *)
dropStaleVoting(s, stale) ==
    [s EXCEPT !.peerPositions = Without(@, stale), !.expired = @ \cup stale]

(* expired is history: the peers that have lost a position this way. *)
dropStale(s, stale) ==
    [ForAllDisputes(s, LAMBDA d, t : unVotes(d, stale)) EXCEPT
        !.peerPositions = Without(@, stale), !.expired = @ \cup stale]

(* The disputes on which our vote has changed. *)
Flipped(before, after) ==
    {t \in DOMAIN after.disputes :
        after.disputes[t].ourVote # before.disputes[t].ourVote}

(* Fault: what we now vote against stays in our set. *)
changedSetGrows(before, after) ==
    before.ourSet \cup {t \in Flipped(before, after) : after.disputes[t].ourVote}

(* Our set with the transactions we now vote for, without those we now     *)
(* vote against.                                                           *)
changedSet(before, after) ==
    (before.ourSet \ Flipped(before, after)) \cup
        {t \in Flipped(before, after) : after.disputes[t].ourVote}

updateVotes(s) ==
    ForAllDisputes(s, LAMBDA d, t : updateVote(d, closePercent(s), s.proposing))

closeTimeVote(s, v) ==
    [s EXCEPT !.haveCloseTimeConsensus =
        DOMAIN s.peerPositions = {} \/ v.timeAgreed]

(* A new set is what we accept and, unless we have bowed out, propose. *)
changePosition(s, newSet) ==
    IF s.ourPosition.bowOut THEN [s EXCEPT !.ourSet = newSet]
    ELSE mapCompleteInternal(
            proposeIfProposing([s EXCEPT !.ourSet = newSet,
                                         !.ourPosition.set = newSet]),
            newSet, FALSE)

followVotes(before, after, v) ==
    IF Flipped(before, after) = {} /\ ~v.refresh THEN after
    ELSE changePosition(after, changedSet(before, after))

updateOurPositions(s, v) ==
    LET fresh == dropStale(s, v.stale \cap DOMAIN s.peerPositions)
    IN followVotes(fresh, closeTimeVote(updateVotes(fresh), v), v)

(* haveConsensus first compares our set with the positions it has not      *)
(* compared it with.                                                       *)
compareRest(s) ==
    compareWith(s, s.ourPosition.set,
                {h \in peerSets(s) \ s.compares :
                    /\ h # s.ourPosition.set
                    /\ {h, s.ourPosition.set} \subseteq s.acquired})

consensusState(s, v) ==
    checkConsensus(s.previousProposers, Cardinality(DOMAIN s.peerPositions),
                   Cardinality(proposersOf(s, s.ourPosition.set)), v.finished,
                   s.previousRoundTime, s.roundTime, s.proposing)

beginAccept(s) ==
    [s EXCEPT !.state = "processing",
              !.lastCloseProposers = Cardinality(DOMAIN s.peerPositions),
              !.lastCloseConvergeTook = s.roundTime,
              !.job = [NoJob EXCEPT !.at = "build", !.set = s.ourSet]]

endEstablish(s, result) ==
    CASE result = "No" -> s
      [] result # "No" /\ ~s.haveCloseTimeConsensus ->
            [s EXCEPT !.consensusFail = (result = "MovedOn")]
      [] OTHER -> beginAccept([s EXCEPT !.consensusFail = (result = "MovedOn")])

haveConsensus(s, v) == endEstablish(s, consensusState(s, v))

stateEstablish(s, v) ==
    IF s.roundTime < LEDGER_MIN_CONSENSUS THEN s
    ELSE haveConsensus(compareRest(updateOurPositions(s, v)), v)

statePreClose(s, v) ==
    IF shouldCloseLedger(v.open # {}, s.previousProposers,
          Cardinality(DOMAIN s.peerPositions), v.finished, s.previousRoundTime,
          IF v.idle THEN LEDGER_IDLE_INTERVAL ELSE 0, s.roundTime,
          LEDGER_IDLE_INTERVAL)
    THEN closeLedger(s, v.open) ELSE s

(* The phases of a tick: a ledger that is closed goes on to establish. *)
establish(s, v) == IF s.state = "establish" THEN stateEstablish(s, v) ELSE s

phaseStep(s, v) ==
    establish(IF s.state = "open" THEN statePreClose(s, v) ELSE s, v)

(* timerEntry once checkLCL is done.  roundTime_ is read before            *)
(* statePreClose, which restarts the clock when it closes the ledger.      *)
Tick(s, v) ==
    phaseStep([s EXCEPT !.roundTime = v.time, !.elapsed = v.time], v)
-----------------------------------------------------------------------------
(* Starting a round and changing the last closed ledger. *)

(* What startRound resets. *)
newRound(s, prevLCLHash, prevLedger, proposers, convergeTime) ==
    [s EXCEPT
        !.state = "open", !.elapsed = 0, !.roundTime = 0,
        !.prevLedgerHash = prevLCLHash, !.previousLedger = prevLedger,
        !.ourPosition = NoPosition, !.ourSet = {}, !.sent = "silent",
        !.consensusFail = FALSE, !.haveCloseTimeConsensus = FALSE,
        !.previousProposers = proposers, !.previousRoundTime = convergeTime,
        !.peerPositions = <<>>, !.acquired = {}, !.disputes = <<>>,
        !.compares = {}, !.deadNodes = {}, !.expired = {}, !.late = {},
        !.inbound = keepRecent(@, Len(prevLedger)),
        !.validating = Validator,
        !.proposing = Validator /\ s.mMode = "full",
        !.haveCorrectLCL = (prevLedger = prevLCLHash)]

(* More than half of the last round's proposers have closed already. *)
fallingBehind(s) ==
    Cardinality(DOMAIN s.peerPositions) > s.previousProposers \div 2

tickIfBehind(s, v) == IF fallingBehind(s) THEN Tick(s, v) ELSE s

(* startRound with the ledger the network closed: the proposals for it are *)
(* played back and, if they are many, the timer is not waited for.         *)
startCorrect(s, ledger, proposers, convergeTime, v) ==
    tickIfBehind(
        playbackProposals(newRound(s, ledger, ledger, proposers, convergeTime)),
        v)

(* Fault: our outstanding proposal is not revoked. *)
switchViewSilent(s, lclHash) ==
    playbackProposals([s EXCEPT
        !.prevLedgerHash = lclHash, !.proposing = FALSE,
        !.peerPositions = <<>>, !.disputes = <<>>, !.compares = {},
        !.deadNodes = {}, !.expired = {}])

(* A proposal that the network holds from us is revoked. *)
revoke(s) ==
    IF s.haveCorrectLCL /\ s.proposing /\ s.ourPosition.taken
    THEN leaveConsensus(s) ELSE s

(* handleLCL, the first time we switch to this ledger. *)
switchView(s, lclHash) ==
    playbackProposals([revoke(s) EXCEPT
        !.prevLedgerHash = lclHash, !.proposing = FALSE,
        !.peerPositions = <<>>, !.disputes = <<>>, !.compares = {},
        !.deadNodes = {}, !.expired = {}])

(* Ask for the ledger we should be working from.  The flag is only cleared *)
(* with a new request.                                                     *)
needLedger(s) ==
    IF s.acquiringLedger = s.prevLedgerHash THEN s
    ELSE [s EXCEPT !.acquiringLedger = s.prevLedgerHash,
                   !.haveCorrectLCL = FALSE]

(* A round starts on the ledger we have switched to, once we have it. *)
startOn(s, lclHash, v) ==
    CASE s.previousLedger = lclHash -> s
      [] s.previousLedger # lclHash /\ lclHash \notin s.ledgers -> needLedger(s)
      [] OTHER ->
            [startCorrect(s, lclHash, s.previousProposers,
                          s.previousRoundTime, v)
             EXCEPT !.proposing = FALSE]

handleLCL(s, lclHash, v) ==
    startOn(IF s.prevLedgerHash = lclHash THEN s ELSE switchView(s, lclHash),
            lclHash, v)

(* The ledger a ledger was built on, its info().parentHash. *)
parent(l) == SubSeq(l, 1, Len(l) - 1)

(* The ledger the validations prefer; a server that works from the ledger  *)
(* it wants does not go back to its parent.                                *)
preferred(s, v) ==
    IF \/ v.net = NoLedger
       \/ s.haveCorrectLCL /\ Len(s.previousLedger) > 0
             /\ v.net = parent(s.previousLedger)
    THEN s.prevLedgerHash ELSE v.net

consensusViewChange(s) ==
    IF s.mMode \in {"full", "tracking"} THEN [s EXCEPT !.mMode = "connected"]
    ELSE s

checkLCL(s, v) ==
    LET net == preferred(s, v)
    IN IF net = s.prevLedgerHash /\ s.previousLedger = net THEN s
       ELSE handleLCL(IF net # s.prevLedgerHash /\ s.haveCorrectLCL
                      THEN consensusViewChange(s) ELSE s, net, v)

(* Fault: the ledger is checked in every state. *)
timerEntryAlways(s, v) == Tick(checkLCL(s, v), v)

timerEntry(s, v) ==
    Tick(IF s.state \in {"processing", "accepted"} THEN s ELSE checkLCL(s, v), v)

timerIfBehind(s, v) == IF fallingBehind(s) THEN timerEntry(s, v) ELSE s

placeRound(s, prevLCLHash, v) ==
    IF s.haveCorrectLCL THEN s ELSE handleLCL(s, prevLCLHash, v)

startRound(s, prevLCLHash, prevLedger, proposers, convergeTime, v) ==
    IF s.state = "processing" THEN s
    ELSE timerIfBehind(
            playbackProposals(
                placeRound(
                    newRound(s, prevLCLHash, prevLedger, proposers, convergeTime),
                    prevLCLHash, v)),
            v)
-----------------------------------------------------------------------------
(* NetworkOPsImp's part: what follows a round.  It holds no lock, so the   *)
(* operating mode it has read may be another one when it is set.           *)

(* checkLastClosedLedger finds that the network has closed another ledger. *)
(* If we have it we switch to it, otherwise it is asked for.               *)
switchLedger(s, other) ==
    [s EXCEPT !.closed = IF other \in s.ledgers THEN other ELSE @,
              !.job.net = other,
              !.job.mode = IF s.mMode \in {"full", "tracking"} THEN "connected" ELSE "none"]

(* checkLastClosedLedger finds nothing better; fresh says that our ledger  *)
(* is recent enough for omFULL.                                            *)
keepLedger(s, fresh) ==
    [s EXCEPT !.job.net = s.closed,
              !.job.mode = CASE s.mMode \in {"connected", "tracking"} /\ fresh -> "full"
                             [] s.mMode = "connected" /\ ~fresh -> "tracking"
                             [] OTHER -> "none"]

checkLastClosedLedger(s, other, fresh) ==
    [IF other = NoLedger THEN keepLedger(s, fresh) ELSE switchLedger(s, other)
     EXCEPT !.job.at = "checked"]

(* The mode is set; the next round needs a server that is connected.       *)
setMode(s) ==
    LET mode == IF s.job.mode = "none" THEN s.mMode ELSE s.job.mode
    IN  IF mode = "disconnected" THEN [s EXCEPT !.job = NoJob]
        ELSE [s EXCEPT !.mMode = mode, !.job.at = "start"]

(* beginConsensus.  The ledger the open one was built on is the closed one, *)
(* which LedgerMaster holds, so it is always found.                        *)
beginConsensus(s, v) ==
    startRound([s EXCEPT !.job = NoJob], s.job.net, s.closed, s.lastCloseProposers,
               s.lastCloseConvergeTook, v)
-----------------------------------------------------------------------------
(* The server has just connected: a round is open on the first ledger.     *)
Init ==
    /\ \E mode \in Modes \ {"disconnected"} :
          node = [state |-> "open", elapsed |-> 0, roundTime |-> 0,
            prevLedgerHash |-> Genesis, previousLedger |-> Genesis,
            acquiringLedger |-> NoLedger, haveCorrectLCL |-> TRUE,
            ourPosition |-> NoPosition, ourSet |-> {}, sent |-> "silent",
            proposing |-> Validator /\ mode = "full", validating |-> Validator,
            consensusFail |-> FALSE, haveCloseTimeConsensus |-> FALSE,
            peerPositions |-> <<>>, acquired |-> {}, disputes |-> <<>>,
            compares |-> {}, deadNodes |-> {},
            previousProposers |-> 0, previousRoundTime |-> LEDGER_IDLE_INTERVAL,
            lastCloseProposers |-> 0,
            lastCloseConvergeTook |-> LEDGER_IDLE_INTERVAL,
            lastValidation |-> NoLedger, lastIsFull |-> FALSE, sentValidations |-> {},
            mMode |-> mode, closed |-> Genesis, ledgers |-> {Genesis},
            inbound |-> [x \in {{}} |-> [mSeq |-> 0, has |-> TRUE]],
            lost |-> {}, expired |-> {}, late |-> {},
            storedProposals |-> [p \in Peers |-> <<>>], job |-> NoJob]
    /\ undelivered = Proposals
    /\ arrived = {}

(* processHeartbeatTimer with too few peers. *)
HeartbeatDisconnected ==
    /\ node.mMode # "disconnected"
    /\ node' = [node EXCEPT !.mMode = "disconnected"]
    /\ UNCHANGED <<undelivered, arrived>>

(* processHeartbeatTimer with enough peers. *)
Heartbeat ==
    /\ \E v \in Views :
          /\ v.time >= node.elapsed
          /\ node' = timerEntry(
                [node EXCEPT !.mMode =
                    IF @ = "disconnected" THEN "connected" ELSE @], v)
    /\ UNCHANGED <<undelivered, arrived>>

(* processTrustedProposal. *)
TrustedProposal(m) ==
    /\ m \in undelivered
    /\ node' = peerPosition(storeProposal(node, m), m)
    /\ undelivered' = undelivered \ {m}
    /\ UNCHANGED arrived

(* TransactionAcquire has all of a set and gives it to                     *)
(* InboundTransactions ...                                                 *)
GiveSet(set) ==
    /\ set \in DOMAIN node.inbound \ sets(node)
    /\ node' = shareSet(node, set)
    /\ arrived' = arrived \cup {set}
    /\ UNCHANGED undelivered

(* ... which, without its lock, passes it on to the engine.  A new round   *)
(* may have dropped the set meanwhile; late is history, the sets of this   *)
(* round that came so.                                                     *)
GotMap(set) ==
    /\ set \in arrived
    /\ arrived' = arrived \ {set}
    /\ node' = mapCompleteInternal(
                  [node EXCEPT !.late = IF set \in sets(node) THEN @ ELSE @ \cup {set}],
                  set, TRUE)
    /\ UNCHANGED undelivered

(* A ledger the network prefers is acquired. *)
LedgerAcquired ==
    /\ node.acquiringLedger # NoLedger
    /\ node.acquiringLedger \notin node.ledgers
    /\ node' = [node EXCEPT !.ledgers = @ \cup {node.acquiringLedger}]
    /\ UNCHANGED <<undelivered, arrived>>

(* accept, on the thread of its job, without lock_: it builds the new      *)
(* ledger, validates it if it may, and begins to go through the disputes.  *)
AcceptBuild(compatible) ==
    LET built == Append(node.previousLedger, node.job.set)
        validates == node.validating /\ compatible
        announces == validates /\ ~node.consensusFail
    IN /\ node.job.at = "build"
       /\ node' = [node EXCEPT
             !.ledgers = @ \cup {built},
             !.validating = validates,
             !.lastValidation = IF announces THEN built ELSE @,
             !.lastIsFull = IF announces THEN TRUE ELSE @,
             !.sentValidations = IF announces THEN @ \cup {built} ELSE @,
             !.job.at = "built", !.job.seen = DOMAIN node.disputes]
       /\ UNCHANGED <<undelivered, arrived>>

(* The disputed transactions we voted against go to the next open ledger,  *)
(* and the new ledger becomes the closed one.  A dispute that is added     *)
(* while the loop runs may move the others, and the loop then miss any.    *)
AcceptSwitch ==
    LET against == {t \in DOMAIN node.disputes : ~node.disputes[t].ourVote}
    IN /\ node.job.at = "built"
       /\ \E found \in SUBSET against :
             /\ DOMAIN node.disputes = node.job.seen => found = against
             /\ node' = [node EXCEPT
                   !.closed = Append(node.previousLedger, node.job.set),
                   !.job.at = "switched", !.job.seen = {}, !.job.retries = found]
       /\ UNCHANGED <<undelivered, arrived>>

(* accept's end, the only part of it that holds lock_. *)
AcceptDone ==
    /\ node.job.at = "switched"
    /\ node' = [node EXCEPT !.state = "accepted",
                            !.job = [NoJob EXCEPT !.at = "end"]]
    /\ UNCHANGED <<undelivered, arrived>>

(* endConsensus, still on the thread of the job: tryStartConsensus looks   *)
(* for the ledger to work from ...                                         *)
EndConsensus ==
    /\ node.job.at = "end"
    /\ Len(node.closed) < MaxLedgers
    /\ \E other \in (NetLedgers \ {node.closed, parent(node.closed)}) \cup {NoLedger},
          fresh \in BOOLEAN : node' = checkLastClosedLedger(node, other, fresh)
    /\ UNCHANGED <<undelivered, arrived>>

(* ... sets the mode it has decided on ... *)
SetMode ==
    /\ node.job.at = "checked"
    /\ node' = setMode(node)
    /\ UNCHANGED <<undelivered, arrived>>

(* ... and starts the next round. *)
BeginConsensus ==
    /\ node.job.at = "start"
    /\ \E v \in Views : node' = beginConsensus(node, v)
    /\ UNCHANGED <<undelivered, arrived>>

Next ==
    \/ HeartbeatDisconnected
    \/ Heartbeat
    \/ \E m \in Proposals : TrustedProposal(m)
    \/ \E set \in SUBSET Tx : GiveSet(set)
    \/ \E set \in SUBSET Tx : GotMap(set)
    \/ LedgerAcquired
    \/ \E compatible \in BOOLEAN : AcceptBuild(compatible)
    \/ AcceptSwitch
    \/ AcceptDone
    \/ EndConsensus
    \/ SetMode
    \/ BeginConsensus

Spec == Init /\ [][Next]_vars
-----------------------------------------------------------------------------
(* The votes of a dispute come from peers that hold a position, and its    *)
(* counters are the counts of those votes: bowing out and stale proposals  *)
(* take a peer's votes with them.                                          *)
VotesAreOfProposers ==
    \A t \in DOMAIN node.disputes :
        LET d == node.disputes[t]
        IN /\ DOMAIN d.votes \subseteq DOMAIN node.peerPositions
           /\ d.yays = Cardinality({p \in DOMAIN d.votes : d.votes[p]})
           /\ d.nays = Cardinality({p \in DOMAIN d.votes : ~d.votes[p]})

(* Every transaction on which our set and a set we have compared it with   *)
(* differ is disputed, although our set changes after the comparison.      *)
(* Once we have bowed out haveConsensus compares the position we revoked,  *)
(* from which our set moves away, and this is no longer so.                *)
DisputesCoverCompared ==
    (node.ourPosition.taken /\ ~node.ourPosition.bowOut) =>
        \A h \in node.compares \cap node.acquired :
            SymmetricDifference(node.ourSet, h) \subseteq DOMAIN node.disputes

(* The set we propose is the set we would accept, and peers can get it     *)
(* from us, unless the engine had it from a gotMap that came after         *)
(* InboundTransactions had dropped it: then it is not given back.          *)
PositionIsShared ==
    (node.ourPosition.taken /\ ~node.ourPosition.bowOut) =>
        /\ node.ourPosition.set = node.ourSet
        /\ node.ourSet \in node.acquired
        /\ node.ourSet \in sets(node) \cup node.late

(* We only propose while we work from the ledger the network prefers, and  *)
(* a proposal the network last heard from us is one for that ledger: a     *)
(* change of view revokes it first.                                        *)
ProposingInSync ==
    /\ node.proposing => /\ node.haveCorrectLCL
                         /\ node.previousLedger = node.prevLedgerHash
                         /\ ~node.ourPosition.bowOut
    /\ node.sent = "position" => node.previousLedger = node.prevLedgerHash

(* While the accept job is at work nothing changes what it reads without   *)
(* lock_: the ledger, the set and the position it works with, whether it   *)
(* validates, and how we voted.  Only disputes are added.                  *)
AcceptWorksUndisturbed ==
    [][(node.state = "processing" /\ node'.state = "processing") =>
          /\ node'.previousLedger = node.previousLedger
          /\ node'.prevLedgerHash = node.prevLedgerHash
          /\ node'.ourSet = node.ourSet
          /\ node'.ourPosition = node.ourPosition
          /\ node'.job.at = node.job.at => node'.validating = node.validating
          /\ \A t \in DOMAIN node.disputes :
                /\ t \in DOMAIN node'.disputes
                /\ node'.disputes[t].ourVote = node.disputes[t].ourVote]_vars

(* Our vote on a dispute is what our set says, also after we have bowed    *)
(* out or changed our set, and accept is only begun with a position (the   *)
(* abort of beginAccept) and on our set, so that it tries again in the     *)
(* next open ledger only what the ledger it has built leaves out.          *)
RetriedIsLeftOut ==
    /\ node.ourPosition.taken =>
          \A t \in DOMAIN node.disputes : node.disputes[t].ourVote = (t \in node.ourSet)
    /\ node.state = "processing" => node.ourPosition.taken /\ node.job.set = node.ourSet
    /\ node.job.retries \cap node.job.set = {}

(* playbackProposals: "we need to replay recent proposals so that they're  *)
(* not lost".  In whatever order proposals and changes of view come, the   *)
(* position of a peer is one we have heard for the ledger we work towards, *)
(* and none that the store has kept is later; a peer is out only because   *)
(* it bowed out.  A peer whose position went stale may be heard again with *)
(* an older one, until the positions are next played back.                 *)
PositionsAreTheLastHeard ==
    \A p \in Peers \ node.expired :
        LET heard == {m \in Proposals \ undelivered :
                        m.from = p /\ m.prev = node.prevLedgerHash}
        IN  IF p \in DOMAIN node.peerPositions
            THEN /\ \E m \in heard : node.peerPositions[p] = [seq |-> m.seq, set |-> m.set]
                 /\ \A m \in heard \ node.lost : m.seq <= node.peerPositions[p].seq
                 /\ node.peerPositions[p].seq # seqLeave
            ELSE \/ heard \subseteq node.lost
                 \/ p \in node.deadNodes /\ \E m \in heard : m.seq = seqLeave

(* The engine's steps are steps of the abstract round: see RoundPhases.    *)
Phases == INSTANCE RoundPhases WITH
            state <- node.state, mMode <- node.mMode, job <- node.job.at
ImplementsRoundPhases == Phases!Spec

-----------------------------------------------------------------------------
(* What comments say of the engine, and the code does not do. *)

(* mapCompleteInternal's comment: when we get a set we "update our         *)
(* tracking if any validators currently propose it", so the votes of every *)
(* peer whose set we have are counted.                                     *)
VotesTrackPositions ==
    \A t \in DOMAIN node.disputes, p \in DOMAIN node.peerPositions :
        node.peerPositions[p].set \in node.acquired =>
            /\ p \in DOMAIN node.disputes[t].votes
            /\ node.disputes[t].votes[p] = (t \in node.peerPositions[p].set)

(* accept's comment: the first crack at the new open ledger goes to        *)
(* "transactions proposed by a validator we trust but not included in the  *)
(* consensus set", so those of a set we have are tried again.              *)
LeftOutIsRetried ==
    [][(node.job.at = "built" /\ node'.job.at = "switched") =>
          \A p \in DOMAIN node.peerPositions :
              node.peerPositions[p].set \in node.acquired =>
                  node.peerPositions[p].set \ node.job.set
                      \subseteq node'.job.retries]_vars

(* checkLCL's comment: it "tells us if we are still in sync with the       *)
(* network", which the engine keeps in haveCorrectLCL_.                    *)
SyncFlagIsTrue ==
    node.haveCorrectLCL <=> node.previousLedger = node.prevLedgerHash

(* stateEstablish's comment: "Give everyone a chance to take an initial    *)
(* position": no ledger is accepted sooner than LEDGER_MIN_CONSENSUS after *)
(* it was closed.                                                          *)
EveryoneHasAChance ==
    node.job.at = "build" => node.elapsed >= LEDGER_MIN_CONSENSUS

(* checkOurValidation's comment: "This will send an older owed validation  *)
(* if we previously missed it."                                            *)
OwedValidationIsSent ==
    node.lastValidation # NoLedger => node.lastValidation \in node.sentValidations
=============================================================================
