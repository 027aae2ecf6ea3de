---------------------- MODULE ConsensusPositionsProofs ----------------------
(***************************************************************************)
(* What the consensus engine knows of its peers, for every set of peers,   *)
(* proposals, ledgers and views: the position of each peer is the last one *)
(* heard for the ledger the engine works towards, as far as proposals have *)
(* not fallen out of the store and positions have not gone stale.          *)
(*                                                                         *)
(* A change of view forgets the positions and playbackProposals restores   *)
(* them from the stored proposals.  So the invariant is about both: the    *)
(* proposals delivered are stored, or lost (Stores), and what is known is  *)
(* what proposals say that leave out none but lost ones (AllTrack).  The   *)
(* functions of the engine that change neither, stale positions excepted,  *)
(* have a lemma that says so (Same).                                       *)
(***************************************************************************)
EXTENDS ConsensusRoundProofs

(* The prover of the leaves that name none. *)
USE SMTT(30)
-----------------------------------------------------------------------------
(* The members that tell what the engine knows of the peers' positions. *)
Known == {"prevLedgerHash", "peerPositions", "deadNodes", "storedProposals",
          "lost", "expired"}

(* The ledger we work towards and the proposals stored and lost are the    *)
(* same.                                                                   *)
Like(s, r) ==
    /\ Known \subseteq DOMAIN r
    /\ r.prevLedgerHash = s.prevLedgerHash
    /\ r.storedProposals = s.storedProposals
    /\ r.lost = s.lost /\ s.expired \subseteq r.expired

(* p has the same position, or none. *)
Alike(s, r, p) ==
    /\ p \in DOMAIN r.peerPositions <=> p \in DOMAIN s.peerPositions
    /\ p \in DOMAIN s.peerPositions => r.peerPositions[p] = s.peerPositions[p]

(* Nothing of that changes from s to r, except that positions go stale. *)
Same(s, r) ==
    /\ Like(s, r) /\ r.deadNodes = s.deadNodes
    /\ \A p \in Peers \ r.expired : Alike(s, r, p)

(* One change after the other. *)
LEMMA SameTrans ==
  ASSUME NEW s, NEW r, NEW q, Same(s, r), Same(r, q)
  PROVE  Same(s, q)
  BY DEF Same, Like, Alike
-----------------------------------------------------------------------------
(* A tick of the timer. *)

(* Disputes. *)
LEMMA SameDisputes ==
  ASSUME NEW s, Known \subseteq DOMAIN s, NEW m, NEW others
  PROVE  /\ Same(s, compareWith(s, m, others))
         /\ Same(s, adjustCount(s, m, others))
         /\ Same(s, updateVotes(s))
         /\ Same(s, takePosition(s, m))
  <1>1. Same(s, compareWith(s, m, others))
    BY DEF Same, Like, Alike, Known, compareWith, createDisputes
  <1>2. Same(s, adjustCount(s, m, others))
    BY DEF Same, Like, Alike, Known, adjustCount, ForAllDisputes
  <1>3. Same(s, updateVotes(s))
    BY DEF Same, Like, Alike, Known, updateVotes, ForAllDisputes
  <1>4. Same(s, takePosition(s, m))
    BY DEF Same, Like, Alike, Known, takePosition, ForAllDisputes
  <1> QED BY <1>1, <1>2, <1>3, <1>4

(* A set that is complete. *)
LEMMA SameMap ==
  ASSUME NEW s, Known \subseteq DOMAIN s, NEW map, NEW fromPeer
  PROVE  Same(s, mapCompleteInternal(s, map, fromPeer))
  <1> DEFINE a == IF fromPeer THEN s ELSE shareSet(s, map)
             b == compareMap(a, map)
             c == adjustCount(b, map, proposersOf(s, map))
             d == [c EXCEPT !.acquired = @ \cup {map}]
  <1>1. Same(s, s)
    BY DEF Same, Like, Alike
  <1>2. Same(s, a)
    BY <1>1 DEF Same, Like, Alike, Known, shareSet, setEntry
  <1>3. Known \subseteq DOMAIN a
    BY <1>2, Zenon DEF Same, Like
  <1> HIDE DEF a
  <1>4. Same(a, b)
    <2>1. Same(a, a)
      BY <1>3 DEF Same, Like, Alike
    <2>2. Same(a, compareWith(a, a.ourSet, {map}))
      BY <1>3, SameDisputes, Zenon
    <2> QED BY <2>1, <2>2, Zenon DEF compareMap
  <1>5. Known \subseteq DOMAIN b
    BY <1>4, Zenon DEF Same, Like
  <1> HIDE DEF b
  <1>6. Same(b, c)
    BY <1>5, SameDisputes, Zenon
  <1>7. Known \subseteq DOMAIN c
    BY <1>6, Zenon DEF Same, Like
  <1> HIDE DEF c
  <1>8. Same(c, d)
    BY <1>7 DEF Same, Like, Alike, Known
  <1> HIDE DEF d
  <1>9. Same(s, d)
    BY <1>2, <1>4, <1>6, <1>8, SameTrans, Zenon
  <1> QED BY <1>1, <1>9, Zenon DEF mapCompleteInternal, a, b, c, d

(* What we propose. *)
LEMMA SameProposal ==
  ASSUME NEW s, Known \subseteq DOMAIN s
  PROVE  /\ Same(s, s) /\ Same(s, propose(s)) /\ Same(s, proposeIfProposing(s))
         /\ Same(s, leaveConsensus(s)) /\ Same(s, revoke(s))
  <1>1. Same(s, s) /\ Same(s, propose(s))
    BY DEF Same, Like, Alike, Known, propose
  <1>2. Same(s, proposeIfProposing(s))
    BY <1>1, Zenon DEF proposeIfProposing
  <1>3. Same(s, leaveConsensus(s))
    BY DEF Same, Like, Alike, Known, leaveConsensus, propose
  <1>4. Same(s, revoke(s))
    BY <1>1, <1>3, Zenon DEF revoke
  <1> QED BY <1>1, <1>2, <1>3, <1>4

(* The ledger is closed. *)
LEMMA SameClose ==
  ASSUME NEW s, Known \subseteq DOMAIN s, NEW openTxs
  PROVE  Same(s, closeLedger(s, openTxs))
  <1> DEFINE a == [checkOurValidation(s) EXCEPT !.state = "establish", !.elapsed = 0]
             b == takePosition(a, openTxs)
             c == compareInitial(b)
             d == mapCompleteInternal(c, openTxs, FALSE)
             e == proposeIfProposing(d)
  <1>1. Same(s, a)
    BY DEF Same, Like, Alike, Known, checkOurValidation
  <1>2. Known \subseteq DOMAIN a
    BY <1>1, Zenon DEF Same, Like
  <1> HIDE DEF a
  <1>3. Same(a, b)
    BY <1>2, SameDisputes, Zenon
  <1>4. Known \subseteq DOMAIN b
    BY <1>3, Zenon DEF Same, Like
  <1> HIDE DEF b
  <1>5. Same(b, c)
    BY <1>4, SameDisputes, Zenon DEF compareInitial
  <1>6. Known \subseteq DOMAIN c
    BY <1>5, Zenon DEF Same, Like
  <1> HIDE DEF c
  <1>7. Same(c, d)
    BY <1>6, SameMap, Zenon
  <1>8. Known \subseteq DOMAIN d
    BY <1>7, Zenon DEF Same, Like
  <1> HIDE DEF d
  <1>9. Same(d, e)
    BY <1>8, SameProposal, Zenon
  <1> HIDE DEF e
  <1>10. Same(s, e)
    BY <1>1, <1>3, <1>5, <1>7, <1>9, SameTrans, Zenon
  <1> QED BY <1>10, Zenon DEF closeLedger, takeInitialPosition, a, b, c, d, e

(* Our position follows the votes. *)
LEMMA SameFollow ==
  ASSUME NEW s, NEW t, NEW v, Known \subseteq DOMAIN s
  PROVE  Same(s, followVotes(t, s, v))
  <1> DEFINE n == changedSet(t, s)
             a == [s EXCEPT !.ourSet = n, !.ourPosition.set = n]
             b == proposeIfProposing(a)
             c == mapCompleteInternal(b, n, FALSE)
             d == [s EXCEPT !.ourSet = n]
  <1> HIDE DEF n
  <1>1. Same(s, a) /\ Same(s, d) /\ Same(s, s)
    BY DEF Same, Like, Alike, Known
  <1>2. Known \subseteq DOMAIN a
    BY <1>1, Zenon DEF Same, Like
  <1> HIDE DEF a, d
  <1>3. Same(a, b)
    BY <1>2, SameProposal, Zenon
  <1>4. Known \subseteq DOMAIN b
    BY <1>3, Zenon DEF Same, Like
  <1> HIDE DEF b
  <1>5. Same(b, c)
    BY <1>4, SameMap, Zenon
  <1> HIDE DEF c
  <1>6. Same(s, c)
    BY <1>1, <1>3, <1>5, SameTrans, Zenon
  <1>7. followVotes(t, s, v) \in {s, d, c}
    BY Zenon DEF followVotes, changePosition, n, a, b, c, d
  <1> QED BY <1>1, <1>6, <1>7, Zenon

(* updateOurPositions. *)
LEMMA SameUpdate ==
  ASSUME NEW s, Known \subseteq DOMAIN s, NEW v
  PROVE  Same(s, updateOurPositions(s, v))
  <1> DEFINE a == dropStale(s, v.stale \cap DOMAIN s.peerPositions)
             b == updateVotes(a)
             c == closeTimeVote(b, v)
             d == followVotes(a, c, v)
  <1>1. Same(s, a)
    BY DEF Same, Like, Alike, Known, dropStale, ForAllDisputes, Without
  <1>2. Known \subseteq DOMAIN a
    BY <1>1, Zenon DEF Same, Like
  <1> HIDE DEF a
  <1>3. Same(a, b)
    BY <1>2, SameDisputes, Zenon
  <1>4. Known \subseteq DOMAIN b
    BY <1>3, Zenon DEF Same, Like
  <1> HIDE DEF b
  <1>5. Same(b, c)
    BY <1>4 DEF Same, Like, Alike, Known, closeTimeVote
  <1>6. Known \subseteq DOMAIN c
    BY <1>5, Zenon DEF Same, Like
  <1> HIDE DEF c
  <1>7. Same(c, d)
    BY <1>6, SameFollow, Zenon
  <1> HIDE DEF d
  <1>8. Same(s, d)
    BY <1>1, <1>3, <1>5, <1>7, SameTrans, Zenon
  <1> QED BY <1>8, Zenon DEF updateOurPositions, a, b, c, d

(* stateEstablish. *)
LEMMA SameEstablish ==
  ASSUME NEW s, Known \subseteq DOMAIN s, NEW v
  PROVE  Same(s, stateEstablish(s, v))
  <1> DEFINE a == updateOurPositions(s, v)
             b == compareRest(a)
             c == haveConsensus(b, v)
  <1>1. Same(s, a)
    BY SameUpdate, Zenon
  <1>2. Known \subseteq DOMAIN a
    BY <1>1, Zenon DEF Same, Like
  <1> HIDE DEF a
  <1>3. Same(a, b)
    BY <1>2, SameDisputes, Zenon DEF compareRest
  <1>4. Known \subseteq DOMAIN b
    BY <1>3, Zenon DEF Same, Like
  <1> HIDE DEF b
  <1>5. Same(b, c)
    <2> DEFINE o == consensusState(b, v)
               d == [b EXCEPT !.consensusFail = (o = "MovedOn")]
               e == beginAccept(d)
    <2> HIDE DEF o
    <2>1. Same(b, b) /\ Same(b, d) /\ Same(b, e)
      BY <1>4 DEF Same, Like, Alike, Known, beginAccept
    <2>2. c \in {b, d, e}
      <3> HIDE DEF d, e
      <3> QED BY DEF haveConsensus, endEstablish, o, d, e
    <2> QED BY <2>1, <2>2, Zenon
  <1> HIDE DEF c
  <1>6. Same(s, c) /\ Same(s, s)
    BY <1>1, <1>3, <1>5, SameTrans, SameProposal, Zenon
  <1> QED BY <1>6, Zenon DEF stateEstablish, a, b, c

(* timerEntry once checkLCL is done. *)
LEMMA SameTick ==
  ASSUME NEW s, Known \subseteq DOMAIN s, NEW v
  PROVE  Same(s, Tick(s, v))
  <1> DEFINE a == [s EXCEPT !.roundTime = v.time, !.elapsed = v.time]
             b == IF a.state = "open" THEN statePreClose(a, v) ELSE a
             c == establish(b, v)
  <1>1. Same(s, a)
    BY DEF Same, Like, Alike, Known
  <1>2. Known \subseteq DOMAIN a
    BY <1>1, Zenon DEF Same, Like
  <1> HIDE DEF a
  <1>3. Same(a, b)
    <2>1. Same(a, a) /\ Same(a, closeLedger(a, v.open))
      BY <1>2, SameClose, SameProposal, Zenon
    <2> QED BY <2>1, Zenon DEF statePreClose
  <1>4. Known \subseteq DOMAIN b
    BY <1>3, Zenon DEF Same, Like
  <1> HIDE DEF b
  <1>5. Same(b, c)
    BY <1>4, SameEstablish, SameProposal, Zenon DEF establish
  <1> HIDE DEF c
  <1>6. Same(s, c)
    BY <1>1, <1>3, <1>5, SameTrans, Zenon
  <1> QED BY <1>6, Zenon DEF Tick, phaseStep, a, b, c
-----------------------------------------------------------------------------
(* One proposal after the other. *)

(* The proposals of D that p made for the ledger we work towards. *)
HeardBy(s, p, D) == {m \in D : m.from = p /\ m.prev = s.prevLedgerHash}

(* What the engine knows of p is what H, the proposals it has heard of it, *)
(* says last: the highest sequence number, and with it a bow out, wins.    *)
Tracks(s, p, H) ==
    IF \E m \in H : m.seq = seqLeave
    THEN p \notin DOMAIN s.peerPositions /\ p \in s.deadNodes
    ELSE /\ p \notin s.deadNodes
         /\ p \in DOMAIN s.peerPositions <=> H # {}
         /\ H # {} => \E m \in H : /\ s.peerPositions[p] = [seq |-> m.seq, set |-> m.set]
                                   /\ \A n \in H : n.seq <= m.seq

AllTrack(s, D) == \A p \in Peers \ s.expired : Tracks(s, p, HeardBy(s, p, D))

(* What leaves the members alone leaves what they say alone. *)
LEMMA SameTracks ==
  ASSUME NEW s, NEW r, Same(s, r), NEW D, AllTrack(s, D)
  PROVE  AllTrack(r, D)
  <1> SUFFICES ASSUME NEW p \in Peers \ r.expired PROVE Tracks(r, p, HeardBy(r, p, D))
    BY DEF AllTrack
  <1>1. HeardBy(r, p, D) = HeardBy(s, p, D) /\ p \in Peers \ s.expired
    BY Zenon DEF HeardBy, Same, Like
  <1> DEFINE H == HeardBy(s, p, D)
  <1>2. Tracks(s, p, H)
    BY <1>1, Zenon DEF AllTrack
  <1> HIDE DEF H
  <1>3. Alike(s, r, p) /\ r.deadNodes = s.deadNodes
    BY DEF Same
  <1>4. Tracks(r, p, H)
    BY <1>2, <1>3, Zenon DEF Tracks, Alike
  <1> QED BY <1>1, <1>4 DEF H

(* A proposal has a sequence number, up to that of a bow out. *)
LEMMA ProposalSeq ==
  ASSUME NEW m \in Proposals
  PROVE  m.seq \in Nat /\ m.seq <= seqLeave /\ m.from \in Peers /\ seqLeave \in Nat
  <1>1. m.seq \in 0 .. seqLeave /\ m.from \in Peers
    BY RoundAssumption
  <1>2. seqLeave \in Nat
    BY SMT DEF seqLeave
  <1> QED BY <1>1, <1>2

(* From s to r, p bows out ... *)
Left(s, r, p) ==
    /\ Like(s, r) /\ r.deadNodes = s.deadNodes \cup {p}
    /\ p \notin DOMAIN r.peerPositions
    /\ \A q \in Peers \ (r.expired \cup {p}) : Alike(s, r, q)

(* ... or takes the position of this proposal. *)
Took(s, r, p, m) ==
    /\ Like(s, r) /\ r.deadNodes = s.deadNodes
    /\ p \notin r.expired => /\ p \in DOMAIN r.peerPositions
                             /\ r.peerPositions[p] = [seq |-> m.seq, set |-> m.set]
    /\ \A q \in Peers \ (r.expired \cup {p}) : Alike(s, r, q)

(* A peer that bows out. *)
LEMMA LeaveChanges ==
  ASSUME NEW s, Known \subseteq DOMAIN s, NEW p
  PROVE  Left(s, peerLeaves(s, p), p)
  BY DEF Left, Like, Alike, Known, peerLeaves, ForAllDisputes, Without

(* A peer that takes a position. *)
LEMMA TakeChanges ==
  ASSUME NEW s, Known \subseteq DOMAIN s, NEW m, m.from \in Peers
  PROVE  Took(s, peerTakes(s, m), m.from, m)
  <1> DEFINE x == [seq |-> m.seq, set |-> m.set]
             a == placePosition(s, m)
             b == findSet(a, m.set)
             c == countVotes(b, m)
             p == m.from
  <1>2. /\ Like(s, a) /\ a.deadNodes = s.deadNodes
        /\ p \in DOMAIN a.peerPositions /\ a.peerPositions[p] = x
        /\ \A q \in Peers \ {p} : Alike(s, a, q)
    <2> HIDE DEF x
    <2>1. a = [s EXCEPT !.peerPositions = [q \in DOMAIN s.peerPositions \cup {m.from} |->
                          IF q = m.from THEN x ELSE s.peerPositions[q]]]
      BY Zenon DEF placePosition, x
    <2> HIDE DEF a
    <2> QED BY <2>1 DEF Like, Alike, Known
  <1>3. Known \subseteq DOMAIN a
    BY <1>2, Zenon DEF Like
  <1> HIDE DEF a, x
  <1>4. Same(a, b)
    <2> DEFINE set == m.set
    <2> HIDE DEF set
    <2>1. Same(a, a)
      BY <1>3, SameProposal
    <2>2. Same(a, getSet(a, set))
      BY <1>3 DEF Same, Like, Alike, Known, getSet, setEntry
    <2> DEFINE d == getSet(a, set)
               got == IF set \in sets(a) THEN d.acquired \cup {set} ELSE d.acquired
    <2>3. Known \subseteq DOMAIN d
      BY <2>2, Zenon DEF Same, Like
    <2> HIDE DEF d, got
    <2>4. Same(d, [d EXCEPT !.acquired = got])
      BY <2>3 DEF Same, Like, Alike, Known
    <2>5. Same(a, [d EXCEPT !.acquired = got])
      BY <2>2, <2>4, SameTrans, Zenon DEF d
    <2> QED BY <2>1, <2>5, Zenon DEF findSet, d, got, set
  <1>5. Known \subseteq DOMAIN b
    BY <1>4, Zenon DEF Same, Like
  <1> HIDE DEF b
  <1>6. Same(b, c)
    BY <1>5, SameDisputes, SameProposal, Zenon DEF countVotes
  <1> HIDE DEF c, p
  <1>7. Same(a, c)
    BY <1>4, <1>6, SameTrans, Zenon
  <1>8. /\ Like(s, c) /\ c.deadNodes = s.deadNodes
    BY <1>2, <1>7, Zenon DEF Like, Same
  <1>9. \A q \in Peers \ c.expired : Alike(a, c, q)
    BY <1>7, Zenon DEF Same
  <1>10. p \notin c.expired => p \in DOMAIN c.peerPositions /\ c.peerPositions[p] = x
    BY <1>2, <1>9, Zenon DEF Alike, p
  <1>11. \A q \in Peers \ (c.expired \cup {p}) : Alike(s, c, q)
    BY <1>2, <1>9, Zenon DEF Alike
  <1>12. c = peerTakes(s, m)
    BY Zenon DEF peerTakes, a, b, c
  <1> QED BY <1>8, <1>10, <1>11, <1>12, Zenon DEF p, x, Took

(* peerPosition adds a proposal for the ledger we work towards to what has *)
(* been heard.                                                             *)
LEMMA PositionTracks ==
  ASSUME NEW s, Known \subseteq DOMAIN s, NEW m \in Proposals,
         NEW D \in SUBSET Proposals, AllTrack(s, D)
  PROVE  /\ Like(s, peerPosition(s, m))
         /\ AllTrack(peerPosition(s, m), D \cup {m})
  <1> DEFINE r == peerPosition(s, m)
             E == D \cup {m}
             p == m.from
             H == HeardBy(s, p, D)
             past == p \in DOMAIN s.peerPositions /\ m.seq <= s.peerPositions[p].seq
  <1>1. /\ p \in Peers /\ m.seq \in Nat /\ m.seq <= seqLeave /\ seqLeave \in Nat
        /\ \A n \in H : n.seq \in Nat /\ n.seq <= seqLeave
    BY ProposalSeq, Zenon DEF HeardBy
  <1>2. p \notin s.expired => Tracks(s, p, H)
    BY <1>1, Zenon DEF AllTrack
  <1>3. \A q \in Peers \ {p} : HeardBy(s, q, E) = HeardBy(s, q, D)
    BY DEF HeardBy
  <1>4. CASE m.prev # s.prevLedgerHash
    <2>1. r = s
      BY <1>4 DEF peerPosition
    <2>2. \A q \in Peers : HeardBy(s, q, E) = HeardBy(s, q, D)
      BY <1>4 DEF HeardBy
    <2>3. Like(s, s)
      BY DEF Like
    <2> HIDE DEF r
    <2> QED BY <2>1, <2>2, <2>3, Zenon DEF AllTrack, r
  <1>5. CASE m.prev = s.prevLedgerHash
    <2>1. HeardBy(s, p, E) = H \cup {m}
      BY <1>5 DEF HeardBy
    <2>2. CASE p \in s.deadNodes \/ past
      <3>1. r = s
        BY <2>2 DEF peerPosition
      <3>2. Like(s, s)
        BY DEF Like
      <3>3. ASSUME p \notin s.expired PROVE Tracks(s, p, H \cup {m})
        <4>0. Tracks(s, p, H)
          BY <1>2, <3>3, Zenon
        <4> HIDE DEF H, p
        <4>1. CASE p \in s.deadNodes
          <5>1. \E n \in H : n.seq = seqLeave
            BY <4>0, <4>1, Zenon DEF Tracks
          <5> QED BY <4>0, <5>1, Zenon DEF Tracks
        <4>2. CASE p \notin s.deadNodes
          <5>1. /\ p \in DOMAIN s.peerPositions /\ m.seq <= s.peerPositions[p].seq
                /\ ~\E n \in H : n.seq = seqLeave
            BY <4>0, <2>2, <4>2, Zenon DEF Tracks
          <5>2. PICK n \in H : /\ s.peerPositions[p] = [seq |-> n.seq, set |-> n.set]
                               /\ \A k \in H : k.seq <= n.seq
            BY <4>0, <5>1, Zenon DEF Tracks
          <5>3. s.peerPositions[p].seq = n.seq
            BY <5>2
          <5>4. m.seq # seqLeave /\ m.seq <= n.seq
            BY <1>1, <5>1, <5>2, <5>3
          <5> QED BY <4>2, <5>1, <5>2, <5>4, Zenon DEF Tracks
        <4> QED BY <4>1, <4>2
      <3> HIDE DEF r, H, E
      <3>4. \A q \in Peers \ s.expired : Tracks(s, q, HeardBy(s, q, E))
        BY <1>3, <2>1, <3>3, Zenon DEF AllTrack
      <3> QED BY <3>1, <3>2, <3>4, Zenon DEF AllTrack, r, E
    <2>3. CASE ~(p \in s.deadNodes \/ past) /\ m.seq = seqLeave
      <3>1. r = peerLeaves(s, p)
        BY <1>5, <2>3 DEF peerPosition
      <3> HIDE DEF r
      <3>2. Left(s, r, p)
        BY <3>1, LeaveChanges, Zenon
      <3> HIDE DEF H, E, p
      <3>3. Tracks(r, p, H \cup {m})
        BY <2>3, <3>2, Zenon DEF Tracks, Left
      <3>4. ASSUME NEW q \in Peers \ {p}, q \notin r.expired
            PROVE  Tracks(r, q, HeardBy(s, q, D))
        <4> DEFINE G == HeardBy(s, q, D)
        <4>1. Tracks(s, q, G)
          BY <3>2, <3>4, Zenon DEF AllTrack, Left, Like
        <4> HIDE DEF G
        <4>2. Alike(s, r, q) /\ (q \in r.deadNodes <=> q \in s.deadNodes)
          BY <3>2, <3>4, Zenon DEF Left
        <4>3. Tracks(r, q, G)
          BY <4>1, <4>2, Zenon DEF Tracks, Alike
        <4> QED BY <4>3 DEF G
      <3>5. \A q \in Peers : HeardBy(r, q, E) = HeardBy(s, q, E)
        BY <3>2, Zenon DEF HeardBy, Like, Left
      <3> QED BY <1>3, <2>1, <3>2, <3>3, <3>4, <3>5, Zenon DEF AllTrack, r, E, Left
    <2>4. CASE ~(p \in s.deadNodes \/ past) /\ m.seq # seqLeave
      <3>1. r = peerTakes(s, m)
        BY <1>5, <2>4 DEF peerPosition
      <3> HIDE DEF r
      <3>2. Took(s, r, p, m)
        BY <1>1, <3>1, TakeChanges, Zenon
      <3> HIDE DEF H, E, p
      <3>3. ASSUME p \notin r.expired PROVE Tracks(r, p, H \cup {m})
        <4>0. Tracks(s, p, H)
          BY <1>2, <3>2, <3>3, Zenon DEF Took, Like
        <4>1. ~\E n \in H : n.seq = seqLeave
          BY <4>0, <2>4, Zenon DEF Tracks
        <4>2. \A n \in H : n.seq <= m.seq
          <5>1. CASE H = {}
            BY <5>1
          <5>2. CASE H # {}
            <6>1. p \in DOMAIN s.peerPositions
              BY <4>0, <4>1, <5>2, Zenon DEF Tracks
            <6>2. PICK n \in H : /\ s.peerPositions[p] = [seq |-> n.seq, set |-> n.set]
                                 /\ \A k \in H : k.seq <= n.seq
              BY <4>0, <4>1, <5>2, Zenon DEF Tracks
            <6>3. s.peerPositions[p].seq = n.seq
              BY <6>2
            <6>4. ~(m.seq <= n.seq)
              BY <2>4, <6>1, <6>3, Zenon
            <6> QED BY <1>1, <6>2, <6>4
          <5> QED BY <5>1, <5>2
        <4>3. \A n \in H \cup {m} : n.seq <= m.seq
          BY <1>1, <4>2
        <4>4. /\ ~\E n \in H \cup {m} : n.seq = seqLeave
              /\ p \notin r.deadNodes /\ p \in DOMAIN r.peerPositions
          BY <2>4, <3>2, <3>3, <4>1, Zenon DEF Took
        <4>5. r.peerPositions[p] = [seq |-> m.seq, set |-> m.set]
          BY <3>2, <3>3, Zenon DEF Took
        <4> QED BY <4>3, <4>4, <4>5, Zenon DEF Tracks
      <3>4. ASSUME NEW q \in Peers \ {p}, q \notin r.expired
            PROVE  Tracks(r, q, HeardBy(s, q, D))
        <4> DEFINE G == HeardBy(s, q, D)
        <4>1. Tracks(s, q, G)
          BY <3>2, <3>4, Zenon DEF AllTrack, Took, Like
        <4> HIDE DEF G
        <4>2. Alike(s, r, q) /\ r.deadNodes = s.deadNodes
          BY <3>2, <3>4, Zenon DEF Took
        <4>3. Tracks(r, q, G)
          BY <4>1, <4>2, Zenon DEF Tracks, Alike
        <4> QED BY <4>3 DEF G
      <3>5. \A q \in Peers : HeardBy(r, q, E) = HeardBy(s, q, E)
        BY <3>2, Zenon DEF HeardBy, Like, Took
      <3> QED BY <1>3, <2>1, <3>2, <3>3, <3>4, <3>5, Zenon DEF AllTrack, r, E, Took
    <2> QED BY <2>2, <2>3, <2>4
  <1> QED BY <1>4, <1>5
-----------------------------------------------------------------------------
(* playbackProposals. *)

(* The proposals of a sequence. *)
Played(q) == {q[i] : i \in DOMAIN q}

(* E and what all of S add to it. *)
Total(E, S, g) == E \cup UNION {g[i] : i \in S}

(* Playing back i of S adds g[i] to what has been heard. *)
Adds(k, s, q, S, g) ==
    \A e, i : \A D \in SUBSET Proposals :
        (i \in S /\ Like(s, e) /\ AllTrack(e, D))
           => /\ Like(s, PlayStep(k, e, PlayItem(k, q, i)))
              /\ AllTrack(PlayStep(k, e, PlayItem(k, q, i)), D \cup g[i])

(* If every step adds to what has been heard, playing them all back adds   *)
(* all of it.                                                              *)
LEMMA PlayTracks ==
  ASSUME NEW k, NEW s, Known \subseteq DOMAIN s, NEW q, NEW S, IsFiniteSet(S),
         k = "proposal" => \E n \in Nat : S = 1 .. n,
         NEW E \in SUBSET Proposals, AllTrack(s, E),
         NEW g, \A i \in S : g[i] \in SUBSET Proposals,
         Adds(k, s, q, S, g),
         NEW it, IsPlay(k, it, s, q, S)
  PROVE  Like(s, it[S]) /\ AllTrack(it[S], Total(E, S, g))
  <1> DEFINE Last(T) == PlayLast(k, T)
             Upto(T) == Total(E, T, g)
             Q == {T \in SUBSET S : Like(s, it[T]) /\ AllTrack(it[T], Upto(T))}
  <1>0. \A T \in SUBSET S : \A l \in T : Upto(T) = Upto(T \ {l}) \cup g[l]
    <2> SUFFICES ASSUME NEW T \in SUBSET S, NEW l \in T
                 PROVE  Upto(T) = Upto(T \ {l}) \cup g[l]
      BY Zenon
    <2>1. ASSUME NEW x \in Upto(T) PROVE x \in Upto(T \ {l}) \cup g[l]
      BY ZenonT(30) DEF Total
    <2>2. ASSUME NEW x \in Upto(T \ {l}) \cup g[l] PROVE x \in Upto(T)
      BY ZenonT(30) DEF Total
    <2> QED BY <2>1, <2>2, Zenon
  <1>1. \A T \in SUBSET S : (\A U \in SUBSET T : U # T => U \in Q) => T \in Q
    <2> SUFFICES ASSUME NEW T \in SUBSET S, \A U \in SUBSET T : U # T => U \in Q
                 PROVE  T \in Q
      BY Zenon
    <2>1. it[T] = IF T = {} THEN s
                  ELSE PlayStep(k, it[T \ {Last(T)}], PlayItem(k, q, Last(T)))
      BY Zenon DEF IsPlay
    <2>2. CASE T = {}
      <3>1. it[T] = s /\ Upto(T) = E
        BY <2>1, <2>2 DEF Total
      <3>2. Like(s, s)
        BY DEF Like
      <3> HIDE DEF Upto
      <3> QED BY <3>1, <3>2, Zenon
    <2>3. CASE T # {}
      <3> DEFINE l == Last(T)
                 U == T \ {l}
                 e == it[U]
      <3>1. l \in T
        BY <2>3, LastIsIn, Zenon
      <3> HIDE DEF Last, l
      <3>2. U \in Q /\ l \in S
        BY <3>1
      <3>3. Upto(U) \in SUBSET Proposals
        BY DEF Total
      <3>4. Upto(T) = Upto(U) \cup g[l]
        <4> HIDE DEF Q, Upto
        <4> QED BY <1>0, <3>1, Zenon
      <3>5. it[T] = PlayStep(k, e, PlayItem(k, q, l))
        BY <2>1, <2>3, Zenon DEF l
      <3>6. Like(s, e) /\ AllTrack(e, Upto(U))
        BY <3>2, Zenon
      <3> HIDE DEF Upto, U, e
      <3>7. /\ Like(s, PlayStep(k, e, PlayItem(k, q, l)))
            /\ AllTrack(PlayStep(k, e, PlayItem(k, q, l)), Upto(U) \cup g[l])
        BY <3>2, <3>3, <3>6, Zenon DEF Adds
      <3> QED BY <3>4, <3>5, <3>7, Zenon
    <2> QED BY <2>2, <2>3, Zenon
  <1>3. \A T \in SUBSET S : T \in Q
    <2> HIDE DEF Q
    <2> QED BY <1>1, SubsetInduction, Zenon
  <1>4. S \in Q
    BY <1>3, Zenon
  <1> QED
    BY <1>4, Zenon

(* The stored proposals of a peer are played back. *)
LEMMA ReplayPeerTracks ==
  ASSUME NEW s, Known \subseteq DOMAIN s, NEW p \in Peers,
         s.storedProposals[p] \in Seq(Proposals),
         NEW E \in SUBSET Proposals, AllTrack(s, E)
  PROVE  /\ Like(s, replayPeer(s, p))
         /\ AllTrack(replayPeer(s, p), E \cup Played(s.storedProposals[p]))
  <1> DEFINE q == s.storedProposals[p]
             g == [i \in DOMAIN q |-> {q[i]}]
             it == CHOOSE it : IsPlay("proposal", it, s, q, DOMAIN q)
  <1>1. replayPeer(s, p) = it[DOMAIN q]
    BY DEF replayPeer, MapThenFoldSet, IsPlay, PlayStep, PlayLast, PlayItem
  <1> HIDE DEF q
  <1>2. /\ Len(q) \in Nat /\ DOMAIN q = 1 .. Len(q) /\ IsFiniteSet(DOMAIN q)
        /\ \A i \in DOMAIN q : q[i] \in Proposals
    BY FS_Interval DEF q
  <1>3. IsPlay("proposal", it, s, q, DOMAIN q)
    BY <1>2, PlayExists, Zenon
  <1>4. \A i \in DOMAIN q : g[i] = {q[i]} /\ g[i] \in SUBSET Proposals
    BY <1>2
  <1>5. Total(E, DOMAIN q, g) = E \cup Played(q)
    BY <1>4 DEF Played, Total
  <1> HIDE DEF g, it
  <1>6. ASSUME NEW e, NEW i, NEW D \in SUBSET Proposals,
               i \in DOMAIN q, Like(s, e), AllTrack(e, D)
        PROVE  LET r == PlayStep("proposal", e, PlayItem("proposal", q, i))
               IN  Like(s, r) /\ AllTrack(r, D \cup g[i])
    <2> DEFINE m == q[i]
    <2>1. m \in Proposals /\ g[i] = {m} /\ Known \subseteq DOMAIN e
      BY <1>2, <1>4, <1>6, Zenon DEF Like
    <2>2. PlayStep("proposal", e, PlayItem("proposal", q, i)) = replay(e, m)
      BY DEF PlayStep, PlayItem
    <2> HIDE DEF m
    <2>3. replay(e, m) = peerPosition(e, m)
      BY Zenon DEF replay, peerPosition
    <2>4. /\ Like(e, peerPosition(e, m))
          /\ AllTrack(peerPosition(e, m), D \cup {m})
      BY <1>6, <2>1, PositionTracks, Zenon
    <2>5. Like(s, peerPosition(e, m))
      BY <1>6, <2>4, Zenon DEF Like
    <2> QED BY <2>1, <2>2, <2>3, <2>4, <2>5, Zenon
  <1>7. Like(s, it[DOMAIN q]) /\ AllTrack(it[DOMAIN q], Total(E, DOMAIN q, g))
    <2> DEFINE S == DOMAIN q
    <2>1. \E n \in Nat : S = 1 .. n
      BY <1>2, Zenon
    <2>2. \A i \in S : g[i] \in SUBSET Proposals
      BY <1>4, Zenon
    <2>3. Adds("proposal", s, q, S, g)
      BY <1>6, Zenon DEF Adds
    <2>4. IsFiniteSet(S) /\ IsPlay("proposal", it, s, q, S)
      BY <1>2, <1>3, Zenon
    <2> HIDE DEF S
    <2>5. Like(s, it[S]) /\ AllTrack(it[S], Total(E, S, g))
      BY <2>1, <2>2, <2>3, <2>4, PlayTracks, Zenon
    <2> QED BY <2>5, Zenon DEF S
  <1> QED
    BY <1>1, <1>5, <1>7, Zenon DEF q

(* What the engine stores of the proposals D it has heard: all but those   *)
(* it has lost, by the peer that made them.                                *)
Stores(s, D) ==
    /\ Known \subseteq DOMAIN s
    /\ D \in SUBSET Proposals
    /\ s.storedProposals \in [Peers -> Seq(Proposals)]
    /\ \A p \in Peers : LET q == s.storedProposals[p]
                       IN  /\ Played(q) \subseteq {m \in D : m.from = p}
                           /\ {m \in D : m.from = p} \subseteq Played(q) \cup s.lost

(* Inductive: the engine knows what has been heard and not lost. *)
Whole(s, D) ==
    Stores(s, D) /\ \E E \in SUBSET D : D \ s.lost \subseteq E /\ AllTrack(s, E)

(* In the middle of a round's start it knows some of it. *)
Partly(s, D) == Stores(s, D) /\ \E E \in SUBSET D : AllTrack(s, E)

(* playbackProposals makes the engine know all that is stored. *)
LEMMA PlaybackTracks ==
  ASSUME NEW s, NEW D, Partly(s, D)
  PROVE  Whole(playbackProposals(s), D)
  <1>1. PICK E \in SUBSET D : AllTrack(s, E)
    BY Zenon DEF Partly
  <1>2. Stores(s, D)
    BY Zenon DEF Partly
  <1>3. Known \subseteq DOMAIN s /\ E \in SUBSET Proposals /\ D \in SUBSET Proposals
    BY <1>1, <1>2, Zenon DEF Stores
  <1> DEFINE Of(p) == s.storedProposals[p]
             g == [p \in Peers |-> Played(Of(p))]
             it == CHOOSE it : IsPlay("peer", it, s, <<>>, Peers)
  <1>4. \A p \in Peers : Of(p) \in Seq(Proposals)
    BY <1>2 DEF Stores
  <1>5. \A p \in Peers : /\ g[p] = Played(Of(p)) /\ g[p] \subseteq D
                         /\ {m \in D : m.from = p} \subseteq g[p] \cup s.lost
    <2> SUFFICES ASSUME NEW p \in Peers
                 PROVE  /\ g[p] = Played(Of(p)) /\ g[p] \subseteq D
                        /\ {m \in D : m.from = p} \subseteq g[p] \cup s.lost
      BY Zenon
    <2>1. /\ Played(Of(p)) \subseteq {m \in D : m.from = p}
          /\ {m \in D : m.from = p} \subseteq Played(Of(p)) \cup s.lost
      BY <1>2, Zenon DEF Stores
    <2>2. g[p] = Played(Of(p))
      BY Zenon
    <2> HIDE DEF g, Of
    <2> QED BY <2>1, <2>2
  <1>6. playbackProposals(s) = it[Peers]
    BY DEF playbackProposals, FoldSet, MapThenFoldSet, IsPlay, PlayStep, PlayLast, PlayItem
  <1>7. IsFiniteSet(Peers)
    BY RoundAssumption
  <1>8. IsPlay("peer", it, s, <<>>, Peers)
    BY <1>7, PlayExists, Zenon
  <1> HIDE DEF g, it
  <1>9. Adds("peer", s, <<>>, Peers, g)
    <2> SUFFICES ASSUME NEW e, NEW p, NEW F \in SUBSET Proposals,
                        p \in Peers, Like(s, e), AllTrack(e, F)
                 PROVE  LET r == PlayStep("peer", e, PlayItem("peer", <<>>, p))
                        IN  Like(s, r) /\ AllTrack(r, F \cup g[p])
      BY Zenon DEF Adds
    <2>1. PlayStep("peer", e, PlayItem("peer", <<>>, p)) = replayPeer(e, p)
      BY DEF PlayStep, PlayItem
    <2>2. /\ Known \subseteq DOMAIN e /\ e.storedProposals[p] = Of(p)
          /\ Of(p) \in Seq(Proposals)
      BY <1>4, Zenon DEF Like
    <2> HIDE DEF Of
    <2>3. /\ Like(e, replayPeer(e, p))
          /\ AllTrack(replayPeer(e, p), F \cup Played(Of(p)))
      BY <2>2, ReplayPeerTracks, Zenon
    <2>4. Like(s, replayPeer(e, p))
      BY <2>3, Zenon DEF Like
    <2>5. g[p] = Played(Of(p))
      BY <1>5, Zenon
    <2> QED BY <2>1, <2>3, <2>4, <2>5, Zenon
  <1>10. \A p \in Peers : g[p] \in SUBSET Proposals
    BY <1>3, <1>5
  <1>11. Like(s, it[Peers]) /\ AllTrack(it[Peers], Total(E, Peers, g))
    <2> DEFINE k == "peer"
    <2>1. k = "proposal" => \E n \in Nat : Peers = 1 .. n
      OBVIOUS
    <2>2. Adds(k, s, <<>>, Peers, g) /\ IsPlay(k, it, s, <<>>, Peers)
      BY <1>8, <1>9, Zenon
    <2> HIDE DEF k
    <2> QED BY <1>1, <1>3, <1>7, <1>10, <2>1, <2>2, PlayTracks, Zenon
  <1>12. Total(E, Peers, g) \in SUBSET D /\ D \ s.lost \subseteq Total(E, Peers, g)
    <2>1. \A m \in D : m.from \in Peers
      BY <1>3, ProposalSeq, Zenon
    <2>2. ASSUME NEW m \in D, m \notin s.lost PROVE m \in g[m.from]
      <3>1. {n \in D : n.from = m.from} \subseteq g[m.from] \cup s.lost
        BY <1>5, <2>1, Zenon
      <3> QED BY <2>2, <3>1
    <2>3. \A p \in Peers : g[p] \subseteq D
      BY <1>5, Zenon
    <2>4. ASSUME NEW m \in D \ s.lost PROVE m \in Total(E, Peers, g)
      BY <2>1, <2>2, Zenon DEF Total
    <2>5. Total(E, Peers, g) \subseteq D
      BY <1>1, <2>3, Zenon DEF Total
    <2> QED BY <2>4, <2>5
  <1>13. Stores(it[Peers], D) /\ it[Peers].lost = s.lost
    BY <1>2, <1>11, Zenon DEF Stores, Like
  <1> QED
    BY <1>6, <1>11, <1>12, <1>13, Zenon DEF Whole
-----------------------------------------------------------------------------
(* Changes of the ledger we work towards, and the start of a round. *)

(* What leaves the members alone leaves what is known alone. *)
LEMMA SameKnown ==
  ASSUME NEW s, NEW r, Same(s, r), NEW D
  PROVE  /\ Stores(s, D) => Stores(r, D)
         /\ Whole(s, D) => Whole(r, D)
         /\ Partly(s, D) => Partly(r, D)
  <1>1. r.lost = s.lost /\ r.storedProposals = s.storedProposals /\ Known \subseteq DOMAIN r
    BY Zenon DEF Same, Like
  <1>2. Stores(s, D) => Stores(r, D)
    BY <1>1, ZenonT(30) DEF Stores
  <1> QED BY <1>1, <1>2, SameTracks, Zenon DEF Whole, Partly

(* What is known is known in part. *)
LEMMA WholeIsPartly ==
  ASSUME NEW s, NEW D, Whole(s, D)
  PROVE  Stores(s, D) /\ Partly(s, D) /\ Known \subseteq DOMAIN s
  BY Zenon DEF Whole, Partly, Stores

(* A tick of the timer. *)
LEMMA TickTracks ==
  ASSUME NEW s, NEW D, Whole(s, D), NEW v
  PROVE  /\ Whole(Tick(s, v), D) /\ Whole(tickIfBehind(s, v), D)
  <1>1. Known \subseteq DOMAIN s
    BY Zenon DEF Whole, Stores
  <1>2. Same(s, Tick(s, v))
    BY <1>1, SameTick, Zenon
  <1>3. Whole(Tick(s, v), D)
    BY <1>2, SameKnown, Zenon
  <1> QED BY <1>3, Zenon DEF tickIfBehind

(* When the positions are forgotten, nothing is known. *)
LEMMA Forgotten ==
  ASSUME NEW s, NEW D, Stores(s, D), NEW r, Known \subseteq DOMAIN r,
         r.storedProposals = s.storedProposals, r.lost = s.lost,
         r.peerPositions = <<>>, r.deadNodes = {}
  PROVE  Partly(r, D)
  <1>1. Stores(r, D)
    BY Zenon DEF Stores
  <1>2. AllTrack(r, {})
    <2> SUFFICES ASSUME NEW p \in Peers \ r.expired PROVE Tracks(r, p, HeardBy(r, p, {}))
      BY Zenon DEF AllTrack
    <2>1. HeardBy(r, p, {}) = {}
      BY DEF HeardBy
    <2>2. DOMAIN r.peerPositions = {}
      OBVIOUS
    <2>3. Tracks(r, p, {})
      BY <2>2, Zenon DEF Tracks
    <2> QED BY <2>1, <2>3, Zenon
  <1>3. {} \in SUBSET D
    BY Zenon
  <1> QED BY <1>1, <1>2, <1>3, Zenon DEF Partly

(* What startRound resets. *)
LEMMA NewRoundTracks ==
  ASSUME NEW s, NEW D, Stores(s, D), NEW h, NEW l, NEW n, NEW c
  PROVE  Partly(newRound(s, h, l, n, c), D)
  <1> DEFINE r == newRound(s, h, l, n, c)
  <1>1. Known \subseteq DOMAIN s
    BY Zenon DEF Stores
  <1>2. /\ Known \subseteq DOMAIN r /\ r.storedProposals = s.storedProposals
        /\ r.lost = s.lost /\ r.peerPositions = <<>> /\ r.deadNodes = {}
    BY <1>1, Zenon DEF newRound, Known
  <1> HIDE DEF r
  <1>3. Partly(r, D)
    BY <1>2, Forgotten, Zenon
  <1> QED BY <1>3, Zenon DEF r

(* startRound with the ledger the network closed. *)
LEMMA StartCorrectTracks ==
  ASSUME NEW s, NEW D, Stores(s, D), NEW l, NEW n, NEW c, NEW v
  PROVE  Whole(startCorrect(s, l, n, c, v), D)
  <1> DEFINE a == newRound(s, l, l, n, c)
             b == playbackProposals(a)
  <1>1. Partly(a, D)
    BY NewRoundTracks, Zenon
  <1> HIDE DEF a
  <1>2. Whole(b, D)
    BY <1>1, PlaybackTracks, Zenon
  <1> HIDE DEF b
  <1>3. Whole(tickIfBehind(b, v), D)
    BY <1>2, TickTracks, Zenon
  <1> QED BY <1>3, Zenon DEF startCorrect, a, b

(* handleLCL, the first time we switch to a ledger. *)
LEMMA SwitchViewTracks ==
  ASSUME NEW s, NEW D, Stores(s, D), NEW l
  PROVE  Whole(switchView(s, l), D)
  <1> DEFINE a == revoke(s)
             b == [a EXCEPT !.prevLedgerHash = l, !.proposing = FALSE,
                            !.peerPositions = <<>>, !.disputes = <<>>,
                            !.compares = {}, !.deadNodes = {}, !.expired = {}]
  <1>1. Same(s, a)
    BY SameProposal, Zenon DEF Stores
  <1>2. Stores(a, D)
    BY <1>1, SameKnown, Zenon
  <1>3. Known \subseteq DOMAIN a
    BY <1>2, Zenon DEF Stores
  <1> HIDE DEF a
  <1>4. /\ Known \subseteq DOMAIN b /\ b.storedProposals = a.storedProposals
        /\ b.lost = a.lost /\ b.peerPositions = <<>> /\ b.deadNodes = {}
    BY <1>3 DEF Known
  <1> HIDE DEF b
  <1>5. Partly(b, D)
    BY <1>2, <1>4, Forgotten, Zenon
  <1>6. Whole(playbackProposals(b), D)
    BY <1>5, PlaybackTracks, Zenon
  <1> QED BY <1>6, Zenon DEF switchView, a, b

(* A round starts on the ledger we have switched to, once we have it. *)
LEMMA StartOnTracks ==
  ASSUME NEW s, NEW D, Stores(s, D), NEW l, NEW v
  PROVE  /\ Whole(s, D) => Whole(startOn(s, l, v), D)
         /\ Partly(s, D) => Partly(startOn(s, l, v), D)
  <1> DEFINE a == startCorrect(s, l, s.previousProposers, s.previousRoundTime, v)
             b == [a EXCEPT !.proposing = FALSE]
  <1>0. Known \subseteq DOMAIN s
    BY Zenon DEF Stores
  <1>1. Whole(a, D)
    BY StartCorrectTracks, Zenon
  <1> HIDE DEF a
  <1>2. Same(a, b)
    <2>1. Known \subseteq DOMAIN a
      BY <1>1, Zenon DEF Whole, Stores
    <2> QED BY <2>1 DEF Same, Like, Alike, Known
  <1> HIDE DEF b
  <1>3. Whole(b, D)
    BY <1>1, <1>2, SameKnown, Zenon
  <1>4. Partly(b, D)
    BY <1>3, WholeIsPartly, Zenon
  <1>5. Same(s, needLedger(s)) /\ Same(s, s)
    BY <1>0 DEF Same, Like, Alike, Known, needLedger
  <1>6. startOn(s, l, v) \in {s, needLedger(s), b}
    BY DEF startOn, a, b
  <1> QED BY <1>3, <1>4, <1>5, <1>6, SameKnown, Zenon

(* handleLCL. *)
LEMMA HandleTracks ==
  ASSUME NEW s, NEW D, Stores(s, D), NEW l, NEW v
  PROVE  /\ Whole(s, D) => Whole(handleLCL(s, l, v), D)
         /\ Partly(s, D) => Partly(handleLCL(s, l, v), D)
  <1> DEFINE a == IF s.prevLedgerHash = l THEN s ELSE switchView(s, l)
  <1>1. Whole(switchView(s, l), D)
    BY SwitchViewTracks, Zenon
  <1>2. Partly(switchView(s, l), D)
    BY <1>1, WholeIsPartly, Zenon
  <1>3. /\ Stores(a, D) /\ (Whole(s, D) => Whole(a, D))
        /\ (Partly(s, D) => Partly(a, D))
    BY <1>1, <1>2, Zenon DEF Whole
  <1> HIDE DEF a
  <1>4. /\ Whole(a, D) => Whole(startOn(a, l, v), D)
        /\ Partly(a, D) => Partly(startOn(a, l, v), D)
    BY <1>3, StartOnTracks, Zenon
  <1>5. handleLCL(s, l, v) = startOn(a, l, v)
    BY Zenon DEF handleLCL, a
  <1> QED BY <1>3, <1>4, <1>5, Zenon

(* checkLCL and timerEntry. *)
LEMMA TimerTracks ==
  ASSUME NEW s, NEW D, Whole(s, D), NEW v
  PROVE  Whole(timerEntry(s, v), D) /\ Whole(timerIfBehind(s, v), D)
  <1> DEFINE net == preferred(s, v)
             a == IF net # s.prevLedgerHash /\ s.haveCorrectLCL
                  THEN consensusViewChange(s) ELSE s
             b == IF s.state \in {"processing", "accepted"} THEN s ELSE checkLCL(s, v)
  <1> HIDE DEF net
  <1>1. Known \subseteq DOMAIN s
    BY Zenon DEF Whole, Stores
  <1>2. Same(s, a)
    BY <1>1 DEF Same, Like, Alike, Known, consensusViewChange
  <1>3. Whole(a, D)
    BY <1>2, SameKnown, Zenon
  <1>4. Whole(handleLCL(a, net, v), D)
    BY <1>3, WholeIsPartly, HandleTracks, Zenon
  <1>5. checkLCL(s, v) \in {s, handleLCL(a, net, v)}
    BY Zenon DEF checkLCL, net, a
  <1>6. Whole(b, D)
    BY <1>4, <1>5, Zenon
  <1> HIDE DEF b
  <1>7. Whole(Tick(b, v), D)
    BY <1>6, TickTracks, Zenon
  <1>8. timerEntry(s, v) = Tick(b, v)
    BY Zenon DEF timerEntry, b
  <1> QED BY <1>7, <1>8, Zenon DEF timerIfBehind

(* startRound: whatever ledger it is given, and whether or not it finds    *)
(* that ledger, the proposals for it are played back.                      *)
LEMMA StartRoundTracks ==
  ASSUME NEW s, NEW D, Whole(s, D), NEW h, NEW l, NEW n, NEW c, NEW v
  PROVE  Whole(startRound(s, h, l, n, c, v), D)
  <1> DEFINE a == newRound(s, h, l, n, c)
             b == placeRound(a, h, v)
             d == playbackProposals(b)
  <1>1. Partly(a, D)
    BY NewRoundTracks, Zenon DEF Whole
  <1> HIDE DEF a
  <1>2. Partly(handleLCL(a, h, v), D)
    BY <1>1, HandleTracks, Zenon DEF Partly
  <1>3. Partly(b, D)
    BY <1>1, <1>2, Zenon DEF placeRound
  <1> HIDE DEF b
  <1>4. Whole(d, D)
    BY <1>3, PlaybackTracks, Zenon
  <1> HIDE DEF d
  <1>5. Whole(timerIfBehind(d, v), D)
    BY <1>4, TimerTracks, Zenon
  <1> QED BY <1>5, Zenon DEF startRound, a, b, d

-----------------------------------------------------------------------------
(* The engine. *)

(* A proposal that is stored is played back with the others. *)
LEMMA StoreTracks ==
  ASSUME NEW s, NEW D, Stores(s, D), NEW m \in Proposals
  PROVE  LET r == storeProposal(s, m)
         IN  /\ Stores(r, D \cup {m}) /\ s.lost \subseteq r.lost
             /\ \A E : AllTrack(s, E) => AllTrack(r, E)
  <1> DEFINE p == m.from
             f == s.storedProposals
             q == f[p]
             full == Len(q) >= MaxStored
             k == IF full THEN Tail(q) ELSE q
             t == Append(k, m)
             lost == IF full THEN s.lost \cup {Head(q)} ELSE s.lost
             r == storeProposal(s, m)
             D2 == D \cup {m}
  <1>1. /\ p \in Peers /\ Known \subseteq DOMAIN s /\ D \in SUBSET Proposals
        /\ f \in [Peers -> Seq(Proposals)]
    BY ProposalSeq, Zenon DEF Stores
  <1>2. q \in Seq(Proposals) /\ MaxStored \in Nat /\ MaxStored # 0
    BY <1>1, RoundAssumption, Zenon
  <1>3. r = [s EXCEPT !.storedProposals[p] = t, !.lost = lost]
    BY Zenon DEF storeProposal
  <1>4. /\ Played(q) \subseteq {n \in D : n.from = p}
        /\ {n \in D : n.from = p} \subseteq Played(q) \cup s.lost
    BY <1>1, Zenon DEF Stores
  <1> HIDE DEF r, f, q
  <1>5. /\ k \in Seq(Proposals) /\ Played(k) \subseteq Played(q)
        /\ Played(q) \cup s.lost \subseteq Played(k) \cup lost /\ s.lost \subseteq lost
    <2>1. CASE full
      <3>1. /\ Len(q) \in Nat /\ Len(q) # 0 /\ DOMAIN q = 1 .. Len(q)
        BY <1>2, <2>1
      <3>2. /\ k \in Seq(Proposals) /\ DOMAIN k = 1 .. (Len(q) - 1)
            /\ \A i \in 1 .. (Len(q) - 1) : k[i] = q[i + 1]
            /\ Head(q) = q[1] /\ lost = s.lost \cup {q[1]}
        BY <1>2, <2>1, <3>1
      <3> HIDE DEF k, lost, full
      <3>3. ASSUME NEW i \in DOMAIN k PROVE k[i] \in Played(q)
        <4>1. i + 1 \in DOMAIN q /\ k[i] = q[i + 1]
          BY <3>1, <3>2
        <4> QED BY <4>1, Zenon DEF Played
      <3>4. ASSUME NEW i \in DOMAIN q PROVE q[i] \in Played(k) \cup lost
        <4>1. CASE i = 1
          BY <3>2, <4>1
        <4>2. CASE i # 1
          <5>1. i - 1 \in DOMAIN k /\ k[i - 1] = q[i]
            BY <3>1, <3>2, <4>2
          <5> QED BY <5>1, Zenon DEF Played
        <4> QED BY <4>1, <4>2
      <3> QED BY <3>2, <3>3, <3>4, Zenon DEF Played
    <2>2. CASE ~full
      BY <1>2, <2>2
    <2> QED BY <2>1, <2>2, Zenon
  <1> HIDE DEF k, lost, full
  <1>6. /\ t \in Seq(Proposals) /\ Played(t) = Played(k) \cup {m}
    <2>1. /\ t \in Seq(Proposals) /\ Len(k) \in Nat /\ DOMAIN k = 1 .. Len(k)
          /\ DOMAIN t = 1 .. (Len(k) + 1) /\ t[Len(k) + 1] = m
          /\ \A i \in 1 .. Len(k) : t[i] = k[i]
      BY <1>5
    <2> HIDE DEF t
    <2>2. ASSUME NEW i \in DOMAIN t PROVE t[i] \in Played(k) \cup {m}
      <3>1. i = Len(k) + 1 \/ i \in DOMAIN k
        BY <2>1
      <3> QED BY <2>1, <3>1, Zenon DEF Played
    <2>3. ASSUME NEW i \in DOMAIN k PROVE k[i] \in Played(t)
      <3>1. i \in DOMAIN t /\ t[i] = k[i]
        BY <2>1
      <3> QED BY <3>1, Zenon DEF Played
    <2>4. m \in Played(t)
      <3>1. Len(k) + 1 \in DOMAIN t
        BY <2>1
      <3> QED BY <2>1, <3>1, Zenon DEF Played
    <2>5. Played(t) \subseteq Played(k) \cup {m}
      BY <2>2, Zenon DEF Played
    <2>6. Played(k) \subseteq Played(t)
      BY <2>3, Zenon DEF Played
    <2> QED BY <2>1, <2>4, <2>5, <2>6
  <1> HIDE DEF t
  <1> DEFINE g == [f EXCEPT ![p] = t]
  <1>7. /\ Known \subseteq DOMAIN r /\ r.storedProposals = g /\ r.lost = lost
        /\ r.prevLedgerHash = s.prevLedgerHash /\ r.deadNodes = s.deadNodes
        /\ r.peerPositions = s.peerPositions /\ r.expired = s.expired
    BY <1>1, <1>3, ZenonT(30) DEF Known, f
  <1>8. /\ g \in [Peers -> Seq(Proposals)] /\ g[p] = t
        /\ \A o \in Peers \ {p} : g[o] = f[o]
    BY <1>1, <1>6
  <1> HIDE DEF g
  <1>9. Stores(r, D2)
    <2>1. D2 \in SUBSET Proposals
      BY <1>1
    <2>2. ASSUME NEW o \in Peers
          PROVE  /\ Played(g[o]) \subseteq {n \in D2 : n.from = o}
                 /\ {n \in D2 : n.from = o} \subseteq Played(g[o]) \cup lost
      <3>1. CASE o = p
        <4>1. {n \in D2 : n.from = p} = {n \in D : n.from = p} \cup {m}
          OBVIOUS
        <4> HIDE DEF D2, p
        <4> QED BY <1>4, <1>5, <1>6, <1>8, <3>1, <4>1
      <3>2. CASE o # p
        <4>1. /\ Played(f[o]) \subseteq {n \in D : n.from = o}
              /\ {n \in D : n.from = o} \subseteq Played(f[o]) \cup s.lost
          BY Zenon DEF Stores, f
        <4>2. g[o] = f[o] /\ {n \in D2 : n.from = o} = {n \in D : n.from = o}
          BY <1>8, <3>2
        <4> HIDE DEF D2, p
        <4> QED BY <1>5, <4>1, <4>2
      <3> QED BY <3>1, <3>2
    <2> QED BY <1>7, <1>8, <2>1, <2>2, Zenon DEF Stores
  <1>10. ASSUME NEW E, AllTrack(s, E) PROVE AllTrack(r, E)
    <2>1. \A o \in Peers : HeardBy(r, o, E) = HeardBy(s, o, E)
      BY <1>7, Zenon DEF HeardBy
    <2> QED BY <1>7, <1>10, <2>1, Zenon DEF AllTrack, Tracks
  <1> QED BY <1>5, <1>7, <1>9, <1>10, Zenon DEF r

(* processTrustedProposal: the proposal is stored, and heard. *)
LEMMA ProposalTracks ==
  ASSUME NEW s, NEW D, Whole(s, D), NEW m \in Proposals
  PROVE  Whole(peerPosition(storeProposal(s, m), m), D \cup {m})
  <1> DEFINE r == storeProposal(s, m)
             q == peerPosition(r, m)
             D2 == D \cup {m}
  <1>1. PICK E \in SUBSET D : D \ s.lost \subseteq E /\ AllTrack(s, E)
    BY Zenon DEF Whole
  <1>2. Stores(s, D)
    BY Zenon DEF Whole
  <1>3. Stores(r, D2) /\ s.lost \subseteq r.lost /\ AllTrack(r, E)
    BY <1>1, <1>2, StoreTracks, Zenon
  <1>4. Known \subseteq DOMAIN r /\ E \in SUBSET Proposals
    BY <1>2, <1>3, Zenon DEF Stores
  <1> HIDE DEF r
  <1>5. Like(r, q) /\ AllTrack(q, E \cup {m})
    BY <1>3, <1>4, PositionTracks, Zenon
  <1> HIDE DEF q
  <1>6. Stores(q, D2) /\ q.lost = r.lost
    <2> HIDE DEF D2
    <2> QED BY <1>3, <1>5, Zenon DEF Stores, Like
  <1>7. E \cup {m} \in SUBSET D2 /\ D2 \ q.lost \subseteq E \cup {m}
    BY <1>1, <1>3, <1>6
  <1> QED BY <1>5, <1>6, <1>7, Zenon DEF Whole, r, q

(* Inductive: what has been delivered is known. *)
DeliveredIsKnown == Whole(node, Proposals \ undelivered)

(* Before the first proposal. *)
LEMMA KnownInit == Init => DeliveredIsKnown
  <1> SUFFICES ASSUME Init PROVE Whole(node, {})
    BY Zenon DEF Init, DeliveredIsKnown
  <1>1. /\ Known \subseteq DOMAIN node /\ node.peerPositions = <<>>
        /\ node.deadNodes = {} /\ node.storedProposals = [p \in Peers |-> <<>>]
    BY SMTT(30) DEF Init, Known
  <1>2. Stores(node, {})
    <2>1. <<>> \in Seq(Proposals) /\ DOMAIN <<>> = {}
      OBVIOUS
    <2>2. /\ node.storedProposals \in [Peers -> Seq(Proposals)]
          /\ \A p \in Peers : node.storedProposals[p] = <<>>
      BY <1>1, <2>1, Zenon
    <2>3. Played(<<>>) = {}
      BY <2>1, Zenon DEF Played
    <2> QED BY <1>1, <2>1, <2>2, <2>3, Zenon DEF Stores
  <1>3. Partly(node, {})
    BY <1>1, <1>2, Forgotten, Zenon
  <1>4. {} \ node.lost \subseteq {}
    OBVIOUS
  <1> QED BY <1>3, <1>4, Zenon DEF Partly, Whole

(* Each action keeps it. *)
LEMMA KnownNext ==
  ASSUME DeliveredIsKnown, [Next]_vars
  PROVE  DeliveredIsKnown'
  <1> DEFINE D == Proposals \ undelivered
  <1>0. Whole(node, D) /\ Known \subseteq DOMAIN node
    BY WholeIsPartly, Zenon DEF DeliveredIsKnown
  <1>1. ASSUME Same(node, node'), UNCHANGED undelivered PROVE DeliveredIsKnown'
    BY <1>0, <1>1, SameKnown, Zenon DEF DeliveredIsKnown
  <1>2. ASSUME Whole(node', D), UNCHANGED undelivered PROVE DeliveredIsKnown'
    BY <1>2, Zenon DEF DeliveredIsKnown
  <1>3. CASE HeartbeatDisconnected
    <2>1. Same(node, node') /\ UNCHANGED undelivered
      BY <1>0, <1>3 DEF HeartbeatDisconnected, Same, Like, Alike, Known
    <2> QED BY <1>1, <2>1, Zenon
  <1>4. CASE Heartbeat
    <2> DEFINE c == [node EXCEPT !.mMode = IF @ = "disconnected" THEN "connected" ELSE @]
    <2>1. PICK v \in Views : node' = timerEntry(c, v)
      BY <1>4, Zenon DEF Heartbeat
    <2>2. Same(node, c)
      BY <1>0 DEF Same, Like, Alike, Known
    <2> HIDE DEF c
    <2>3. Whole(c, D)
      BY <1>0, <2>2, SameKnown, Zenon
    <2>4. Whole(node', D)
      BY <1>0, <2>1, <2>3, TimerTracks, Zenon
    <2> QED BY <1>2, <1>4, <2>4, Zenon DEF Heartbeat
  <1>5. ASSUME NEW m \in Proposals, TrustedProposal(m) PROVE DeliveredIsKnown'
    <2>1. Proposals \ undelivered' = D \cup {m}
      BY <1>5 DEF TrustedProposal
    <2>2. node' = peerPosition(storeProposal(node, m), m)
      BY <1>5, Zenon DEF TrustedProposal
    <2> HIDE DEF D
    <2>3. Whole(node', D \cup {m})
      BY <1>0, <2>1, <2>2, ProposalTracks, Zenon
    <2> QED BY <2>1, <2>3, Zenon DEF DeliveredIsKnown
  <1>6. ASSUME NEW set \in SUBSET Tx, GiveSet(set) PROVE DeliveredIsKnown'
    <2>1. Same(node, node') /\ UNCHANGED undelivered
      BY <1>0, <1>6 DEF GiveSet, shareSet, setEntry, Same, Like, Alike, Known
    <2> QED BY <1>1, <2>1, Zenon
  <1>7. ASSUME NEW set \in SUBSET Tx, GotMap(set) PROVE DeliveredIsKnown'
    <2> DEFINE late == IF set \in sets(node) THEN node.late ELSE node.late \cup {set}
               c == [node EXCEPT !.late = late]
    <2>1. node' = mapCompleteInternal(c, set, TRUE) /\ UNCHANGED undelivered
      BY <1>7, Zenon DEF GotMap
    <2> HIDE DEF late
    <2>2. Same(node, c)
      BY <1>0 DEF Same, Like, Alike, Known
    <2>3. Known \subseteq DOMAIN c
      BY <2>2, Zenon DEF Same, Like
    <2> HIDE DEF c
    <2>4. Same(c, node')
      BY <2>1, <2>3, SameMap, Zenon
    <2> QED BY <1>1, <2>1, <2>2, <2>4, SameTrans, Zenon
  <1>8. CASE LedgerAcquired
    <2>1. Same(node, node') /\ UNCHANGED undelivered
      BY <1>0, <1>8 DEF LedgerAcquired, Same, Like, Alike, Known
    <2> QED BY <1>1, <2>1, Zenon
  <1>9. ASSUME NEW compatible \in BOOLEAN, AcceptBuild(compatible) PROVE DeliveredIsKnown'
    <2>1. Same(node, node') /\ UNCHANGED undelivered
      BY <1>0, <1>9 DEF AcceptBuild, Same, Like, Alike, Known
    <2> QED BY <1>1, <2>1, Zenon
  <1>10. CASE AcceptSwitch
    <2>1. PICK found : node' = [node EXCEPT
                   !.closed = Append(node.previousLedger, node.job.set),
                   !.job.at = "switched", !.job.seen = {}, !.job.retries = found]
      BY <1>10, Zenon DEF AcceptSwitch
    <2>2. Same(node, node') /\ UNCHANGED undelivered
      BY <1>0, <1>10, <2>1 DEF AcceptSwitch, Same, Like, Alike, Known
    <2> QED BY <1>1, <2>2, Zenon
  <1>11. CASE AcceptDone
    <2>1. Same(node, node') /\ UNCHANGED undelivered
      BY <1>0, <1>11 DEF AcceptDone, Same, Like, Alike, Known
    <2> QED BY <1>1, <2>1, Zenon
  <1>12. CASE EndConsensus
    <2>1. PICK other, fresh : node' = checkLastClosedLedger(node, other, fresh)
      BY <1>12, Zenon DEF EndConsensus
    <2> DEFINE c == IF other = NoLedger THEN keepLedger(node, fresh)
                    ELSE switchLedger(node, other)
    <2>2. Same(node, keepLedger(node, fresh)) /\ Same(node, switchLedger(node, other))
      BY <1>0 DEF keepLedger, switchLedger, Same, Like, Alike, Known
    <2>3. Same(node, c)
      BY <2>2, Zenon
    <2>4. Known \subseteq DOMAIN c
      BY <2>3, Zenon DEF Same, Like
    <2>5. node' = [c EXCEPT !.job.at = "checked"]
      BY <2>1, Zenon DEF checkLastClosedLedger
    <2> HIDE DEF c
    <2>6. Same(c, node')
      BY <2>4, <2>5 DEF Same, Like, Alike, Known
    <2> QED BY <1>1, <1>12, <2>3, <2>6, SameTrans, Zenon DEF EndConsensus
  <1>13. CASE SetMode
    <2>1. Same(node, node') /\ UNCHANGED undelivered
      BY <1>0, <1>13 DEF SetMode, setMode, Same, Like, Alike, Known
    <2> QED BY <1>1, <2>1, Zenon
  <1>14. CASE BeginConsensus
    <2> DEFINE c == [node EXCEPT !.job = NoJob]
    <2>1. PICK v \in Views : node' = startRound(c, node.job.net, node.closed,
                                node.lastCloseProposers, node.lastCloseConvergeTook, v)
      BY <1>14, Zenon DEF BeginConsensus, beginConsensus
    <2>2. Same(node, c)
      BY <1>0 DEF Same, Like, Alike, Known
    <2> HIDE DEF c
    <2>3. Whole(c, D)
      BY <1>0, <2>2, SameKnown, Zenon
    <2>4. Whole(node', D)
      BY <2>1, <2>3, StartRoundTracks, Zenon
    <2> QED BY <1>2, <1>14, <2>4, Zenon DEF BeginConsensus
  <1>15. CASE UNCHANGED vars
    BY <1>15, Zenon DEF vars, DeliveredIsKnown
  <1> QED
    BY <1>3, <1>4, <1>5, <1>6, <1>7, <1>8, <1>9, <1>10, <1>11, <1>12, <1>13, <1>14, <1>15,
       ZenonT(40) DEF Next

(* What is known is what was heard last. *)
LEMMA KnownIsLast == DeliveredIsKnown => PositionsAreTheLastHeard
  <1> SUFFICES ASSUME DeliveredIsKnown, NEW p \in Peers \ node.expired
               PROVE  LET heard == {m \in Proposals \ undelivered :
                                      m.from = p /\ m.prev = node.prevLedgerHash}
                      IN  IF p \in DOMAIN node.peerPositions
                          THEN /\ \E m \in heard :
                                     node.peerPositions[p] = [seq |-> m.seq, set |-> m.set]
                               /\ \A m \in heard \ node.lost :
                                     m.seq <= node.peerPositions[p].seq
                               /\ node.peerPositions[p].seq # seqLeave
                          ELSE \/ heard \subseteq node.lost
                               \/ p \in node.deadNodes /\ \E m \in heard : m.seq = seqLeave
    BY Zenon DEF PositionsAreTheLastHeard
  <1> DEFINE heard == {m \in Proposals \ undelivered :
                         m.from = p /\ m.prev = node.prevLedgerHash}
  <1>1. PICK E \in SUBSET (Proposals \ undelivered) :
            (Proposals \ undelivered) \ node.lost \subseteq E /\ AllTrack(node, E)
    BY Zenon DEF DeliveredIsKnown, Whole
  <1> DEFINE H == HeardBy(node, p, E)
  <1>2. Tracks(node, p, H)
    BY <1>1, Zenon DEF AllTrack
  <1>3. H \subseteq heard /\ heard \ node.lost \subseteq H
    BY <1>1 DEF HeardBy
  <1> HIDE DEF H
  <1>4. CASE \E m \in H : m.seq = seqLeave
    <2>1. p \notin DOMAIN node.peerPositions /\ p \in node.deadNodes
      BY <1>2, <1>4, Zenon DEF Tracks
    <2> QED BY <1>3, <1>4, <2>1, Zenon
  <1>5. CASE ~\E m \in H : m.seq = seqLeave
    <2>1. /\ p \in DOMAIN node.peerPositions <=> H # {}
          /\ H # {} => \E m \in H :
                /\ node.peerPositions[p] = [seq |-> m.seq, set |-> m.set]
                /\ \A n \in H : n.seq <= m.seq
      BY <1>2, <1>5, Zenon DEF Tracks
    <2>2. CASE H = {}
      <3>1. heard \subseteq node.lost
        BY <1>3, <2>2
      <3> QED BY <2>1, <2>2, <3>1, Zenon
    <2>3. CASE H # {}
      <3>1. PICK m \in H : /\ node.peerPositions[p] = [seq |-> m.seq, set |-> m.set]
                           /\ \A n \in H : n.seq <= m.seq
        BY <2>1, <2>3, Zenon
      <3>2. node.peerPositions[p].seq = m.seq
        BY <3>1
      <3> HIDE DEF heard
      <3>3. /\ m \in heard /\ m.seq # seqLeave
            /\ \A n \in heard \ node.lost : n.seq <= m.seq
        BY <1>3, <1>5, <3>1, Zenon
      <3> QED BY <2>1, <2>3, <3>1, <3>2, <3>3, Zenon DEF heard
    <2> QED BY <2>2, <2>3, Zenon
  <1> QED BY <1>4, <1>5, Zenon

(* However proposals, ticks, changes of view and rounds interleave, the    *)
(* position the engine holds of a peer is one it has heard for the ledger  *)
(* it works towards, and no later one that the store has kept is missed,   *)
(* as playbackProposals' comment promises, for any peers, proposals,       *)
(* ledgers and views, and however many proposals are kept.                 *)
THEOREM PositionsAlwaysTheLastHeard == Spec => []PositionsAreTheLastHeard
  <1>1. DeliveredIsKnown /\ [Next]_vars => DeliveredIsKnown'
    BY KnownNext
  <1> QED
    BY KnownInit, <1>1, KnownIsLast, PTL DEF Spec
=============================================================================
