------------------------ MODULE ConsensusRoundProofs ------------------------
(***************************************************************************)
(* The safety of the consensus engine, for every set of peers,             *)
(* transactions, proposals and views, and the proof that it implements the *)
(* round's phases.                                                         *)
(*                                                                         *)
(* The engine is one record and its functions are operators on it.  Each   *)
(* operator has a lemma that says which members it may change (Keeps) and  *)
(* which parts of the invariant it keeps or, in the middle of a function,  *)
(* restores.                                                               *)
(***************************************************************************)
EXTENDS ConsensusRound, TLAPS, FiniteSetTheorems, NaturalsInduction, WellFoundedInduction

(* The prover of the leaves that name none. *)
USE SMTT(30)

(* The members of the engine that the invariant is about. *)
Members == {"state", "mMode", "job", "prevLedgerHash", "previousLedger",
            "haveCorrectLCL", "ourPosition", "ourSet", "sent", "proposing",
            "peerPositions", "acquired", "disputes", "compares", "inbound",
            "late", "storedProposals", "closed", "validating"}

(* From s to r nothing but the members in F changes. *)
Keeps(s, r, F) == Members \subseteq DOMAIN r /\ \A f \in Members \ F : r[f] = s[f]

IsPosition(x) == x \in [taken : BOOLEAN, set : {x.set}, bowOut : BOOLEAN]

(* The votes of a dispute are those of some of the peers in P, and counted. *)
Counted(d, P) ==
    /\ d \in [ourVote : BOOLEAN, yays : Nat, nays : Nat,
               votes : UNION {[Q -> BOOLEAN] : Q \in SUBSET P}]
    /\ d.yays = Cardinality({p \in DOMAIN d.votes : d.votes[p]})
    /\ d.nays = Cardinality({p \in DOMAIN d.votes : ~d.votes[p]})

Votes(s) ==
    /\ IsFiniteSet(DOMAIN s.peerPositions)
    /\ \A t \in DOMAIN s.disputes : Counted(s.disputes[t], DOMAIN s.peerPositions)

(* The sets InboundTransactions has, and those it had when it passed them  *)
(* on.                                                                     *)
Own(f) == {x \in DOMAIN f : f[x].has}

Had(s) == Own(s.inbound) \cup s.late

Stored(s) == s.storedProposals \in [Peers -> Seq(Proposals)]

(* What we compare with is disputed; before we take a position there is    *)
(* nothing to compare.                                                     *)
Covered(s) ==
    /\ ~s.ourPosition.taken => s.compares = {} /\ DOMAIN s.disputes = {}
    /\ (s.ourPosition.taken /\ ~s.ourPosition.bowOut) =>
          \A h \in s.compares : SymmetricDifference(s.ourSet, h) \subseteq DOMAIN s.disputes

(* What every operator keeps. *)
Base(s) ==
    /\ Members \subseteq DOMAIN s
    /\ Stored(s) /\ IsPosition(s.ourPosition)
    /\ s.acquired \subseteq Had(s)
    /\ Votes(s) /\ Covered(s)

(* Our vote on a dispute is what our set says. *)
OurVotes(s) == \A t \in DOMAIN s.disputes : s.disputes[t].ourVote = (t \in s.ourSet)

(* The set we propose is ours; it is ready for the peers. *)
OwnSet(s) ==
    (s.ourPosition.taken /\ ~s.ourPosition.bowOut) => s.ourPosition.set = s.ourSet

Shared(s) ==
    (s.ourPosition.taken /\ ~s.ourPosition.bowOut) => s.ourSet \in s.acquired

Sound(s) == Base(s) /\ OurVotes(s) /\ OwnSet(s) /\ Shared(s)

(* A server that may propose is in sync, and only one that proposes has a  *)
(* position out.                                                           *)
InSync(s) == s.haveCorrectLCL /\ s.previousLedger = s.prevLedgerHash

Sync(s) ==
    /\ s.proposing => InSync(s) /\ ~s.ourPosition.bowOut
    /\ s.sent = "position" => s.proposing /\ s.ourPosition.taken
    /\ s.mMode = "full" => InSync(s) \/ s.state = "accepted"
    /\ s.proposing \in BOOLEAN

(* The members of a job; only accept has anything to retry. *)
JobOK(j) ==
    /\ {"at", "set", "seen", "retries", "net", "mode"} \subseteq DOMAIN j
    /\ j.at # "switched" => j.retries = {}
    /\ j.mode \in {"none", "connected", "tracking", "full"}

(* The phase, the position and the accept job go together. *)
Phase(s) ==
    /\ s.mMode \in Modes /\ JobOK(s.job)
    /\ \/ s.state = "open" /\ s.job.at = "none" /\ ~s.ourPosition.taken
       \/ s.state = "establish" /\ s.job.at = "none" /\ s.ourPosition.taken
       \/ s.state = "processing" /\ s.job.at \in {"build", "built", "switched"}
            /\ s.ourPosition.taken /\ s.job.set = s.ourSet
       \/ s.state = "accepted" /\ s.job.at \in {"end", "checked", "start", "none"}

Good(s) == Sound(s) /\ Sync(s) /\ Phase(s)

(* The job retries nothing of its own set, and starts a round as a full    *)
(* server only on the ledger that is closed.                               *)
Handover(s) ==
    /\ s.job.retries \cap s.job.set = {}
    /\ s.job.at = "checked" => \/ s.job.net = s.closed \/ s.job.mode = "connected"
                               \/ s.job.mode = "none" /\ s.mMode # "full"
    /\ s.job.at = "start" => s.job.net = s.closed \/ s.mMode # "full"

(* Inductive. *)
RoundInv == Good(node) /\ Handover(node)
-----------------------------------------------------------------------------
(* Records, disputes and votes. *)

(* Changes made one after the other. *)
LEMMA KeepsTrans ==
  ASSUME NEW s, NEW r, NEW q, NEW F, NEW G, Keeps(s, r, F), Keeps(r, q, G)
  PROVE  Keeps(s, q, F \cup G)
  BY DEF Keeps

(* Fewer changes are changes too. *)
LEMMA KeepsMore ==
  ASSUME NEW s, NEW r, NEW F, NEW G, Keeps(s, r, F), F \cap Members \subseteq G
  PROVE  Keeps(s, r, G)
  BY DEF Keeps

(* A dispute is counted when its counters are those of its votes. *)
LEMMA CountedFields ==
  ASSUME NEW P, NEW d, NEW V \in SUBSET P, NEW f \in [V -> BOOLEAN], NEW o \in BOOLEAN,
         NEW y, NEW n, IsFiniteSet(P),
         d = [ourVote |-> o, yays |-> y, nays |-> n, votes |-> f],
         y = Cardinality({p \in V : f[p]}), n = Cardinality({p \in V : ~f[p]})
  PROVE  Counted(d, P)
  <1>1. IsFiniteSet({p \in V : f[p]}) /\ IsFiniteSet({p \in V : ~f[p]})
    BY FS_Subset
  <1>2. y \in Nat /\ n \in Nat
    BY <1>1, FS_CardinalityType
  <1>3. d.ourVote = o /\ d.yays = y /\ d.nays = n /\ d.votes = f /\ DOMAIN f = V
    OBVIOUS
  <1>4. f \in UNION {[Q -> BOOLEAN] : Q \in SUBSET P}
    OBVIOUS
  <1>5. d \in [ourVote : BOOLEAN, yays : Nat, nays : Nat,
               votes : UNION {[Q -> BOOLEAN] : Q \in SUBSET P}]
    BY <1>2, <1>4
  <1> QED
    BY <1>3, <1>5 DEF Counted

(* The fields of a counted dispute. *)
LEMMA CountedType ==
  ASSUME NEW P, NEW d, Counted(d, P), IsFiniteSet(P)
  PROVE  /\ d.ourVote \in BOOLEAN /\ d.yays \in Nat /\ d.nays \in Nat
         /\ d.votes \in [DOMAIN d.votes -> BOOLEAN] /\ DOMAIN d.votes \subseteq P
         /\ IsFiniteSet(DOMAIN d.votes)
         /\ d = [ourVote |-> d.ourVote, yays |-> d.yays, nays |-> d.nays,
                 votes |-> d.votes]
  <1>1. d \in [ourVote : BOOLEAN, yays : Nat, nays : Nat,
               votes : UNION {[Q -> BOOLEAN] : Q \in SUBSET P}]
    BY DEF Counted
  <1>2. PICK Q \in SUBSET P : d.votes \in [Q -> BOOLEAN]
    BY <1>1
  <1>3. IsFiniteSet(Q)
    BY FS_Subset
  <1> QED
    BY <1>1, <1>2, <1>3

(* setVotes counts the votes it sets. *)
LEMMA SetVotesCounts ==
  ASSUME NEW P, IsFiniteSet(P), NEW d, Counted(d, P), NEW peers \in SUBSET P,
         NEW b \in BOOLEAN
  PROVE  /\ Counted(setVotes(d, peers, b), P)
         /\ setVotes(d, peers, b).ourVote = d.ourVote
  <1> DEFINE V == DOMAIN d.votes
             f == d.votes
             g == [p \in V \cup peers |-> IF p \in peers THEN b ELSE f[p]]
             Y == {p \in V : f[p]}
             N == {p \in V : ~f[p]}
             moved == {p \in peers : p \notin V \/ f[p] # b}
             Y2 == {p \in V \cup peers : g[p]}
             N2 == {p \in V \cup peers : ~g[p]}
             y == IF b THEN d.yays + Cardinality(moved)
                  ELSE d.yays - Cardinality(moved \cap V)
             n == IF b THEN d.nays - Cardinality(moved \cap V)
                  ELSE d.nays + Cardinality(moved)
             r == setVotes(d, peers, b)
  <1>1. /\ d = [ourVote |-> d.ourVote, yays |-> d.yays, nays |-> d.nays, votes |-> f]
        /\ f \in [V -> BOOLEAN] /\ V \subseteq P /\ IsFiniteSet(V)
        /\ d.ourVote \in BOOLEAN
    BY CountedType
  <1>2. r = [ourVote |-> d.ourVote, yays |-> y, nays |-> n, votes |-> g]
    <2>1. r = [d EXCEPT !.votes = g, !.yays = y, !.nays = n]
      BY DEF setVotes
    <2> HIDE DEF r, g, y, n, f
    <2> QED BY <1>1, <2>1, Zenon
  <1>3. /\ IsFiniteSet(Y) /\ IsFiniteSet(N) /\ IsFiniteSet(moved)
        /\ IsFiniteSet(moved \cap V)
    <2>1. Y \subseteq P /\ N \subseteq P /\ moved \subseteq P /\ moved \cap V \subseteq P
      BY <1>1
    <2> HIDE DEF Y, N, moved, V
    <2> QED BY <2>1, FS_Subset
  <1>4. /\ Cardinality(Y) \in Nat /\ Cardinality(N) \in Nat
        /\ Cardinality(moved) \in Nat /\ Cardinality(moved \cap V) \in Nat
        /\ d.yays = Cardinality(Y) /\ d.nays = Cardinality(N)
    BY <1>3, FS_CardinalityType DEF Counted
  <1>5. g \in [V \cup peers -> BOOLEAN] /\ V \cup peers \subseteq P
    BY <1>1
  <1>6. y = Cardinality(Y2) /\ n = Cardinality(N2)
    <2>1. CASE b
      <3>1. /\ Y2 = Y \cup moved /\ Y \cap moved = {}
            /\ N2 = N \ (moved \cap V) /\ N \cap (moved \cap V) = moved \cap V
        BY <1>1, <2>1, Zenon
      <3>2. y = d.yays + Cardinality(moved) /\ n = d.nays - Cardinality(moved \cap V)
        BY <2>1
      <3> HIDE DEF Y, N, moved, V, Y2, N2, y, n
      <3>3. Cardinality(Y \cup moved) = Cardinality(Y) + Cardinality(moved) - Cardinality(Y \cap moved)
        BY <1>3, FS_Union
      <3>4. Cardinality(N \ (moved \cap V)) = Cardinality(N) - Cardinality(N \cap (moved \cap V))
        BY <1>3, FS_Difference, Zenon
      <3>5. Cardinality(Y \cap moved) = 0
        BY <3>1, FS_EmptySet
      <3>6. /\ Cardinality(Y2) = Cardinality(Y) + Cardinality(moved) - 0
            /\ Cardinality(N2) = Cardinality(N) - Cardinality(moved \cap V)
        BY <3>1, <3>3, <3>4, <3>5, Zenon
      <3> QED BY <1>4, <3>2, <3>6
    <2>2. CASE ~b
      <3>1. /\ N2 = N \cup moved /\ N \cap moved = {}
            /\ Y2 = Y \ (moved \cap V) /\ Y \cap (moved \cap V) = moved \cap V
        BY <1>1, <2>2
      <3>2. y = d.yays - Cardinality(moved \cap V) /\ n = d.nays + Cardinality(moved)
        BY <2>2
      <3> HIDE DEF Y, N, moved, V, Y2, N2, y, n
      <3>3. Cardinality(N \cup moved) = Cardinality(N) + Cardinality(moved) - Cardinality(N \cap moved)
        BY <1>3, FS_Union
      <3>4. Cardinality(Y \ (moved \cap V)) = Cardinality(Y) - Cardinality(Y \cap (moved \cap V))
        BY <1>3, FS_Difference, Zenon
      <3>5. Cardinality(N \cap moved) = 0
        BY <3>1, FS_EmptySet
      <3>6. /\ Cardinality(N2) = Cardinality(N) + Cardinality(moved) - 0
            /\ Cardinality(Y2) = Cardinality(Y) - Cardinality(moved \cap V)
        BY <3>1, <3>3, <3>4, <3>5, Zenon
      <3> QED BY <1>4, <3>2, <3>6
    <2> QED BY <2>1, <2>2, ZenonT(40)
  <1>7. Counted(r, P)
    <2>1. y = Cardinality({p \in V \cup peers : g[p]})
          /\ n = Cardinality({p \in V \cup peers : ~g[p]})
      BY <1>6, ZenonT(40)
    <2> DEFINE W == V \cup peers
    <2> HIDE DEF g, y, n, r, V, f
    <2> QED BY <1>1, <1>2, <1>5, <2>1, CountedFields, Zenon
  <1> QED
    BY <1>2, <1>7

(* unVotes takes back what it removes. *)
LEMMA UnVotesCounts ==
  ASSUME NEW P, IsFiniteSet(P), NEW d, Counted(d, P), NEW peers
  PROVE  /\ Counted(unVotes(d, peers), P \ peers)
         /\ unVotes(d, peers).ourVote = d.ourVote
  <1> DEFINE V == DOMAIN d.votes
             f == d.votes
             W == V \ peers
             g == [p \in W |-> f[p]]
             Y == {p \in V : f[p]}
             N == {p \in V : ~f[p]}
             goneY == {p \in peers \cap V : f[p] = TRUE}
             goneN == {p \in peers \cap V : f[p] = FALSE}
             Y2 == {p \in W : g[p]}
             N2 == {p \in W : ~g[p]}
             y == d.yays - Cardinality(goneY)
             n == d.nays - Cardinality(goneN)
             r == unVotes(d, peers)
  <1>1. /\ d = [ourVote |-> d.ourVote, yays |-> d.yays, nays |-> d.nays, votes |-> f]
        /\ f \in [V -> BOOLEAN] /\ V \subseteq P /\ IsFiniteSet(V)
        /\ d.ourVote \in BOOLEAN
    BY CountedType
  <1>2. r = [ourVote |-> d.ourVote, yays |-> y, nays |-> n, votes |-> g]
    <2>1. r = [d EXCEPT !.votes = g, !.yays = y, !.nays = n]
      BY DEF unVotes
    <2> HIDE DEF r, g, y, n, f
    <2> QED BY <1>1, <2>1, Zenon
  <1>3. /\ IsFiniteSet(Y) /\ IsFiniteSet(N) /\ IsFiniteSet(goneY) /\ IsFiniteSet(goneN)
    <2>1. Y \subseteq P /\ N \subseteq P /\ goneY \subseteq P /\ goneN \subseteq P
      BY <1>1
    <2> HIDE DEF Y, N, goneY, goneN
    <2> QED BY <2>1, FS_Subset
  <1>4. /\ Cardinality(Y) \in Nat /\ Cardinality(N) \in Nat
        /\ d.yays = Cardinality(Y) /\ d.nays = Cardinality(N)
    BY <1>3, FS_CardinalityType DEF Counted
  <1>5. /\ Y2 = Y \ goneY /\ Y \cap goneY = goneY
        /\ N2 = N \ goneN /\ N \cap goneN = goneN
    BY <1>1
  <1>6. y = Cardinality(Y2) /\ n = Cardinality(N2)
    <2> HIDE DEF Y, N, goneY, goneN, Y2, N2
    <2>1. Cardinality(Y \ goneY) = Cardinality(Y) - Cardinality(Y \cap goneY)
      BY <1>3, FS_Difference
    <2>2. Cardinality(N \ goneN) = Cardinality(N) - Cardinality(N \cap goneN)
      BY <1>3, FS_Difference, Zenon
    <2> QED BY <1>4, <1>5, <2>1, <2>2, Zenon
  <1>7. Counted(r, P \ peers)
    <2>1. g \in [W -> BOOLEAN] /\ W \in SUBSET (P \ peers) /\ IsFiniteSet(P \ peers)
      BY <1>1, FS_Subset
    <2>2. y = Cardinality({p \in W : g[p]}) /\ n = Cardinality({p \in W : ~g[p]})
      BY <1>6
    <2> HIDE DEF g, y, n, r, W, f
    <2> QED BY <1>1, <1>2, <2>1, <2>2, CountedFields, Zenon
  <1> QED
    BY <1>2, <1>7

(* A new dispute has no votes. *)
LEMMA NewDisputeCounts ==
  ASSUME NEW P, IsFiniteSet(P), NEW o \in BOOLEAN
  PROVE  Counted(NewDispute(o), P) /\ NewDispute(o).ourVote = o
  <1>1. NewDispute(o) = [ourVote |-> o, yays |-> 0, nays |-> 0, votes |-> <<>>]
    BY DEF NewDispute
  <1>2. <<>> \in [{} -> BOOLEAN] /\ {} \in SUBSET P
    OBVIOUS
  <1>3. Cardinality({p \in {} : <<>>[p]}) = 0 /\ Cardinality({p \in {} : ~<<>>[p]}) = 0
    <2>1. {p \in {} : <<>>[p]} = {} /\ {p \in {} : ~<<>>[p]} = {}
      OBVIOUS
    <2> QED BY <2>1, FS_EmptySet, Zenon
  <1>4. Counted(NewDispute(o), P)
    BY <1>1, <1>2, <1>3, CountedFields, Zenon
  <1> QED
    BY <1>1, <1>4

(* addDisputedTransaction counts the votes of peers whose sets we have. *)
LEMMA DisputedCounts ==
  ASSUME NEW s, Votes(s), NEW t
  PROVE  /\ Counted(Disputed(s, t), DOMAIN s.peerPositions)
         /\ Disputed(s, t).ourVote = (t \in s.ourSet)
  <1> DEFINE P == DOMAIN s.peerPositions
             o == t \in s.ourSet
             known == {p \in P : s.peerPositions[p].set \in s.acquired}
             for == {p \in known : t \in s.peerPositions[p].set}
             d == setVotes(NewDispute(o), for, TRUE)
  <1>1. IsFiniteSet(P) /\ o \in BOOLEAN
    BY DEF Votes
  <1>2. known \subseteq P /\ for \subseteq P /\ known \ for \subseteq P
    OBVIOUS
  <1>3. Disputed(s, t) = setVotes(d, known \ for, FALSE)
    BY DEF Disputed
  <1> HIDE DEF P, o, known, for
  <1>4. Counted(NewDispute(o), P) /\ NewDispute(o).ourVote = o
    BY <1>1, NewDisputeCounts
  <1>5. Counted(d, P) /\ d.ourVote = o
    <2>1. for \in SUBSET P /\ TRUE \in BOOLEAN
      BY <1>2
    <2> QED BY <1>1, <1>4, <2>1, SetVotesCounts, Zenon
  <1> HIDE DEF d
  <1>6. /\ Counted(setVotes(d, known \ for, FALSE), P)
        /\ setVotes(d, known \ for, FALSE).ourVote = d.ourVote
    <2>1. known \ for \in SUBSET P /\ FALSE \in BOOLEAN
      BY <1>2
    <2> QED BY <1>1, <1>5, <2>1, SetVotesCounts, ZenonT(30)
  <1> QED
    BY <1>3, <1>5, <1>6, Zenon DEF P, o

(* Comparing sets disputes what they differ on and keeps the disputes that *)
(* are there.                                                              *)
LEMMA CompareWith ==
  ASSUME NEW s, Members \subseteq DOMAIN s, Votes(s), NEW m1, NEW others
  PROVE  LET r == compareWith(s, m1, others)
         IN  /\ Keeps(s, r, {"disputes", "compares"}) /\ Votes(r)
             /\ r.compares = s.compares \cup others
             /\ DOMAIN s.disputes \subseteq DOMAIN r.disputes
             /\ \A h \in others : SymmetricDifference(m1, h) \subseteq DOMAIN r.disputes
             /\ OurVotes(s) => OurVotes(r)
  <1> DEFINE D == DOMAIN s.disputes
             X == UNION {SymmetricDifference(m1, m) : m \in others}
             f == [t \in D \cup X |-> IF t \in D THEN s.disputes[t] ELSE Disputed(s, t)]
             r == compareWith(s, m1, others)
  <1>1. createDisputes(s, m1, others) = [s EXCEPT !.disputes = f]
    BY DEF createDisputes
  <1> HIDE DEF f
  <1>2. /\ Keeps(s, r, {"disputes", "compares"})
        /\ r.compares = s.compares \cup others /\ r.disputes = f
    BY <1>1, Zenon DEF compareWith, Keeps, Members
  <1> HIDE DEF r
  <1>3. r.peerPositions = s.peerPositions /\ r.ourSet = s.ourSet
    BY <1>2 DEF Keeps, Members
  <1>4. DOMAIN f = D \cup X
    BY DEF f
  <1>5. \A t \in D \cup X : f[t] = s.disputes[t] \/ f[t] = Disputed(s, t)
    BY DEF f
  <1>6. Votes(r)
    <2>1. \A t \in D : Counted(s.disputes[t], DOMAIN s.peerPositions)
      BY DEF Votes
    <2>2. \A t \in D \cup X : Counted(f[t], DOMAIN s.peerPositions)
      BY <2>1, DisputedCounts DEF f
    <2> QED BY <1>2, <1>3, <1>4, <2>2 DEF Votes
  <1>7. OurVotes(s) => OurVotes(r)
    BY <1>2, <1>3, <1>4, DisputedCounts DEF OurVotes, f
  <1>8. \A h \in others : SymmetricDifference(m1, h) \subseteq X
    OBVIOUS
  <1> QED
    BY <1>2, <1>4, <1>6, <1>7, <1>8 DEF r

(* adjustCount changes nothing but the votes of the peers. *)
LEMMA AdjustCount ==
  ASSUME NEW s, Members \subseteq DOMAIN s, Votes(s), NEW map,
         NEW peers \in SUBSET DOMAIN s.peerPositions
  PROVE  LET r == adjustCount(s, map, peers)
         IN  /\ Keeps(s, r, {"disputes"}) /\ Votes(r)
             /\ DOMAIN r.disputes = DOMAIN s.disputes
             /\ OurVotes(s) => OurVotes(r)
  <1> DEFINE f == [t \in DOMAIN s.disputes |-> setVotes(s.disputes[t], peers, t \in map)]
             r == adjustCount(s, map, peers)
  <1>1. r = [s EXCEPT !.disputes = f]
    BY DEF adjustCount, ForAllDisputes
  <1>2. DOMAIN f = DOMAIN s.disputes
    OBVIOUS
  <1>3. \A t \in DOMAIN s.disputes :
            /\ Counted(f[t], DOMAIN s.peerPositions)
            /\ f[t].ourVote = s.disputes[t].ourVote
    <2> SUFFICES ASSUME NEW t \in DOMAIN s.disputes
                 PROVE  /\ Counted(f[t], DOMAIN s.peerPositions)
                        /\ f[t].ourVote = s.disputes[t].ourVote
      OBVIOUS
    <2> DEFINE b == t \in map
    <2>1. f[t] = setVotes(s.disputes[t], peers, b) /\ b \in BOOLEAN
      OBVIOUS
    <2>2. Counted(s.disputes[t], DOMAIN s.peerPositions) /\ IsFiniteSet(DOMAIN s.peerPositions)
      BY DEF Votes
    <2> HIDE DEF f, b
    <2>3. /\ Counted(setVotes(s.disputes[t], peers, b), DOMAIN s.peerPositions)
          /\ setVotes(s.disputes[t], peers, b).ourVote = s.disputes[t].ourVote
      BY <2>1, <2>2, SetVotesCounts
    <2> QED BY <2>1, <2>3, Zenon
  <1> HIDE DEF f, r
  <1>4. Keeps(s, r, {"disputes"}) /\ r.disputes = f
    BY <1>1 DEF Keeps, Members
  <1>5. r.peerPositions = s.peerPositions /\ r.ourSet = s.ourSet
    BY <1>4 DEF Keeps, Members
  <1> QED
    BY <1>2, <1>3, <1>4, <1>5 DEF r, Votes, OurVotes

-----------------------------------------------------------------------------
(* Transaction sets and the peers' positions. *)

(* What changes neither sets nor positions keeps the base. *)
LEMMA BaseKept ==
  ASSUME NEW s, NEW r, Base(s), Keeps(s, r, {"disputes"}), Votes(r),
         DOMAIN r.disputes = DOMAIN s.disputes
  PROVE  Base(r)
  <1>1. /\ r.storedProposals = s.storedProposals /\ r.ourPosition = s.ourPosition
        /\ r.acquired = s.acquired /\ Had(r) = Had(s) /\ r.compares = s.compares
        /\ r.ourSet = s.ourSet /\ Members \subseteq DOMAIN r
    BY DEF Keeps, Members, Had
  <1> QED
    BY <1>1 DEF Base, Stored, Covered

(* An entry of InboundTransactions. *)
LEMMA SetEntry ==
  ASSUME NEW s, Members \subseteq DOMAIN s, NEW set, NEW seq, NEW has \in BOOLEAN
  PROVE  LET r == setEntry(s, set, seq, has)
         IN  /\ Keeps(s, r, {"inbound"})
             /\ has => Own(r.inbound) = Own(s.inbound) \cup {set}
             /\ ~has => Own(r.inbound) = Own(s.inbound) \ {set}
  <1> DEFINE e == [mSeq |-> seq, has |-> has]
             f == [x \in DOMAIN s.inbound \cup {set} |-> IF x = set THEN e ELSE s.inbound[x]]
             r == setEntry(s, set, seq, has)
  <1>1. r = [s EXCEPT !.inbound = f]
    BY DEF setEntry
  <1>2. /\ DOMAIN f = DOMAIN s.inbound \cup {set} /\ f[set].has = has
        /\ \A x \in DOMAIN s.inbound \ {set} : f[x] = s.inbound[x]
    OBVIOUS
  <1> HIDE DEF f
  <1>3. Keeps(s, r, {"inbound"}) /\ r.inbound = f
    BY <1>1, Zenon DEF Keeps, Members
  <1> HIDE DEF r
  <1>4. /\ has => Own(f) = Own(s.inbound) \cup {set}
        /\ ~has => Own(f) = Own(s.inbound) \ {set}
    BY <1>2 DEF Own
  <1> QED
    BY <1>3, <1>4, Zenon DEF r

(* giveSet adds a set to those InboundTransactions has ... *)
LEMMA ShareSet ==
  ASSUME NEW s, Members \subseteq DOMAIN s, NEW set
  PROVE  LET r == shareSet(s, set)
         IN  Keeps(s, r, {"inbound"}) /\ Had(r) = Had(s) \cup {set}
  <1> DEFINE seq == IF set \in DOMAIN s.inbound /\ s.inbound[set].mSeq > roundOf(s)
                    THEN s.inbound[set].mSeq ELSE roundOf(s)
             r == setEntry(s, set, seq, TRUE)
  <1>1. shareSet(s, set) = r
    BY DEF shareSet
  <1> HIDE DEF seq
  <1>2. Keeps(s, r, {"inbound"}) /\ Own(r.inbound) = Own(s.inbound) \cup {set}
    BY TRUE \in BOOLEAN, SetEntry, Zenon
  <1> HIDE DEF r
  <1>3. r.late = s.late
    BY <1>2 DEF Keeps, Members
  <1> QED
    BY <1>1, <1>2, <1>3 DEF Had

(* ... and asking for one adds none. *)
LEMMA GetSet ==
  ASSUME NEW s, Members \subseteq DOMAIN s, NEW set
  PROVE  LET r == getSet(s, set)
         IN  Keeps(s, r, {"inbound"}) /\ Had(r) = Had(s)
  <1> DEFINE b == set \in sets(s)
             r == setEntry(s, set, roundOf(s), b)
  <1>1. getSet(s, set) = r
    BY DEF getSet
  <1>2. b \in BOOLEAN /\ (b <=> set \in Own(s.inbound))
    BY DEF sets, Own
  <1> HIDE DEF b
  <1>3. /\ Keeps(s, r, {"inbound"})
        /\ b => Own(r.inbound) = Own(s.inbound) \cup {set}
        /\ ~b => Own(r.inbound) = Own(s.inbound) \ {set}
    BY <1>2, SetEntry, Zenon
  <1> HIDE DEF r
  <1>4. r.late = s.late
    BY <1>3 DEF Keeps, Members
  <1> QED
    BY <1>1, <1>2, <1>3, <1>4 DEF Had

(* compareMap compares our set with the one we have got. *)
LEMMA CompareMap ==
  ASSUME NEW s, Base(s), NEW map
  PROVE  LET r == compareMap(s, map)
         IN  /\ Keeps(s, r, {"disputes", "compares"}) /\ Base(r)
             /\ OurVotes(s) => OurVotes(r)
             /\ DOMAIN s.disputes \subseteq DOMAIN r.disputes
  <1> DEFINE r == compareMap(s, map)
  <1>1. CASE ~s.ourPosition.taken \/ s.ourPosition.bowOut \/ map = s.ourPosition.set
    <2>1. r = s
      BY <1>1 DEF compareMap
    <2>2. Keeps(s, s, {"disputes", "compares"})
      BY DEF Keeps, Base
    <2> QED BY <2>1, <2>2
  <1>2. CASE s.ourPosition.taken /\ ~s.ourPosition.bowOut /\ map # s.ourPosition.set
    <2>1. r = compareWith(s, s.ourSet, {map})
      BY <1>2 DEF compareMap
    <2>2. Members \subseteq DOMAIN s /\ Votes(s)
      BY DEF Base
    <2> HIDE DEF r
    <2>3. /\ Keeps(s, r, {"disputes", "compares"}) /\ Votes(r)
          /\ r.compares = s.compares \cup {map}
          /\ DOMAIN s.disputes \subseteq DOMAIN r.disputes
          /\ \A h \in {map} : SymmetricDifference(s.ourSet, h) \subseteq DOMAIN r.disputes
          /\ OurVotes(s) => OurVotes(r)
      BY <2>1, <2>2, CompareWith
    <2>4. /\ r.storedProposals = s.storedProposals /\ r.ourPosition = s.ourPosition
          /\ r.acquired = s.acquired /\ Had(r) = Had(s)
          /\ r.ourSet = s.ourSet /\ Members \subseteq DOMAIN r
      BY <2>3 DEF Keeps, Members, Had
    <2>5. Covered(r)
      BY <1>2, <2>3, <2>4 DEF Base, Covered
    <2>6. Base(r)
      BY <2>3, <2>4, <2>5 DEF Base, Stored
    <2> QED BY <2>3, <2>6 DEF r
  <1> QED
    BY <1>1, <1>2 DEF Base, IsPosition

(* mapCompleteInternal adds the set to those the engine has. *)
LEMMA MapComplete ==
  ASSUME NEW s, Base(s), NEW map, NEW fromPeer \in BOOLEAN,
         fromPeer => map \in Had(s)
  PROVE  LET r == mapCompleteInternal(s, map, fromPeer)
         IN  /\ Keeps(s, r, {"disputes", "compares", "inbound", "acquired"}) /\ Base(r)
             /\ s.acquired \cup {map} = r.acquired
             /\ OurVotes(s) => OurVotes(r)
             /\ DOMAIN s.disputes \subseteq DOMAIN r.disputes
  <1> DEFINE r == mapCompleteInternal(s, map, fromPeer)
             F == {"disputes", "compares", "inbound", "acquired"}
  <1>1. CASE map \in s.acquired
    <2>1. r = s
      BY <1>1 DEF mapCompleteInternal
    <2>2. Keeps(s, s, F)
      BY DEF Keeps, Base
    <2> QED BY <1>1, <2>1, <2>2
  <1>2. CASE map \notin s.acquired
    <2> DEFINE q == IF fromPeer THEN s ELSE shareSet(s, map)
               c == compareMap(q, map)
               p == proposersOf(s, map)
               d == adjustCount(c, map, p)
    <2>1. r = [d EXCEPT !.acquired = @ \cup {map}]
      BY <1>2 DEF mapCompleteInternal
    <2>2. Keeps(s, q, {"inbound"}) /\ map \in Had(q) /\ Had(s) \subseteq Had(q)
      <3>0. Members \subseteq DOMAIN s
        BY Zenon DEF Base
      <3>1. CASE fromPeer
        BY <3>0, <3>1 DEF Keeps
      <3>2. CASE ~fromPeer
        <4>1. q = shareSet(s, map)
          BY <3>2
        <4> HIDE DEF q
        <4>2. Keeps(s, q, {"inbound"}) /\ Had(q) = Had(s) \cup {map}
          BY <3>0, <4>1, ShareSet
        <4> QED BY <4>2
      <3> QED BY <3>1, <3>2
    <2> HIDE DEF q, r
    <2>3. /\ q.storedProposals = s.storedProposals /\ q.ourPosition = s.ourPosition
          /\ q.acquired = s.acquired /\ q.disputes = s.disputes
          /\ q.peerPositions = s.peerPositions /\ q.compares = s.compares
          /\ q.ourSet = s.ourSet /\ Members \subseteq DOMAIN q
      BY <2>2 DEF Keeps, Members
    <2>4. Base(q)
      BY <2>2, <2>3 DEF Base, Stored, Votes, Covered
    <2>5. /\ Keeps(q, c, {"disputes", "compares"}) /\ Base(c)
          /\ OurVotes(q) => OurVotes(c)
          /\ DOMAIN q.disputes \subseteq DOMAIN c.disputes
      BY <2>4, CompareMap
    <2> HIDE DEF c
    <2>6. c.peerPositions = s.peerPositions
      BY <2>3, <2>5 DEF Keeps, Members
    <2>7. p \in SUBSET DOMAIN c.peerPositions
      BY <2>6 DEF proposersOf
    <2>8. Members \subseteq DOMAIN c /\ Votes(c)
      BY <2>5 DEF Base
    <2> HIDE DEF p
    <2>9. /\ Keeps(c, d, {"disputes"}) /\ Votes(d)
          /\ DOMAIN d.disputes = DOMAIN c.disputes
          /\ OurVotes(c) => OurVotes(d)
      BY <2>7, <2>8, AdjustCount
    <2> HIDE DEF d
    <2>10. Base(d)
      BY <2>5, <2>9, BaseKept
    <2>11. Keeps(d, r, {"acquired"}) /\ r.acquired = d.acquired \cup {map}
      BY <2>1, <2>10 DEF Keeps, Base, Members
    <2>12. /\ d.acquired = s.acquired /\ Had(d) = Had(q)
      BY <2>3, <2>5, <2>9 DEF Keeps, Members, Had
    <2>13. /\ r.storedProposals = d.storedProposals /\ r.ourPosition = d.ourPosition
           /\ Had(r) = Had(d) /\ r.disputes = d.disputes
           /\ r.peerPositions = d.peerPositions /\ r.compares = d.compares
           /\ r.ourSet = d.ourSet /\ Members \subseteq DOMAIN r
      BY <2>11 DEF Keeps, Members, Had
    <2>14. Base(r)
      BY <2>2, <2>10, <2>11, <2>12, <2>13 DEF Base, Stored, Votes, Covered
    <2>15. OurVotes(s) => OurVotes(r)
      BY <2>3, <2>5, <2>9, <2>13 DEF OurVotes
    <2>16. Keeps(s, r, F)
      BY <2>2, <2>5, <2>9, <2>11 DEF Keeps
    <2>17. DOMAIN s.disputes \subseteq DOMAIN r.disputes
      BY <2>3, <2>5, <2>9, <2>13
    <2> QED
      BY <2>11, <2>12, <2>14, <2>15, <2>16, <2>17 DEF r
  <1> QED
    BY <1>1, <1>2

(* What listening to peers may do to the engine. *)
Heard(s, r) ==
    /\ Keeps(s, r, {"disputes", "peerPositions", "acquired", "inbound"})
    /\ s.acquired \subseteq r.acquired
    /\ DOMAIN r.disputes = DOMAIN s.disputes /\ Had(r) = Had(s)
    /\ Base(r) /\ OurVotes(r)

(* Disputes and positions that change together. *)
LEMMA HeardFrom ==
  ASSUME NEW s, NEW r, Base(s), Keeps(s, r, {"disputes", "peerPositions", "acquired", "inbound"}),
         s.acquired \subseteq r.acquired, r.acquired \subseteq Had(s), Had(r) = Had(s),
         Votes(r), OurVotes(r), DOMAIN r.disputes = DOMAIN s.disputes
  PROVE  Heard(s, r)
  <1>1. /\ r.storedProposals = s.storedProposals /\ r.ourPosition = s.ourPosition
        /\ r.compares = s.compares
        /\ r.ourSet = s.ourSet /\ Members \subseteq DOMAIN r
    BY DEF Keeps, Members
  <1>2. Base(r)
    BY <1>1 DEF Base, Stored, Covered
  <1> QED
    BY <1>2 DEF Heard

(* A peer that bows out takes its votes with it. *)
LEMMA PeerLeaves ==
  ASSUME NEW s, Base(s), OurVotes(s), NEW peer
  PROVE  Heard(s, peerLeaves(s, peer))
  <1> DEFINE P == DOMAIN s.peerPositions
             f == [t \in DOMAIN s.disputes |-> unVotes(s.disputes[t], {peer})]
             g == Without(s.peerPositions, {peer})
             r == peerLeaves(s, peer)
  <1>1. r = [[s EXCEPT !.disputes = f] EXCEPT
                !.peerPositions = g, !.deadNodes = @ \cup {peer}]
    BY DEF peerLeaves, ForAllDisputes, Base, Members
  <1>2. DOMAIN f = DOMAIN s.disputes /\ DOMAIN g = P \ {peer}
    BY DEF Without
  <1>3. \A t \in DOMAIN s.disputes :
            Counted(f[t], P \ {peer}) /\ f[t].ourVote = s.disputes[t].ourVote
    BY UnVotesCounts, Zenon DEF Base, Votes
  <1> HIDE DEF f, g, r
  <1>4. /\ Keeps(s, r, {"disputes", "peerPositions"})
        /\ r.disputes = f /\ r.peerPositions = g
    BY <1>1, Zenon DEF Keeps, Members, Base
  <1>5. r.ourSet = s.ourSet /\ r.acquired = s.acquired /\ Had(r) = Had(s)
    BY <1>4 DEF Keeps, Members, Had
  <1>6. IsFiniteSet(P \ {peer})
    BY FS_Subset DEF Base, Votes
  <1>7. Votes(r)
    BY <1>2, <1>3, <1>4, <1>6 DEF Votes
  <1>8. OurVotes(r)
    BY <1>2, <1>3, <1>4, <1>5 DEF OurVotes
  <1>9. Keeps(s, r, {"disputes", "peerPositions", "acquired", "inbound"})
    BY <1>4 DEF Keeps
  <1> QED
    BY <1>2, <1>4, <1>5, <1>7, <1>8, <1>9, HeardFrom DEF r, Base

(* A peer's new position is placed, its set looked for and its votes       *)
(* counted.                                                                *)
LEMMA PeerTakes ==
  ASSUME NEW s, Base(s), OurVotes(s), NEW m
  PROVE  Heard(s, peerTakes(s, m))
  <1> DEFINE P == DOMAIN s.peerPositions
             g == [p \in P \cup {m.from} |->
                     IF p = m.from THEN [seq |-> m.seq, set |-> m.set]
                     ELSE s.peerPositions[p]]
             a == placePosition(s, m)
             b == findSet(a, m.set)
             r == countVotes(b, m)
  <1>1. a = [s EXCEPT !.peerPositions = g] /\ DOMAIN g = P \cup {m.from}
    BY DEF placePosition
  <1> HIDE DEF g
  <1>2. Keeps(s, a, {"peerPositions"}) /\ a.peerPositions = g
    BY <1>1 DEF Keeps, Members, Base
  <1> HIDE DEF a
  <1>3. /\ a.disputes = s.disputes /\ a.ourSet = s.ourSet /\ a.acquired = s.acquired
        /\ Had(a) = Had(s) /\ Members \subseteq DOMAIN a
    BY <1>2 DEF Keeps, Members, Had
  <1>4. IsFiniteSet(P \cup {m.from})
    BY FS_AddElement DEF Base, Votes
  <1>5. Votes(a)
    <2>1. \A t \in DOMAIN s.disputes : Counted(s.disputes[t], P \cup {m.from})
      <3> SUFFICES ASSUME NEW t \in DOMAIN s.disputes
                   PROVE  Counted(s.disputes[t], P \cup {m.from})
        OBVIOUS
      <3>1. Counted(s.disputes[t], P)
        BY DEF Base, Votes
      <3> DEFINE d == s.disputes[t]
                 Q == P \cup {m.from}
      <3> HIDE DEF d, Q
      <3>2. \A e \in UNION {[W -> BOOLEAN] : W \in SUBSET P} :
                e \in UNION {[W -> BOOLEAN] : W \in SUBSET Q}
        BY DEF Q
      <3>3. Counted(d, Q)
        BY <3>1, <3>2 DEF Counted, d
      <3> QED BY <3>3 DEF d, Q
    <2> QED BY <1>1, <1>2, <1>3, <1>4, <2>1 DEF Votes
  <1>6. /\ Keeps(a, b, {"acquired", "inbound"}) /\ a.acquired \subseteq b.acquired
        /\ b.acquired \subseteq Had(a) \cup a.acquired /\ Had(b) = Had(a)
    <2>1. CASE m.set \in a.acquired
      <3>1. b = a
        BY <2>1 DEF findSet
      <3> QED BY <1>3, <3>1 DEF Keeps
    <2>2. CASE m.set \notin a.acquired
      <3> DEFINE g0 == getSet(a, m.set)
                 new == IF m.set \in sets(a) THEN g0.acquired \cup {m.set} ELSE g0.acquired
      <3>1. b = [g0 EXCEPT !.acquired = new]
        BY <2>2 DEF findSet
      <3>2. Keeps(a, g0, {"inbound"}) /\ Had(g0) = Had(a)
        BY <1>3, GetSet
      <3>3. m.set \in sets(a) => m.set \in Had(a)
        BY DEF sets, Had, Own
      <3> HIDE DEF g0
      <3>4. g0.acquired = a.acquired /\ Members \subseteq DOMAIN g0
        BY <3>2 DEF Keeps, Members
      <3>5. a.acquired \subseteq new /\ new \subseteq Had(a) \cup a.acquired
        BY <3>3, <3>4
      <3> HIDE DEF new, b
      <3>6. Keeps(g0, b, {"acquired"}) /\ b.acquired = new
        BY <3>1, <3>4 DEF Keeps, Members
      <3>7. Had(b) = Had(g0)
        BY <3>6 DEF Keeps, Members, Had
      <3>8. Keeps(a, b, {"acquired", "inbound"})
        BY <3>2, <3>6 DEF Keeps
      <3> QED BY <3>2, <3>5, <3>6, <3>7, <3>8
    <2> QED BY <2>1, <2>2
  <1> HIDE DEF b
  <1>7. /\ b.disputes = s.disputes /\ b.ourSet = s.ourSet
        /\ b.peerPositions = a.peerPositions
        /\ Had(b) = Had(s) /\ Members \subseteq DOMAIN b
    BY <1>3, <1>6 DEF Keeps, Members
  <1>8. Votes(b) /\ OurVotes(b)
    BY <1>5, <1>7, <1>3 DEF Votes, OurVotes
  <1>9. /\ Keeps(b, r, {"disputes"}) /\ Votes(r) /\ OurVotes(r)
        /\ DOMAIN r.disputes = DOMAIN b.disputes
    <2>1. CASE m.set \in b.acquired
      <3>1. r = adjustCount(b, m.set, {m.from})
        BY <2>1 DEF countVotes
      <3>2. {m.from} \in SUBSET DOMAIN b.peerPositions
        BY <1>1, <1>2, <1>7
      <3> QED BY <1>7, <1>8, <3>1, <3>2, AdjustCount
    <2>2. CASE m.set \notin b.acquired
      <3>1. r = b
        BY <2>2 DEF countVotes
      <3> QED BY <1>7, <1>8, <3>1 DEF Keeps
    <2> QED BY <2>1, <2>2
  <1> HIDE DEF r
  <1>10. Keeps(s, r, {"disputes", "peerPositions", "acquired", "inbound"})
    BY <1>2, <1>6, <1>9 DEF Keeps
  <1>11. r.acquired = b.acquired /\ Had(r) = Had(b)
    BY <1>9 DEF Keeps, Members, Had
  <1>12. Heard(s, r)
    BY <1>3, <1>6, <1>7, <1>9, <1>10, <1>11, HeardFrom DEF Base
  <1> QED
    BY <1>12 DEF peerTakes, r, b, a

(* peerPosition, whatever the proposal. *)
LEMMA PeerPosition ==
  ASSUME NEW s, Base(s), OurVotes(s), NEW m
  PROVE  Heard(s, peerPosition(s, m))
  <1>1. Heard(s, s)
    BY DEF Heard, Keeps, Base
  <1> QED
    BY <1>1, PeerLeaves, PeerTakes DEF peerPosition

(* One proposal after the other. *)
LEMMA HeardTrans ==
  ASSUME NEW s, NEW r, NEW q, Heard(s, r), Heard(r, q)
  PROVE  Heard(s, q)
  <1>1. Keeps(s, q, {"disputes", "peerPositions", "acquired", "inbound"})
    BY DEF Heard, Keeps
  <1> QED
    BY <1>1 DEF Heard

(* Playing one stored proposal back. *)
LEMMA Replay ==
  ASSUME NEW s, NEW r, Heard(s, r), NEW m
  PROVE  Heard(s, replay(r, m))
  <1>1. Base(r) /\ OurVotes(r)
    BY DEF Heard
  <1>2. Heard(r, peerPosition(r, m))
    BY <1>1, PeerPosition
  <1>3. Heard(s, peerPosition(r, m))
    BY <1>2, HeardTrans
  <1> QED
    BY <1>3 DEF replay

-----------------------------------------------------------------------------
(* playbackProposals: a fold over the peers of a fold over their stored     *)
(* proposals.                                                              *)

(* Induction over the subsets of a finite set: Q is the set of those that  *)
(* have the property.                                                      *)
LEMMA SubsetInduction ==
  ASSUME NEW S, IsFiniteSet(S), NEW Q,
         \A T \in SUBSET S : (\A U \in SUBSET T : U # T => U \in Q) => T \in Q
  PROVE  \A T \in SUBSET S : T \in Q
  <1> DEFINE Bad == (SUBSET S) \ Q
  <1> SUFFICES ASSUME Bad # {} PROVE FALSE
    OBVIOUS
  <1>1. IsWellFoundedOn(StrictSubsetOrdering(S), SUBSET S)
    <2>1. IsWellFoundedOn(StrictSubsetOrdering(S), FiniteSubsetsOf(S))
      BY FS_StrictSubsetOrderingWellFounded, Zenon
    <2>2. FiniteSubsetsOf(S) = SUBSET S
      BY FS_FiniteSubsetsOfFinite, Zenon
    <2> QED BY <2>1, <2>2, Zenon
  <1>2. Bad \subseteq SUBSET S
    OBVIOUS
  <1> HIDE DEF Bad
  <1>3. PICK T \in Bad : \A U \in Bad : ~ (<<U, T>> \in StrictSubsetOrdering(S))
    BY <1>1, <1>2, WFMin
  <1>4. \A U \in SUBSET T : U # T => U \in Q
    BY <1>2, <1>3, Zenon DEF StrictSubsetOrdering, Bad
  <1> QED
    BY <1>2, <1>3, <1>4 DEF Bad

(* Induction over the numbers, likewise. *)
LEMMA NumberInduction ==
  ASSUME NEW Q, 0 \in Q, \A n \in Nat : n \in Q => n + 1 \in Q
  PROVE  \A n \in Nat : n \in Q
  <1> DEFINE Bad == Nat \ Q
  <1> SUFFICES ASSUME Bad # {} PROVE FALSE
    OBVIOUS
  <1>1. Bad \subseteq Nat
    OBVIOUS
  <1> HIDE DEF Bad
  <1>3. PICK n \in Bad : \A m \in Bad : ~ (<<m, n>> \in OpToRel(<, Nat))
    BY <1>1, WFMin, NatLessThanWellFounded, Zenon
  <1>4. \A m \in Nat : m < n => m \in Q
    BY <1>1, <1>3, Zenon DEF OpToRel, Bad
  <1>5. n \in Nat /\ n # 0 /\ n \notin Q
    BY <1>3, Zenon DEF Bad
  <1>6. n - 1 \in Nat /\ n - 1 \in Q /\ (n - 1) + 1 = n
    BY <1>4, <1>5
  <1> QED
    BY <1>5, <1>6

(* Some positions of a sequence have a last one. *)
LEMMA MaxIsIn ==
  ASSUME NEW n \in Nat, NEW T \in SUBSET (1 .. n), T # {}
  PROVE  Max(T) \in T
  <1> DEFINE U == {k \in Nat : n - k \in T}
  <1>1. U \subseteq Nat /\ U # {}
    <2>1. PICK x \in T : TRUE
      BY Zenon
    <2>2. n - x \in Nat /\ n - (n - x) = x
      OBVIOUS
    <2> QED BY <2>1, <2>2
  <1> HIDE DEF U
  <1>2. PICK k \in U : \A j \in U : ~ (<<j, k>> \in OpToRel(<, Nat))
    BY <1>1, WFMin, NatLessThanWellFounded, Zenon
  <1>3. k \in Nat /\ n - k \in T /\ \A j \in U : ~(j < k)
    BY <1>1, <1>2, Zenon DEF OpToRel, U
  <1>4. \A y \in T : n - k >= y
    <2> SUFFICES ASSUME NEW y \in T PROVE n - k >= y
      OBVIOUS
    <2>1. n - y \in Nat /\ n - (n - y) = y /\ y \in Int
      OBVIOUS
    <2>2. n - y \in U
      BY <2>1 DEF U
    <2> QED BY <1>3, <2>1, <2>2
  <1> QED
    BY <1>3, <1>4, Zenon DEF Max

(* What is played back next: a proposal, or a peer. *)
PlayStep(k, r, x) == IF k = "proposal" THEN replay(r, x) ELSE replayPeer(r, x)

(* Proposals are played in the order they are stored in, peers in any. *)
PlayLast(k, T) == IF k = "proposal" THEN Max(T) ELSE CHOOSE x \in T : TRUE

PlayItem(k, q, x) == IF k = "proposal" THEN q[x] ELSE x

(* it gives the engine after some of the steps S. *)
IsPlay(k, it, s, q, S) ==
    it = [T \in SUBSET S |->
            IF T = {} THEN s
            ELSE PlayStep(k, it[T \ {PlayLast(k, T)}], PlayItem(k, q, PlayLast(k, T)))]

(* There is a last one among the positions of a sequence, and among peers. *)
LEMMA LastIsIn ==
  ASSUME NEW k, NEW S, k = "proposal" => \E n \in Nat : S = 1 .. n,
         NEW T \in SUBSET S, T # {}
  PROVE  PlayLast(k, T) \in T
  <1>1. CASE k = "proposal"
    BY <1>1, MaxIsIn, Zenon DEF PlayLast
  <1>2. CASE k # "proposal"
    BY <1>2 DEF PlayLast
  <1> QED BY <1>1, <1>2

(* Playing back ends: there is such a function. *)
LEMMA PlayExists ==
  ASSUME NEW k, NEW s, NEW q, NEW S, IsFiniteSet(S),
         k = "proposal" => \E n \in Nat : S = 1 .. n
  PROVE  \E it : IsPlay(k, it, s, q, S)
  <1> DEFINE Sub(j) == {T \in SUBSET S : Cardinality(T) <= j}
             Last(T) == PlayLast(k, T)
             Val(g, T) == IF T = {} THEN s
                          ELSE PlayStep(k, g[T \ {Last(T)}], PlayItem(k, q, Last(T)))
             Q == {j \in Nat : \E g : g = [T \in Sub(j) |-> Val(g, T)]}
  <1>1. \A T \in SUBSET S : /\ IsFiniteSet(T) /\ Cardinality(T) \in Nat
                            /\ Cardinality(T) <= Cardinality(S)
                            /\ Cardinality(T) = 0 <=> T = {}
    BY FS_Subset, FS_CardinalityType, FS_EmptySet
  <1>2. \A T \in SUBSET S : T # {} =>
            /\ T \ {Last(T)} \in SUBSET S
            /\ Cardinality(T \ {Last(T)}) = Cardinality(T) - 1
    <2> SUFFICES ASSUME NEW T \in SUBSET S, T # {}
                 PROVE  /\ T \ {Last(T)} \in SUBSET S
                        /\ Cardinality(T \ {Last(T)}) = Cardinality(T) - 1
      OBVIOUS
    <2>1. Last(T) \in T
      BY LastIsIn, Zenon
    <2> HIDE DEF Last
    <2> QED BY <1>1, <2>1, FS_RemoveElement
  <1>3. 0 \in Q
    <2> DEFINE g == [T \in Sub(0) |-> s]
    <2>1. \A T \in Sub(0) : T = {}
      BY <1>1
    <2>2. g = [T \in Sub(0) |-> Val(g, T)]
      BY <2>1
    <2> QED BY <2>2, Zenon
  <1>4. \A j \in Nat : j \in Q => j + 1 \in Q
    <2> SUFFICES ASSUME NEW j \in Nat, j \in Q PROVE j + 1 \in Q
      BY Zenon
    <2>1. PICK g : g = [T \in Sub(j) |-> Val(g, T)]
      BY Zenon
    <2> DEFINE h == [T \in Sub(j + 1) |-> Val(g, T)]
    <2>2. \A T \in Sub(j + 1) : T # {} => T \ {Last(T)} \in Sub(j)
      BY <1>1, <1>2
    <2>3. \A T \in Sub(j) : T \in Sub(j + 1)
      BY <1>1
    <2>4. \A T \in Sub(j) : h[T] = g[T]
      <3> SUFFICES ASSUME NEW T \in Sub(j) PROVE h[T] = g[T]
        BY Zenon
      <3>1. h[T] = Val(g, T)
        BY <2>3
      <3>2. g[T] = Val(g, T)
        <4> HIDE DEF Val, Sub
        <4> QED BY <2>1
      <3> QED BY <3>1, <3>2, Zenon
    <2>5. \A T \in Sub(j + 1) : Val(g, T) = Val(h, T)
      <3> SUFFICES ASSUME NEW T \in Sub(j + 1) PROVE Val(g, T) = Val(h, T)
        BY Zenon
      <3>2. CASE T = {}
        BY <3>2
      <3>3. CASE T # {}
        <4>1. h[T \ {Last(T)}] = g[T \ {Last(T)}]
          BY <2>2, <2>4, <3>3, Zenon
        <4> HIDE DEF h
        <4> QED BY <3>3, <4>1
      <3> QED BY <3>2, <3>3, ZenonT(40)
    <2>6. h = [T \in Sub(j + 1) |-> Val(h, T)]
      <3> DEFINE A == Sub(j + 1)
                 v(T) == Val(g, T)
                 w(T) == Val(h, T)
      <3>1. h = [T \in A |-> v(T)] /\ \A T \in A : v(T) = w(T)
        BY <2>5, Zenon
      <3> HIDE DEF A, v, w, h
      <3>2. h = [T \in A |-> w(T)]
        BY <3>1
      <3> QED BY <3>2, Zenon DEF A, w
    <2> HIDE DEF h, Val, Sub
    <2>7. \E e : e = [T \in Sub(j + 1) |-> Val(e, T)]
      BY <2>6
    <2> QED
      BY <2>7
  <1>5. Cardinality(S) \in Q
    <2> HIDE DEF Q
    <2> QED BY <1>1, <1>3, <1>4, NumberInduction
  <1>6. Sub(Cardinality(S)) = SUBSET S
    BY <1>1
  <1>7. PICK it : it = [T \in SUBSET S |-> Val(it, T)]
    <2> HIDE DEF Val, Sub
    <2> QED BY <1>5, <1>6, Zenon
  <1>8. IsPlay(k, it, s, q, S)
    BY <1>7, Zenon DEF IsPlay
  <1> QED
    BY <1>8

(* If every step listens to peers, so does playing them all back. *)
LEMMA PlayHeard ==
  ASSUME NEW k, NEW s, NEW r, Heard(s, r), NEW q, NEW S, IsFiniteSet(S),
         k = "proposal" => \E n \in Nat : S = 1 .. n,
         \A e, i : (i \in S /\ Heard(s, e)) => Heard(s, PlayStep(k, e, PlayItem(k, q, i))),
         NEW it, IsPlay(k, it, r, q, S)
  PROVE  Heard(s, it[S])
  <1> DEFINE Last(T) == PlayLast(k, T)
             Q == {T \in SUBSET S : Heard(s, it[T])}
  <1>1. \A T \in SUBSET S : (\A U \in SUBSET T : U # T => U \in Q) => T \in Q
    <2> SUFFICES ASSUME NEW T \in SUBSET S, \A U \in SUBSET T : U # T => U \in Q
                 PROVE  T \in Q
      OBVIOUS
    <2>1. it[T] = IF T = {} THEN r
                  ELSE PlayStep(k, it[T \ {Last(T)}], PlayItem(k, q, Last(T)))
      BY Zenon DEF IsPlay
    <2>2. CASE T = {}
      BY <2>1, <2>2
    <2>3. CASE T # {}
      <3>1. Last(T) \in T
        BY <2>3, LastIsIn, Zenon
      <3>2. T \ {Last(T)} \in Q /\ Last(T) \in S
        BY <3>1
      <3> QED BY <2>1, <2>3, <3>2
    <2> QED BY <2>2, <2>3
  <1>3. \A T \in SUBSET S : T \in Q
    <2> HIDE DEF Q
    <2> QED BY <1>1, SubsetInduction, Zenon
  <1> QED
    BY <1>3

(* The stored proposals of a peer are played back. *)
LEMMA ReplayPeer ==
  ASSUME NEW s, NEW r, Heard(s, r), NEW p \in Peers
  PROVE  Heard(s, replayPeer(r, p))
  <1> DEFINE q == r.storedProposals[p]
  <1>1. q \in Seq(Proposals)
    BY Zenon DEF Heard, Base, Stored
  <1> HIDE DEF q
  <1>2. Len(q) \in Nat /\ DOMAIN q = 1 .. Len(q) /\ IsFiniteSet(DOMAIN q)
    BY <1>1, FS_Interval
  <1>3. replayPeer(r, p) = (CHOOSE it : IsPlay("proposal", it, r, q, DOMAIN q))[DOMAIN q]
    BY DEF replayPeer, MapThenFoldSet, IsPlay, PlayStep, PlayLast, PlayItem, q
  <1>4. \A e, i : (i \in DOMAIN q /\ Heard(s, e))
                     => Heard(s, PlayStep("proposal", e, PlayItem("proposal", q, i)))
    BY Replay DEF PlayStep
  <1>5. IsPlay("proposal", CHOOSE it : IsPlay("proposal", it, r, q, DOMAIN q), r, q, DOMAIN q)
    BY <1>2, PlayExists, Zenon
  <1> QED
    BY <1>2, <1>3, <1>4, <1>5, PlayHeard, ZenonT(40)

(* playbackProposals listens to peers and does nothing else. *)
LEMMA Playback ==
  ASSUME NEW s, Base(s), OurVotes(s)
  PROVE  Heard(s, playbackProposals(s))
  <1>1. IsFiniteSet(Peers)
    BY RoundAssumption
  <1>2. Heard(s, s)
    BY DEF Heard, Keeps, Base
  <1>3. playbackProposals(s) = (CHOOSE it : IsPlay("peer", it, s, <<>>, Peers))[Peers]
    BY DEF playbackProposals, FoldSet, MapThenFoldSet, IsPlay, PlayStep, PlayLast, PlayItem
  <1>4. \A e, i : (i \in Peers /\ Heard(s, e))
                     => Heard(s, PlayStep("peer", e, PlayItem("peer", <<>>, i)))
    BY ReplayPeer DEF PlayStep, PlayItem
  <1>5. IsPlay("peer", CHOOSE it : IsPlay("peer", it, s, <<>>, Peers), s, <<>>, Peers)
    BY <1>1, PlayExists, Zenon
  <1> QED
    BY <1>1, <1>2, <1>3, <1>4, <1>5, PlayHeard

-----------------------------------------------------------------------------
(* A tick of the timer. *)

(* Listening to peers keeps the rest of the invariant. *)
LEMMA HeardGood ==
  ASSUME NEW s, NEW r, Good(s), Heard(s, r)
  PROVE  Good(r)
  <1>1. /\ r.state = s.state /\ r.mMode = s.mMode /\ r.job = s.job
        /\ r.prevLedgerHash = s.prevLedgerHash /\ r.previousLedger = s.previousLedger
        /\ r.haveCorrectLCL = s.haveCorrectLCL /\ r.ourPosition = s.ourPosition
        /\ r.ourSet = s.ourSet /\ r.sent = s.sent /\ r.proposing = s.proposing
    BY DEF Heard, Keeps, Members
  <1>2. Base(r) /\ OurVotes(r) /\ s.acquired \subseteq r.acquired
    BY DEF Heard
  <1>3. Sound(r)
    BY <1>1, <1>2 DEF Good, Sound, OwnSet, Shared
  <1>4. Sync(r) /\ Phase(r)
    BY <1>1, ZenonT(40) DEF Good, Sync, InSync, Phase
  <1> QED
    BY <1>3, <1>4 DEF Good

(* Our set, or the position that stands for it, is compared with others. *)
LEMMA CompareOurs ==
  ASSUME NEW s, Base(s), s.ourPosition.taken, NEW others, NEW m1,
         ~s.ourPosition.bowOut => m1 = s.ourSet
  PROVE  LET r == compareWith(s, m1, others)
         IN  /\ Keeps(s, r, {"disputes", "compares"}) /\ Base(r)
             /\ OurVotes(s) => OurVotes(r)
  <1> DEFINE r == compareWith(s, m1, others)
  <1>1. Members \subseteq DOMAIN s /\ Votes(s)
    BY DEF Base
  <1>2. /\ Keeps(s, r, {"disputes", "compares"}) /\ Votes(r)
        /\ r.compares = s.compares \cup others
        /\ DOMAIN s.disputes \subseteq DOMAIN r.disputes
        /\ \A h \in others : SymmetricDifference(m1, h) \subseteq DOMAIN r.disputes
        /\ OurVotes(s) => OurVotes(r)
    BY <1>1, CompareWith, Zenon
  <1> HIDE DEF r
  <1>3. /\ r.storedProposals = s.storedProposals /\ r.ourPosition = s.ourPosition
        /\ r.acquired = s.acquired /\ Had(r) = Had(s)
        /\ r.ourSet = s.ourSet /\ Members \subseteq DOMAIN r
    BY <1>2 DEF Keeps, Members, Had
  <1>4. Covered(r)
    BY <1>2, <1>3, Zenon DEF Base, Covered
  <1>5. Base(r)
    BY <1>2, <1>3, <1>4 DEF Base, Stored
  <1> QED
    BY <1>2, <1>5, Zenon DEF r

(* Only a server that proposes sends its position. *)
LEMMA ProposeIfProposing ==
  ASSUME NEW s, Base(s)
  PROVE  LET r == proposeIfProposing(s)
         IN  /\ Keeps(s, r, {"sent"}) /\ Base(r)
             /\ OurVotes(s) => OurVotes(r)
             /\ s.proposing \/ r.sent = s.sent
  <1> DEFINE r == proposeIfProposing(s)
  <1>1. Keeps(s, r, {"sent"}) /\ (s.proposing \/ r.sent = s.sent)
    BY DEF proposeIfProposing, propose, Keeps, Base, Members
  <1> HIDE DEF r
  <1>2. /\ r.storedProposals = s.storedProposals /\ r.ourPosition = s.ourPosition
        /\ r.acquired = s.acquired /\ r.disputes = s.disputes
        /\ r.peerPositions = s.peerPositions /\ r.compares = s.compares
        /\ Had(r) = Had(s) /\ r.ourSet = s.ourSet /\ Members \subseteq DOMAIN r
    BY <1>1 DEF Keeps, Members, Had
  <1>3. Base(r) /\ (OurVotes(s) => OurVotes(r))
    BY <1>2 DEF Base, Stored, Votes, Covered, OurVotes
  <1> QED
    BY <1>1, <1>3 DEF r

(* What a tick may change. *)
TickMembers == {"state", "job", "disputes", "peerPositions", "ourSet", "ourPosition",
                "inbound", "acquired", "compares", "sent"}

(* The position, and what we send of it. *)
Proposed(s, r) ==
    /\ Keeps(s, r, TickMembers)
    /\ Sound(r) /\ r.ourPosition.taken
    /\ s.proposing \/ r.sent = s.sent

(* takePosition: the first position of a round. *)
LEMMA TakePosition ==
  ASSUME NEW s, Base(s), ~s.ourPosition.taken, NEW o
  PROVE  LET r == takePosition(s, o)
         IN  /\ Keeps(s, r, {"disputes", "ourPosition", "ourSet", "compares"})
             /\ Base(r) /\ OurVotes(r) /\ r.ourSet = o
             /\ r.ourPosition = [taken |-> TRUE, set |-> o, bowOut |-> FALSE]
  <1> DEFINE f == [t \in DOMAIN s.disputes |-> [s.disputes[t] EXCEPT !.ourVote = t \in o]]
             x == [taken |-> TRUE, set |-> o, bowOut |-> FALSE]
             r == takePosition(s, o)
  <1>1. r = [[s EXCEPT !.disputes = f] EXCEPT !.ourPosition = x, !.ourSet = o,
                !.compares = @ \cup {o}]
    BY DEF takePosition, ForAllDisputes
  <1>2. DOMAIN f = {} /\ s.compares = {}
    BY DEF Base, Covered
  <1> HIDE DEF f, x, r
  <1>3. /\ Keeps(s, r, {"disputes", "ourPosition", "ourSet", "compares"})
        /\ r.disputes = f /\ r.ourPosition = x /\ r.ourSet = o /\ r.compares = {o}
    BY <1>1, <1>2, Zenon DEF Keeps, Base, Members
  <1>4. /\ r.storedProposals = s.storedProposals
        /\ r.acquired = s.acquired /\ Had(r) = Had(s)
        /\ r.peerPositions = s.peerPositions /\ Members \subseteq DOMAIN r
    BY <1>3 DEF Keeps, Members, Had
  <1>5. Covered(r)
    BY <1>3 DEF Covered, SymmetricDifference, x
  <1>6. IsPosition(r.ourPosition)
    BY <1>3 DEF IsPosition, x
  <1>7. Votes(r) /\ OurVotes(r)
    BY <1>2, <1>3, <1>4, Zenon DEF Base, Votes, OurVotes
  <1>8. Base(r)
    BY <1>4, <1>5, <1>6, <1>7 DEF Base, Stored
  <1> QED
    BY <1>3, <1>7, <1>8 DEF r, x

(* takeInitialPosition takes, compares, shares and sends it. *)
LEMMA TakeInitial ==
  ASSUME NEW s, Base(s), ~s.ourPosition.taken, NEW o
  PROVE  LET r == takeInitialPosition(s, o)
         IN  Proposed(s, r) /\ ~r.ourPosition.bowOut /\ r.state = s.state /\ r.job = s.job
  <1> DEFINE t == takePosition(s, o)
             others == (peerSets(t) \cap t.acquired) \ t.compares
             i == compareInitial(t)
             m == mapCompleteInternal(i, o, FALSE)
             r == proposeIfProposing(m)
  <1>1. /\ Keeps(s, t, {"disputes", "ourPosition", "ourSet", "compares"})
        /\ Base(t) /\ OurVotes(t) /\ t.ourSet = o
        /\ t.ourPosition = [taken |-> TRUE, set |-> o, bowOut |-> FALSE]
    BY TakePosition, ZenonT(40)
  <1> HIDE DEF t
  <1>2. i = compareWith(t, t.ourSet, others)
    BY DEF compareInitial
  <1> HIDE DEF i, others
  <1>3. t.ourPosition.taken /\ ~t.ourPosition.bowOut /\ t.ourPosition.set = t.ourSet
    BY <1>1
  <1>4. Keeps(t, i, {"disputes", "compares"}) /\ Base(i) /\ OurVotes(i)
    BY <1>1, <1>2, <1>3, CompareOurs
  <1>5. /\ Keeps(i, m, {"disputes", "compares", "inbound", "acquired"}) /\ Base(m)
        /\ i.acquired \cup {o} = m.acquired /\ OurVotes(m)
    BY <1>4, MapComplete, Zenon
  <1> HIDE DEF m
  <1>6. /\ Keeps(m, r, {"sent"}) /\ Base(r) /\ OurVotes(r)
        /\ m.proposing \/ r.sent = m.sent
    BY <1>5, ProposeIfProposing
  <1> HIDE DEF r
  <1>7. /\ r.ourPosition = t.ourPosition /\ r.ourSet = o /\ o \in r.acquired
        /\ m.proposing = s.proposing /\ m.sent = s.sent
        /\ r.state = s.state /\ r.job = s.job
    BY <1>1, <1>4, <1>5, <1>6 DEF Keeps, Members, Had
  <1>8. Sound(r)
    BY <1>1, <1>3, <1>6, <1>7 DEF Sound, OwnSet, Shared
  <1>9. Keeps(s, r, TickMembers)
    BY <1>1, <1>4, <1>5, <1>6 DEF Keeps, TickMembers
  <1>10. takeInitialPosition(s, o) = r
    BY DEF takeInitialPosition, r, m, i, t
  <1> QED
    BY <1>3, <1>6, <1>7, <1>8, <1>9, <1>10, Zenon DEF Proposed

(* closeLedger begins to establish consensus on it. *)
LEMMA CloseLedger ==
  ASSUME NEW s, Good(s), s.state = "open", NEW o
  PROVE  LET r == closeLedger(s, o)
         IN  /\ Good(r) /\ r.state = "establish"
             /\ Keeps(s, r, TickMembers)
  <1> DEFINE c == [checkOurValidation(s) EXCEPT !.state = "establish", !.elapsed = 0]
             r == closeLedger(s, o)
  <1>1. Keeps(s, c, {"state"}) /\ c.state = "establish"
    BY Zenon DEF checkOurValidation, Keeps, Members, Good, Sound, Base
  <1>2. r = takeInitialPosition(c, o)
    BY DEF closeLedger
  <1> HIDE DEF c, r
  <1>3. /\ c.storedProposals = s.storedProposals /\ c.ourPosition = s.ourPosition
        /\ c.acquired = s.acquired /\ c.disputes = s.disputes
        /\ c.peerPositions = s.peerPositions /\ c.compares = s.compares
        /\ Had(c) = Had(s) /\ c.ourSet = s.ourSet /\ Members \subseteq DOMAIN c
        /\ c.sent = s.sent /\ c.proposing = s.proposing /\ c.job = s.job
    BY <1>1 DEF Keeps, Members, Had
  <1>4. Base(c) /\ ~c.ourPosition.taken
    BY <1>3, Zenon DEF Good, Sound, Base, Stored, Votes, Covered, Phase
  <1>5. /\ Proposed(c, r) /\ ~r.ourPosition.bowOut
        /\ r.state = "establish" /\ r.job = s.job
    BY <1>1, <1>2, <1>3, <1>4, TakeInitial, Zenon
  <1>6. Keeps(s, r, TickMembers)
    BY <1>1, <1>3, <1>5 DEF Proposed, Keeps, TickMembers
  <1>7. /\ r.mMode = s.mMode
        /\ r.prevLedgerHash = s.prevLedgerHash /\ r.previousLedger = s.previousLedger
        /\ r.haveCorrectLCL = s.haveCorrectLCL /\ r.proposing = s.proposing
    BY <1>6 DEF Keeps, Members, TickMembers
  <1>8. r.ourPosition.taken /\ Sound(r) /\ (s.proposing \/ r.sent = s.sent)
    BY <1>3, <1>5 DEF Proposed
  <1>9. Sync(r)
    BY <1>5, <1>7, <1>8 DEF Good, Sync, InSync
  <1>10. Phase(r)
    BY <1>5, <1>7, <1>8, Zenon DEF Good, Phase
  <1> QED
    BY <1>5, <1>6, <1>8, <1>9, <1>10, Zenon DEF Good, r

(* A stale proposal takes its votes with it. *)
LEMMA DropStale ==
  ASSUME NEW s, Base(s), OurVotes(s), NEW stale
  PROVE  Heard(s, dropStale(s, stale))
  <1> DEFINE P == DOMAIN s.peerPositions
             f == [t \in DOMAIN s.disputes |-> unVotes(s.disputes[t], stale)]
             g == Without(s.peerPositions, stale)
             r == dropStale(s, stale)
  <1>1. r = [[s EXCEPT !.disputes = f] EXCEPT !.peerPositions = g,
                                              !.expired = @ \cup stale]
    BY DEF dropStale, ForAllDisputes, Base, Members
  <1>2. DOMAIN f = DOMAIN s.disputes /\ DOMAIN g = P \ stale
    BY DEF Without
  <1>3. \A t \in DOMAIN s.disputes :
            Counted(f[t], P \ stale) /\ f[t].ourVote = s.disputes[t].ourVote
    BY UnVotesCounts, Zenon DEF Base, Votes
  <1> HIDE DEF f, g, r
  <1>4. /\ Keeps(s, r, {"disputes", "peerPositions"})
        /\ r.disputes = f /\ r.peerPositions = g
    BY <1>1, Zenon DEF Keeps, Members, Base
  <1>5. r.ourSet = s.ourSet /\ r.acquired = s.acquired /\ Had(r) = Had(s)
    BY <1>4 DEF Keeps, Members, Had
  <1>6. IsFiniteSet(P \ stale)
    BY FS_Subset DEF Base, Votes
  <1>7. Votes(r)
    BY <1>2, <1>3, <1>4, <1>6, Zenon DEF Votes
  <1>8. OurVotes(r)
    BY <1>2, <1>3, <1>4, <1>5, ZenonT(40) DEF OurVotes
  <1>9. Keeps(s, r, {"disputes", "peerPositions", "acquired", "inbound"})
    BY <1>4 DEF Keeps
  <1> QED
    BY <1>2, <1>4, <1>5, <1>7, <1>8, <1>9, HeardFrom, Zenon DEF r, Base

(* updateVote changes our vote and nothing else of a dispute. *)
LEMMA UpdateVoteCounts ==
  ASSUME NEW P, IsFiniteSet(P), NEW d, Counted(d, P), NEW percent, NEW proposing
  PROVE  Counted(updateVote(d, percent, proposing), P)
  <1> DEFINE o == updatedVote(d, percent, proposing)
             r == updateVote(d, percent, proposing)
             V == DOMAIN d.votes
             f == d.votes
  <1>1. o \in BOOLEAN
    <2> DEFINE heavy == weightOf(d) > neededWeight(percent)
               more == d.yays > d.nays
    <2>1. heavy \in BOOLEAN /\ more \in BOOLEAN
      OBVIOUS
    <2>2. CASE d.ourVote /\ d.nays = 0
      BY <2>2 DEF updatedVote
    <2>3. CASE ~d.ourVote /\ d.yays = 0
      BY <2>3 DEF updatedVote
    <2>4. CASE ~(d.ourVote /\ d.nays = 0) /\ ~(~d.ourVote /\ d.yays = 0)
      <3>1. o = IF proposing THEN heavy ELSE more
        BY <2>4, Zenon DEF updatedVote
      <3> HIDE DEF o, heavy, more
      <3> QED BY <2>1, <3>1, Zenon
    <2> QED BY <2>2, <2>3, <2>4
  <1>2. r = [d EXCEPT !.ourVote = o]
    BY DEF updateVote
  <1> HIDE DEF o, r
  <1>3. /\ d = [ourVote |-> d.ourVote, yays |-> d.yays, nays |-> d.nays, votes |-> f]
        /\ f \in [V -> BOOLEAN] /\ V \in SUBSET P
    BY CountedType
  <1>4. r = [ourVote |-> o, yays |-> d.yays, nays |-> d.nays, votes |-> f]
    BY <1>2, <1>3
  <1>5. /\ d.yays = Cardinality({p \in V : f[p]})
        /\ d.nays = Cardinality({p \in V : ~f[p]})
    BY DEF Counted
  <1> HIDE DEF V, f
  <1>6. Counted(r, P)
    BY <1>1, <1>3, <1>4, <1>5, CountedFields
  <1> QED
    BY <1>6 DEF r

(* Our votes are cast again; the set does not follow yet. *)
LEMMA UpdateVotes ==
  ASSUME NEW s, Base(s), NEW v
  PROVE  LET r == closeTimeVote(updateVotes(s), v)
         IN  Keeps(s, r, {"disputes"}) /\ DOMAIN r.disputes = DOMAIN s.disputes /\ Base(r)
  <1> DEFINE f == [t \in DOMAIN s.disputes |->
                     updateVote(s.disputes[t], closePercent(s), s.proposing)]
             r == closeTimeVote(updateVotes(s), v)
             b == updateVotes(s)
  <1>1. b = [s EXCEPT !.disputes = f]
    BY DEF updateVotes, ForAllDisputes
  <1>2. DOMAIN f = DOMAIN s.disputes
    OBVIOUS
  <1>3. \A t \in DOMAIN s.disputes : Counted(f[t], DOMAIN s.peerPositions)
    BY UpdateVoteCounts DEF Base, Votes
  <1> HIDE DEF f, b
  <1>4. Keeps(s, b, {"disputes"}) /\ b.disputes = f
    BY <1>1 DEF Keeps, Members, Base
  <1>5. Keeps(b, r, {})
    BY <1>4 DEF closeTimeVote, Keeps, Members, b
  <1> HIDE DEF r
  <1>6. Keeps(s, r, {"disputes"}) /\ r.disputes = f
    BY <1>4, <1>5 DEF Keeps, Members
  <1>7. r.peerPositions = s.peerPositions
    BY <1>6 DEF Keeps, Members
  <1>8. Votes(r)
    BY <1>2, <1>3, <1>6, <1>7 DEF Base, Votes
  <1>9. Base(r)
    BY <1>2, <1>6, <1>8, BaseKept
  <1> QED
    BY <1>2, <1>6, <1>9 DEF r

(* The set that follows our votes says what they say, and differs from the *)
(* sets it was compared with on disputes only.                             *)
LEMMA ChangedSet ==
  ASSUME NEW a, NEW b, Base(a), Base(b), OurVotes(a), a.ourSet = b.ourSet,
         DOMAIN b.disputes = DOMAIN a.disputes
  PROVE  LET new == changedSet(a, b)
         IN  /\ \A t \in DOMAIN b.disputes : b.disputes[t].ourVote = (t \in new)
             /\ \A h : SymmetricDifference(b.ourSet, h) \subseteq DOMAIN b.disputes
                          => SymmetricDifference(new, h) \subseteq DOMAIN b.disputes
  <1>1. \A t \in DOMAIN b.disputes : b.disputes[t].ourVote \in BOOLEAN
    BY Zenon DEF Base, Votes, Counted
  <1>2. \A t \in DOMAIN b.disputes : a.disputes[t].ourVote = (t \in b.ourSet)
    BY DEF OurVotes
  <1> DEFINE new == changedSet(a, b)
  <1>3. \A t \in DOMAIN b.disputes : b.disputes[t].ourVote = (t \in new)
    BY <1>1, <1>2 DEF changedSet, Flipped
  <1>4. \A t : t \notin DOMAIN b.disputes => (t \in new <=> t \in b.ourSet)
    BY DEF changedSet, Flipped
  <1> HIDE DEF new
  <1>5. \A h : SymmetricDifference(b.ourSet, h) \subseteq DOMAIN b.disputes
                  => SymmetricDifference(new, h) \subseteq DOMAIN b.disputes
    BY <1>4 DEF SymmetricDifference
  <1> QED
    BY <1>3, <1>5 DEF new

(* changePosition gives us the new set, and the peers with it. *)
LEMMA ChangePosition ==
  ASSUME NEW s, Base(s), s.ourPosition.taken, NEW new,
         \A t \in DOMAIN s.disputes : s.disputes[t].ourVote = (t \in new),
         \A h : SymmetricDifference(s.ourSet, h) \subseteq DOMAIN s.disputes
                   => SymmetricDifference(new, h) \subseteq DOMAIN s.disputes
  PROVE  LET r == changePosition(s, new)
         IN  Proposed(s, r) /\ r.ourPosition.bowOut = s.ourPosition.bowOut
                            /\ r.state = s.state /\ r.job = s.job
  <1> DEFINE r == changePosition(s, new)
  <1>0. Members \subseteq DOMAIN s /\ IsPosition(s.ourPosition)
    BY Zenon DEF Base
  <1>1. CASE s.ourPosition.bowOut
    <2>1. Keeps(s, r, {"ourSet"}) /\ r.ourSet = new
      BY <1>0, <1>1 DEF changePosition, Keeps, Members
    <2> HIDE DEF r
    <2>2. /\ r.storedProposals = s.storedProposals /\ r.ourPosition = s.ourPosition
          /\ r.acquired = s.acquired /\ r.disputes = s.disputes
          /\ r.peerPositions = s.peerPositions /\ r.compares = s.compares
          /\ Had(r) = Had(s) /\ Members \subseteq DOMAIN r /\ r.sent = s.sent
          /\ r.state = s.state /\ r.job = s.job
      BY <2>1 DEF Keeps, Members, Had
    <2>3. Sound(r)
      BY <1>1, <2>1, <2>2, Zenon DEF Sound, Base, Stored, Votes, Covered, OurVotes, OwnSet, Shared
    <2>4. Keeps(s, r, TickMembers)
      BY <2>1, Zenon DEF Keeps, TickMembers
    <2> QED BY <2>2, <2>3, <2>4, Zenon DEF Proposed, r
  <1>2. CASE ~s.ourPosition.bowOut
    <2> DEFINE x == [s.ourPosition EXCEPT !.set = new]
               a == [s EXCEPT !.ourSet = new, !.ourPosition.set = new]
               b == proposeIfProposing(a)
               m == mapCompleteInternal(b, new, FALSE)
    <2>1. r = m
      BY <1>2 DEF changePosition
    <2>2. /\ IsPosition(x) /\ x.taken /\ ~x.bowOut /\ x.set = new
          /\ x.bowOut = s.ourPosition.bowOut
      BY <1>0, <1>2 DEF IsPosition
    <2>3. Keeps(s, a, {"ourSet", "ourPosition"}) /\ a.ourSet = new /\ a.ourPosition = x
      BY <1>0, Zenon DEF Keeps, Members
    <2> HIDE DEF a, b, m, r, x
    <2>4. /\ a.storedProposals = s.storedProposals
          /\ a.acquired = s.acquired /\ a.disputes = s.disputes
          /\ a.peerPositions = s.peerPositions /\ a.compares = s.compares
          /\ Had(a) = Had(s) /\ Members \subseteq DOMAIN a /\ a.sent = s.sent
      BY <2>3 DEF Keeps, Members, Had
    <2>5. Covered(a)
      BY <1>2, <2>2, <2>3, <2>4, Zenon DEF Base, Covered
    <2>6. Base(a) /\ OurVotes(a)
      BY <2>2, <2>3, <2>4, <2>5, ZenonT(40) DEF Base, Stored, Votes, OurVotes
    <2>7. /\ Keeps(a, b, {"sent"}) /\ Base(b) /\ OurVotes(b)
          /\ a.proposing \/ b.sent = a.sent
      BY <2>6, ProposeIfProposing, Zenon DEF b
    <2>8. /\ Keeps(b, m, {"disputes", "compares", "inbound", "acquired"}) /\ Base(m)
          /\ b.acquired \cup {new} = m.acquired /\ OurVotes(m)
      BY <2>7, MapComplete, Zenon DEF m
    <2>9. /\ m.ourPosition = x /\ m.ourSet = new /\ a.proposing = s.proposing
          /\ m.sent = b.sent /\ Had(b) = Had(s)
          /\ m.state = s.state /\ m.job = s.job
      BY <2>3, <2>4, <2>7, <2>8, ZenonT(40) DEF Keeps, Members, Had
    <2>10. Sound(m)
      BY <2>2, <2>8, <2>9, Zenon DEF Sound, OwnSet, Shared
    <2>11. Keeps(s, m, TickMembers)
      BY <2>3, <2>7, <2>8, Zenon DEF Keeps, TickMembers
    <2>12. (s.proposing \/ m.sent = s.sent)
      BY <2>4, <2>7, <2>8, <2>9, Zenon
    <2>13. Proposed(s, m)
      BY <2>2, <2>9, <2>10, <2>11, <2>12, Zenon DEF Proposed
    <2> QED BY <1>2, <2>1, <2>2, <2>9, <2>13, Zenon DEF r
  <1> QED
    BY <1>1, <1>2, Zenon

(* followVotes restores what updateVotes disturbed. *)
LEMMA FollowVotes ==
  ASSUME NEW a, NEW b, Sound(a), a.ourPosition.taken, Base(b), Keeps(a, b, {"disputes"}),
         DOMAIN b.disputes = DOMAIN a.disputes, NEW v
  PROVE  LET r == followVotes(a, b, v)
         IN  Proposed(b, r) /\ r.ourPosition.bowOut = b.ourPosition.bowOut
                            /\ r.state = b.state /\ r.job = b.job
  <1> DEFINE r == followVotes(a, b, v)
             new == changedSet(a, b)
  <1>1. b.ourPosition = a.ourPosition /\ b.ourSet = a.ourSet /\ b.acquired = a.acquired
    BY DEF Keeps, Members
  <1>2. Base(a) /\ OurVotes(a) /\ b.ourPosition.taken
    BY <1>1 DEF Sound
  <1>3. CASE Flipped(a, b) = {} /\ ~v.refresh
    <2>1. r = b
      BY <1>3, Zenon DEF followVotes
    <2>2. \A t \in DOMAIN b.disputes : b.disputes[t].ourVote = a.disputes[t].ourVote
      BY <1>3, Zenon DEF Flipped
    <2>3. OurVotes(b)
      BY <1>1, <1>2, <2>2 DEF OurVotes
    <2>4. Sound(b)
      BY <1>1, <2>3, Zenon DEF Sound, OwnSet, Shared
    <2>5. Keeps(b, b, TickMembers)
      BY Zenon DEF Keeps, Base
    <2> QED BY <1>2, <2>1, <2>4, <2>5, Zenon DEF Proposed
  <1>4. CASE ~(Flipped(a, b) = {} /\ ~v.refresh)
    <2>1. r = changePosition(b, new)
      BY <1>4, Zenon DEF followVotes
    <2>2. /\ \A t \in DOMAIN b.disputes : b.disputes[t].ourVote = (t \in new)
          /\ \A h : SymmetricDifference(b.ourSet, h) \subseteq DOMAIN b.disputes
                       => SymmetricDifference(new, h) \subseteq DOMAIN b.disputes
      BY <1>1, <1>2, ChangedSet, Zenon
    <2> HIDE DEF new, r
    <2> QED BY <1>2, <2>1, <2>2, ChangePosition DEF r
  <1> QED
    BY <1>3, <1>4, Zenon

(* What follows from what, between the phases of a tick. *)
Established(s, r) ==
    Proposed(s, r) /\ r.ourPosition.bowOut = s.ourPosition.bowOut
                   /\ r.state = s.state /\ r.job = s.job

(* updateOurPositions keeps the set, the votes and the position together. *)
LEMMA UpdateOurPositions ==
  ASSUME NEW s, Sound(s), s.ourPosition.taken, NEW v
  PROVE  Established(s, updateOurPositions(s, v))
  <1> DEFINE S == v.stale \cap DOMAIN s.peerPositions
             a == dropStale(s, S)
             b == closeTimeVote(updateVotes(a), v)
             r == followVotes(a, b, v)
  <1>1. updateOurPositions(s, v) = r
    BY DEF updateOurPositions
  <1> HIDE DEF S
  <1>2. Heard(s, a)
    BY DropStale DEF Sound
  <1> HIDE DEF a
  <1>3. /\ a.ourPosition = s.ourPosition /\ a.ourSet = s.ourSet /\ Had(a) = Had(s)
        /\ a.proposing = s.proposing /\ a.sent = s.sent
        /\ a.state = s.state /\ a.job = s.job
        /\ s.acquired \subseteq a.acquired /\ Base(a) /\ OurVotes(a)
    BY <1>2 DEF Heard, Keeps, Members, Had
  <1>4. Sound(a)
    BY <1>3 DEF Sound, OwnSet, Shared
  <1>5. /\ Keeps(a, b, {"disputes"}) /\ DOMAIN b.disputes = DOMAIN a.disputes
        /\ Base(b)
    BY <1>3, UpdateVotes, Zenon
  <1> HIDE DEF b
  <1>6. a.ourPosition.taken
    BY <1>3
  <1>7. /\ Proposed(b, r) /\ r.ourPosition.bowOut = b.ourPosition.bowOut
        /\ r.state = b.state /\ r.job = b.job
    BY <1>4, <1>5, <1>6, FollowVotes
  <1> HIDE DEF r
  <1>8. /\ b.ourPosition = s.ourPosition /\ Had(b) = Had(s) /\ b.sent = s.sent
        /\ b.proposing = s.proposing /\ b.state = s.state /\ b.job = s.job
    BY <1>3, <1>5 DEF Keeps, Members, Had
  <1>9. Keeps(s, r, TickMembers)
    BY <1>2, <1>5, <1>7 DEF Heard, Proposed, Keeps, TickMembers
  <1>10. Proposed(s, r)
    BY <1>7, <1>8, <1>9, Zenon DEF Proposed
  <1> QED
    BY <1>1, <1>7, <1>8, <1>10 DEF Established

(* compareRest: the positions that are left are compared. *)
LEMMA CompareRest ==
  ASSUME NEW s, Sound(s), s.ourPosition.taken
  PROVE  Established(s, compareRest(s))
  <1> DEFINE others == {h \in peerSets(s) \ s.compares :
                          /\ h # s.ourPosition.set
                          /\ {h, s.ourPosition.set} \subseteq s.acquired}
             r == compareRest(s)
  <1>1. r = compareWith(s, s.ourPosition.set, others)
    BY DEF compareRest
  <1> HIDE DEF others, r
  <1>2. ~s.ourPosition.bowOut => s.ourPosition.set = s.ourSet
    BY DEF Sound, OwnSet
  <1>3. Base(s) /\ OurVotes(s)
    BY DEF Sound
  <1>4. Keeps(s, r, {"disputes", "compares"}) /\ Base(r) /\ OurVotes(r)
    BY <1>1, <1>2, <1>3, CompareOurs
  <1>5. /\ r.ourPosition = s.ourPosition /\ r.ourSet = s.ourSet /\ Had(r) = Had(s)
        /\ r.acquired = s.acquired /\ r.sent = s.sent
        /\ r.state = s.state /\ r.job = s.job
    BY <1>4 DEF Keeps, Members, Had
  <1>6. Sound(r)
    BY <1>4, <1>5 DEF Sound, OwnSet, Shared
  <1>7. Keeps(s, r, TickMembers)
    BY <1>4 DEF Keeps, TickMembers
  <1> QED
    BY <1>5, <1>6, <1>7, Zenon DEF Established, Proposed, r

(* A round that goes on, or has just queued its accept job. *)
Going(s) ==
    \/ s.state \in {"open", "establish"} /\ s.job.at = "none"
    \/ s.state = "processing" /\ s.job.at = "build"

(* What a tick of a round that is open or establishing does. *)
Ticked(s, r) ==
    /\ Good(r) /\ Going(r) /\ Keeps(s, r, TickMembers)

(* A position that is kept or changed leaves the engine establishing. *)
LEMMA EstablishedGood ==
  ASSUME NEW s, NEW r, Good(s), s.state = "establish", Established(s, r)
  PROVE  Good(r)
  <1>1. /\ r.mMode = s.mMode /\ r.prevLedgerHash = s.prevLedgerHash
        /\ r.previousLedger = s.previousLedger
        /\ r.haveCorrectLCL = s.haveCorrectLCL /\ r.proposing = s.proposing
    BY DEF Established, Proposed, Keeps, Members, TickMembers
  <1>2. /\ r.state = s.state /\ r.job = s.job /\ r.ourPosition.taken /\ Sound(r)
        /\ r.ourPosition.bowOut = s.ourPosition.bowOut
        /\ s.proposing \/ r.sent = s.sent
    BY DEF Established, Proposed
  <1>3. Sync(r)
    BY <1>1, <1>2, Zenon DEF Good, Sync, InSync
  <1>4. Phase(r)
    BY <1>1, <1>2, Zenon DEF Good, Phase
  <1> QED
    BY <1>2, <1>3, <1>4 DEF Good

(* haveConsensus queues the accept job with our set, or does nothing to    *)
(* the phase.                                                              *)
LEMMA EndEstablish ==
  ASSUME NEW s, Good(s), s.state = "establish", NEW result
  PROVE  Ticked(s, endEstablish(s, result))
  <1> DEFINE r == endEstablish(s, result)
             j == [NoJob EXCEPT !.at = "build", !.set = s.ourSet]
             e == [s EXCEPT !.consensusFail = (result = "MovedOn")]
  <1>1. Keeps(s, e, {})
    BY DEF Keeps, Members, Good, Sound, Base
  <1>2. r = s \/ r = e \/ r = beginAccept(e)
    BY DEF endEstablish
  <1> HIDE DEF e
  <1>3. /\ Keeps(e, beginAccept(e), {"state", "job"})
        /\ beginAccept(e).state = "processing"
        /\ beginAccept(e).job = [NoJob EXCEPT !.at = "build", !.set = e.ourSet]
    BY <1>1, Zenon DEF beginAccept, Keeps, Members
  <1>4. e.ourSet = s.ourSet /\ e.state = s.state /\ e.job = s.job
    BY <1>1 DEF Keeps, Members
  <1>5. Keeps(s, s, {})
    BY Zenon DEF Keeps, Good, Sound, Base
  <1>6. /\ Keeps(s, r, {"state", "job"})
        /\ \/ r.state = s.state /\ r.job = s.job
           \/ r.state = "processing" /\ r.job = j
    BY <1>1, <1>2, <1>3, <1>4, <1>5, Zenon DEF Keeps
  <1> HIDE DEF r, j
  <1>7. /\ r.mMode = s.mMode /\ r.prevLedgerHash = s.prevLedgerHash
        /\ r.previousLedger = s.previousLedger
        /\ r.haveCorrectLCL = s.haveCorrectLCL /\ r.proposing = s.proposing
        /\ r.sent = s.sent /\ r.ourSet = s.ourSet /\ r.ourPosition = s.ourPosition
        /\ r.storedProposals = s.storedProposals /\ r.acquired = s.acquired
        /\ r.disputes = s.disputes /\ r.peerPositions = s.peerPositions
        /\ r.compares = s.compares /\ Had(r) = Had(s) /\ Members \subseteq DOMAIN r
    BY <1>6 DEF Keeps, Members, Had
  <1>8. Sound(r)
    BY <1>7, ZenonT(40) DEF Good, Sound, Base, Stored, Votes, Covered, OurVotes, OwnSet, Shared
  <1>9. Sync(r)
    BY <1>7, Zenon DEF Good, Sync, InSync
  <1>10. Phase(r) /\ Going(r)
    <2>1. j.at = "build" /\ j.set = s.ourSet /\ JobOK(j)
      BY DEF j, JobOK, NoJob
    <2> QED BY <1>6, <1>7, <2>1 DEF Good, Phase, Going
  <1>11. Keeps(s, r, TickMembers)
    BY <1>6 DEF Keeps, TickMembers
  <1> QED
    BY <1>7, <1>8, <1>9, <1>10, <1>11, Zenon DEF Good, Ticked, r

(* One tick after another. *)
LEMMA TickedTrans ==
  ASSUME NEW s, NEW r, NEW q, Keeps(s, r, TickMembers), Ticked(r, q)
  PROVE  Ticked(s, q)
  BY DEF Ticked, Keeps

(* stateEstablish. *)
LEMMA StateEstablish ==
  ASSUME NEW s, Good(s), s.state = "establish", NEW v
  PROVE  Ticked(s, stateEstablish(s, v))
  <1>1. CASE s.roundTime < LEDGER_MIN_CONSENSUS
    <2>1. stateEstablish(s, v) = s
      BY <1>1 DEF stateEstablish
    <2>2. Keeps(s, s, TickMembers)
      BY DEF Good, Sound, Base, Keeps
    <2>3. Going(s)
      BY DEF Good, Phase, Going
    <2> QED BY <2>1, <2>2, <2>3 DEF Ticked
  <1>2. CASE ~(s.roundTime < LEDGER_MIN_CONSENSUS)
    <2> DEFINE a == updateOurPositions(s, v)
               b == compareRest(a)
               r == endEstablish(b, consensusState(b, v))
    <2>1. stateEstablish(s, v) = r
      BY <1>2 DEF stateEstablish, haveConsensus
    <2>2. Sound(s) /\ s.ourPosition.taken
      BY DEF Good, Phase
    <2>3. Established(s, a)
      BY <2>2, UpdateOurPositions
    <2> HIDE DEF a
    <2>4. Sound(a) /\ a.ourPosition.taken
      BY <2>3 DEF Established, Proposed
    <2>5. Established(a, b)
      BY <2>4, CompareRest
    <2> HIDE DEF b
    <2>6. Good(a) /\ a.state = "establish"
      BY <2>3, EstablishedGood DEF Established
    <2>7. Good(b) /\ b.state = "establish"
      BY <2>5, <2>6, EstablishedGood DEF Established
    <2>8. Ticked(b, r)
      BY <2>7, EndEstablish
    <2> HIDE DEF r
    <2>9. Keeps(s, b, TickMembers)
      BY <2>3, <2>5 DEF Established, Proposed, Keeps
    <2> QED
      BY <2>1, <2>8, <2>9, TickedTrans
  <1> QED
    BY <1>1, <1>2

(* statePreClose leaves the round open or closes its ledger. *)
LEMMA StatePreClose ==
  ASSUME NEW s, Good(s), s.state = "open", NEW v
  PROVE  LET r == statePreClose(s, v)
         IN  /\ Good(r) /\ r.state \in {"open", "establish"}
             /\ Keeps(s, r, TickMembers)
  <1>1. statePreClose(s, v) = s \/ statePreClose(s, v) = closeLedger(s, v.open)
    BY Zenon DEF statePreClose
  <1>2. Keeps(s, s, TickMembers)
    BY DEF Good, Sound, Base, Keeps
  <1> QED
    BY <1>1, <1>2, CloseLedger

(* Tick: the phases of a round, and nothing while its ledger is being      *)
(* accepted.                                                               *)
LEMMA TickDoes ==
  ASSUME NEW s, Good(s), NEW v
  PROVE  LET r == Tick(s, v)
         IN  /\ Good(r)
             /\ s.state \in {"open", "establish"} => Ticked(s, r)
             /\ s.state \notin {"open", "establish"} => Keeps(s, r, {})
  <1> DEFINE a == [s EXCEPT !.roundTime = v.time, !.elapsed = v.time]
             b == IF a.state = "open" THEN statePreClose(a, v) ELSE a
             r == establish(b, v)
  <1>1. Tick(s, v) = r
    BY DEF Tick, phaseStep
  <1>2. Keeps(s, a, {})
    BY DEF Good, Sound, Base, Keeps, Members
  <1> HIDE DEF a
  <1>3. Good(a) /\ a.state = s.state /\ Had(a) = Had(s)
    <2>1. /\ a.state = s.state /\ a.job = s.job
          /\ a.mMode = s.mMode /\ a.prevLedgerHash = s.prevLedgerHash
          /\ a.previousLedger = s.previousLedger
          /\ a.haveCorrectLCL = s.haveCorrectLCL /\ a.proposing = s.proposing
          /\ a.sent = s.sent /\ a.ourSet = s.ourSet /\ a.ourPosition = s.ourPosition
          /\ a.storedProposals = s.storedProposals /\ a.acquired = s.acquired
          /\ a.disputes = s.disputes /\ a.peerPositions = s.peerPositions
          /\ a.compares = s.compares /\ Had(a) = Had(s) /\ Members \subseteq DOMAIN a
      BY <1>2 DEF Keeps, Members, Had
    <2>2. Sound(a)
      BY <2>1, ZenonT(40) DEF Good, Sound, Base, Stored, Votes, Covered, OurVotes, OwnSet, Shared
    <2>3. Sync(a) /\ Phase(a)
      BY <2>1, ZenonT(40) DEF Good, Sync, InSync, Phase
    <2> QED BY <2>1, <2>2, <2>3 DEF Good
  <1>4. CASE s.state \in {"open", "establish"}
    <2>1. /\ Good(b) /\ b.state \in {"open", "establish"}
          /\ Keeps(a, b, TickMembers)
      <3>1. CASE a.state = "open"
        BY <1>3, <3>1, StatePreClose, Zenon
      <3>2. CASE a.state # "open"
        <4>1. Keeps(a, a, TickMembers)
          BY <1>2 DEF Keeps
        <4> QED BY <1>3, <1>4, <3>2, <4>1
      <3> QED BY <3>1, <3>2, Zenon
    <2> HIDE DEF b
    <2>2. Ticked(b, r)
      <3>1. CASE b.state = "establish"
        BY <2>1, <3>1, StateEstablish DEF establish
      <3>2. CASE b.state # "establish"
        <4>1. r = b
          BY <3>2 DEF establish
        <4>2. Going(b)
          BY <2>1, <3>2, Zenon DEF Good, Phase, Going
        <4>3. Keeps(b, b, TickMembers)
          BY <2>1 DEF Keeps
        <4> QED BY <2>1, <4>1, <4>2, <4>3 DEF Ticked
      <3> QED BY <3>1, <3>2
    <2> HIDE DEF r
    <2>3. Keeps(s, b, TickMembers)
      BY <1>2, <1>3, <2>1 DEF Keeps
    <2>4. Ticked(s, r)
      BY <2>2, <2>3, TickedTrans
    <2> QED BY <1>1, <1>4, <2>4 DEF Ticked
  <1>5. CASE s.state \notin {"open", "establish"}
    <2>1. r = a
      BY <1>3, <1>5 DEF establish
    <2> QED BY <1>1, <1>2, <1>3, <1>5, <2>1
  <1> QED
    BY <1>4, <1>5

-----------------------------------------------------------------------------
(* Starting a round and changing the last closed ledger. *)

(* What a change of the view keeps: a round that goes on, the sets. *)
Moved(s, r) == Good(r) /\ Going(r) /\ r.mMode = s.mMode

(* newRound: nothing of the last round is left, and only a server that is  *)
(* in sync proposes in the new one.                                        *)
LEMMA NewRound ==
  ASSUME NEW s, Members \subseteq DOMAIN s, Stored(s), s.mMode \in Modes,
         JobOK(s.job),
         s.job.at = "none", NEW hash, NEW ledger, NEW proposers, NEW converge,
         ledger = hash \/ s.mMode # "full"
  PROVE  LET r == newRound(s, hash, ledger, proposers, converge)
         IN  /\ Moved(s, r) /\ r.state = "open" /\ r.prevLedgerHash = hash
             /\ r.previousLedger = ledger
             /\ r.haveCorrectLCL = (ledger = hash)
             /\ s.mMode # "full" => ~r.proposing
  <1> DEFINE r == newRound(s, hash, ledger, proposers, converge)
  <1>1. /\ Members \subseteq DOMAIN r /\ r.mMode = s.mMode /\ r.job = s.job
        /\ r.storedProposals = s.storedProposals
    BY ZenonT(30) DEF newRound, Members
  <1>2. /\ r.state = "open" /\ r.prevLedgerHash = hash /\ r.previousLedger = ledger
        /\ r.haveCorrectLCL = (ledger = hash)
    BY DEF newRound, Members
  <1>3. /\ r.ourPosition = NoPosition /\ r.ourSet = {} /\ r.sent = "silent"
        /\ r.acquired = {} /\ r.compares = {}
    BY DEF newRound, Members
  <1>4. r.disputes = <<>> /\ r.peerPositions = <<>>
    BY DEF newRound, Members
  <1>5. r.proposing = (Validator /\ s.mMode = "full")
    BY DEF newRound, Members
  <1> HIDE DEF r
  <1>6. DOMAIN r.disputes = {} /\ IsFiniteSet(DOMAIN r.peerPositions)
    BY <1>4, FS_EmptySet
  <1>7. IsPosition(r.ourPosition) /\ ~r.ourPosition.taken /\ ~r.ourPosition.bowOut
    BY <1>3 DEF NoPosition, IsPosition
  <1>8. Sound(r)
    BY <1>1, <1>3, <1>6, <1>7, ZenonT(40)
       DEF Sound, Base, Stored, Votes, Covered, OurVotes, OwnSet, Shared
  <1>9. r.proposing \in BOOLEAN /\ (r.proposing => s.mMode = "full")
    BY <1>5, RoundAssumption, Zenon
  <1>10. Sync(r)
    BY <1>1, <1>2, <1>3, <1>7, <1>9, Zenon DEF Sync, InSync
  <1>11. Phase(r) /\ Going(r)
    BY <1>1, <1>2, <1>7, Zenon DEF Phase, Going
  <1> QED
    BY <1>1, <1>2, <1>8, <1>9, <1>10, <1>11, Zenon DEF Moved, Good, r

(* The parts of a good engine a new round needs. *)
LEMMA GoodParts ==
  ASSUME NEW s, Good(s)
  PROVE  /\ Members \subseteq DOMAIN s /\ Stored(s) /\ s.mMode \in Modes
         /\ JobOK(s.job)
         /\ s.state \in {"open", "establish"} => s.job.at = "none" /\ Going(s)
         /\ Base(s) /\ OurVotes(s) /\ Keeps(s, s, {})
  BY Zenon DEF Good, Sound, Base, Phase, Going, Keeps

(* Playing proposals back in a round that goes on. *)
LEMMA PlaybackMoved ==
  ASSUME NEW s, Good(s)
  PROVE  LET r == playbackProposals(s)
         IN  /\ Good(r) /\ Heard(s, r) /\ r.state = s.state /\ Had(r) = Had(s)
             /\ r.mMode = s.mMode /\ r.proposing = s.proposing /\ r.job = s.job
             /\ r.prevLedgerHash = s.prevLedgerHash
             /\ r.previousLedger = s.previousLedger
  <1> DEFINE r == playbackProposals(s)
  <1>1. Heard(s, r)
    BY GoodParts, Playback, Zenon
  <1> HIDE DEF r
  <1>2. Good(r)
    BY <1>1, HeardGood
  <1> QED
    BY <1>1, <1>2, Zenon DEF Heard, Keeps, Members, r

(* startCorrect: a round on the ledger the network closed, in which only a *)
(* full server proposes.                                                   *)
LEMMA StartCorrect ==
  ASSUME NEW s, Good(s), s.state \in {"open", "establish"}, NEW ledger, NEW proposers,
         NEW converge, NEW v
  PROVE  LET r == startCorrect(s, ledger, proposers, converge, v)
         IN  Moved(s, r) /\ (s.mMode # "full" => ~r.proposing)
  <1> DEFINE n == newRound(s, ledger, ledger, proposers, converge)
             p == playbackProposals(n)
             r == tickIfBehind(p, v)
  <1>1. startCorrect(s, ledger, proposers, converge, v) = r
    BY DEF startCorrect
  <1>2. Moved(s, n) /\ n.state = "open" /\ (s.mMode # "full" => ~n.proposing)
    <2>1. /\ Members \subseteq DOMAIN s /\ Stored(s) /\ s.mMode \in Modes
          /\ JobOK(s.job)
          /\ s.job.at = "none"
      BY GoodParts, Zenon
    <2> QED BY <2>1, NewRound
  <1> HIDE DEF n
  <1>3. /\ Good(p) /\ p.state = n.state /\ Had(p) = Had(n) /\ p.mMode = n.mMode
        /\ p.proposing = n.proposing
    BY <1>2, PlaybackMoved, Zenon DEF Moved
  <1> HIDE DEF p
  <1>4. Good(p) /\ p.state = "open" /\ Going(p)
    BY <1>2, <1>3, GoodParts, Zenon
  <1>5. Ticked(p, r)
    <2>1. CASE fallingBehind(p)
      BY <1>4, <2>1, TickDoes DEF tickIfBehind
    <2>2. CASE ~fallingBehind(p)
      <3>1. r = p
        BY <2>2 DEF tickIfBehind
      <3>2. Keeps(p, p, TickMembers)
        BY <1>4, GoodParts DEF Keeps
      <3> QED BY <1>4, <3>1, <3>2 DEF Ticked
    <2> QED BY <2>1, <2>2
  <1> HIDE DEF r
  <1>6. r.mMode = p.mMode /\ r.proposing = p.proposing
    BY <1>5 DEF Ticked, Keeps, Members, TickMembers
  <1>7. Moved(s, r)
    BY <1>2, <1>3, <1>5, <1>6 DEF Moved, Ticked
  <1> QED
    BY <1>1, <1>2, <1>3, <1>6, <1>7, Zenon

(* switchView: a position that is out is revoked, what peers said of the   *)
(* other ledger forgotten.                                                 *)
LEMMA SwitchView ==
  ASSUME NEW s, Good(s), s.state \in {"open", "establish"}, s.mMode # "full", NEW hash
  PROVE  LET r == switchView(s, hash)
         IN  Moved(s, r) /\ ~r.proposing /\ r.state = s.state /\ r.prevLedgerHash = hash
  <1> DEFINE a == revoke(s)
             b == [a EXCEPT
                    !.prevLedgerHash = hash, !.proposing = FALSE,
                    !.peerPositions = <<>>, !.disputes = <<>>, !.compares = {},
                    !.deadNodes = {}, !.expired = {}]
  <1>1. switchView(s, hash) = playbackProposals(b)
    BY DEF switchView
  <1>2. Members \subseteq DOMAIN s /\ IsPosition(s.ourPosition)
    BY Zenon DEF Good, Sound, Base
  <1> DEFINE x == [s.ourPosition EXCEPT !.bowOut = TRUE]
             e == [s EXCEPT !.ourPosition.bowOut = TRUE]
  <1>3. /\ Keeps(s, a, {"ourPosition", "sent", "proposing"}) /\ a.sent # "position"
        /\ a.ourPosition = s.ourPosition \/ a.ourPosition = x
    <2>1. CASE s.haveCorrectLCL /\ s.proposing /\ s.ourPosition.taken
      <3>1. ~s.ourPosition.bowOut
        BY <2>1 DEF Good, Sync
      <3>2. a = [propose(e) EXCEPT !.proposing = FALSE]
        BY <2>1, <3>1 DEF revoke, leaveConsensus
      <3>3. Keeps(s, e, {"ourPosition"}) /\ e.ourPosition = x
        BY <1>2 DEF Keeps, Members
      <3>4. x.bowOut
        BY <1>2 DEF IsPosition
      <3> HIDE DEF e, x
      <3>5. Keeps(e, propose(e), {"sent"}) /\ propose(e).sent = "bowOut"
        BY <3>3, <3>4 DEF Keeps, Members, propose
      <3> DEFINE f == propose(e)
      <3> HIDE DEF f, a
      <3>6. Keeps(f, a, {"proposing"})
        BY <3>2, <3>5 DEF Keeps, Members, f
      <3>7. a.sent = "bowOut" /\ a.ourPosition = x
        BY <3>3, <3>5, <3>6 DEF Keeps, Members, f
      <3> QED BY <3>3, <3>5, <3>6, <3>7 DEF Keeps, f
    <2>2. CASE ~(s.haveCorrectLCL /\ s.proposing /\ s.ourPosition.taken)
      <3>1. a = s
        BY <2>2 DEF revoke
      <3>2. s.sent # "position"
        BY <2>2 DEF Good, Sync, InSync
      <3> QED BY <1>2, <3>1, <3>2 DEF Keeps
    <2> QED BY <2>1, <2>2
  <1>4. IsPosition(a.ourPosition) /\ a.ourPosition.taken = s.ourPosition.taken
    BY <1>2, <1>3, Zenon DEF IsPosition
  <1>5. (~a.ourPosition.bowOut) => a.ourPosition = s.ourPosition
    BY <1>2, <1>3 DEF IsPosition
  <1> HIDE DEF a
  <1>6. /\ Keeps(a, b, {"prevLedgerHash", "proposing", "peerPositions", "disputes", "compares"})
        /\ b.prevLedgerHash = hash /\ b.proposing = FALSE /\ b.peerPositions = <<>>
        /\ b.disputes = <<>> /\ b.compares = {}
    BY <1>3, Zenon DEF Keeps, Members
  <1> HIDE DEF b
  <1>7. /\ b.state = s.state /\ b.mMode = s.mMode /\ b.job = s.job
        /\ b.ourSet = s.ourSet /\ b.acquired = s.acquired /\ Had(b) = Had(s)
        /\ b.storedProposals = s.storedProposals
        /\ b.ourPosition = a.ourPosition /\ b.sent = a.sent
        /\ Members \subseteq DOMAIN b
    BY <1>3, <1>6 DEF Keeps, Members, Had
  <1>8. DOMAIN b.disputes = {} /\ IsFiniteSet(DOMAIN b.peerPositions)
    BY <1>6, FS_EmptySet
  <1>9. Base(b) /\ OurVotes(b)
    BY <1>4, <1>6, <1>7, <1>8, Zenon DEF Good, Sound, Base, Stored, Votes, Covered, OurVotes
  <1>10. OwnSet(b) /\ Shared(b)
    BY <1>5, <1>7 DEF Good, Sound, OwnSet, Shared
  <1>11. Sync(b)
    BY <1>3, <1>6, <1>7, Zenon DEF Sync
  <1>12. Phase(b)
    BY <1>4, <1>7, Zenon DEF Good, Phase
  <1>13. Good(b)
    BY <1>9, <1>10, <1>11, <1>12 DEF Good, Sound
  <1> DEFINE r == playbackProposals(b)
  <1>14. /\ Good(r) /\ r.state = b.state /\ Had(r) = Had(b) /\ r.mMode = b.mMode
         /\ r.proposing = b.proposing /\ r.prevLedgerHash = b.prevLedgerHash
    BY <1>13, PlaybackMoved
  <1> HIDE DEF r
  <1>15. Going(r)
    BY <1>7, <1>14, GoodParts
  <1> QED
    BY <1>1, <1>6, <1>7, <1>14, <1>15, Zenon DEF Moved, r

(* startOn: the round goes on, waits for its ledger or starts again.       *)
LEMMA StartOn ==
  ASSUME NEW s, Good(s), s.state \in {"open", "establish"}, NEW hash, NEW v,
         s.prevLedgerHash = hash
  PROVE  Moved(s, startOn(s, hash, v))
  <1> DEFINE r == startOn(s, hash, v)
             c == startCorrect(s, hash, s.previousProposers, s.previousRoundTime, v)
  <1>1. CASE s.previousLedger = hash
    <2>1. r = s
      BY <1>1 DEF startOn
    <2> QED BY <2>1, GoodParts, Zenon DEF Moved
  <1>2. CASE s.previousLedger # hash
    <2>1. s.mMode # "full" /\ ~s.proposing /\ s.sent # "position"
      BY <1>2 DEF Good, Sync, InSync
    <2>2. r = s \/ r = [s EXCEPT !.acquiringLedger = s.prevLedgerHash,
                                 !.haveCorrectLCL = FALSE]
                \/ r = [c EXCEPT !.proposing = FALSE]
      BY <1>2 DEF startOn, needLedger
    <2>3. CASE r = s
      BY <2>3, GoodParts, Zenon DEF Moved
    <2>4. CASE r = [s EXCEPT !.acquiringLedger = s.prevLedgerHash,
                             !.haveCorrectLCL = FALSE]
      <3>1. Keeps(s, r, {"haveCorrectLCL"})
        BY <2>4, GoodParts, ZenonT(30) DEF Keeps, Members
      <3> HIDE DEF r
      <3>2. /\ r.state = s.state /\ r.job = s.job
            /\ r.mMode = s.mMode /\ r.proposing = s.proposing
            /\ r.sent = s.sent /\ r.ourSet = s.ourSet /\ r.ourPosition = s.ourPosition
            /\ r.storedProposals = s.storedProposals /\ r.acquired = s.acquired
            /\ r.disputes = s.disputes /\ r.peerPositions = s.peerPositions
            /\ r.compares = s.compares /\ Had(r) = Had(s) /\ Members \subseteq DOMAIN r
        BY <3>1, Zenon DEF Keeps, Members, Had
      <3>3. Sound(r)
        BY <3>2, ZenonT(40) DEF Good, Sound, Base, Stored, Votes, Covered, OurVotes, OwnSet, Shared
      <3>4. Sync(r) /\ Phase(r)
        BY <2>1, <3>2, Zenon DEF Good, Sync, InSync, Phase
      <3>5. Going(r)
        BY <3>2, GoodParts DEF Going
      <3> QED BY <3>2, <3>3, <3>4, <3>5, Zenon DEF Moved, Good, r
    <2>5. CASE r = [c EXCEPT !.proposing = FALSE]
      <3>1. Moved(s, c) /\ ~c.proposing
        BY <2>1, StartCorrect
      <3> HIDE DEF c
      <3>2. Keeps(c, r, {"proposing"}) /\ r.proposing = FALSE
        BY <2>5, <3>1, GoodParts DEF Keeps, Members, Moved
      <3> HIDE DEF r
      <3>3. /\ r.state = c.state /\ r.job = c.job
            /\ r.mMode = c.mMode /\ r.prevLedgerHash = c.prevLedgerHash
            /\ r.previousLedger = c.previousLedger
            /\ r.haveCorrectLCL = c.haveCorrectLCL
            /\ r.sent = c.sent /\ r.ourSet = c.ourSet /\ r.ourPosition = c.ourPosition
            /\ r.storedProposals = c.storedProposals /\ r.acquired = c.acquired
            /\ r.disputes = c.disputes /\ r.peerPositions = c.peerPositions
            /\ r.compares = c.compares /\ Had(r) = Had(c) /\ Members \subseteq DOMAIN r
        BY <3>2, Zenon DEF Keeps, Members, Had
      <3>4. Good(c)
        BY <3>1 DEF Moved
      <3>5. Sound(r)
        BY <3>3, <3>4, ZenonT(40) DEF Good, Sound, Base, Stored, Votes, Covered, OurVotes, OwnSet, Shared
      <3>6. Sync(r) /\ Phase(r)
        BY <3>1, <3>2, <3>3, <3>4, ZenonT(30) DEF Good, Sync, InSync, Phase
      <3> QED BY <3>1, <3>3, <3>5, <3>6, Zenon DEF Moved, Good, Going, r
    <2> QED BY <2>2, <2>3, <2>4, <2>5
  <1> QED
    BY <1>1, <1>2

(* handleLCL, once a server that leaves its ledger is no longer full. *)
LEMMA HandleLCL ==
  ASSUME NEW s, Good(s), s.state \in {"open", "establish"}, NEW hash, NEW v,
         s.prevLedgerHash = hash \/ s.mMode # "full"
  PROVE  Moved(s, handleLCL(s, hash, v))
  <1> DEFINE a == IF s.prevLedgerHash = hash THEN s ELSE switchView(s, hash)
             r == startOn(a, hash, v)
  <1>1. handleLCL(s, hash, v) = r
    BY DEF handleLCL
  <1>2. Moved(s, a) /\ a.state \in {"open", "establish"} /\ a.prevLedgerHash = hash
    <2>1. CASE s.prevLedgerHash = hash
      BY <2>1, GoodParts, Zenon DEF Moved
    <2>2. CASE s.prevLedgerHash # hash
      BY <2>2, SwitchView
    <2> QED BY <2>1, <2>2
  <1> HIDE DEF a
  <1>3. Moved(a, r)
    BY <1>2, StartOn, Zenon DEF Moved
  <1> HIDE DEF r
  <1> QED
    BY <1>1, <1>2, <1>3, Zenon DEF Moved

(* A mode below full asks for nothing. *)
LEMMA LowerMode ==
  ASSUME NEW s, NEW r, Good(s), Keeps(s, r, {"mMode"}), r.mMode \in Modes,
         r.mMode = "full" => s.mMode = "full"
  PROVE  Good(r) /\ (Going(s) => Going(r))
  <1>1. /\ r.state = s.state /\ r.job = s.job /\ r.prevLedgerHash = s.prevLedgerHash
        /\ r.previousLedger = s.previousLedger
        /\ r.haveCorrectLCL = s.haveCorrectLCL /\ r.proposing = s.proposing
        /\ r.sent = s.sent /\ r.ourSet = s.ourSet /\ r.ourPosition = s.ourPosition
        /\ r.storedProposals = s.storedProposals /\ r.acquired = s.acquired
        /\ r.disputes = s.disputes /\ r.peerPositions = s.peerPositions
        /\ r.compares = s.compares /\ Had(r) = Had(s) /\ Members \subseteq DOMAIN r
    BY DEF Keeps, Members, Had
  <1>2. Sound(r)
    BY <1>1, ZenonT(40) DEF Good, Sound, Base, Stored, Votes, Covered, OurVotes, OwnSet, Shared
  <1>3. Sync(r) /\ Phase(r)
    BY <1>1, ZenonT(40) DEF Good, Sync, InSync, Phase
  <1> QED
    BY <1>1, <1>2, <1>3, Zenon DEF Good, Going

(* consensusViewChange: a server that has left the network's ledger is     *)
(* neither full nor tracking.                                              *)
LEMMA ViewChange ==
  ASSUME NEW s, Members \subseteq DOMAIN s, s.mMode \in Modes
  PROVE  LET r == consensusViewChange(s)
         IN  /\ Keeps(s, r, {"mMode"}) /\ r.mMode \in {s.mMode, "connected"}
             /\ r.mMode # "full" /\ r.mMode \in Modes
             /\ s.mMode = "disconnected" => r = s
  BY DEF consensusViewChange, Keeps, Members, Modes

(* What the timer and a new round may do with the mode. *)
Timed(s, r) ==
    /\ Good(r) /\ Going(r) /\ r.mMode \in {s.mMode, "connected"}
    /\ s.mMode = "disconnected" => r.mMode = s.mMode

(* checkLCL. *)
LEMMA CheckLCL ==
  ASSUME NEW s, Good(s), s.state \in {"open", "establish"}, NEW v
  PROVE  Timed(s, checkLCL(s, v))
  <1> DEFINE net == preferred(s, v)
             a == IF net # s.prevLedgerHash /\ s.haveCorrectLCL
                  THEN consensusViewChange(s) ELSE s
             r == checkLCL(s, v)
  <1>1. CASE net = s.prevLedgerHash /\ s.previousLedger = net
    <2>1. r = s
      BY <1>1 DEF checkLCL
    <2> QED BY <2>1, GoodParts, Zenon DEF Timed
  <1>2. CASE ~(net = s.prevLedgerHash /\ s.previousLedger = net)
    <2>1. r = handleLCL(a, net, v)
      BY <1>2 DEF checkLCL
    <2> HIDE DEF net
    <2>2. /\ Keeps(s, a, {"mMode"}) /\ a.mMode \in {s.mMode, "connected"}
          /\ a.mMode \in Modes /\ (a.mMode = "full" => s.mMode = "full")
          /\ net = s.prevLedgerHash \/ a.mMode # "full"
          /\ s.mMode = "disconnected" => a.mMode = s.mMode
      <3>1. CASE net # s.prevLedgerHash /\ s.haveCorrectLCL
        BY <3>1, GoodParts, ViewChange, Zenon
      <3>2. CASE ~(net # s.prevLedgerHash /\ s.haveCorrectLCL)
        <4>1. a = s
          BY <3>2
        <4>2. net = s.prevLedgerHash \/ s.mMode # "full"
          BY <3>2 DEF Good, Sync, InSync
        <4>3. Members \subseteq DOMAIN s /\ s.mMode \in Modes
          BY GoodParts
        <4>4. Keeps(s, s, {"mMode"})
          BY <4>3, Zenon DEF Keeps
        <4> HIDE DEF a
        <4> QED BY <4>1, <4>2, <4>3, <4>4
      <3> QED BY <3>1, <3>2, Zenon
    <2> HIDE DEF a
    <2>3. a.state = s.state /\ a.prevLedgerHash = s.prevLedgerHash /\ Had(a) = Had(s)
      BY <2>2 DEF Keeps, Members, Had
    <2>4. Good(a)
      BY <2>2, LowerMode
    <2>5. Moved(a, r)
      BY <2>1, <2>2, <2>3, <2>4, HandleLCL
    <2> HIDE DEF r
    <2> QED BY <2>2, <2>3, <2>5, Zenon DEF Moved, Timed, r
  <1> QED
    BY <1>1, <1>2, Zenon

(* timerEntry leaves the accept job alone. *)
LEMMA TimerEntry ==
  ASSUME NEW s, Good(s), NEW v
  PROVE  LET r == timerEntry(s, v)
         IN  /\ Good(r)
             /\ s.state \in {"open", "establish"} => Timed(s, r)
             /\ s.state \notin {"open", "establish"} => Keeps(s, r, {})
  <1> DEFINE r == timerEntry(s, v)
  <1>1. CASE s.state \in {"open", "establish"}
    <2> DEFINE a == checkLCL(s, v)
    <2>1. r = Tick(a, v)
      BY <1>1 DEF timerEntry
    <2>2. Timed(s, a)
      BY <1>1, CheckLCL
    <2> HIDE DEF a
    <2>3. Good(a) /\ Going(a)
      BY <2>2 DEF Timed
    <2>4. /\ Good(r)
          /\ a.state \in {"open", "establish"} => Ticked(a, r)
          /\ a.state \notin {"open", "establish"} => Keeps(a, r, {})
      BY <2>1, <2>3, TickDoes
    <2> HIDE DEF r
    <2>5. Going(r) /\ r.mMode = a.mMode
      BY <2>3, <2>4 DEF Ticked, Keeps, Members, TickMembers, Going
    <2>6. Timed(s, r)
      BY <2>2, <2>4, <2>5, Zenon DEF Timed
    <2> QED BY <1>1, <2>4, <2>6 DEF r
  <1>2. CASE s.state \notin {"open", "establish"}
    <2>1. s.state \in {"processing", "accepted"}
      BY <1>2, Zenon DEF Good, Phase
    <2>2. r = Tick(s, v)
      BY <2>1 DEF timerEntry
    <2> QED BY <1>2, <2>2, TickDoes
  <1> QED
    BY <1>1, <1>2

(* startRound: whatever is left of the last round, the new one is good. *)
LEMMA StartRound ==
  ASSUME NEW s, Members \subseteq DOMAIN s, Stored(s), s.mMode \in Modes,
         JobOK(s.job),
         s.job.at = "none", s.state # "processing",
         NEW hash, NEW ledger, NEW proposers, NEW converge, NEW v,
         ledger = hash \/ s.mMode # "full"
  PROVE  Timed(s, startRound(s, hash, ledger, proposers, converge, v))
  <1> DEFINE n == newRound(s, hash, ledger, proposers, converge)
             h == placeRound(n, hash, v)
             p == playbackProposals(h)
             r == timerIfBehind(p, v)
  <1>1. startRound(s, hash, ledger, proposers, converge, v) = r
    BY Zenon DEF startRound
  <1>2. Moved(s, n) /\ n.state = "open" /\ n.prevLedgerHash = hash
    BY NewRound
  <1> HIDE DEF n
  <1>3. Moved(n, h)
    <2>1. CASE n.haveCorrectLCL
      BY <1>2, <2>1, Zenon DEF placeRound, Moved
    <2>2. CASE ~n.haveCorrectLCL
      <3>1. h = handleLCL(n, hash, v)
        BY <2>2, Zenon DEF placeRound
      <3>2. Good(n)
        BY <1>2 DEF Moved
      <3> QED BY <1>2, <3>1, <3>2, HandleLCL
    <2> QED BY <2>1, <2>2
  <1> HIDE DEF h
  <1>4. /\ Good(p) /\ p.state = h.state /\ Had(p) = Had(h) /\ p.mMode = h.mMode
        /\ p.job = h.job
    BY <1>3, PlaybackMoved, Zenon DEF Moved
  <1> HIDE DEF p
  <1>5. Going(p)
    BY <1>3, <1>4 DEF Moved, Going
  <1>6. Timed(p, r)
    <2>1. CASE fallingBehind(p)
      <3>1. r = timerEntry(p, v)
        BY <2>1 DEF timerIfBehind
      <3>2. /\ Good(r)
            /\ p.state \in {"open", "establish"} => Timed(p, r)
            /\ p.state \notin {"open", "establish"} => Keeps(p, r, {})
        BY <1>4, <3>1, TimerEntry
      <3> HIDE DEF r
      <3> QED BY <1>5, <3>2, Zenon DEF Timed, Keeps, Members, Going
    <2>2. CASE ~fallingBehind(p)
      <3>1. r = p
        BY <2>2 DEF timerIfBehind
      <3> QED BY <1>4, <1>5, <3>1, Zenon DEF Timed
    <2> QED BY <2>1, <2>2
  <1> HIDE DEF r
  <1> QED
    BY <1>1, <1>2, <1>3, <1>4, <1>6, Zenon DEF Moved, Timed

-----------------------------------------------------------------------------
(* The steps of the engine. *)

(* A step that disturbs at most the job, the phase and what is kept of     *)
(* ledgers leaves sets, votes and positions sound.                         *)
LEMMA SoundKept ==
  ASSUME NEW s, NEW r, Good(s), Keeps(s, r, {"state", "job", "closed", "validating"}),
         s.state = "accepted" => r.state = "accepted"
  PROVE  /\ Sound(r) /\ Sync(r) /\ r.mMode = s.mMode /\ r.disputes = s.disputes
         /\ r.ourSet = s.ourSet /\ r.ourPosition = s.ourPosition
         /\ r.prevLedgerHash = s.prevLedgerHash /\ r.previousLedger = s.previousLedger
  <1>1. /\ r.mMode = s.mMode /\ r.prevLedgerHash = s.prevLedgerHash
        /\ r.previousLedger = s.previousLedger
        /\ r.haveCorrectLCL = s.haveCorrectLCL /\ r.proposing = s.proposing
        /\ r.sent = s.sent /\ r.ourSet = s.ourSet /\ r.ourPosition = s.ourPosition
        /\ r.storedProposals = s.storedProposals /\ r.acquired = s.acquired
        /\ r.disputes = s.disputes /\ r.peerPositions = s.peerPositions
        /\ r.compares = s.compares /\ Had(r) = Had(s) /\ Members \subseteq DOMAIN r
    BY Zenon DEF Keeps, Members, Had
  <1>2. Sound(r)
    BY <1>1, ZenonT(40) DEF Good, Sound, Base, Stored, Votes, Covered, OurVotes, OwnSet, Shared
  <1>3. Sync(r)
    BY <1>1, Zenon DEF Good, Sync, InSync
  <1> QED
    BY <1>1, <1>2, <1>3, Zenon

(* What every step does: the invariant, the promise of RoundPhases, and    *)
(* what an accept job reads.                                               *)
Undisturbed(s, r) ==
    (s.state = "processing" /\ r.state = "processing") =>
        /\ r.previousLedger = s.previousLedger /\ r.prevLedgerHash = s.prevLedgerHash
        /\ r.ourSet = s.ourSet /\ r.ourPosition = s.ourPosition
        /\ r.job.at = s.job.at => r.validating = s.validating
        /\ DOMAIN s.disputes \subseteq DOMAIN r.disputes

SamePhase(s, r) == r.state = s.state /\ r.job = s.job /\ r.mMode = s.mMode

Stepped == RoundInv' /\ [Phases!Next]_(Phases!vars) /\ Undisturbed(node, node')

(* A step that keeps the phase. *)
LEMMA SteppedSame ==
  ASSUME RoundInv', SamePhase(node, node'), Undisturbed(node, node')
  PROVE  Stepped
  BY DEF Stepped, SamePhase, Phases!vars

(* What keeps the phase and the closed ledger keeps the handover. *)
LEMMA HandoverKept ==
  ASSUME NEW s, NEW r, Handover(s), r.job = s.job, r.closed = s.closed, r.mMode = s.mMode
  PROVE  Handover(r)
  BY Zenon DEF Handover

(* A round that goes on has nothing to hand over. *)
LEMMA HandoverGoing ==
  ASSUME NEW s, Good(s), Going(s)
  PROVE  Handover(s)
  BY DEF Good, Phase, JobOK, Going, Handover

(* What Init says of the engine. *)
LEMMA InitFacts ==
  ASSUME Init
  PROVE  /\ Members \subseteq DOMAIN node
         /\ node.state = "open" /\ node.job = NoJob
         /\ node.mMode \in Modes \ {"disconnected"} /\ node.prevLedgerHash = Genesis
         /\ node.previousLedger = Genesis /\ node.haveCorrectLCL = TRUE
         /\ node.ourPosition = NoPosition /\ node.ourSet = {} /\ node.sent = "silent"
         /\ node.acquired = {} /\ node.compares = {}
         /\ node.storedProposals = [p \in Peers |-> <<>>]
         /\ node.disputes = <<>> /\ node.peerPositions = <<>> /\ arrived = {}
         /\ node.proposing \in BOOLEAN /\ node.late = {}
  <1>0. Members \subseteq DOMAIN node
    BY ZenonT(30) DEF Init, Members
  <1>1. /\ node.state = "open" /\ node.job = NoJob
        /\ node.mMode \in Modes \ {"disconnected"} /\ node.prevLedgerHash = Genesis
        /\ node.previousLedger = Genesis /\ node.haveCorrectLCL = TRUE
    BY DEF Init
  <1>2. /\ node.ourPosition = NoPosition /\ node.ourSet = {} /\ node.sent = "silent"
        /\ node.acquired = {} /\ node.compares = {}
        /\ node.storedProposals = [p \in Peers |-> <<>>]
    BY DEF Init
  <1>3. node.disputes = <<>> /\ node.peerPositions = <<>> /\ arrived = {}
    BY DEF Init
  <1>4. node.proposing \in BOOLEAN /\ node.late = {}
    <2>1. Validator \in BOOLEAN
      BY RoundAssumption, Zenon
    <2> QED BY <2>1 DEF Init
  <1> QED BY <1>0, <1>1, <1>2, <1>3, <1>4, Zenon

(* A round is open before anything else. *)
LEMMA InitInv == Init => RoundInv
  <1> SUFFICES ASSUME Init PROVE RoundInv
    OBVIOUS
  <1>0. Members \subseteq DOMAIN node
    BY InitFacts, Zenon
  <1>1. /\ node.state = "open" /\ node.job = NoJob
        /\ node.mMode \in Modes /\ node.prevLedgerHash = Genesis
        /\ node.previousLedger = Genesis /\ node.haveCorrectLCL = TRUE
    BY InitFacts, Zenon
  <1>2. /\ node.ourPosition = NoPosition /\ node.ourSet = {} /\ node.sent = "silent"
        /\ node.acquired = {} /\ node.compares = {}
        /\ node.storedProposals = [p \in Peers |-> <<>>]
    BY InitFacts, Zenon
  <1>3. node.disputes = <<>> /\ node.peerPositions = <<>> /\ arrived = {}
    BY InitFacts, Zenon
  <1>4. node.proposing \in BOOLEAN
    BY InitFacts, Zenon
  <1>5. DOMAIN node.disputes = {} /\ IsFiniteSet(DOMAIN node.peerPositions)
    BY <1>3, FS_EmptySet
  <1>6. IsPosition(node.ourPosition) /\ ~node.ourPosition.taken /\ ~node.ourPosition.bowOut
    BY <1>2 DEF NoPosition, IsPosition
  <1>7. Stored(node)
    BY <1>2 DEF Stored
  <1>8. Sound(node)
    BY <1>0, <1>1, <1>2, <1>5, <1>6, <1>7, Zenon
       DEF Sound, Base, Votes, Covered, OurVotes, OwnSet, Shared
  <1>9. Sync(node)
    BY <1>1, <1>2, <1>4, <1>6, Zenon DEF Sync, InSync
  <1>10. Phase(node) /\ Going(node)
    <2>1. node.job.at = "none" /\ JobOK(node.job)
      BY <1>1 DEF NoJob, JobOK
    <2> QED BY <1>1, <1>6, <2>1, Zenon DEF Phase, Going
  <1>11. Good(node)
    BY <1>8, <1>9, <1>10 DEF Good
  <1> QED
    BY <1>10, <1>11, HandoverGoing DEF RoundInv

(* processHeartbeatTimer with too few peers. *)
LEMMA DisconnectStep ==
  ASSUME RoundInv, HeartbeatDisconnected
  PROVE  Stepped
  <1>1. Good(node) /\ Members \subseteq DOMAIN node
    BY GoodParts, Zenon DEF RoundInv
  <1>2. Keeps(node, node', {"mMode"}) /\ node'.mMode = "disconnected" /\ arrived' = arrived
    BY <1>1 DEF HeartbeatDisconnected, Keeps, Members
  <1>3. Good(node')
    BY <1>1, <1>2, LowerMode DEF Modes
  <1>4. /\ node'.state = node.state /\ node'.job = node.job
        /\ node'.closed = node.closed /\ Undisturbed(node, node')
    BY <1>2 DEF Keeps, Members, Undisturbed
  <1>5. Phases!Disconnect
    BY <1>2, <1>4 DEF HeartbeatDisconnected, Phases!Disconnect
  <1>6. Handover(node')
    BY <1>2, <1>4, Zenon DEF RoundInv, Handover
  <1> QED
    BY <1>3, <1>4, <1>5, <1>6 DEF Stepped, RoundInv, Phases!Next

(* processHeartbeatTimer with enough peers. *)
LEMMA HeartbeatStep ==
  ASSUME RoundInv, Heartbeat
  PROVE  Stepped
  <1>1. Good(node) /\ Members \subseteq DOMAIN node /\ node.mMode \in Modes
    BY GoodParts, ZenonT(40) DEF RoundInv
  <1> DEFINE mode == IF node.mMode = "disconnected" THEN "connected" ELSE node.mMode
             s == [node EXCEPT !.mMode = mode]
  <1>2. PICK v : node' = timerEntry(s, v)
    BY DEF Heartbeat
  <1>3. Keeps(node, s, {"mMode"}) /\ s.mMode = mode
    BY <1>1 DEF Keeps, Members
  <1> HIDE DEF s
  <1>4. mode \in Modes /\ (mode = "full" => node.mMode = "full")
    BY <1>1 DEF Modes
  <1>5. Good(s)
    BY <1>1, <1>3, <1>4, LowerMode
  <1>6. /\ s.state = node.state /\ s.job = node.job /\ s.closed = node.closed
        /\ s.ourSet = node.ourSet /\ s.ourPosition = node.ourPosition
        /\ s.prevLedgerHash = node.prevLedgerHash
        /\ s.previousLedger = node.previousLedger
        /\ s.validating = node.validating /\ s.disputes = node.disputes
    BY <1>3 DEF Keeps, Members
  <1>7. /\ Good(node')
        /\ s.state \in {"open", "establish"} => Timed(s, node')
        /\ s.state \notin {"open", "establish"} => Keeps(s, node', {})
    BY <1>2, <1>5, TimerEntry
  <1>8. Handover(s)
    BY <1>3, <1>6, Zenon DEF RoundInv, Handover
  <1>9. CASE s.state \in {"open", "establish"}
    <2>1. Timed(s, node')
      BY <1>7, <1>9
    <2>2. Going(node') /\ node'.mMode \in {mode, "connected"}
      BY <1>3, <2>1 DEF Timed
    <2>3. Phases!Tick
      BY <1>6, <1>9, <2>2 DEF Phases!Tick, Phases!Running, Going
    <2>4. Undisturbed(node, node')
      BY <1>6, <1>9 DEF Undisturbed
    <2>5. Handover(node')
      BY <1>7, <2>2, HandoverGoing
    <2> QED BY <1>7, <2>3, <2>4, <2>5, Zenon DEF Stepped, RoundInv, Phases!Next
  <1>10. CASE s.state \notin {"open", "establish"}
    <2>1. /\ node'.state = s.state /\ node'.job = s.job /\ node'.mMode = s.mMode
          /\ node'.closed = s.closed
          /\ node'.ourSet = s.ourSet /\ node'.ourPosition = s.ourPosition
          /\ node'.prevLedgerHash = s.prevLedgerHash
          /\ node'.previousLedger = s.previousLedger
          /\ node'.validating = s.validating /\ node'.disputes = s.disputes
      BY <1>7, <1>10, Zenon DEF Keeps, Members
    <2>2. Phases!Tick
      BY <1>3, <1>6, <1>10, <2>1, Zenon DEF Phases!Tick
    <2>3. Undisturbed(node, node')
      BY <1>6, <2>1 DEF Undisturbed
    <2>4. Handover(node')
      BY <1>8, <2>1, HandoverKept
    <2> QED BY <1>7, <2>2, <2>3, <2>4, Zenon DEF Stepped, RoundInv, Phases!Next
  <1> QED
    BY <1>9, <1>10

(* A trusted proposal arrives: it is stored, and then heard. *)
LEMMA ProposalStep ==
  ASSUME RoundInv, NEW m \in Proposals, TrustedProposal(m)
  PROVE  Stepped
  <1> DEFINE s == storeProposal(node, m)
             q == node.storedProposals[m.from]
             l == Append(IF Len(q) >= MaxStored THEN Tail(q) ELSE q, m)
             lost == IF Len(q) >= MaxStored THEN node.lost \cup {Head(q)} ELSE node.lost
  <1>1. Good(node) /\ Members \subseteq DOMAIN node /\ m.from \in Peers /\ Stored(node)
    BY GoodParts, RoundAssumption, Zenon DEF RoundInv
  <1>2. q \in Seq(Proposals)
    BY <1>1, ZenonT(40) DEF Stored
  <1>3. l \in Seq(Proposals)
    <2> HIDE DEF q
    <2>1. Len(q) \in Nat /\ MaxStored \in Nat /\ MaxStored # 0
      BY <1>2, RoundAssumption
    <2>2. Len(q) >= MaxStored => Tail(q) \in Seq(Proposals)
      BY <1>2, <2>1
    <2> QED BY <1>2, <2>2
  <1>4. s = [node EXCEPT !.storedProposals[m.from] = l, !.lost = lost]
    BY DEF storeProposal
  <1> HIDE DEF l, q, lost
  <1>5. Keeps(node, s, {"storedProposals"})
        /\ s.storedProposals = [node.storedProposals EXCEPT ![m.from] = l]
    BY <1>1, <1>4, ZenonT(40) DEF Keeps, Members
  <1> HIDE DEF s
  <1>6. Stored(s)
    BY <1>1, <1>3, <1>5 DEF Stored
  <1>7. /\ s.state = node.state /\ s.job = node.job /\ s.mMode = node.mMode
        /\ s.prevLedgerHash = node.prevLedgerHash
        /\ s.previousLedger = node.previousLedger
        /\ s.haveCorrectLCL = node.haveCorrectLCL /\ s.proposing = node.proposing
        /\ s.sent = node.sent /\ s.ourSet = node.ourSet
        /\ s.ourPosition = node.ourPosition /\ s.acquired = node.acquired
        /\ s.disputes = node.disputes /\ s.peerPositions = node.peerPositions
        /\ s.compares = node.compares /\ Had(s) = Had(node) /\ Members \subseteq DOMAIN s
        /\ s.closed = node.closed /\ s.validating = node.validating
    BY <1>5 DEF Keeps, Members, Had
  <1>8. Good(s)
    <2>1. Sound(s)
      BY <1>1, <1>6, <1>7, ZenonT(40) DEF Good, Sound, Base, Votes, Covered, OurVotes, OwnSet, Shared
    <2>2. Sync(s) /\ Phase(s)
      BY <1>1, <1>7, Zenon DEF Good, Sync, InSync, Phase
    <2> QED BY <2>1, <2>2 DEF Good
  <1>9. node' = peerPosition(s, m)
    BY DEF TrustedProposal, s
  <1>10. Heard(s, node')
    BY <1>8, <1>9, PeerPosition, GoodParts, Zenon
  <1>11. Good(node')
    BY <1>8, <1>10, HeardGood
  <1>12. /\ node'.state = s.state /\ node'.job = s.job /\ node'.mMode = s.mMode
         /\ node'.closed = s.closed /\ node'.validating = s.validating
         /\ node'.ourSet = s.ourSet /\ node'.ourPosition = s.ourPosition
         /\ node'.prevLedgerHash = s.prevLedgerHash
         /\ node'.previousLedger = s.previousLedger
         /\ DOMAIN node'.disputes = DOMAIN s.disputes
    BY <1>10 DEF Heard, Keeps, Members
  <1>13. RoundInv'
    BY <1>7, <1>11, <1>12, HandoverKept, Zenon DEF RoundInv
  <1>14. SamePhase(node, node') /\ Undisturbed(node, node')
    BY <1>7, <1>12 DEF SamePhase, Undisturbed
  <1> QED
    BY <1>13, <1>14, SteppedSame, Zenon

(* InboundTransactions gets a set ... *)
LEMMA GiveSetStep ==
  ASSUME RoundInv, NEW set, GiveSet(set)
  PROVE  Stepped
  <1>1. Good(node) /\ Members \subseteq DOMAIN node
    BY GoodParts, Zenon DEF RoundInv
  <1>2. Keeps(node, node', {"inbound"}) /\ Had(node') = Had(node) \cup {set}
    BY <1>1, ShareSet, Zenon DEF GiveSet
  <1>3. /\ node'.state = node.state /\ node'.job = node.job /\ node'.mMode = node.mMode
        /\ node'.prevLedgerHash = node.prevLedgerHash
        /\ node'.previousLedger = node.previousLedger
        /\ node'.haveCorrectLCL = node.haveCorrectLCL
        /\ node'.proposing = node.proposing
        /\ node'.sent = node.sent /\ node'.ourSet = node.ourSet
        /\ node'.ourPosition = node.ourPosition /\ node'.acquired = node.acquired
        /\ node'.disputes = node.disputes /\ node'.peerPositions = node.peerPositions
        /\ node'.compares = node.compares /\ Members \subseteq DOMAIN node'
        /\ node'.storedProposals = node.storedProposals
        /\ node'.closed = node.closed /\ node'.validating = node.validating
    BY <1>2, Zenon DEF Keeps, Members
  <1>4. Sound(node')
    BY <1>1, <1>2, <1>3, ZenonT(40)
       DEF Good, Sound, Base, Stored, Votes, Covered, OurVotes, OwnSet, Shared
  <1>5. Sync(node') /\ Phase(node')
    BY <1>1, <1>3, ZenonT(40) DEF Good, Sync, InSync, Phase
  <1>6. RoundInv'
    BY <1>3, <1>4, <1>5, HandoverKept, Zenon DEF RoundInv, Good
  <1>7. SamePhase(node, node') /\ Undisturbed(node, node')
    BY <1>3 DEF SamePhase, Undisturbed
  <1> QED
    BY <1>6, <1>7, SteppedSame, Zenon

(* ... and the engine gets it later. *)
LEMMA GotMapStep ==
  ASSUME RoundInv, NEW set, GotMap(set)
  PROVE  Stepped
  <1> DEFINE l == IF set \in sets(node) THEN node.late ELSE node.late \cup {set}
             s == [node EXCEPT !.late = l]
  <1>1. Good(node) /\ Base(node) /\ OurVotes(node) /\ Members \subseteq DOMAIN node
    BY GoodParts, Zenon DEF RoundInv
  <1>2. node' = mapCompleteInternal(s, set, TRUE)
    BY DEF GotMap
  <1>3. node.late \subseteq l /\ (set \in Own(node.inbound) \/ set \in l)
    BY DEF sets, Own
  <1> HIDE DEF l
  <1>4. Keeps(node, s, {"late"}) /\ s.late = l
    BY <1>1, Zenon DEF Keeps, Members
  <1> HIDE DEF s
  <1>5. /\ s.storedProposals = node.storedProposals /\ s.ourPosition = node.ourPosition
        /\ s.acquired = node.acquired /\ s.disputes = node.disputes
        /\ s.peerPositions = node.peerPositions /\ s.compares = node.compares
        /\ s.ourSet = node.ourSet /\ s.inbound = node.inbound /\ Members \subseteq DOMAIN s
    BY <1>4 DEF Keeps, Members
  <1>6. Had(node) \subseteq Had(s) /\ set \in Had(s)
    BY <1>3, <1>4, <1>5 DEF Had
  <1>7. Base(s) /\ OurVotes(s)
    BY <1>1, <1>5, <1>6, Zenon DEF Base, Stored, Votes, Covered, OurVotes
  <1>8. /\ Keeps(s, node', {"disputes", "compares", "inbound", "acquired"}) /\ Base(node')
        /\ s.acquired \cup {set} = node'.acquired /\ OurVotes(node')
        /\ DOMAIN s.disputes \subseteq DOMAIN node'.disputes
    BY <1>2, <1>6, <1>7, MapComplete, Zenon
  <1>9. /\ node'.state = node.state /\ node'.job = node.job /\ node'.mMode = node.mMode
        /\ node'.prevLedgerHash = node.prevLedgerHash
        /\ node'.previousLedger = node.previousLedger
        /\ node'.haveCorrectLCL = node.haveCorrectLCL
        /\ node'.proposing = node.proposing
        /\ node'.sent = node.sent /\ node'.ourSet = node.ourSet
        /\ node'.ourPosition = node.ourPosition
        /\ node'.closed = node.closed /\ node'.validating = node.validating
    BY <1>4, <1>8 DEF Keeps, Members
  <1>10. Sound(node')
    BY <1>1, <1>5, <1>8, <1>9, Zenon DEF Good, Sound, OwnSet, Shared
  <1>11. Sync(node') /\ Phase(node')
    BY <1>1, <1>9, Zenon DEF Good, Sync, InSync, Phase
  <1>12. RoundInv'
    BY <1>9, <1>10, <1>11, HandoverKept, Zenon DEF RoundInv, Good
  <1>13. SamePhase(node, node') /\ Undisturbed(node, node')
    BY <1>5, <1>8, <1>9 DEF SamePhase, Undisturbed
  <1> QED
    BY <1>12, <1>13, SteppedSame, Zenon

(* A ledger the network prefers is acquired. *)
LEMMA AcquiredStep ==
  ASSUME RoundInv, LedgerAcquired
  PROVE  Stepped
  <1>1. Good(node) /\ Members \subseteq DOMAIN node
    BY GoodParts DEF RoundInv
  <1>2. Keeps(node, node', {})
    BY <1>1 DEF LedgerAcquired, Keeps, Members
  <1>3. Keeps(node, node', {"state", "job", "closed", "validating"})
    BY <1>2 DEF Keeps
  <1>4. /\ node'.state = node.state /\ node'.job = node.job /\ node'.closed = node.closed
        /\ node'.validating = node.validating
    BY <1>2 DEF Keeps, Members
  <1>5. /\ Sound(node') /\ Sync(node') /\ node'.disputes = node.disputes
        /\ node'.mMode = node.mMode /\ node'.ourSet = node.ourSet
        /\ node'.ourPosition = node.ourPosition
        /\ node'.prevLedgerHash = node.prevLedgerHash
        /\ node'.previousLedger = node.previousLedger
    BY <1>1, <1>3, <1>4, SoundKept, Zenon
  <1>6. Phase(node')
    BY <1>1, <1>4, <1>5, Zenon DEF Good, Phase
  <1>7. RoundInv'
    BY <1>4, <1>5, <1>6, HandoverKept, Zenon DEF RoundInv, Good
  <1>8. SamePhase(node, node') /\ Undisturbed(node, node')
    BY <1>4, <1>5 DEF SamePhase, Undisturbed
  <1> QED
    BY <1>7, <1>8, SteppedSame, Zenon

(* accept builds the ledger from the set it was queued with. *)
LEMMA BuildStep ==
  ASSUME RoundInv, NEW compatible \in BOOLEAN, AcceptBuild(compatible)
  PROVE  Stepped
  <1>1. /\ Good(node) /\ Members \subseteq DOMAIN node /\ node.job.at = "build"
        /\ JobOK(node.job)
    BY GoodParts DEF RoundInv, AcceptBuild
  <1>2. /\ Keeps(node, node', {"state", "job", "closed", "validating"})
        /\ node'.state = node.state
        /\ node'.job = [node.job EXCEPT !.at = "built", !.seen = DOMAIN node.disputes]
    BY <1>1, ZenonT(30) DEF AcceptBuild, Keeps, Members
  <1>3. /\ node'.job.at = "built" /\ node'.job.set = node.job.set
        /\ node'.job.retries = {} /\ JobOK(node'.job)
    BY <1>1, <1>2 DEF JobOK
  <1>4. /\ Sound(node') /\ Sync(node') /\ node'.disputes = node.disputes
        /\ node'.mMode = node.mMode /\ node'.ourSet = node.ourSet
        /\ node'.ourPosition = node.ourPosition
        /\ node'.prevLedgerHash = node.prevLedgerHash
        /\ node'.previousLedger = node.previousLedger
    BY <1>1, <1>2, SoundKept
  <1>5. Phase(node')
    BY <1>1, <1>2, <1>3, <1>4 DEF Good, Phase
  <1>6. RoundInv'
    BY <1>3, <1>4, <1>5 DEF RoundInv, Good, Handover
  <1>7. Phases!AcceptBuild
    BY <1>1, <1>2, <1>3, <1>4 DEF Phases!AcceptBuild
  <1>8. Undisturbed(node, node')
    BY <1>1, <1>3, <1>4 DEF Undisturbed
  <1> QED
    BY <1>6, <1>7, <1>8 DEF Stepped, Phases!Next

(* What it retries are disputed transactions we voted against, so that our *)
(* set, which it was queued with, has none of them.                        *)
LEMMA SwitchStep ==
  ASSUME RoundInv, AcceptSwitch
  PROVE  Stepped
  <1> DEFINE against == {t \in DOMAIN node.disputes : ~node.disputes[t].ourVote}
  <1>1. /\ Good(node) /\ Members \subseteq DOMAIN node /\ node.job.at = "built"
        /\ JobOK(node.job)
    BY GoodParts DEF RoundInv, AcceptSwitch
  <1>2. PICK found \in SUBSET against :
            node' = [node EXCEPT !.closed = Append(node.previousLedger, node.job.set),
                                 !.job.at = "switched", !.job.seen = {},
                                 !.job.retries = found]
    BY Zenon DEF AcceptSwitch
  <1>3. node.job.set = node.ourSet /\ node.state = "processing"
    BY <1>1, Zenon DEF Good, Phase
  <1>4. found \cap node.job.set = {}
    BY <1>1, <1>3, Zenon DEF Good, Sound, OurVotes
  <1> HIDE DEF against
  <1>5. /\ Keeps(node, node', {"state", "job", "closed", "validating"})
        /\ node'.state = node.state /\ node'.validating = node.validating
        /\ node'.job = [node.job EXCEPT !.at = "switched", !.seen = {}, !.retries = found]
    BY <1>1, <1>2, ZenonT(30) DEF Keeps, Members
  <1>6. /\ node'.job.at = "switched" /\ node'.job.set = node.job.set
        /\ node'.job.retries = found /\ JobOK(node'.job)
    BY <1>1, <1>5 DEF JobOK
  <1>7. /\ Sound(node') /\ Sync(node') /\ node'.disputes = node.disputes
        /\ node'.mMode = node.mMode /\ node'.ourSet = node.ourSet
        /\ node'.ourPosition = node.ourPosition
        /\ node'.prevLedgerHash = node.prevLedgerHash
        /\ node'.previousLedger = node.previousLedger
    BY <1>1, <1>5, SoundKept
  <1>8. Phase(node')
    BY <1>1, <1>3, <1>5, <1>6, <1>7 DEF Good, Phase
  <1>9. RoundInv'
    <2>1. Handover(node')
      BY <1>4, <1>6 DEF Handover
    <2> QED BY <1>7, <1>8, <2>1, Zenon DEF RoundInv, Good
  <1>10. Phases!AcceptSwitch
    BY <1>1, <1>5, <1>6, <1>7 DEF Phases!AcceptSwitch
  <1>11. Undisturbed(node, node')
    BY <1>5, <1>7 DEF Undisturbed
  <1> QED
    BY <1>9, <1>10, <1>11 DEF Stepped, Phases!Next

(* accept's end. *)
LEMMA DoneStep ==
  ASSUME RoundInv, AcceptDone
  PROVE  Stepped
  <1>1. /\ Good(node) /\ Members \subseteq DOMAIN node /\ node.job.at = "switched"
    BY GoodParts DEF RoundInv, AcceptDone
  <1>2. /\ Keeps(node, node', {"state", "job", "closed", "validating"})
        /\ node'.state = "accepted" /\ node'.job = [NoJob EXCEPT !.at = "end"]
    BY <1>1, Zenon DEF AcceptDone, Keeps, Members
  <1>3. /\ node'.job.at = "end" /\ node'.job.set = {}
        /\ node'.job.retries = {} /\ JobOK(node'.job)
    BY <1>2 DEF JobOK, NoJob
  <1>4. Sound(node') /\ Sync(node') /\ node'.mMode = node.mMode
    BY <1>1, <1>2, SoundKept, Zenon
  <1>5. Phase(node')
    BY <1>1, <1>2, <1>3, <1>4 DEF Good, Phase
  <1>6. RoundInv'
    <2>1. Handover(node')
      BY <1>3 DEF Handover
    <2> QED BY <1>4, <1>5, <2>1, Zenon DEF RoundInv, Good
  <1>7. Phases!AcceptDone
    BY <1>1, <1>2, <1>3, <1>4 DEF Phases!AcceptDone
  <1> QED
    BY <1>2, <1>6, <1>7 DEF Stepped, Undisturbed, Phases!Next

(* The job's decision: the network's ledger, and then not to be full, or   *)
(* the ledger that is closed.                                              *)
Decided(s, r) ==
    /\ Keeps(s, r, {"job", "closed"}) /\ JobOK(r.job)
    /\ r.job.at = s.job.at /\ r.job.retries = s.job.retries
    /\ \/ r.job.net = r.closed \/ r.job.mode = "connected"
       \/ r.job.mode = "none" /\ s.mMode # "full"

(* checkLastClosedLedger finds nothing better ... *)
LEMMA KeepLedger ==
  ASSUME NEW s, Members \subseteq DOMAIN s, JobOK(s.job), NEW fresh
  PROVE  Decided(s, keepLedger(s, fresh))
  <1> DEFINE mode == CASE s.mMode \in {"connected", "tracking"} /\ fresh -> "full"
                       [] s.mMode = "connected" /\ ~fresh -> "tracking"
                       [] OTHER -> "none"
             r == [s EXCEPT !.job.net = s.closed, !.job.mode = mode]
  <1>1. keepLedger(s, fresh) = r
    BY DEF keepLedger
  <1>2. mode \in {"none", "connected", "tracking", "full"}
    OBVIOUS
  <1> HIDE DEF mode
  <1>3. /\ Keeps(s, r, {"job", "closed"}) /\ r.closed = s.closed
        /\ r.job = [s.job EXCEPT !.net = s.closed, !.mode = mode]
    BY ZenonT(30) DEF Keeps, Members
  <1> HIDE DEF r
  <1>4. JobOK(r.job) /\ r.job.net = s.closed /\ r.job.at = s.job.at /\ r.job.retries = s.job.retries
    BY <1>2, <1>3 DEF JobOK
  <1> QED
    BY <1>1, <1>3, <1>4, Zenon DEF Decided

(* ... or switches to the ledger of the network. *)
LEMMA SwitchLedger ==
  ASSUME NEW s, Members \subseteq DOMAIN s, JobOK(s.job), NEW other
  PROVE  Decided(s, switchLedger(s, other))
  <1> DEFINE mode == IF s.mMode \in {"full", "tracking"} THEN "connected" ELSE "none"
             closed == IF other \in s.ledgers THEN other ELSE s.closed
             r == [s EXCEPT !.closed = closed, !.job.net = other, !.job.mode = mode]
  <1>1. switchLedger(s, other) = r
    BY DEF switchLedger
  <1>2. mode = "connected" \/ (mode = "none" /\ s.mMode # "full")
    OBVIOUS
  <1> HIDE DEF mode, closed
  <1>3. /\ Keeps(s, r, {"job", "closed"})
        /\ r.job = [s.job EXCEPT !.net = other, !.mode = mode]
    BY ZenonT(30) DEF Keeps, Members
  <1> HIDE DEF r
  <1>4. JobOK(r.job) /\ r.job.mode = mode /\ r.job.at = s.job.at /\ r.job.retries = s.job.retries
    BY <1>2, <1>3 DEF JobOK
  <1> QED
    BY <1>1, <1>2, <1>3, <1>4, Zenon DEF Decided

(* checkLastClosedLedger: the server goes to the network's ledger and will *)
(* not be full, or may become full with the ledger it has closed.          *)
LEMMA EndStep ==
  ASSUME RoundInv, EndConsensus
  PROVE  Stepped
  <1>1. /\ Good(node) /\ Members \subseteq DOMAIN node /\ node.job.at = "end"
        /\ JobOK(node.job) /\ node.mMode \in Modes
    BY GoodParts, Zenon DEF RoundInv, EndConsensus
  <1>2. PICK other, fresh : node' = checkLastClosedLedger(node, other, fresh)
    BY Zenon DEF EndConsensus
  <1>3. node.state = "accepted" /\ node.job.retries = {}
    BY <1>1 DEF Good, Phase, JobOK
  <1> DEFINE q == IF other = NoLedger THEN keepLedger(node, fresh)
                  ELSE switchLedger(node, other)
  <1>4. node' = [q EXCEPT !.job.at = "checked"]
    BY <1>2, Zenon DEF checkLastClosedLedger
  <1>5. Decided(node, q)
    BY <1>1, KeepLedger, SwitchLedger, Zenon
  <1> HIDE DEF q
  <1>6. /\ Keeps(q, node', {"job"}) /\ node'.job = [q.job EXCEPT !.at = "checked"]
        /\ node'.closed = q.closed
    BY <1>4, <1>5, ZenonT(30) DEF Decided, Keeps, Members
  <1>7. /\ Keeps(node, node', {"state", "job", "closed", "validating"})
        /\ node'.state = node.state /\ node'.job.at = "checked" /\ node'.job.net = q.job.net
        /\ node'.job.mode = q.job.mode /\ node'.job.retries = {} /\ JobOK(node'.job)
    <2>1. /\ node'.job.at = "checked" /\ node'.job.net = q.job.net
          /\ node'.job.mode = q.job.mode /\ node'.job.retries = {} /\ JobOK(node'.job)
      BY <1>3, <1>5, <1>6 DEF Decided, JobOK
    <2>2. Keeps(node, node', {"job", "closed"})
      <3>1. Keeps(node, q, {"job", "closed"})
        BY <1>5 DEF Decided
      <3> QED BY <1>6, <3>1 DEF Keeps
    <2>3. node'.state = node.state
      BY <2>2 DEF Keeps, Members
    <2> QED BY <2>1, <2>2, <2>3 DEF Keeps
  <1>8. Sound(node') /\ Sync(node') /\ node'.mMode = node.mMode
    BY <1>1, <1>7, SoundKept, Zenon
  <1>9. Phase(node')
    BY <1>1, <1>3, <1>7, <1>8, Zenon DEF Phase
  <1>10. Handover(node')
    BY <1>5, <1>6, <1>7, <1>8 DEF Handover, Decided
  <1>11. Phases!EndConsensus
    BY <1>1, <1>7, <1>8 DEF Phases!EndConsensus
  <1>12. Undisturbed(node, node')
    BY <1>3 DEF Undisturbed
  <1> QED
    BY <1>8, <1>9, <1>10, <1>11, <1>12 DEF Stepped, RoundInv, Good, Phases!Next

(* The mode is set, and a server that is not connected stops there.        *)
LEMMA SetModeStep ==
  ASSUME RoundInv, SetMode
  PROVE  Stepped
  <1> DEFINE mode == IF node.job.mode = "none" THEN node.mMode ELSE node.job.mode
  <1>1. /\ Good(node) /\ Members \subseteq DOMAIN node /\ node.job.at = "checked"
        /\ JobOK(node.job) /\ node.mMode \in Modes /\ Handover(node)
    BY GoodParts, Zenon DEF RoundInv, SetMode
  <1>2. node.state = "accepted" /\ node.job.retries = {}
    BY <1>1 DEF Good, Phase, JobOK
  <1>3. mode \in Modes /\ (mode # node.mMode => mode \in {"connected", "tracking", "full"})
    BY <1>1 DEF JobOK, Modes
  <1>4. \/ node.job.net = node.closed \/ mode # "full"
    BY <1>1 DEF Handover
  <1>5. node' = IF mode = "disconnected" THEN [node EXCEPT !.job = NoJob]
                ELSE [node EXCEPT !.mMode = mode, !.job.at = "start"]
    BY Zenon DEF SetMode, setMode
  <1> HIDE DEF mode
  <1>6. Undisturbed(node, node')
    BY <1>2 DEF Undisturbed
  <1>7. CASE mode = "disconnected"
    <2>1. /\ Keeps(node, node', {"state", "job", "closed", "validating"})
          /\ node'.state = node.state /\ node'.job = NoJob
      BY <1>1, <1>5, <1>7 DEF Keeps, Members
    <2>2. Sound(node') /\ Sync(node') /\ node'.mMode = node.mMode
      BY <1>1, <2>1, SoundKept, Zenon
    <2>a. /\ node'.job.at = "none" /\ node'.job.retries = {} /\ JobOK(node'.job)
      BY <2>1 DEF JobOK, NoJob
    <2>b. Phase(node')
      BY <1>1, <1>2, <2>1, <2>2, <2>a, Zenon DEF Phase
    <2>c. Handover(node')
      BY <2>a DEF Handover
    <2>3. Phase(node') /\ Handover(node')
      BY <2>b, <2>c
    <2>4. Phases!SetMode
      BY <1>1, <1>3, <1>7, <2>1, <2>2 DEF Phases!SetMode, Phases!Connected, NoJob
    <2> QED BY <1>6, <2>2, <2>3, <2>4 DEF Stepped, RoundInv, Good, Phases!Next
  <1>8. CASE mode # "disconnected"
    <2> DEFINE j == [node.job EXCEPT !.at = "start"]
    <2>1. j.at = "start" /\ j.net = node.job.net /\ j.retries = {} /\ JobOK(j)
      BY <1>1, <1>2 DEF JobOK
    <2> HIDE DEF j
    <2>2. /\ Keeps(node, node', {"mMode", "job"}) /\ node'.job = j /\ node'.mMode = mode
      <3>1. node' = [node EXCEPT !.mMode = mode, !.job.at = "start"]
        BY <1>5, <1>8
      <3> QED BY <1>1, <3>1, ZenonT(30) DEF Keeps, Members, j
    <2>3. /\ node'.state = node.state /\ node'.prevLedgerHash = node.prevLedgerHash
          /\ node'.previousLedger = node.previousLedger
          /\ node'.haveCorrectLCL = node.haveCorrectLCL /\ node'.proposing = node.proposing
          /\ node'.sent = node.sent /\ node'.ourSet = node.ourSet
          /\ node'.ourPosition = node.ourPosition /\ node'.closed = node.closed
          /\ node'.storedProposals = node.storedProposals
          /\ node'.acquired = node.acquired
          /\ node'.disputes = node.disputes /\ node'.peerPositions = node.peerPositions
          /\ node'.compares = node.compares /\ Had(node') = Had(node)
          /\ Members \subseteq DOMAIN node'
      BY <2>2 DEF Keeps, Members, Had
    <2>4. Sound(node')
      BY <1>1, <2>3, ZenonT(40) DEF Good, Sound, Base, Stored, Votes, Covered, OurVotes, OwnSet, Shared
    <2>5. Sync(node')
      BY <1>1, <1>2, <2>3, Zenon DEF Good, Sync, InSync
    <2>6. Phase(node') /\ Handover(node')
      BY <1>2, <1>3, <1>4, <2>1, <2>2, <2>3 DEF Phase, Handover
    <2>7. Phases!SetMode
      BY <1>1, <1>3, <1>8, <2>1, <2>2, <2>3 DEF Phases!SetMode, Phases!Connected, Modes
    <2> QED BY <1>6, <2>4, <2>5, <2>6, <2>7 DEF Stepped, RoundInv, Good, Phases!Next
  <1> QED
    BY <1>7, <1>8

(* The next round starts. *)
LEMMA BeginStep ==
  ASSUME RoundInv, BeginConsensus
  PROVE  Stepped
  <1> DEFINE s == [node EXCEPT !.job = NoJob]
  <1>1. /\ Good(node) /\ Members \subseteq DOMAIN node /\ node.job.at = "start"
        /\ Stored(node) /\ node.mMode \in Modes
    BY GoodParts, Zenon DEF RoundInv, BeginConsensus
  <1>2. node.state = "accepted" /\ (node.job.net = node.closed \/ node.mMode # "full")
    BY <1>1, Zenon DEF Good, Phase, RoundInv, Handover
  <1>3. PICK v : node' = startRound(s, node.job.net, node.closed, node.lastCloseProposers,
                                    node.lastCloseConvergeTook, v)
    BY Zenon DEF BeginConsensus, beginConsensus
  <1>4. Keeps(node, s, {"job"}) /\ s.job = NoJob
    BY <1>1 DEF Keeps, Members
  <1> HIDE DEF s
  <1>5. /\ s.state = node.state /\ s.mMode = node.mMode /\ Members \subseteq DOMAIN s
        /\ s.storedProposals = node.storedProposals
    BY <1>4 DEF Keeps, Members
  <1>6. s.job.at = "none" /\ JobOK(s.job) /\ Stored(s) /\ s.state # "processing"
    BY <1>1, <1>2, <1>4, <1>5 DEF NoJob, JobOK, Stored
  <1>7. Timed(s, node')
    BY <1>1, <1>2, <1>3, <1>5, <1>6, StartRound, Zenon
  <1>8. /\ Good(node') /\ Going(node') /\ node'.mMode \in {node.mMode, "connected"}
        /\ node.mMode = "disconnected" => node'.mMode = node.mMode
    BY <1>5, <1>7 DEF Timed
  <1>9. Handover(node')
    BY <1>8, HandoverGoing
  <1>10. Phases!BeginConsensus
    BY <1>1, <1>8 DEF Phases!BeginConsensus, Phases!Running, Going
  <1>11. Undisturbed(node, node')
    BY <1>2 DEF Undisturbed
  <1> QED
    BY <1>8, <1>9, <1>10, <1>11 DEF Stepped, RoundInv, Phases!Next

(* Every step of the engine. *)
LEMMA NextStep ==
  ASSUME RoundInv, [Next]_vars
  PROVE  Stepped
  <1>1. CASE UNCHANGED vars
    BY <1>1 DEF vars, Stepped, RoundInv, Undisturbed, Phases!vars
  <1>2. CASE Next
    BY <1>2, DisconnectStep, HeartbeatStep, ProposalStep, GiveSetStep, GotMapStep,
       AcquiredStep, BuildStep, SwitchStep, DoneStep, EndStep, SetModeStep, BeginStep,
       ZenonT(40) DEF Next
  <1> QED
    BY <1>1, <1>2

-----------------------------------------------------------------------------
(* What the engine keeps, for any peers, transactions and views. *)

(* The invariant holds whatever the order of heartbeats, proposals, sets,  *)
(* ledgers and steps of the accept job.                                    *)
THEOREM RoundAlwaysGood == Spec => []RoundInv
  <1>1. RoundInv /\ [Next]_vars => RoundInv'
    BY NextStep DEF Stepped
  <1> QED
    BY InitInv, <1>1, PTL DEF Spec

(* Bowing out, changing a position and going stale keep the votes of a     *)
(* dispute (LedgerConsensusImp::peerPosition, updateOurPositions) those of *)
(* peers that hold a position, and the counters their counts.              *)
THEOREM VotesAlwaysCounted == Spec => []VotesAreOfProposers
  <1>1. RoundInv => VotesAreOfProposers
    <2> SUFFICES ASSUME RoundInv, NEW t \in DOMAIN node.disputes
                 PROVE  LET d == node.disputes[t]
                        IN /\ DOMAIN d.votes \subseteq DOMAIN node.peerPositions
                           /\ d.yays = Cardinality({p \in DOMAIN d.votes : d.votes[p]})
                           /\ d.nays = Cardinality({p \in DOMAIN d.votes : ~d.votes[p]})
      BY Zenon DEF VotesAreOfProposers
    <2>1. Counted(node.disputes[t], DOMAIN node.peerPositions)
      BY Zenon DEF RoundInv, Good, Sound, Base, Votes
    <2>2. DOMAIN node.disputes[t].votes \subseteq DOMAIN node.peerPositions
      BY <2>1, Zenon DEF Counted
    <2> QED BY Zenon, <2>1, <2>2 DEF Counted
  <1> QED
    BY RoundAlwaysGood, <1>1, PTL

(* createDisputes has been called for every difference between our set and *)
(* one we compared it with, until we bow out.                              *)
THEOREM ComparedAlwaysDisputed == Spec => []DisputesCoverCompared
  <1>1. RoundInv => DisputesCoverCompared
    BY Zenon DEF RoundInv, Good, Sound, Base, Covered, DisputesCoverCompared
  <1> QED
    BY RoundAlwaysGood, <1>1, PTL

(* A set is given to InboundTransactions before it is proposed, or was had *)
(* from it.                                                                *)
THEOREM PositionAlwaysShared == Spec => []PositionIsShared
  <1>1. RoundInv => PositionIsShared
    BY Zenon DEF RoundInv, Good, Sound, Base, OwnSet, Shared, PositionIsShared,
                 Had, Own, sets
  <1> QED
    BY RoundAlwaysGood, <1>1, PTL

(* A server proposes only in sync, and a view change revokes what it has   *)
(* proposed before it moves (startRound, handleLCL).                       *)
THEOREM ProposesOnlyInSync == Spec => []ProposingInSync
  <1>1. RoundInv => ProposingInSync
    BY Zenon DEF RoundInv, Good, Sync, InSync, ProposingInSync
  <1> QED
    BY RoundAlwaysGood, <1>1, PTL

(* accept works without lock_, and nothing it reads moves meanwhile.       *)
THEOREM AcceptIsUndisturbed == Spec => AcceptWorksUndisturbed
  <1> DEFINE Works == (node.state = "processing" /\ node'.state = "processing") =>
               /\ node'.previousLedger = node.previousLedger
               /\ node'.prevLedgerHash = node.prevLedgerHash
               /\ node'.ourSet = node.ourSet
               /\ node'.ourPosition = node.ourPosition
               /\ node'.job.at = node.job.at => node'.validating = node.validating
               /\ \A t \in DOMAIN node.disputes :
                     /\ t \in DOMAIN node'.disputes
                     /\ node'.disputes[t].ourVote = node.disputes[t].ourVote
  <1>1. RoundInv /\ [Next]_vars => [Works]_vars
    <2> SUFFICES ASSUME RoundInv, [Next]_vars, node.state = "processing",
                        node'.state = "processing"
                 PROVE  Works
      BY Zenon
    <2>1. RoundInv' /\ Undisturbed(node, node')
      BY NextStep DEF Stepped
    <2>2. OurVotes(node) /\ OurVotes(node')
      BY <2>1 DEF RoundInv, Good, Sound
    <2> QED BY <2>1, <2>2 DEF Undisturbed, OurVotes
  <1> QED
    BY RoundAlwaysGood, <1>1, PTL DEF Spec, AcceptWorksUndisturbed

(* Our votes follow our set, whatever updateOurPositions, gotMap and the   *)
(* peers do, and so accept retries nothing that its ledger has.            *)
THEOREM RetriedAlwaysLeftOut == Spec => []RetriedIsLeftOut
  <1>1. RoundInv =>
           (node.state = "processing" => node.ourPosition.taken /\ node.job.set = node.ourSet)
    BY DEF RoundInv, Good, Phase
  <1>2. RoundInv => RetriedIsLeftOut
    BY <1>1, Zenon DEF RoundInv, Good, Sound, OurVotes, Handover, RetriedIsLeftOut
  <1> QED
    BY RoundAlwaysGood, <1>2, PTL

(* The engine implements the phases of a round: RoundPhases. *)
THEOREM RoundImplementsPhases == Spec => ImplementsRoundPhases
  <1>1. Init => Phases!Init
    <2> SUFFICES ASSUME Init PROVE Phases!Init
      OBVIOUS
    <2>1. node.state = "open" /\ node.mMode \in Modes \ {"disconnected"}
          /\ node.job = NoJob
      BY InitFacts, Zenon
    <2> QED BY <2>1 DEF Modes, NoJob, Phases!Init, Phases!Connected
  <1>2. RoundInv /\ [Next]_vars => [Phases!Next]_(Phases!vars)
    BY NextStep DEF Stepped
  <1> QED
    BY RoundAlwaysGood, <1>1, <1>2, PTL DEF Spec, ImplementsRoundPhases, Phases!Spec

(* The engine is processing exactly while its accept job is at work,       *)
(* whatever the order of heartbeats, disconnections and job steps.         *)
THEOREM PhasesSafe == Spec => [](Phases!TypeOK /\ Phases!ProcessingIsTheJob)
  <1>1. RoundInv => Phases!TypeOK /\ Phases!ProcessingIsTheJob
    BY Zenon DEF RoundInv, Good, Phase, Modes, Phases!TypeOK, Phases!ProcessingIsTheJob,
           Phases!Connected
  <1> QED
    BY RoundAlwaysGood, <1>1, PTL
=============================================================================
