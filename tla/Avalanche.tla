----------------------------- MODULE Avalanche ------------------------------
(***************************************************************************)
(* How the proposing servers of a round settle one disputed transaction.   *)
(* Each server keeps a DisputedTx with the votes of the peers it has heard *)
(* from; on its timer it runs updateVote with the weight its closePercent_ *)
(* asks for (updateOurPositions) and proposes the changed set, which its   *)
(* peers hear in their own time (peerPosition).  A newer proposal of a     *)
(* peer replaces an older one, so what counts is how far behind each view  *)
(* is, not the messages themselves.                                        *)
(***************************************************************************)
EXTENDS DisputedTx

CONSTANTS
    Nodes,      \* the proposing servers
    Percents    \* the values of closePercent_ the timer may find

ASSUME AvalancheAssumption ==
    /\ IsFiniteSet(Nodes)
    /\ Percents \subseteq Nat
    /\ 200 \in Percents

VARIABLES
    dispute,       \* each server's DisputedTx
    closePercent   \* each server's closePercent_

voteVars == <<dispute, closePercent>>

(* Every server has taken a position and none has heard of another's. *)
AvalancheInit ==
    /\ \E v \in [Nodes -> BOOLEAN] :
          dispute = [n \in Nodes |-> NewDispute(v[n])]
    /\ closePercent = [n \in Nodes |-> 0]

(* n hears the position p has now, and counts its vote. *)
PeerPosition(n, p) ==
    /\ n # p
    /\ dispute' = [dispute EXCEPT ![n] = setVote(@, p, dispute[p].ourVote)]
    /\ UNCHANGED closePercent

(* Fault: the vote is left as it is once the round is stuck. *)
UpdateOurPositionStalled(n, percent) ==
    /\ percent >= closePercent[n]
    /\ closePercent' = [closePercent EXCEPT ![n] = percent]
    /\ dispute' = [dispute EXCEPT ![n] =
          IF percent >= 200 THEN @ ELSE updateVote(@, percent, TRUE)]

(* n's timer fires when the given percentage of the time has passed. *)
UpdateOurPosition(n, percent) ==
    /\ percent >= closePercent[n]
    /\ closePercent' = [closePercent EXCEPT ![n] = percent]
    /\ dispute' = [dispute EXCEPT ![n] = updateVote(@, percent, TRUE)]

AvalancheNext ==
    \/ \E n, p \in Nodes : PeerPosition(n, p)
    \/ \E n \in Nodes, percent \in Percents : UpdateOurPosition(n, percent)

(* Proposals between servers that stay connected arrive, and the heartbeat *)
(* timer keeps firing, so that a round that does not end gets stuck.       *)
AvalancheFairness ==
    /\ \A n, p \in Nodes : WF_voteVars(PeerPosition(n, p))
    /\ \A n \in Nodes : WF_voteVars(UpdateOurPosition(n, 200))

AvalancheSpec ==
    AvalancheInit /\ [][AvalancheNext]_voteVars /\ AvalancheFairness

-----------------------------------------------------------------------------
(* Everybody votes the same way, and everybody knows it. *)
Settled ==
    \E v \in BOOLEAN : \A n \in Nodes :
        /\ dispute[n].ourVote = v
        /\ \A p \in DOMAIN dispute[n].votes : dispute[n].votes[p] = v

(* A settled dispute stays settled: unanimity never changes a vote.        *)
SettledIsStable == [][Settled => Settled']_voteVars

(* Whatever the first votes and however late the views, the avalanche      *)
(* ends: all the servers settle on the same vote.                          *)
EventuallySettled == <>[]Settled
=============================================================================
