----------------------------- MODULE DisputedTx -----------------------------
(***************************************************************************)
(* A transaction that some proposers want in the consensus set and some do *)
(* not (app/ledger/impl/DisputedTx.h): our vote, the votes of the peers    *)
(* and the two counters the code keeps beside them.                        *)
(***************************************************************************)
EXTENDS LedgerTiming, FiniteSets

(* A dispute as the constructor makes it. *)
NewDispute(ourVote) ==
    [ourVote |-> ourVote, yays |-> 0, nays |-> 0, votes |-> <<>>]

One(b) == IF b THEN 1 ELSE 0

(* setVote for each of the peers: a first vote is counted, a changed one   *)
(* moves from one counter to the other, a repeated one counts for nothing. *)
setVotes(d, peers, votesYes) ==
    LET moved == {p \in peers : p \notin DOMAIN d.votes \/ d.votes[p] # votesYes}
        n == Cardinality(moved)
        changed == Cardinality(moved \cap DOMAIN d.votes)
    IN [d EXCEPT
          !.votes = [p \in DOMAIN @ \cup peers |->
                        IF p \in peers THEN votesYes ELSE @[p]],
          !.yays = IF votesYes THEN @ + n ELSE @ - changed,
          !.nays = IF votesYes THEN @ - changed ELSE @ + n]

setVote(d, peer, votesYes) == setVotes(d, {peer}, votesYes)

(* unVote for each of the peers. *)
unVotes(d, peers) ==
    LET gone(v) == Cardinality({p \in peers \cap DOMAIN d.votes : d.votes[p] = v})
    IN [d EXCEPT
          !.votes = [p \in DOMAIN @ \ peers |-> @[p]],
          !.yays = @ - gone(TRUE),
          !.nays = @ - gone(FALSE)]

(* The percentage of the proposers, ourselves included, that vote yes. *)
weightOf(d) == (d.yays * 100 + 100 * One(d.ourVote)) \div (d.nays + d.yays + 1)

(* Fault: unanimity is not looked for and our own vote has no weight. *)
updatedVoteSelfless(d, percentTime, proposing) ==
    (d.yays * 100) \div (d.nays + d.yays + 1) > neededWeight(percentTime)

(* Our vote after updateVote.  Unanimity changes nothing.  A proposing     *)
(* server asks for the weight of the avalanche's stage; one that watches   *)
(* follows the majority.                                                   *)
updatedVote(d, percentTime, proposing) ==
    CASE d.ourVote /\ d.nays = 0 -> TRUE
      [] ~d.ourVote /\ d.yays = 0 -> FALSE
      [] OTHER -> IF proposing THEN weightOf(d) > neededWeight(percentTime)
                  ELSE d.yays > d.nays

updateVote(d, percentTime, proposing) ==
    [d EXCEPT !.ourVote = updatedVote(d, percentTime, proposing)]
=============================================================================
