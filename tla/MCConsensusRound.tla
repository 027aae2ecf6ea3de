-------------------------- MODULE MCConsensusRound --------------------------
(***************************************************************************)
(* ConsensusRound for TLC.  "Votes": two peers whose positions cross, one  *)
(* round, every order of proposals, sets and ticks.  "Switch": one peer    *)
(* and a network that may prefer another ledger, two rounds.               *)
(***************************************************************************)
EXTENDS ConsensusRound

CONSTANTS p1, p2, a, b

VotesProposals ==
    { [from |-> p1, prev |-> Genesis, seq |-> 0, set |-> {a}],
      [from |-> p1, prev |-> Genesis, seq |-> 1, set |-> {b}],
      [from |-> p2, prev |-> Genesis, seq |-> 0, set |-> {b}],
      [from |-> p2, prev |-> Genesis, seq |-> seqLeave, set |-> {}] }

(* A proposal is stale after PROPOSE_FRESHNESS, which is 20 seconds. *)
VotesViews ==
    { v \in [net : {NoLedger}, time : {0, 10000, 20000}, idle : {TRUE},
             finished : {0, 2}, stale : {{}, {p1}}, timeAgreed : BOOLEAN,
             refresh : BOOLEAN, open : {{}}] :
        /\ v.stale # {} => v.time = 20000 /\ v.finished = 0
        /\ v.refresh => v.timeAgreed }

SwitchLedgers == {<<{a}>>, <<{}>>}

SwitchProposals ==
    { [from |-> p1, prev |-> Genesis, seq |-> 0, set |-> {a}],
      [from |-> p1, prev |-> <<{a}>>, seq |-> 0, set |-> {a}],
      [from |-> p1, prev |-> <<{a}>>, seq |-> seqLeave, set |-> {a}] }

(* A tick at the start of a round changes nothing but the phase. *)
SwitchViews ==
    { v \in [net : SwitchLedgers \cup {NoLedger}, time : {0, 20000},
             idle : {TRUE}, finished : {0}, stale : {{}, {p1}}, timeAgreed : {TRUE},
             refresh : {FALSE}, open : {{}, {a}}] :
        /\ v.time = 0 => v.net = NoLedger /\ v.stale = {} /\ v.open = {}
        /\ v.stale = {p1} => v.net = NoLedger
        /\ v.time = 20000 => (v.stale = {p1} <=> v.open = {}) }
=============================================================================
