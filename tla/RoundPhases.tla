---------------------------- MODULE RoundPhases -----------------------------
(***************************************************************************)
(* What the consensus engine promises about the phases of a round, without *)
(* transactions, positions or ledgers: when the phase, the operating mode  *)
(* of the server and the accept job may change, and who may change them.   *)
(* ConsensusRound implements it.                                           *)
(***************************************************************************)

VARIABLES
    state,     \* state_ of the engine
    mMode,     \* mMode of NetworkOPsImp, connected standing for syncing too
    job        \* how far the accept job is

vars == <<state, mMode, job>>

Connected == {"connected", "tracking", "full"}

Init ==
    /\ state = "open"
    /\ mMode \in Connected
    /\ job = "none"

(* processHeartbeatTimer finds too few peers. *)
Disconnect ==
    /\ mMode # "disconnected"
    /\ mMode' = "disconnected"
    /\ UNCHANGED <<state, job>>

(* A round is open or establishing, or its accept job has just been queued. *)
Running(nextState, nextJob) ==
    \/ nextState \in {"open", "establish"} /\ nextJob = "none"
    \/ nextState = "processing" /\ nextJob = "build"

(* processHeartbeatTimer with enough peers: a tick of a round that is open *)
(* or establishing may change the phase, or restart it on another ledger;  *)
(* it never raises the mode above connected.                               *)
Tick ==
    /\ \/ mMode' = mMode /\ mMode # "disconnected"
       \/ mMode' = "connected"
    /\ IF state \in {"open", "establish"} THEN Running(state', job')
       ELSE UNCHANGED <<state, job>>

(* The accept job builds the ledger, makes it the closed one, and then     *)
(* ends the round.                                                         *)
AcceptBuild ==
    /\ job = "build"
    /\ job' = "built"
    /\ UNCHANGED <<state, mMode>>

AcceptSwitch ==
    /\ job = "built"
    /\ job' = "switched"
    /\ UNCHANGED <<state, mMode>>

AcceptDone ==
    /\ job = "switched"
    /\ job' = "end"
    /\ state' = "accepted"
    /\ UNCHANGED mMode

(* endConsensus decides on a mode, sets it whatever it has become in the   *)
(* meantime, and goes on only if the server is connected then.             *)
EndConsensus ==
    /\ job = "end"
    /\ job' = "checked"
    /\ UNCHANGED <<state, mMode>>

SetMode ==
    /\ job = "checked"
    /\ mMode' \in Connected \cup {mMode}
    /\ job' = IF mMode' = "disconnected" THEN "none" ELSE "start"
    /\ UNCHANGED state

(* The next round starts, even if the server was disconnected since. *)
BeginConsensus ==
    /\ job = "start"
    /\ mMode' \in {mMode, "connected"} /\ (mMode = "disconnected" => mMode' = mMode)
    /\ Running(state', job')

Next ==
    \/ Disconnect \/ Tick
    \/ AcceptBuild \/ AcceptSwitch \/ AcceptDone
    \/ EndConsensus \/ SetMode \/ BeginConsensus

Spec == Init /\ [][Next]_vars

(* The heartbeat re-arms itself, and queued jobs are run. *)
Fairness ==
    WF_vars(Tick) /\ WF_vars(AcceptBuild) /\ WF_vars(AcceptSwitch) /\ WF_vars(AcceptDone)
    /\ WF_vars(EndConsensus) /\ WF_vars(SetMode) /\ WF_vars(BeginConsensus)

FairSpec == Spec /\ Fairness
-----------------------------------------------------------------------------
TypeOK ==
    /\ state \in {"open", "establish", "processing", "accepted"}
    /\ mMode \in Connected \cup {"disconnected"}
    /\ job \in {"none", "build", "built", "switched", "end", "checked", "start"}

(* The engine is in the processing state exactly while one accept job is   *)
(* at work: a second job is never queued, and an idle engine is never      *)
(* taken for one that is busy.                                             *)
ProcessingIsTheJob == state = "processing" <=> job \in {"build", "built", "switched"}

(* timerEntry's comment on the accepted state: "NetworkOPs needs to setup  *)
(* the next round", so an accepted ledger is followed by another round.    *)
NextRoundStarts == state = "accepted" ~> state # "accepted"
=============================================================================
