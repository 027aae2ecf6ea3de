---------------------------- MODULE LedgerTiming ----------------------------
(***************************************************************************)
(* The decisions of app/ledger/LedgerTiming.h and impl/LedgerTiming.cpp,   *)
(* with the percentage rules LedgerConsensusImp keeps beside them:         *)
(* when to close the open ledger, when a position has consensus, how close *)
(* times are rounded and how their resolution moves.                       *)
(*                                                                         *)
(* Durations of a round are milliseconds.  Close times and their           *)
(* resolutions are seconds; the time 0 is NetClock::time_point{}.          *)
(***************************************************************************)
EXTENDS Integers

minimumConsensusPercentage == 80
LEDGER_IDLE_INTERVAL == 10000
LEDGER_MIN_CONSENSUS == 1950
LEDGER_MIN_CLOSE == 2000
AV_MIN_CONSENSUS_TIME == 5000

(* The percentage of yes votes the avalanche asks for, by how much of the  *)
(* expected round time has passed.                                         *)
neededWeight(closePercent) ==
    CASE closePercent < 50  -> 50
      [] closePercent \in 50 .. 84 -> 65
      [] closePercent \in 85 .. 199 -> 70
      [] OTHER -> 95

closePercentOf(roundTime, previousRoundTime) ==
    (roundTime * 100) \div
        (IF previousRoundTime < AV_MIN_CONSENSUS_TIME
         THEN AV_MIN_CONSENSUS_TIME ELSE previousRoundTime)

shouldCloseLedger(anyTransactions, previousProposers, proposersClosed, proposersValidated, previousTime, currentTime, openTime, idleInterval) ==
    \/ previousTime < -1000
    \/ previousTime > 600000
    \/ currentTime > 600000
    \/ proposersClosed + proposersValidated > previousProposers \div 2
    \/ ~anyTransactions /\ currentTime >= idleInterval
    \/ /\ anyTransactions
       /\ openTime >= LEDGER_MIN_CLOSE
       /\ openTime >= previousTime \div 2

checkConsensusReached(agreeing, total, count_self) ==
    \/ total = 0
    \/ LET self == IF count_self THEN 1 ELSE 0
       IN ((agreeing + self) * 100) \div (total + self)
              > minimumConsensusPercentage

(* What checkConsensus answers: No, MovedOn or Yes. *)
checkConsensus(previousProposers, currentProposers, currentAgree, currentFinished, previousAgreeTime, currentAgreeTime, proposing) ==
    CASE currentAgreeTime <= LEDGER_MIN_CONSENSUS -> "No"
      [] /\ currentAgreeTime > LEDGER_MIN_CONSENSUS
         /\ currentProposers < (previousProposers * 3) \div 4
         /\ currentAgreeTime < previousAgreeTime + LEDGER_MIN_CONSENSUS -> "No"
      [] OTHER ->
            CASE checkConsensusReached(currentAgree, currentProposers, proposing)
                    -> "Yes"
              [] /\ ~checkConsensusReached(currentAgree, currentProposers, proposing)
                 /\ checkConsensusReached(currentFinished, currentProposers, FALSE)
                    -> "MovedOn"
              [] OTHER -> "No"

roundCloseTime(closeTime, closeResolution) ==
    IF closeTime = 0 THEN 0
    ELSE LET t == closeTime + closeResolution \div 2
         IN t - (t % closeResolution)

(* Fault: the rounded time is taken as it is. *)
effectiveCloseTimeBare(closeTime, closeResolution, previousClose) ==
    roundCloseTime(closeTime, closeResolution)

effectiveCloseTime(closeTime, closeResolution, previousClose) ==
    IF closeTime = 0 THEN 0
    ELSE LET rounded == roundCloseTime(closeTime, closeResolution)
         IN IF rounded > previousClose + 1 THEN rounded ELSE previousClose + 1

(* All possible close time resolutions, finest first. *)
ledgerPossibleTimeResolutions == <<10, 20, 30, 60, 90, 120>>
increaseLedgerTimeResolutionEvery == 8
decreaseLedgerTimeResolutionEvery == 1

(* Fault: a round that agreed moves to a coarser resolution. *)
getNextLedgerTimeResolutionSwapped(previousResolution, previousAgree, ledgerSeq) ==
    LET R == ledgerPossibleTimeResolutions
        i == CHOOSE k \in 1 .. 6 : R[k] = previousResolution
    IN CASE previousAgree /\ ledgerSeq % 8 = 0 /\ i < 6 -> R[i + 1]
         [] ~previousAgree /\ i > 1 -> R[i - 1]
         [] OTHER -> previousResolution

getNextLedgerTimeResolution(previousResolution, previousAgree, ledgerSeq) ==
    LET R == ledgerPossibleTimeResolutions
        i == CHOOSE k \in 1 .. 6 : R[k] = previousResolution
    IN CASE /\ ~previousAgree
            /\ ledgerSeq % decreaseLedgerTimeResolutionEvery = 0
            /\ i < 6 -> R[i + 1]
         [] /\ previousAgree
            /\ ledgerSeq % increaseLedgerTimeResolutionEvery = 0
            /\ i > 1 -> R[i - 1]
         [] OTHER -> previousResolution
=============================================================================
