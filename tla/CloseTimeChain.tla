--------------------------- MODULE CloseTimeChain ---------------------------
(***************************************************************************)
(* The close times along one server's chain of ledgers.  startRound picks  *)
(* the resolution of the next close time from the last ledger, and accept  *)
(* turns the close time of our final position into the new ledger's:       *)
(* rounded and pushed past the previous ledger's close time when the       *)
(* validators agreed on one, one second after it when they agreed to       *)
(* disagree (a position whose close time is 0).                            *)
(***************************************************************************)
EXTENDS LedgerTiming, Sequences

CONSTANTS
    Times,     \* the close times positions may carry
    MaxSeq     \* bound on the ledger sequence

ASSUME ChainAssumption ==
    /\ Times \subseteq Nat
    /\ MaxSeq \in Nat

VARIABLES
    seq,          \* the last closed ledger's sequence number
    resolution,   \* its closeTimeResolution
    closeTime,    \* its closeTime
    closeAgree,   \* getCloseAgree of it
    parentClose   \* its parentCloseTime

chainVars == <<seq, resolution, closeTime, closeAgree, parentClose>>

Resolutions == {ledgerPossibleTimeResolutions[i] : i \in 1 .. 6}

TypeOK ==
    /\ seq \in Nat
    /\ resolution \in Resolutions
    /\ closeTime \in Nat
    /\ closeAgree \in BOOLEAN
    /\ parentClose \in Nat

(* The genesis ledger: no parent, the default resolution. *)
ChainInit ==
    /\ seq = 1
    /\ resolution = 30
    /\ closeTime = 0
    /\ closeAgree = TRUE
    /\ parentClose = 0

(* closeResolution_ of the round that builds on the last closed ledger. *)
closeResolution ==
    getNextLedgerTimeResolution(resolution, closeAgree, seq + 1)

(* We agreed to disagree on the close time. *)
AcceptDisagreed ==
    /\ seq < MaxSeq
    /\ seq' = seq + 1
    /\ resolution' = closeResolution
    /\ closeTime' = closeTime + 1
    /\ closeAgree' = FALSE
    /\ parentClose' = closeTime

(* We agreed on the close time t. *)
AcceptAgreed(t) ==
    /\ seq < MaxSeq
    /\ seq' = seq + 1
    /\ resolution' = closeResolution
    /\ closeTime' = effectiveCloseTime(t, closeResolution, closeTime)
    /\ closeAgree' = TRUE
    /\ parentClose' = closeTime

(* The chain of the model ends here. *)
AtBound == seq = MaxSeq /\ UNCHANGED chainVars

ChainNext ==
    \/ AcceptDisagreed
    \/ AtBound
    \/ \E t \in Times \ {0} : AcceptAgreed(t)

ChainSpec == ChainInit /\ [][ChainNext]_chainVars

-----------------------------------------------------------------------------
(* Close times strictly increase along the chain, whatever close times the *)
(* validators propose and whether or not they agree on one.                *)
CloseTimesIncrease == seq > 1 => closeTime > parentClose

(* The resolution only gets coarser after a ledger without agreement, only *)
(* finer after one with agreement (every eighth ledger), and by one notch  *)
(* of the list at a time.                                                  *)
ResolutionFollowsAgreement ==
    [][/\ resolution' > resolution => ~closeAgree
       /\ resolution' < resolution => closeAgree /\ seq' % 8 = 0
       /\ ~\E r \in Resolutions :
              \/ resolution < r /\ r < resolution'
              \/ resolution' < r /\ r < resolution]_chainVars
=============================================================================
