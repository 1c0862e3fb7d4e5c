----------------------------- MODULE VoteWeights -----------------------------
(***************************************************************************)
(* The arithmetic of DVF voting power.                                     *)
(*                                                                         *)
(* At each epoch transition the pallet turns the stakes of the validator   *)
(* set into integer weights that share VOTE_WEIGHT_SCALE                   *)
(* (freeze_epoch_weights), and a block is final once the weights that      *)
(* stand behind it reach `FinalityThreshold * total`, a Perbill product.   *)
(***************************************************************************)
EXTENDS Sums

CONSTANTS
    VoteWeightScale,    \* const VOTE_WEIGHT_SCALE, 32_000 in the code
    ThresholdPercent    \* T::FinalityThreshold, Perbill::from_percent(67) in the runtime

ASSUME VoteWeightScaleAssumption == VoteWeightScale \in Nat \ {0}
ASSUME ThresholdPercentAssumption == ThresholdPercent \in 51..100

-----------------------------------------------------------------------------

(* Mutant of NormalizedWeights: heads counted instead of stakes.           *)
EqualWeights(stake) == [v \in DOMAIN stake |-> VoteWeightScale \div Cardinality(DOMAIN stake)]

(* A share of the scale is rounded down; a set that has no stake at all    *)
(* shares the scale evenly.                                                *)
NormalizedWeights(stake) ==
    [v \in DOMAIN stake |->
        IF Total(stake) > 0
        THEN (stake[v] * VoteWeightScale) \div Total(stake)
        ELSE VoteWeightScale \div Cardinality(DOMAIN stake)]

(* Mutant of Threshold: a simple majority.                                 *)
SimpleMajority(total) == total \div 2 + 1

(* Perbill multiplication rounds to the nearest integer and halves down.   *)
Threshold(total) == (ThresholdPercent * total + 49) \div 100

(* The validators of S hold enough of the weight w to finalize a block.    *)
IsQuorum(w, S) == Sum(w, S) >= Threshold(Total(w))

=============================================================================
