----------------------------- MODULE MCDvfPallet -----------------------------
(* Small instances of DvfPallet: two checkpoints at height 2 that conflict, *)
(* and up to three above them.                                              *)
EXTENDS DvfPallet, TLC

CONSTANTS v1, v2, v3, a2, b2, a4, a6, a8

MCValidators == {v1, v2, v3}

ForkNumber == [b \in Blocks |-> CASE b \in {a2, b2} -> 2 [] b = a4 -> 4 [] b = a6 -> 6 [] b = a8 -> 8]

(* v1 holds half of the stake: it and any other validator are a quorum.    *)
BaseStake == (v1 :> 2) @@ (v2 :> 1) @@ (v3 :> 1)

(* Two validators, of which both are needed.                                *)
PairStake == (v1 :> 1) @@ (v2 :> 1)

(* A change of stakes only, and a change of the validator set.             *)
MovedStake == (v1 :> 1) @@ (v2 :> 1) @@ (v3 :> 2)
SmallerSet == (v1 :> 1) @@ (v2 :> 1)

(* Every distribution of small stakes over up to three validators.         *)
SmallStakes == UNION {[S -> 0..5] : S \in (SUBSET MCValidators) \ {{}}}

NoTables == {}
TwoTables == {MovedStake, SmallerSet}
SetChange == {BaseStake, SmallerSet}

=============================================================================
