---------------------------- MODULE QuorumFinality ----------------------------
(***************************************************************************)
(* What DVF promises of the finalized head of a chain, without rounds,     *)
(* records, tallies or set ids: validators endorse blocks, the weights     *)
(* change from epoch to epoch, and the head moves up, and only up, to a    *)
(* block whose endorsers form a quorum under the weights of the moment.    *)
(***************************************************************************)
EXTENDS VoteWeights

CONSTANTS Validators, Blocks, NoBlock, Number, StakeTables, GenesisStake

VARIABLES weights, endorsers, head

vars == <<weights, endorsers, head>>

-----------------------------------------------------------------------------

HeadNumber == IF head = NoBlock THEN 0 ELSE Number[head]

Init ==
    /\ weights = NormalizedWeights(GenesisStake)
    /\ endorsers = [b \in Blocks |-> {}]
    /\ head = NoBlock

Endorse(v, b) ==
    /\ endorsers' = [endorsers EXCEPT ![b] = @ \cup {v}]
    /\ UNCHANGED <<weights, head>>

Reweigh(stake) ==
    /\ weights' = NormalizedWeights(stake)
    /\ UNCHANGED <<endorsers, head>>

(* Only endorsers that still hold weight count, each of them once.         *)
Finalize(b) ==
    /\ Number[b] > HeadNumber
    /\ IsQuorum(weights, endorsers[b] \cap DOMAIN weights)
    /\ head' = b
    /\ UNCHANGED <<weights, endorsers>>

Next ==
    \/ \E v \in Validators, b \in Blocks : Endorse(v, b)
    \/ \E stake \in StakeTables : Reweigh(stake)
    \/ \E b \in Blocks : Finalize(b)

Spec == Init /\ [][Next]_vars

=============================================================================
