------------------------------ MODULE DvfPallet ------------------------------
(***************************************************************************)
(* The finality half of pallet-cerulea-dvf on one chain: the weights that  *)
(* an epoch transition freezes, the vote extrinsic with its records and    *)
(* tallies, the justification extrinsic, and what both do to the           *)
(* finalized head and the voting round.                                    *)
(*                                                                         *)
(* Votes are created off chain, by the vote creator of each validator's    *)
(* node, from the round and the set id it reads on chain at that moment.   *)
(* A signed vote stays available forever: it may reach the chain late,     *)
(* twice, inside several justifications, or never.  Signatures are those   *)
(* of the validators named.  The block number in a vote is what the vote   *)
(* creator read in the header; the pallet never compares it with the hash. *)
(* A dispatch that fails is rolled back, so it is no step here.            *)
(***************************************************************************)
EXTENDS VoteWeights

CONSTANTS
    Validators,
    Blocks,                     \* the blocks a validator may vote for
    NoBlock,                    \* FinalizedBlockHash = None
    Number,                     \* Number[b]: the number in the header of b
    FinalityCheckpointInterval,
    VoteRetentionRounds,
    StakeTables,                \* the validator sets an epoch may freeze, with their stakes
    GenesisStake,               \* initial_validator_weights
    MaxSetId                    \* bound: epoch transitions stop changing the set here

ASSUME ValidatorsAssumption == IsFiniteSet(Validators)
ASSUME BlocksAssumption == NoBlock \notin Blocks
ASSUME NumberAssumption == Number \in [Blocks -> Nat \ {0}]
ASSUME IntervalAssumption == FinalityCheckpointInterval \in Nat
ASSUME RetentionAssumption == VoteRetentionRounds \in Nat
ASSUME StakeAssumption ==
    /\ \A stake \in StakeTables \cup {GenesisStake} :
            \E S \in SUBSET Validators : stake \in [S -> Nat]
    /\ DOMAIN GenesisStake # {}
ASSUME MaxSetIdAssumption == MaxSetId \in Nat

VARIABLES
    epochVotingWeight,      \* EpochVotingWeight; TotalVotingWeight is Total of it
    currentRound,           \* CurrentRound
    finalizedBlockNumber,   \* FinalizedBlockNumber
    finalizedBlockHash,     \* FinalizedBlockHash
    voteRecords,            \* VoteRecords: at most one per round and validator
    voteTallies,            \* VoteTallies
    validatorSetId,         \* ValidatorSetId
    previousValidatorSet,   \* PreviousValidatorSet
    frozenStake,            \* history: the stakes that the weights were made from
    signed,                 \* off chain: every vote that was ever signed
    late                    \* history: was a justification ever included outside its round?

finality == <<currentRound, finalizedBlockNumber, finalizedBlockHash>>
election == <<epochVotingWeight, validatorSetId, previousValidatorSet, frozenStake>>
vars == <<finality, election, voteRecords, voteTallies, signed, late>>

-----------------------------------------------------------------------------

Vote ==
    [validator : Validators, block : Blocks, number : Nat, round : Nat, setId : Nat]

Record == [round : Nat, validator : Validators, block : Blocks]

IsCheckpointBlock(number) ==
    /\ FinalityCheckpointInterval # 0
    /\ number % FinalityCheckpointInterval = 0

(* Mutants of AboveHead: anything but the head, and its siblings too.      *)
NotTheHead(number) == number # finalizedBlockNumber

AtOrAboveHead(number) == number >= finalizedBlockNumber

AboveHead(number) == number > finalizedBlockNumber

(* Mutant of HasVoted: a vote of an earlier round is looked up.            *)
HasVotedBefore(v, round) == \E r \in voteRecords : r.round < round /\ r.validator = v

HasVoted(v, round) == \E r \in voteRecords : r.round = round /\ r.validator = v

(* Mutant of VotesFor: the block hash of the votes is not compared.        *)
VotesOfRound(b, round, setId) ==
    {v \in Validators :
        \E s \in signed : s.validator = v /\ s.round = round /\ s.setId = setId}

(* The signatures a justification for b in this round can carry, whatever  *)
(* block number they are for.                                              *)
VotesFor(b, round, setId) ==
    {v \in Validators :
        \E s \in signed :
            s.validator = v /\ s.block = b /\ s.round = round /\ s.setId = setId}

(* Mutant of Pruned: one round too many is kept.                           *)
PrunedOneShort(records, round) ==
    {r \in records : round <= VoteRetentionRounds + 1 \/ r.round >= round - VoteRetentionRounds - 1}

(* prune_vote_records: nothing is old before the retention has filled up.  *)
Pruned(records, round) ==
    {r \in records : round <= VoteRetentionRounds \/ r.round >= round - VoteRetentionRounds}

(* Mutants of FinalizeBlock: the round stays, the round follows the height.*)
FinalizeInSameRound(b, number, round, records, tallies) ==
    /\ finalizedBlockNumber' = number
    /\ finalizedBlockHash' = b
    /\ currentRound' = round
    /\ voteRecords' = Pruned(records, round)
    /\ voteTallies' = [tallies EXCEPT ![b] = 0]

FinalizeByHeight(b, number, round, records, tallies) ==
    /\ finalizedBlockNumber' = number
    /\ finalizedBlockHash' = b
    /\ currentRound' = number
    /\ voteRecords' = Pruned(records, round)
    /\ voteTallies' = [tallies EXCEPT ![b] = 0]

(* finalize_block: the new head, the round after the one that finalized    *)
(* it, and the clean-up of the old records and of this block's tally.      *)
FinalizeBlock(b, number, round, records, tallies) ==
    /\ finalizedBlockNumber' = number
    /\ finalizedBlockHash' = b
    /\ currentRound' = round + 1
    /\ voteRecords' = Pruned(records, round)
    /\ voteTallies' = [tallies EXCEPT ![b] = 0]

-----------------------------------------------------------------------------

(* The genesis weights are frozen under set id 0.                          *)
Init ==
    /\ epochVotingWeight = NormalizedWeights(GenesisStake)
    /\ currentRound = 0
    /\ finalizedBlockNumber = 0
    /\ finalizedBlockHash = NoBlock
    /\ voteRecords = {}
    /\ voteTallies = [b \in Blocks |-> 0]
    /\ validatorSetId = 0
    /\ previousValidatorSet = DOMAIN GenesisStake
    /\ frozenStake = GenesisStake
    /\ signed = {}
    /\ late = FALSE

(* The vote creator sees a checkpoint block being imported, once, and      *)
(* signs its hash and number for the round and the set id of the moment.   *)
SignVote(v, b) ==
    /\ IsCheckpointBlock(Number[b])
    /\ \A s \in signed : ~(s.validator = v /\ s.block = b)
    /\ signed' = signed \cup
            {[validator |-> v, block |-> b, number |-> Number[b],
              round |-> currentRound, setId |-> validatorSetId]}
    /\ UNCHANGED <<finality, election, voteRecords, voteTallies, late>>

(* submit_dvf_vote.  The vote is booked under the round of the chain,      *)
(* whatever round, epoch and set id it was signed for.                     *)
SubmitDvfVote(vote) ==
    LET v == vote.validator
        b == vote.block
        records == voteRecords \cup {[round |-> currentRound, validator |-> v, block |-> b]}
        newTally == voteTallies[b] + epochVotingWeight[v]
        tallies == [voteTallies EXCEPT ![b] = newTally]
    IN  /\ v \in DOMAIN epochVotingWeight
        /\ IsCheckpointBlock(vote.number)
        /\ AboveHead(vote.number)
        /\ ~HasVoted(v, currentRound)
        /\ IF newTally >= Threshold(Total(epochVotingWeight))
           THEN FinalizeBlock(b, vote.number, currentRound, records, tallies)
           ELSE voteRecords' = records /\ voteTallies' = tallies /\ UNCHANGED finality
        /\ UNCHANGED <<election, signed, late>>

(* submit_justification: distinct validators of the frozen set, all with   *)
(* the block, the round and the set id of the first vote.  The set id and  *)
(* the round are not compared with the chain's, and the block number is    *)
(* the first vote's alone.                                                 *)
SubmitJustification(first, Q) ==
    /\ first.validator \in Q
    /\ IsCheckpointBlock(first.number)
    /\ AboveHead(first.number)
    /\ Q \subseteq VotesFor(first.block, first.round, first.setId)
    /\ Q \subseteq DOMAIN epochVotingWeight
    /\ IsQuorum(epochVotingWeight, Q)
    /\ FinalizeBlock(first.block, first.number, first.round, voteRecords, voteTallies)
    /\ late' = (late \/ first.round # currentRound)
    /\ UNCHANGED <<election, signed>>

(* freeze_epoch_weights, called by the DCF epoch transition.  The set id   *)
(* moves only when the membership does; records and tallies stay.          *)
FreezeEpochWeights(stake) ==
    /\ epochVotingWeight' = NormalizedWeights(stake)
    /\ previousValidatorSet' = DOMAIN stake
    /\ validatorSetId' = IF DOMAIN stake = previousValidatorSet
                         THEN validatorSetId ELSE validatorSetId + 1
    /\ validatorSetId' <= MaxSetId
    /\ frozenStake' = stake
    /\ UNCHANGED <<finality, voteRecords, voteTallies, signed, late>>

-----------------------------------------------------------------------------

Sign == \E v \in Validators, b \in Blocks : SignVote(v, b)

SubmitVote == \E vote \in signed : SubmitDvfVote(vote)

Justify ==
    \E first \in signed, Q \in SUBSET Validators : SubmitJustification(first, Q)

Freeze == \E stake \in StakeTables : FreezeEpochWeights(stake)

Next == Sign \/ SubmitVote \/ Justify \/ Freeze

(* Both extrinsics, in any order and at any delay.                         *)
Spec == Init /\ [][Next]_vars

(* The deployed nodes: they submit justifications and no single votes.     *)
JustificationNext == Sign \/ Justify \/ Freeze

JustificationSpec == Init /\ [][JustificationNext]_vars

-----------------------------------------------------------------------------

(* The storage types, the double map's key (one record per round and       *)
(* validator), and one vote per validator and block.                       *)
TypeOK ==
    /\ \E S \in SUBSET Validators : epochVotingWeight \in [S -> Nat]
    /\ currentRound \in Nat
    /\ finalizedBlockNumber \in Nat
    /\ finalizedBlockHash \in Blocks \cup {NoBlock}
    /\ voteRecords \subseteq Record
    /\ voteTallies \in [Blocks -> Nat]
    /\ validatorSetId \in 0..MaxSetId
    /\ previousValidatorSet \in SUBSET Validators
    /\ signed \subseteq Vote
    /\ late \in BOOLEAN

(* The head never moves down or sideways: a late vote or justification for *)
(* a block at or below it, or for its sibling, has no effect.              *)
FinalityMonotone ==
    [][ (finalizedBlockHash' # finalizedBlockHash \/ finalizedBlockNumber' # finalizedBlockNumber)
            => finalizedBlockNumber' > finalizedBlockNumber ]_vars

(* After any finalization, also of an old round by a late justification,   *)
(* no record is left that VoteRetentionRounds puts out of reach: storage   *)
(* holds at most that many rounds before the one that finalized last.      *)
RetentionWindow ==
    \A r \in voteRecords : r.round + VoteRetentionRounds + 1 >= currentRound

(* At most one record per round and validator: two extrinsics carrying     *)
(* different votes of one validator never both count in one round, also    *)
(* when a late justification takes the round back to an earlier one.       *)
OneRecordPerRound ==
    \A r, s \in voteRecords :
        (r.round = s.round /\ r.validator = s.validator) => r = s

(* No validator is kept from voting by its vote for a block that is        *)
(* already decided: the records of the round in progress are all for       *)
(* blocks above the head, as finalization opens a round that is new - as   *)
(* long as no justification came after its own round was over.             *)
NoStaleLockout ==
    late \/ \A r \in voteRecords : r.round = currentRound => AboveHead(Number[r.block])

(* "Incremented after each successfully finalized block", whichever        *)
(* extrinsic finalizes it, under the same condition.                       *)
RoundIncrementsOnFinality ==
    [][ finalizedBlockNumber' # finalizedBlockNumber /\ ~late'
            => currentRound' = currentRound + 1 ]_vars

(* A block is finalized only when distinct validators that hold a quorum   *)
(* of the frozen weights have signed for it.                               *)
Signers(b) == {v \in Validators : \E s \in signed : s.validator = v /\ s.block = b}

QuorumSigned ==
    [][ finalizedBlockHash' # finalizedBlockHash
            => IsQuorum(epochVotingWeight, Signers(finalizedBlockHash') \cap DOMAIN epochVotingWeight) ]_vars

(* The percentage, the rounding of every weight and the rounding of the    *)
(* threshold together never let less than two thirds of the stake that was *)
(* frozen finalize a block.                                                *)
QuorumHoldsTwoThirds ==
    \A Q \in SUBSET DOMAIN epochVotingWeight :
        IsQuorum(epochVotingWeight, Q) => 3 * Sum(frozenStake, Q) >= 2 * Total(frozenStake)

(* Nor do they keep a group from finalizing that holds the percentage and  *)
(* one unit of the scale for each of its members and one more.             *)
EnoughStakeIsQuorum ==
    \A Q \in SUBSET DOMAIN epochVotingWeight :
        (Total(frozenStake) > 0 /\ Sum(frozenStake, Q) * VoteWeightScale * 100
            >= Total(frozenStake) * (ThresholdPercent * VoteWeightScale + 100 * (Cardinality(Q) + 1)))
        => IsQuorum(epochVotingWeight, Q)

(* The scale against which two thirds are safe: VOTE_WEIGHT_SCALE is       *)
(* 32_000, FinalityThreshold 67 %, and no set is larger than MaxValidators,*)
(* which is 100.                                                           *)
FineScale ==
    /\ ThresholdPercent >= 67
    /\ \A stake \in StakeTables \cup {GenesisStake} :
            VoteWeightScale >= 201 * Cardinality(DOMAIN stake) + 150

(* The justification path implements the promise of DVF.                   *)
QF == INSTANCE QuorumFinality WITH
        weights   <- epochVotingWeight,
        endorsers <- [b \in Blocks |-> Signers(b)],
        head      <- finalizedBlockHash

ImplementsQuorumFinality == QF!Spec

=============================================================================
