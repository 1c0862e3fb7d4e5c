--------------------------- MODULE DvfPallet_proofs ---------------------------
(***************************************************************************)
(* The safety of the DVF pallet, for every set of validators and blocks,   *)
(* every stake table, retention, checkpoint interval, scale and threshold. *)
(***************************************************************************)
EXTENDS DvfPallet, VoteWeights_proofs

(* Every stake table of the model yields well-typed frozen weights.        *)
LEMMA FrozenWeightsType ==
    ASSUME NEW stake \in StakeTables \cup {GenesisStake}
    PROVE  \E S \in SUBSET Validators :
                S = DOMAIN stake /\ NormalizedWeights(stake) \in [S -> Nat]
<1>1. PICK S \in SUBSET Validators : stake \in [S -> Nat]
    BY StakeAssumption
<1>2. IsFiniteSet(S)
    BY ValidatorsAssumption, FS_Subset
<1>3. NormalizedWeights(stake) \in [S -> 0..VoteWeightScale]
    BY <1>1, <1>2, NormalizedWeightsType
<1>4. NormalizedWeights(stake) \in [S -> Nat]
  <2>1. 0..VoteWeightScale \subseteq Nat
      BY VoteWeightScaleAssumption
  <2> QED  BY <1>3, <2>1
<1>5. S = DOMAIN stake
    BY <1>1
<1> QED  BY <1>4, <1>5

(* finalize_block keeps the types and names a block of the model.          *)
LEMMA FinalizeBlockType ==
    ASSUME TypeOK, NEW b \in Blocks, NEW number \in Nat, NEW round \in Nat,
           NEW records \in SUBSET Record, NEW tallies \in [Blocks -> Nat],
           FinalizeBlock(b, number, round, records, tallies)
    PROVE  /\ finalizedBlockNumber' \in Nat
           /\ finalizedBlockHash' = b
           /\ currentRound' \in Nat
           /\ voteRecords' \subseteq Record
           /\ voteTallies' \in [Blocks -> Nat]
<1>1. finalizedBlockNumber' \in Nat /\ finalizedBlockHash' = b
    BY DEF FinalizeBlock
<1>2. currentRound' \in Nat
    BY DEF FinalizeBlock
<1>3. voteRecords' \subseteq Record
    BY DEF FinalizeBlock, Pruned
<1>4. voteTallies' \in [Blocks -> Nat]
    BY DEF FinalizeBlock
<1> QED  BY <1>1, <1>2, <1>3, <1>4

-----------------------------------------------------------------------------

LEMMA InitType == Init => TypeOK
<1> SUFFICES ASSUME Init PROVE TypeOK
    OBVIOUS
<1>1. PICK S \in SUBSET Validators :
            S = DOMAIN GenesisStake /\ NormalizedWeights(GenesisStake) \in [S -> Nat]
    BY FrozenWeightsType
<1>2. \E T \in SUBSET Validators : epochVotingWeight \in [T -> Nat]
    BY <1>1 DEF Init
<1>3. late \in BOOLEAN
    BY DEF Init
<1> QED  BY <1>1, <1>2, <1>3, MaxSetIdAssumption DEF Init, TypeOK

LEMMA NextType == TypeOK /\ [Next]_vars => TypeOK'
<1> SUFFICES ASSUME TypeOK, [Next]_vars PROVE TypeOK'
    OBVIOUS
<1>1. ASSUME NEW v \in Validators, NEW b \in Blocks, SignVote(v, b)
      PROVE  TypeOK'
  <2> DEFINE vote == [validator |-> v, block |-> b, number |-> Number[b],
                      round |-> currentRound, setId |-> validatorSetId]
  <2>1. vote \in Vote
      BY MaxSetIdAssumption, NumberAssumption DEF TypeOK, Vote
  <2>2. signed' \subseteq Vote
      BY <1>1, <2>1 DEF SignVote, TypeOK
  <2> QED  BY <1>1, <2>2 DEF SignVote, TypeOK, finality, election
<1>2. ASSUME NEW vote \in signed, SubmitDvfVote(vote)
      PROVE  TypeOK'
  <2> DEFINE v == vote.validator
             b == vote.block
             records == voteRecords \cup {[round |-> currentRound, validator |-> v, block |-> b]}
             newTally == voteTallies[b] + epochVotingWeight[v]
             tallies == [voteTallies EXCEPT ![b] = newTally]
  <2>1. v \in Validators /\ b \in Blocks /\ vote.number \in Nat
      BY DEF TypeOK, Vote
  <2>2. records \in SUBSET Record
      BY <2>1 DEF TypeOK, Record
  <2>3. epochVotingWeight[v] \in Nat /\ voteTallies[b] \in Nat
      BY <1>2, <2>1 DEF SubmitDvfVote, TypeOK
  <2>4. tallies \in [Blocks -> Nat]
    <3>1. newTally \in Nat
        BY <2>3
    <3>2. voteTallies \in [Blocks -> Nat]
        BY DEF TypeOK
    <3> HIDE DEF newTally, b
    <3> QED  BY <2>1, <3>1, <3>2
  <2>5. CASE FinalizeBlock(b, vote.number, currentRound, records, tallies)
    <3>1. currentRound \in Nat
        BY DEF TypeOK
    <3> HIDE DEF records, tallies, b
    <3>2. /\ finalizedBlockNumber' \in Nat
          /\ finalizedBlockHash' = b
          /\ currentRound' \in Nat
          /\ voteRecords' \subseteq Record
          /\ voteTallies' \in [Blocks -> Nat]
        BY <2>1, <2>2, <2>4, <2>5, <3>1, FinalizeBlockType
    <3> QED  BY <1>2, <2>1, <3>2 DEF SubmitDvfVote, TypeOK, election
  <2>6. CASE voteRecords' = records /\ voteTallies' = tallies /\ UNCHANGED finality
      BY <1>2, <2>2, <2>4, <2>6 DEF SubmitDvfVote, TypeOK, election, finality
  <2> QED  BY <1>2, <2>5, <2>6 DEF SubmitDvfVote
<1>3. ASSUME NEW s \in signed, NEW Q \in SUBSET Validators,
             SubmitJustification(s, Q)
      PROVE  TypeOK'
  <2>1. s.block \in Blocks /\ s.number \in Nat /\ s.round \in Nat
      BY DEF TypeOK, Vote
  <2>2. voteRecords \in SUBSET Record /\ voteTallies \in [Blocks -> Nat]
      BY DEF TypeOK
  <2>3. FinalizeBlock(s.block, s.number, s.round, voteRecords, voteTallies)
      BY <1>3 DEF SubmitJustification
  <2>4. /\ finalizedBlockNumber' \in Nat
        /\ finalizedBlockHash' = s.block
        /\ currentRound' \in Nat
        /\ voteRecords' \subseteq Record
        /\ voteTallies' \in [Blocks -> Nat]
      BY <2>1, <2>2, <2>3, FinalizeBlockType
  <2> QED  BY <1>3, <2>1, <2>4 DEF SubmitJustification, TypeOK, election
<1>4. ASSUME NEW stake \in StakeTables, FreezeEpochWeights(stake)
      PROVE  TypeOK'
  <2>1. PICK S \in SUBSET Validators :
            S = DOMAIN stake /\ NormalizedWeights(stake) \in [S -> Nat]
      BY FrozenWeightsType
  <2>2. \E T \in SUBSET Validators : epochVotingWeight' \in [T -> Nat]
      BY <1>4, <2>1 DEF FreezeEpochWeights
  <2>3. previousValidatorSet' \in SUBSET Validators
      BY <1>4, <2>1 DEF FreezeEpochWeights
  <2>4. validatorSetId' \in 0..MaxSetId
      BY <1>4, MaxSetIdAssumption DEF FreezeEpochWeights, TypeOK
  <2> QED  BY <1>4, <2>2, <2>3, <2>4 DEF FreezeEpochWeights, TypeOK, finality
<1>5. CASE UNCHANGED vars
    BY <1>5 DEF TypeOK, vars, finality, election
<1> QED  BY <1>1, <1>2, <1>3, <1>4, <1>5 DEF Next, Sign, SubmitVote, Justify, Freeze

(* The pallet's storage keeps its types, in particular every frozen weight *)
(* is that of a validator, a natural number, at every epoch.               *)
THEOREM TypeCorrect == Spec => []TypeOK
<1>1. Init => TypeOK
    BY InitType
<1>2. TypeOK /\ [Next]_vars => TypeOK'
    BY NextType
<1> QED  BY <1>1, <1>2, PTL DEF Spec

-----------------------------------------------------------------------------

(* What the two ways of finalizing have in common: the number and the hash *)
(* of the new head are those of a signed vote that is above the old one.   *)
Advance(vote) ==
    /\ finalizedBlockNumber' = vote.number
    /\ finalizedBlockHash' = vote.block
    /\ vote.number > finalizedBlockNumber

LEMMA HeadStep ==
    ASSUME [Next]_vars
    PROVE  \/ UNCHANGED <<finalizedBlockNumber, finalizedBlockHash>>
           \/ \E vote \in signed : Advance(vote)
<1>1. ASSUME NEW vote \in signed, SubmitDvfVote(vote)
      PROVE  \/ UNCHANGED <<finalizedBlockNumber, finalizedBlockHash>>
             \/ Advance(vote)
    BY <1>1 DEF SubmitDvfVote, FinalizeBlock, Advance, AboveHead, finality
<1>2. ASSUME NEW s \in signed, NEW Q \in SUBSET Validators, SubmitJustification(s, Q)
      PROVE  Advance(s)
    BY <1>2 DEF SubmitJustification, FinalizeBlock, Advance, AboveHead
<1>3. CASE Sign \/ Freeze \/ UNCHANGED vars
    BY <1>3 DEF Sign, SignVote, Freeze, FreezeEpochWeights, vars, finality
<1> QED  BY <1>1, <1>2, <1>3 DEF Next, SubmitVote, Justify

(* The pallet never compares the number of a vote with its hash: that the  *)
(* head's number is its block's rests on the votes being signed for the    *)
(* header's number.                                                        *)
NumbersSigned == \A s \in signed : s.block \in Blocks /\ s.number = Number[s.block]

HeadConsistent ==
    finalizedBlockNumber = IF finalizedBlockHash = NoBlock THEN 0 ELSE Number[finalizedBlockHash]

LEMMA NumbersStep == NumbersSigned /\ [Next]_vars => NumbersSigned'
<1> SUFFICES ASSUME NumbersSigned, [Next]_vars PROVE NumbersSigned'
    OBVIOUS
<1>1. ASSUME NEW v \in Validators, NEW b \in Blocks, SignVote(v, b)
      PROVE  NumbersSigned'
  <2> DEFINE vote == [validator |-> v, block |-> b, number |-> Number[b],
                      round |-> currentRound, setId |-> validatorSetId]
  <2>1. vote.block = b /\ vote.number = Number[b]
      OBVIOUS
  <2>2. signed' = signed \cup {vote}
      BY <1>1 DEF SignVote
  <2> HIDE DEF vote
  <2> QED  BY <2>1, <2>2 DEF NumbersSigned
<1>2. CASE UNCHANGED signed
    BY <1>2 DEF NumbersSigned
<1> QED  BY <1>1, <1>2 DEF Next, Sign, SubmitVote, SubmitDvfVote, Justify, SubmitJustification,
            Freeze, FreezeEpochWeights, vars

LEMMA NumbersAlways == Spec => []NumbersSigned
<1>1. Init => NumbersSigned
    BY DEF Init, NumbersSigned
<1> QED  BY <1>1, NumbersStep, PTL DEF Spec

LEMMA HeadConsistentStep == NumbersSigned /\ HeadConsistent /\ [Next]_vars => HeadConsistent'
<1> SUFFICES ASSUME NumbersSigned, HeadConsistent, [Next]_vars
             PROVE  HeadConsistent'
    OBVIOUS
<1>1. CASE UNCHANGED <<finalizedBlockNumber, finalizedBlockHash>>
    BY <1>1 DEF HeadConsistent
<1>2. ASSUME NEW vote \in signed, Advance(vote)
      PROVE  HeadConsistent'
    BY <1>2, BlocksAssumption DEF HeadConsistent, Advance, NumbersSigned
<1> QED  BY <1>1, <1>2, HeadStep

(* Whatever extrinsics arrive, late or twice, the finalized head only      *)
(* moves up.                                                               *)
THEOREM FinalityIsMonotone == Spec => FinalityMonotone
<1>1. [Next]_vars =>
        [ (finalizedBlockHash' # finalizedBlockHash \/ finalizedBlockNumber' # finalizedBlockNumber)
            => finalizedBlockNumber' > finalizedBlockNumber ]_vars
    BY HeadStep DEF Advance
<1> QED  BY <1>1, PTL DEF Spec, FinalityMonotone

-----------------------------------------------------------------------------

(* What a step does to the records: a vote of a validator that has none in *)
(* the current round is added, or not, and then old rounds are pruned, or  *)
(* not.                                                                    *)
NewRecord(r) ==
    /\ r \in Record
    /\ r.round = currentRound
    /\ ~HasVoted(r.validator, r.round)

Booked(records) ==
    \/ records = voteRecords
    \/ \E r \in Record : NewRecord(r) /\ records = voteRecords \cup {r}

LateFinalization ==
    \E round \in Nat :
        currentRound' = round + 1 /\ voteRecords' = Pruned(voteRecords, round)

LEMMA RecordsStep ==
    ASSUME TypeOK, [Next]_vars
    PROVE  \/ Booked(voteRecords') /\ currentRound' = currentRound
           \/ \E records \in SUBSET Record :
                /\ Booked(records)
                /\ currentRound' = currentRound + 1
                /\ voteRecords' = Pruned(records, currentRound)
           \/ LateFinalization
<1>1. ASSUME NEW vote \in signed, SubmitDvfVote(vote)
      PROVE  \/ Booked(voteRecords') /\ currentRound' = currentRound
             \/ \E records \in SUBSET Record :
                    /\ Booked(records)
                    /\ currentRound' = currentRound + 1
                    /\ voteRecords' = Pruned(records, currentRound)
  <2> DEFINE rec == [round |-> currentRound, validator |-> vote.validator, block |-> vote.block]
  <2>1. rec \in Record /\ rec.round = currentRound /\ rec.validator = vote.validator
      BY DEF TypeOK, Vote, Record
  <2>2. NewRecord(rec)
      BY <1>1, <2>1 DEF SubmitDvfVote, NewRecord
  <2>3. \/ /\ currentRound' = currentRound + 1
           /\ voteRecords' = Pruned(voteRecords \cup {rec}, currentRound)
        \/ voteRecords' = voteRecords \cup {rec} /\ currentRound' = currentRound
      BY <1>1 DEF SubmitDvfVote, FinalizeBlock, finality
  <2>4. voteRecords \cup {rec} \in SUBSET Record
      BY <2>1 DEF TypeOK
  <2>5. Booked(voteRecords \cup {rec})
      BY <2>1, <2>2 DEF Booked
  <2> HIDE DEF rec
  <2> QED  BY <2>3, <2>4, <2>5
<1>2. ASSUME NEW s \in signed, NEW Q \in SUBSET Validators,
             SubmitJustification(s, Q)
      PROVE  LateFinalization
  <2>1. s.round \in Nat
      BY DEF TypeOK, Vote
  <2> QED  BY <1>2, <2>1 DEF SubmitJustification, FinalizeBlock, LateFinalization
<1>3. CASE Sign \/ Freeze \/ UNCHANGED vars
    BY <1>3 DEF Sign, SignVote, Freeze, FreezeEpochWeights, vars, finality, Booked
<1> QED  BY <1>1, <1>2, <1>3 DEF Next, SubmitVote, Justify

(* Storage never holds two records of one validator in one round, although *)
(* late justifications reopen rounds that are over.                        *)
THEOREM RecordsAreUnique == Spec => []OneRecordPerRound
<1>1. Init => OneRecordPerRound
    BY DEF Init, OneRecordPerRound
<1>2. TypeOK /\ OneRecordPerRound /\ [Next]_vars => OneRecordPerRound'
  <2> SUFFICES ASSUME TypeOK, OneRecordPerRound, [Next]_vars
               PROVE  OneRecordPerRound'
      OBVIOUS
  <2>1. ASSUME NEW records, Booked(records)
        PROVE  \A r, s \in records :
                    (r.round = s.round /\ r.validator = s.validator) => r = s
      BY <2>1 DEF OneRecordPerRound, Booked, NewRecord, HasVoted
  <2>2. \A records, round : Pruned(records, round) \subseteq records
      BY DEF Pruned
  <2>3. \E records : Booked(records) /\ voteRecords' \subseteq records
    <3>1. Booked(voteRecords)
        BY DEF Booked
    <3> QED  BY <2>2, <3>1, RecordsStep DEF LateFinalization
  <2> QED  BY <2>1, <2>3 DEF OneRecordPerRound
<1> QED  BY <1>1, <1>2, TypeCorrect, PTL DEF Spec

(* Pruning keeps up with every finalization, also of an old round: storage *)
(* never reaches further back than the retention.                          *)
THEOREM RecordsAreRetained == Spec => []RetentionWindow
<1>1. Init => RetentionWindow
    BY DEF Init, RetentionWindow
<1>2. TypeOK /\ RetentionWindow /\ [Next]_vars => RetentionWindow'
  <2> SUFFICES ASSUME TypeOK, RetentionWindow, [Next]_vars
               PROVE  RetentionWindow'
      OBVIOUS
  <2>1. ASSUME NEW records \in SUBSET Record, NEW round \in Nat,
               currentRound' = round + 1, voteRecords' = Pruned(records, round)
        PROVE  RetentionWindow'
    <3> SUFFICES ASSUME NEW r \in voteRecords'
                 PROVE  r.round + VoteRetentionRounds + 1 >= currentRound'
        BY DEF RetentionWindow
    <3>1. r.round \in Nat /\ (round <= VoteRetentionRounds \/ r.round >= round - VoteRetentionRounds)
        BY <2>1 DEF Pruned, Record
    <3> QED  BY <2>1, <3>1, RetentionAssumption
  <2>2. CASE Booked(voteRecords') /\ currentRound' = currentRound
    <3> SUFFICES ASSUME NEW r \in voteRecords'
                 PROVE  r.round + VoteRetentionRounds + 1 >= currentRound
        BY <2>2 DEF RetentionWindow
    <3>1. CASE r \in voteRecords
        BY <3>1 DEF RetentionWindow
    <3>2. CASE r.round = currentRound
        BY <3>2, RetentionAssumption DEF TypeOK
    <3> QED  BY <2>2, <3>1, <3>2 DEF Booked, NewRecord
  <2>3. voteRecords \in SUBSET Record /\ currentRound \in Nat
      BY DEF TypeOK
  <2> QED  BY <2>1, <2>2, <2>3, RecordsStep DEF LateFinalization
<1> QED  BY <1>1, <1>2, TypeCorrect, PTL DEF Spec

-----------------------------------------------------------------------------

(* The strengthening that makes NoStaleLockout inductive: while            *)
(* justifications are prompt, no record lies in a round still to come, so  *)
(* the round that a finalization opens is empty.                           *)
FreshRounds == late \/ (NoStaleLockout /\ \A r \in voteRecords : r.round <= currentRound)

LEMMA LateStays == ASSUME [Next]_vars, late PROVE late'
    BY DEF Next, Sign, SignVote, SubmitVote, SubmitDvfVote, Justify, SubmitJustification,
           Freeze, FreezeEpochWeights, vars

LEMMA PromptFinalize ==
    ASSUME TypeOK, FreshRounds, [Next]_vars, ~late, ~late',
           ~UNCHANGED <<finalizedBlockNumber, finalizedBlockHash>>
    PROVE  /\ currentRound' = currentRound + 1
           /\ \A r \in voteRecords' : r.round <= currentRound
<1>1. ASSUME NEW records, Booked(records)
      PROVE  \A r \in Pruned(records, currentRound) : r.round <= currentRound
  <2>1. currentRound \in Nat
      BY DEF TypeOK
  <2> QED  BY <1>1, <2>1 DEF Booked, NewRecord, Pruned, FreshRounds
<1>2. ASSUME NEW vote \in signed, SubmitDvfVote(vote)
      PROVE  /\ currentRound' = currentRound + 1
             /\ \A r \in voteRecords' : r.round <= currentRound
  <2> DEFINE rec == [round |-> currentRound, validator |-> vote.validator, block |-> vote.block]
  <2>1. rec \in Record /\ rec.round = currentRound /\ rec.validator = vote.validator
      BY DEF TypeOK, Vote, Record
  <2>2. /\ currentRound' = currentRound + 1
        /\ voteRecords' = Pruned(voteRecords \cup {rec}, currentRound)
        /\ ~HasVoted(vote.validator, currentRound)
      BY <1>2 DEF SubmitDvfVote, FinalizeBlock, finality
  <2>3. Booked(voteRecords \cup {rec})
    <3> HIDE DEF rec
    <3> QED  BY <2>1, <2>2 DEF Booked, NewRecord
  <2> QED  BY <1>1, <2>2, <2>3
<1>3. ASSUME NEW s \in signed, NEW Q \in SUBSET Validators, 
             SubmitJustification(s, Q)
      PROVE  /\ currentRound' = currentRound + 1
             /\ \A r \in voteRecords' : r.round <= currentRound
  <2>1. Booked(voteRecords)
      BY DEF Booked
  <2>2. s.round = currentRound
      BY <1>3 DEF SubmitJustification
  <2> QED  BY <1>1, <1>3, <2>1, <2>2 DEF SubmitJustification, FinalizeBlock
<1>4. ~(Sign \/ Freeze \/ UNCHANGED vars)
    BY DEF Sign, SignVote, Freeze, FreezeEpochWeights, vars, finality
<1> QED  BY <1>2, <1>3, <1>4 DEF Next, SubmitVote, Justify

LEMMA FreshRoundsStep == TypeOK /\ NumbersSigned /\ FreshRounds /\ [Next]_vars => FreshRounds'
<1> SUFFICES ASSUME TypeOK, NumbersSigned, FreshRounds, [Next]_vars, ~late'
             PROVE  FreshRounds'
    BY DEF FreshRounds
<1>0. ~late
    BY LateStays
<1>1. CASE ~UNCHANGED <<finalizedBlockNumber, finalizedBlockHash>>
  <2>1. currentRound \in Nat /\ voteRecords' \subseteq Record
      BY NextType DEF TypeOK
  <2>2. currentRound' = currentRound + 1 /\ \A r \in voteRecords' : r.round <= currentRound
      BY <1>0, <1>1, PromptFinalize
  <2>3. \A r \in voteRecords' : r.round \in Nat
      BY <2>1 DEF Record
  <2>4. \A r \in voteRecords' : r.round <= currentRound' /\ r.round # currentRound'
      BY <2>1, <2>2, <2>3
  <2> QED  BY <2>4 DEF FreshRounds, NoStaleLockout
<1>2. CASE UNCHANGED <<finalizedBlockNumber, finalizedBlockHash>>
  <2>1. ASSUME NEW vote \in signed, SubmitDvfVote(vote)
        PROVE  FreshRounds'
    <3> DEFINE rec == [round |-> currentRound, validator |-> vote.validator, block |-> vote.block]
    <3>1. vote.block \in Blocks /\ currentRound \in Nat /\ finalizedBlockNumber \in Nat
        BY DEF TypeOK, Vote
    <3>2. vote.number \in Nat /\ vote.number = Number[vote.block]
        BY DEF TypeOK, Vote, NumbersSigned
    <3>3. AboveHead(vote.number)
        BY <2>1 DEF SubmitDvfVote
    <3>4. voteRecords' = voteRecords \cup {rec} /\ currentRound' = currentRound
      <4>1. ~(finalizedBlockNumber' = vote.number)
          BY <1>2, <3>1, <3>2, <3>3 DEF AboveHead
      <4> QED  BY <2>1, <4>1 DEF SubmitDvfVote, FinalizeBlock, finality
    <3>5. rec.round = currentRound /\ rec.block = vote.block
        OBVIOUS
    <3> HIDE DEF rec
    <3> QED  BY <1>0, <1>2, <3>1, <3>2, <3>3, <3>4, <3>5 DEF FreshRounds, NoStaleLockout, AboveHead
  <2>2. ASSUME NEW s \in signed, NEW Q \in SUBSET Validators,
               SubmitJustification(s, Q)
        PROVE  FALSE
    <3>1. s.number \in Nat /\ finalizedBlockNumber \in Nat
        BY DEF TypeOK, Vote
    <3> QED  BY <1>2, <2>2, <3>1 DEF SubmitJustification, FinalizeBlock, AboveHead
  <2>3. CASE Sign \/ Freeze \/ UNCHANGED vars
      BY <1>0, <2>3 DEF Sign, SignVote, Freeze, FreezeEpochWeights, vars, finality,
                  FreshRounds, NoStaleLockout, AboveHead
  <2> QED  BY <2>1, <2>2, <2>3 DEF Next, SubmitVote, Justify
<1> QED  BY <1>1, <1>2

(* As long as every justification is included in the round it was built    *)
(* for, a validator's vote for a decided block never counts against it in  *)
(* the round in progress.                                                  *)
THEOREM NoLockoutWhenPrompt == Spec => []NoStaleLockout
<1>1. Init => FreshRounds
    BY DEF Init, FreshRounds, NoStaleLockout
<1>2. TypeOK /\ NumbersSigned /\ FreshRounds /\ [Next]_vars => FreshRounds'
    BY FreshRoundsStep
<1>3. FreshRounds => NoStaleLockout
    BY DEF FreshRounds, NoStaleLockout
<1> QED  BY <1>1, <1>2, <1>3, TypeCorrect, NumbersAlways, PTL DEF Spec

(* Under the same condition every finalization opens the next round, as    *)
(* the comment on CurrentRound says.                                       *)
THEOREM RoundsAdvanceWhenPrompt == Spec => RoundIncrementsOnFinality
<1>1. Init => FreshRounds
    BY DEF Init, FreshRounds, NoStaleLockout
<1>2. TypeOK /\ NumbersSigned /\ FreshRounds /\ [Next]_vars => FreshRounds'
    BY FreshRoundsStep
<1>3. TypeOK /\ FreshRounds /\ [Next]_vars =>
        [finalizedBlockNumber' # finalizedBlockNumber /\ ~late' => currentRound' = currentRound + 1]_vars
    BY PromptFinalize, LateStays
<1> QED  BY <1>1, <1>2, <1>3, TypeCorrect, NumbersAlways, PTL DEF Spec, RoundIncrementsOnFinality

-----------------------------------------------------------------------------

(* The weights in force are always those of the stakes they were frozen    *)
(* from, whatever else has happened since.                                 *)
Frozen ==
    /\ frozenStake \in StakeTables \cup {GenesisStake}
    /\ epochVotingWeight = NormalizedWeights(frozenStake)

LEMMA FrozenAlways == Spec => []Frozen
<1>1. Init => Frozen
    BY DEF Init, Frozen
<1>2. Frozen /\ [Next]_vars => Frozen'
  <2> SUFFICES ASSUME Frozen, [Next]_vars PROVE Frozen'
      OBVIOUS
  <2>1. CASE UNCHANGED election
      BY <2>1 DEF Frozen, election
  <2>2. CASE Freeze
      BY <2>2 DEF Freeze, FreezeEpochWeights, Frozen
  <2>3. Sign \/ SubmitVote \/ Justify \/ UNCHANGED vars => UNCHANGED election
      BY DEF Sign, SignVote, SubmitVote, SubmitDvfVote, Justify, SubmitJustification, vars
  <2> QED  BY <2>1, <2>2, <2>3 DEF Next
<1> QED  BY <1>1, <1>2, PTL DEF Spec

(* A frozen table is one over finitely many validators.                    *)
LEMMA FrozenDomain ==
    ASSUME Frozen
    PROVE  \E D \in SUBSET Validators :
                /\ IsFiniteSet(D) /\ frozenStake \in [D -> Nat]
                /\ DOMAIN epochVotingWeight = D /\ DOMAIN frozenStake = D
<1>1. PICK D \in SUBSET Validators : frozenStake \in [D -> Nat]
    BY StakeAssumption DEF Frozen
<1>2. IsFiniteSet(D)
    BY ValidatorsAssumption, FS_Subset
<1>3. DOMAIN epochVotingWeight = D /\ DOMAIN frozenStake = D
    BY <1>1 DEF Frozen, NormalizedWeights
<1> QED  BY <1>1, <1>2, <1>3

(* With the scale and the threshold of the runtime, what rounding takes    *)
(* from each weight and from the threshold never lets less than two thirds *)
(* of the frozen stake finalize: 201 units for each validator outweigh it. *)
THEOREM TwoThirdsOfStake ==
    ASSUME FineScale
    PROVE  Spec => []QuorumHoldsTwoThirds
<1>1. Frozen => QuorumHoldsTwoThirds
  <2> SUFFICES ASSUME Frozen, NEW Q \in SUBSET DOMAIN epochVotingWeight, IsQuorum(epochVotingWeight, Q)
               PROVE  3 * Sum(frozenStake, Q) >= 2 * Total(frozenStake)
      BY DEF QuorumHoldsTwoThirds
  <2>1. PICK D \in SUBSET Validators :
                /\ IsFiniteSet(D) /\ frozenStake \in [D -> Nat]
                /\ DOMAIN epochVotingWeight = D /\ DOMAIN frozenStake = D
      BY FrozenDomain
  <2>2. ThresholdPercent >= 67 /\ VoteWeightScale >= 201 * Cardinality(D) + 150
      BY <2>1 DEF FineScale, Frozen
  <2>3. IsQuorum(NormalizedWeights(frozenStake), Q) /\ Q \in SUBSET D
      BY <2>1 DEF Frozen
  <2> QED  BY <2>1, <2>2, <2>3, QuorumStake
<1> QED  BY <1>1, FrozenAlways, PTL

(* Nor does rounding keep a group from finalizing that holds the           *)
(* percentage and a unit of the scale for each of its members and one more.*)
THEOREM EnoughStakeFinalizes == Spec => []EnoughStakeIsQuorum
<1>1. Frozen => EnoughStakeIsQuorum
  <2> SUFFICES ASSUME Frozen, NEW Q \in SUBSET DOMAIN epochVotingWeight, Total(frozenStake) > 0,
                      Sum(frozenStake, Q) * VoteWeightScale * 100
                        >= Total(frozenStake) * (ThresholdPercent * VoteWeightScale + 100 * (Cardinality(Q) + 1))
               PROVE  IsQuorum(epochVotingWeight, Q)
      BY DEF EnoughStakeIsQuorum
  <2>1. PICK D \in SUBSET Validators :
                /\ IsFiniteSet(D) /\ frozenStake \in [D -> Nat]
                /\ DOMAIN epochVotingWeight = D /\ DOMAIN frozenStake = D
      BY FrozenDomain
  <2>2. Q \in SUBSET D
      BY <2>1
  <2>3. IsQuorum(NormalizedWeights(frozenStake), Q)
      BY <2>1, <2>2, StakeQuorum
  <2> QED  BY <2>3 DEF Frozen
<1> QED  BY <1>1, FrozenAlways, PTL

-----------------------------------------------------------------------------

LEMMA JustificationIsNext == JustificationNext => Next
    BY DEF JustificationNext, Next

JustificationInv == TypeOK /\ NumbersSigned /\ HeadConsistent

LEMMA JustificationInvariant == JustificationSpec => []JustificationInv
<1>1. Init => JustificationInv
    BY InitType DEF Init, NumbersSigned, HeadConsistent, JustificationInv
<1>2. JustificationInv /\ [JustificationNext]_vars => JustificationInv'
    BY JustificationIsNext, NextType, NumbersStep, HeadConsistentStep DEF JustificationInv
<1> QED  BY <1>1, <1>2, PTL DEF JustificationSpec

(* The distinct voters of an accepted justification are among the signers  *)
(* of its block that hold weight, so these are a quorum too.               *)
LEMMA JustifiedQuorum ==
    ASSUME TypeOK, NEW s \in signed, NEW Q \in SUBSET Validators,
           SubmitJustification(s, Q)
    PROVE  IsQuorum(epochVotingWeight, Signers(s.block) \cap DOMAIN epochVotingWeight)
<1>1. PICK D \in SUBSET Validators : epochVotingWeight \in [D -> Nat]
    BY DEF TypeOK
<1>2. IsFiniteSet(D) /\ DOMAIN epochVotingWeight = D
    BY <1>1, ValidatorsAssumption, FS_Subset
<1>3. Q \subseteq Signers(s.block) \cap D
    BY <1>2 DEF SubmitJustification, VotesFor, Signers
<1>4. Signers(s.block) \cap D \in SUBSET D
    OBVIOUS
<1>5. IsQuorum(epochVotingWeight, Q)
    BY DEF SubmitJustification
<1> QED  BY <1>1, <1>2, <1>3, <1>4, <1>5, QuorumMonotone

(* The instance computes with the weights in the same way.                 *)
LEMMA SameWeights ==
    /\ \A stake : QF!NormalizedWeights(stake) = NormalizedWeights(stake)
    /\ \A w, S : QF!IsQuorum(w, S) = IsQuorum(w, S)
<1>1. \A S : QF!Cardinality(S) = Cardinality(S)
    BY DEF QF!Cardinality, Cardinality
<1>2. \A f, S : QF!Sum(f, S) = Sum(f, S)
    BY <1>1 DEF QF!Sum, Sum, QF!Units, Units
<1>3. \A f : QF!Total(f) = Total(f)
    BY <1>2 DEF QF!Total, Total
<1>4. \A t : QF!Threshold(t) = Threshold(t)
    BY DEF QF!Threshold, Threshold
<1>5. \A stake : QF!NormalizedWeights(stake) = NormalizedWeights(stake)
    BY <1>1, <1>3 DEF QF!NormalizedWeights, NormalizedWeights
<1>6. \A w, S : QF!IsQuorum(w, S) = IsQuorum(w, S)
    BY <1>2, <1>3, <1>4 DEF QF!IsQuorum, IsQuorum
<1> QED  BY <1>5, <1>6

(* A signature adds its validator to the signers of its block.             *)
LEMMA SignersStep ==
    ASSUME NEW v \in Validators, NEW b \in Blocks, SignVote(v, b), NEW c \in Blocks
    PROVE  Signers(c)' = IF c = b THEN Signers(c) \cup {v} ELSE Signers(c)
<1> DEFINE vote == [validator |-> v, block |-> b, number |-> Number[b],
                    round |-> currentRound, setId |-> validatorSetId]
<1>1. vote.validator = v /\ vote.block = b
    OBVIOUS
<1>2. signed' = signed \cup {vote}
    BY DEF SignVote
<1> HIDE DEF vote
<1> QED  BY <1>1, <1>2 DEF Signers

(* The deployed path implements the abstract specification: a step of the  *)
(* pallet signs, reweighs, finalizes a quorum's block above the head, or   *)
(* changes nothing that DVF promises.                                      *)
THEOREM Implementation == JustificationSpec => ImplementsQuorumFinality
<1>1. Init => QF!Init
    BY SameWeights DEF Init, QF!Init, Signers
<1>2. JustificationInv /\ [JustificationNext]_vars => [QF!Next]_QF!vars
  <2> SUFFICES ASSUME TypeOK, NumbersSigned, HeadConsistent, [JustificationNext]_vars
               PROVE  [QF!Next]_QF!vars
      BY DEF JustificationInv
  <2>1. ASSUME NEW v \in Validators, NEW b \in Blocks, SignVote(v, b)
        PROVE  QF!Endorse(v, b)
    <3>1. \A c \in Blocks : Signers(c)' = IF c = b THEN Signers(c) \cup {v} ELSE Signers(c)
        BY <2>1, SignersStep
    <3> QED  BY <2>1, <3>1 DEF SignVote, QF!Endorse, finality, election
  <2>2. ASSUME NEW s \in signed, NEW Q \in SUBSET Validators,
               SubmitJustification(s, Q)
        PROVE  QF!Finalize(s.block) /\ s.block \in Blocks
    <3>1. s.block \in Blocks
        BY DEF TypeOK, Vote
    <3>2. IsQuorum(epochVotingWeight, Signers(s.block) \cap DOMAIN epochVotingWeight)
        BY <2>2, JustifiedQuorum
    <3>3. Number[s.block] > (IF finalizedBlockHash = NoBlock THEN 0 ELSE Number[finalizedBlockHash])
        BY <2>2 DEF SubmitJustification, AboveHead, HeadConsistent, NumbersSigned
    <3>4. QF!IsQuorum(epochVotingWeight,
                      [b \in Blocks |-> Signers(b)][s.block] \cap DOMAIN epochVotingWeight)
        BY <3>1, <3>2, SameWeights
    <3>5. /\ finalizedBlockHash' = s.block
          /\ UNCHANGED <<epochVotingWeight, signed>>
        BY <2>2 DEF SubmitJustification, FinalizeBlock, election
    <3>6. UNCHANGED [b \in Blocks |-> Signers(b)]
        BY <3>5 DEF Signers
    <3> QED  BY <3>1, <3>3, <3>4, <3>5, <3>6 DEF QF!Finalize, QF!HeadNumber
  <2>3. ASSUME NEW stake \in StakeTables, FreezeEpochWeights(stake)
        PROVE  QF!Reweigh(stake)
    <3>1. UNCHANGED [b \in Blocks |-> Signers(b)]
        BY <2>3 DEF FreezeEpochWeights, Signers
    <3> QED  BY <2>3, <3>1, SameWeights DEF FreezeEpochWeights, finality, QF!Reweigh
  <2>4. CASE UNCHANGED vars
      BY <2>4 DEF vars, finality, election, Signers, QF!vars
  <2> QED  BY <2>1, <2>2, <2>3, <2>4 DEF JustificationNext, Sign, Justify, Freeze, QF!Next
<1> QED  BY <1>1, <1>2, JustificationInvariant, PTL
         DEF JustificationSpec, ImplementsQuorumFinality, QF!Spec

=============================================================================
