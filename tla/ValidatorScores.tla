---------------------------- MODULE ValidatorScores ----------------------------
(***************************************************************************)
(* What decides who keeps a seat: the scores in ValidatorStates, which the *)
(* DVF pallet stores for the DCF pallet, and the weights they are made     *)
(* with.  At an epoch boundary the score of every member is computed from  *)
(* its share of the stake and its inference result; until the next one it  *)
(* is boosted by authorship, decayed, recomputed on anybody's request from *)
(* stakes in another unit, and checked every so many blocks.               *)
(*                                                                         *)
(* last_active_epoch is modelled by the epochs since.  Who may join and    *)
(* leave when is the matter of ValidatorRegistry, and what backs a stake   *)
(* that of StakeLedger; the calls appear here with what they do to scores, *)
(* seats and the stakes of members.  Trust scores, uptime and              *)
(* participation are left out: no decision of the chain reads them.        *)
(***************************************************************************)
EXTENDS Sums

CONSTANTS
    Accounts,
    Genesis,            \* the members of the genesis configuration
    Stakes,             \* bound: what an account may have at stake
    Results,            \* bound: the inference results
    WeightPairs,        \* bound: the weights root may choose
    Precision,          \* T::PercentagePrecision, 10000 in the runtime
    StakeScale,         \* STAKE_SCORE_SCALE, 32000
    GenesisDivisor,     \* T::RewardBoostDivisor, 1000
    MaxScore,           \* T::MaxValidatorScore, 100
    MinScore,           \* MinValidatorScore, 50, also the score of a newcomer
    AuthorshipBoost,    \* T::BlockAuthorshipBoost, 10
    DecayRate,          \* ValidatorScoreDecay, 5
    MaxInactiveEpochs,  \* T::MaxInactiveEpochs, 5
    BlocksPerEpoch, DecayInterval, CheckInterval,       \* 100, 10 and 50 blocks
    DefaultWeights,     \* T::DefaultPosWeight and T::DefaultPoiWeight, 6000 and 4000
    Rewards,            \* bound: what is paid to a validator
    MaxRootCalls,       \* bound: the calls of root, and rewards and slashes whoever decides them
    MaxStakeScore       \* bound: how far stakes raise a stake score

ASSUME MembersAssumption == Genesis \subseteq Accounts /\ Genesis # {} /\ IsFiniteSet(Accounts)
ASSUME StakesAssumption == Stakes \subseteq Nat \ {0} /\ Results \subseteq Nat /\ Rewards \subseteq Nat
ASSUME ScaleAssumption ==
    /\ {Precision, StakeScale, GenesisDivisor, BlocksPerEpoch, DecayInterval, CheckInterval} \subseteq Nat \ {0}
    /\ {AuthorshipBoost, MaxInactiveEpochs} \subseteq Nat /\ DecayRate \in 0 .. Precision
    /\ MaxScore \in Nat \ {0}
    /\ MinScore \in 0 .. MaxScore
ASSUME WeightsAssumption ==
    /\ WeightPairs \cup {DefaultWeights} \subseteq [pos : Nat, poi : Nat]
    /\ \A w \in WeightPairs \cup {DefaultWeights} : w.pos + w.poi = Precision

VARIABLES
    stake,              \* pos::Stake
    members,            \* ValidatorSet
    seats,              \* ActiveValidators
    state,              \* ValidatorStates
    weights,            \* PosWeight and PoiWeight
    results,            \* poi::InferenceResults
    blockInEpoch,       \* the block number within its epoch
    judged,             \* history: the members that the last boundary judged
    fit,                \* history: those it found fit and that have not left since,
                        \* unless root, a slash or they themselves intervened
    sudos,              \* history: the epochs that sudo has advanced since
    rootCalls           \* the calls of root so far, bounded by MaxRootCalls

history == <<judged, fit, sudos, rootCalls>>
scoresVars == <<stake, members, seats, state, weights, results, blockInEpoch, history>>

-----------------------------------------------------------------------------

Least(a, b) == IF a < b THEN a ELSE b

(* saturating_sub *)
Monus(a, b) == IF a > b THEN a - b ELSE 0

(* update_final_score, by the weights of the moment.                       *)
FinalScore(stakeScore, inference) ==
    Least(MaxScore, (stakeScore * weights.pos + inference * weights.poi) \div Precision)

Rescored(s, stakeScore, inference) ==
    [s EXCEPT !.stake = stakeScore, !.inference = inference,
              !.final = FinalScore(stakeScore, inference), !.idle = 0]

TotalStake == Sum(stake, members)

(* Mutant of StakeShare: divided before it is scaled.                      *)
StakeShareOfWholes(v) == IF TotalStake = 0 THEN 0 ELSE (stake[v] \div TotalStake) * StakeScale

(* The stake score of a boundary is a share of the members' stake.         *)
StakeShare(v) == IF TotalStake = 0 THEN 0 ELSE (stake[v] * StakeScale) \div TotalStake

(* poi::get_score                                                          *)
InferenceScore(v) == IF v \in DOMAIN results THEN results[v] ELSE 0

(* Mutant of Aggregated: only those that have a seat.                      *)
AggregatedSeats ==
    [v \in DOMAIN state |-> IF v \in members \cap seats
                            THEN Rescored(state[v], StakeShare(v), InferenceScore(v))
                            ELSE state[v]]

(* run_comprehensive_score_aggregation                                     *)
Aggregated ==
    [v \in DOMAIN state |-> IF v \in members
                            THEN Rescored(state[v], StakeShare(v), InferenceScore(v))
                            ELSE state[v]]

(* record_block_authorship and boost_score                                 *)
Boosted(s) == [s EXCEPT !.final = Least(MaxScore, @ + AuthorshipBoost), !.idle = 0]

(* Mutant of Decayed: rounded up.                                          *)
DecayedAtLeastOne(s) ==
    IF s.idle = 0 THEN s
    ELSE [s EXCEPT !.final = Least(MaxScore, @ - ((@ * DecayRate + Precision - 1) \div Precision))]

(* apply_score_decay: with the constants of the runtime the decay of a     *)
(* score within MaxScore is zero, and only the cap takes effect.           *)
Decayed(s) ==
    IF s.idle = 0 THEN s
    ELSE [s EXCEPT !.final = Least(MaxScore, @ - ((@ * DecayRate) \div Precision))]

(* One more epoch, counted up to where it makes no difference.             *)
Older(states) == [v \in DOMAIN states |->
                    [states[v] EXCEPT !.idle = Least(@ + 1, MaxInactiveEpochs + 1)]]

LosesSeat(s) == s.final < MinScore \/ s.idle > MaxInactiveEpochs

-----------------------------------------------------------------------------

GenesisState(v) ==
    LET stakeScore == stake[v] \div GenesisDivisor
    IN  [stake |-> stakeScore, inference |-> results[v], idle |-> 0,
         final |-> (stakeScore * weights.pos + results[v] * weights.poi) \div Precision]

(* The genesis build does not cap the scores.                              *)
ScoresInit ==
    /\ stake \in [Accounts -> Stakes \cup {0}]
    /\ \A v \in Accounts : stake[v] # 0 <=> v \in Genesis
    /\ members = Genesis
    /\ seats = Genesis
    /\ weights = DefaultWeights
    /\ results \in [Genesis -> Results]
    /\ state = [v \in Genesis |-> GenesisState(v)]
    /\ blockInEpoch = 0
    /\ judged = Genesis
    /\ fit = {v \in Genesis : state[v].final >= MinScore}
    /\ sudos = 0
    /\ rootCalls = 0

(* apply_pending_validator_actions gives seats to accounts that asked for  *)
(* one, or that generate_automatic_validator_proposals asked for: not to   *)
(* those below the minimum, and not to all of them (see Admissions).       *)
Admissible(states) == SUBSET {v \in DOMAIN states \ seats : states[v].final >= MinScore}

(* handle_comprehensive_epoch_transition: the aggregation, still in the    *)
(* old epoch, comes before the seats and the new epoch.                    *)
BoundaryBlock ==
    /\ blockInEpoch = BlocksPerEpoch - 1
    /\ blockInEpoch' = 0
    /\ state' = Older(Aggregated)
    /\ \E J \in Admissible(Aggregated) : seats' = seats \cup J
    /\ judged' = members
    /\ fit' = {v \in members : Aggregated[v].final >= MinScore}
    /\ sudos' = 0
    /\ UNCHANGED <<stake, members, weights, results, rootCalls>>

(* extract_block_author reads the digest: it is the expected author, or    *)
(* somebody else who gets no boost.                                        *)
Authors == {{}} \cup {{v} : v \in seats}

(* process_block_authorship and record_block_authorship                    *)
Authored(author) ==
    [v \in DOMAIN state |-> IF v \in author THEN Boosted(state[v]) ELSE state[v]]

(* apply_validator_score_decay, in some blocks.                            *)
DecayedMembers(states, b) ==
    [v \in DOMAIN states |->
        IF b % DecayInterval = 0 /\ v \in members THEN Decayed(states[v]) ELSE states[v]]

(* The seats lost where the decay leaves a score below the minimum.        *)
DecayedOut(states, b) ==
    {v \in seats \cap members : /\ b % DecayInterval = 0
                                /\ states[v].idle > 0
                                /\ Decayed(states[v]).final < MinScore}

(* check_and_handle_underperforming_validators, in some blocks.            *)
Underperforming(states, b) == {v \in seats : b % CheckInterval = 0 /\ LosesSeat(states[v])}

(* handle_regular_block_processing                                         *)
RegularBlock ==
    /\ blockInEpoch < BlocksPerEpoch - 1
    /\ blockInEpoch' = blockInEpoch + 1
    /\ \E author \in Authors :
         /\ state' = DecayedMembers(Authored(author), blockInEpoch')
         /\ seats' = seats \ (DecayedOut(Authored(author), blockInEpoch') \cup Underperforming(state', blockInEpoch'))
    /\ UNCHANGED <<stake, members, weights, results, history>>

ByRoot ==
    /\ rootCalls < MaxRootCalls
    /\ rootCalls' = rootCalls + 1

(* sudo_advance_epoch: a new epoch and its seats without the aggregation.  *)
SudoAdvance ==
    /\ ByRoot
    /\ sudos' = sudos + 1
    /\ state' = Older(state)
    /\ \E J \in Admissible(state) : seats' = seats \cup J
    /\ UNCHANGED <<stake, members, weights, results, blockInEpoch, judged, fit>>

-----------------------------------------------------------------------------

(* on_joined: a record that is there already is kept.  That of a newcomer  *)
(* holds the raw stake, and the epoch of the PoS pallet, which stays at 0: *)
(* it looks as idle as the chain is old.                                   *)
Join(v, amount) ==
    /\ v \notin members
    /\ members' = members \cup {v}
    /\ stake' = [stake EXCEPT ![v] = amount]
    /\ IF v \in DOMAIN state THEN UNCHANGED state
       ELSE \E idle \in 0 .. MaxInactiveEpochs + 1 :
              state' = [w \in DOMAIN state \cup {v} |->
                          IF w = v THEN [stake |-> amount, inference |-> 0, final |-> MinScore, idle |-> idle]
                          ELSE state[w]]
    /\ UNCHANGED <<seats, weights, results, blockInEpoch, history>>

(* A leave request that expires, or an ejection: the record stays.         *)
Leave(v) ==
    /\ v \in members
    /\ members' = members \ {v}
    /\ seats' = seats \ {v}
    /\ stake' = [stake EXCEPT ![v] = 0]
    /\ fit' = fit \ {v}
    /\ UNCHANGED <<state, weights, results, blockInEpoch, judged, sudos, rootCalls>>

(* increase_validator_stake and on_stake_increased: the raw amount goes on *)
(* top of the share.                                                       *)
IncreaseStake(v, amount) ==
    /\ v \in members
    /\ amount > stake[v]
    /\ stake' = [stake EXCEPT ![v] = amount]
    /\ state[v].stake + amount - stake[v] <= MaxStakeScore
    /\ state' = [state EXCEPT ![v].stake = @ + amount - stake[v]]
    /\ UNCHANGED <<members, seats, weights, results, blockInEpoch, history>>

(* decrease_validator_stake and on_stake_decreased: record and score give  *)
(* up what the reserve could not, which is nothing in a first call and     *)
(* comes about when an earlier one has emptied the reserve (StakeLedger).  *)
DecreaseStake(v, left) ==
    /\ v \in members
    /\ left < stake[v]
    /\ stake' = [stake EXCEPT ![v] = left]
    /\ state' = [state EXCEPT ![v].stake = Monus(@, stake[v] - left)]
    /\ fit' = fit \ {v}
    /\ UNCHANGED <<members, seats, weights, results, blockInEpoch, judged, sudos, rootCalls>>

(* bond_stake and unbond_stake: the record alone.                          *)
Rebond(v, amount) ==
    /\ v \in members
    /\ stake' = [stake EXCEPT ![v] = amount]
    /\ UNCHANGED <<members, seats, state, weights, results, blockInEpoch, history>>

(* on_rewarded, for a reward of root, of a proposal or of a distribution.  *)
Reward(v, amount) ==
    /\ ByRoot
    /\ v \in DOMAIN state
    /\ state[v].stake + amount <= MaxStakeScore
    /\ state' = [state EXCEPT ![v].stake = @ + amount]
    /\ UNCHANGED <<stake, members, seats, weights, results, blockInEpoch, judged, fit, sudos>>

(* on_slashed, with the whole of the score at stake: by root, a proposal,  *)
(* or as many members as it takes to report somebody.                      *)
Slash(v) ==
    /\ ByRoot
    /\ v \in DOMAIN state
    /\ state' = [state EXCEPT ![v].stake = 0]
    /\ fit' = fit \ {v}
    /\ UNCHANGED <<stake, members, seats, weights, results, blockInEpoch, judged, sudos>>

(* update_validator_stake_score: anybody may have the share replaced by    *)
(* the raw stake.                                                          *)
UpdateValidatorStakeScore(v) ==
    /\ v \in DOMAIN state
    /\ state' = [state EXCEPT ![v] = Rescored(@, stake[v], @.inference)]
    /\ UNCHANGED <<stake, members, seats, weights, results, blockInEpoch, history>>

(* update_validator_inference_score: anybody may have the final score      *)
(* computed anew, from the parts that are recorded.                        *)
UpdateValidatorInferenceScore(v) ==
    /\ v \in DOMAIN state \cap DOMAIN results
    /\ state' = [state EXCEPT ![v] = Rescored(@, @.stake, @.inference)]
    /\ UNCHANGED <<stake, members, seats, weights, results, blockInEpoch, history>>

(* submit_inference: once per account, for ever.  The boost of the PoS     *)
(* pallet fails, being called by Root where it wants a signature.          *)
SubmitInference(v, result) ==
    /\ v \notin DOMAIN results
    /\ results' = [w \in DOMAIN results \cup {v} |-> IF w = v THEN result ELSE results[w]]
    /\ state' = IF v \in DOMAIN state THEN [state EXCEPT ![v].idle = 0] ELSE state
    /\ UNCHANGED <<stake, members, seats, weights, blockInEpoch, history>>

(* simulate_inference: anybody may record activity of a seated validator.  *)
SimulateInference(v) ==
    /\ v \in seats
    /\ state' = [state EXCEPT ![v].idle = 0]
    /\ UNCHANGED <<stake, members, seats, weights, results, blockInEpoch, history>>

(* update_consensus_weights                                                *)
UpdateConsensusWeights(pair) ==
    /\ ByRoot
    /\ weights' = pair
    /\ fit' = {}
    /\ UNCHANGED <<stake, members, seats, state, results, blockInEpoch, judged, sudos>>

(* update_dcf_parameter for one of the weights: it must add up to          *)
(* Precision with the other one of GovernanceConfig, which                 *)
(* update_consensus_weights does not touch.  Only the default passes, and  *)
(* it is written next to whatever the other weight is by now.              *)
UpdateWeightParameter ==
    /\ ByRoot
    /\ weights' \in {[weights EXCEPT !.pos = Precision - DefaultWeights.poi],
                     [weights EXCEPT !.poi = Precision - DefaultWeights.pos]}
    /\ fit' = {}
    /\ UNCHANGED <<stake, members, seats, state, results, blockInEpoch, judged, sudos>>

ScoresNext ==
    \/ BoundaryBlock
    \/ RegularBlock
    \/ SudoAdvance
    \/ \E pair \in WeightPairs : UpdateConsensusWeights(pair)
    \/ UpdateWeightParameter
    \/ \E v \in Accounts :
        \/ \E amount \in Stakes : Join(v, amount)
        \/ Leave(v)
        \/ \E amount \in Stakes : IncreaseStake(v, amount)
        \/ \E left \in Stakes : DecreaseStake(v, left)
        \/ \E amount \in Stakes : Rebond(v, amount)
        \/ \E amount \in Rewards : Reward(v, amount)
        \/ Slash(v)
        \/ UpdateValidatorStakeScore(v)
        \/ UpdateValidatorInferenceScore(v)
        \/ \E result \in Results : SubmitInference(v, result)
        \/ SimulateInference(v)

ScoresSpec == ScoresInit /\ [][ScoresNext]_scoresVars

-----------------------------------------------------------------------------

(* A validator that was fit when the last boundary judged the members      *)
(* keeps its seat until the next one, whatever anybody else has recomputed *)
(* or submitted since: it loses it only if it lowered its own stake score  *)
(* (two calls of decrease_validator_stake are enough), was slashed, looked *)
(* inactive after epochs that root advanced, or if root has chosen weights *)
(* by which a stake alone may not be worth the minimum.  (Leavers give     *)
(* their seats up in other steps, and with them the promise: one that      *)
(* comes back before the boundary may be scored without its stake.)        *)
FitKeepSeats ==
    [][ RegularBlock =>
          \/ (seats \ seats') \cap fit = {}
          \/ sudos >= MaxInactiveEpochs
          \/ \E amount \in Stakes : amount * weights.pos < MinScore * Precision ]_scoresVars

(* Without sudo no member that a boundary has judged ever looks inactive   *)
(* for more than one epoch, author or not: MaxInactiveEpochs is only ever  *)
(* reached by epochs that sudo advances.                                   *)
IdleThroughSudo == \A v \in judged : state[v].idle <= 1 + sudos

(* At every boundary somebody is fit for a seat, however the stakes are    *)
(* spread and whatever the shares lose by rounding, if the weight of the   *)
(* stake is what an even share needs.                                      *)
SomebodyFit ==
    [][ /\ BoundaryBlock
        /\ members # {}
        /\ ((StakeScale \div Cardinality(members)) * weights.pos) \div Precision >= MinScore
        => \E v \in members : state'[v].final >= MinScore ]_scoresVars

=============================================================================
