------------------------------ MODULE EpochBudget ------------------------------
(***************************************************************************)
(* The reward and slash budgets of an epoch in pallet-cerulea-pos.  Every  *)
(* reward and slash is checked against a cap per validator and one for all *)
(* of them; an epoch transition of pallet-cerulea-dcf starts them anew.    *)
(*                                                                         *)
(* What a slash takes depends on the free balance, which any transfer      *)
(* changes: it is arbitrary here, up to what was asked for.                *)
(***************************************************************************)
EXTENDS Sums

CONSTANTS
    Validators,
    Pools,                  \* bound: the pools handed to distribute_epoch_rewards
    MaxTimes,               \* bound: how often a list names a validator
    Shares,                 \* the percentages of a pool: 60, 25 and 15
    ValidatorReward,        \* paid when the amount asked for is 0
    TopPerformerPercentage,
    MaxRewardPerEpoch,
    MaxRewardPerValidator,
    MaxSlashPerEpoch,
    MaxSlashPerValidator

ASSUME BudgetAssumption ==
    /\ IsFiniteSet(Validators)
    /\ Pools \subseteq Nat
    /\ Shares \in [base : Nat, performance : Nat, top : Nat]
    /\ {MaxTimes, ValidatorReward} \subseteq Nat
    /\ {MaxRewardPerEpoch, MaxRewardPerValidator, MaxSlashPerEpoch, MaxSlashPerValidator} \subseteq Nat
    /\ TopPerformerPercentage \in 0 .. 100

VARIABLES
    registered,             \* the domain of Validators
    rewards,                \* ValidatorEpochRewarded, EpochTotalRewarded
    slashes,                \* ValidatorEpochSlashed, EpochTotalSlashed
    paid                    \* history: what each balance gained in this epoch

budget == <<rewards, slashes, paid>>

(* A list of validators: how often it names each of them.                  *)
Lists == [Validators -> 0 .. MaxTimes]

Budgets == [of : [Validators -> Nat], total : Nat]

Nothing == [v \in Validators |-> 0]

NoBudgetUsed == [of |-> Nothing, total |-> 0]

-----------------------------------------------------------------------------

Added(used, amounts) == [
    of |-> [v \in Validators |-> used.of[v] + amounts[v]],
    total |-> used.total + Total(amounts)]

Only(v, amount) == [w \in Validators |-> IF w = v THEN amount ELSE 0]

(* Amount 0 stands for the default reward.                                 *)
RewardOf(amount) == IF amount = 0 THEN ValidatorReward ELSE amount

(* Mutant of Rewardable: the cap of the epoch is compared with the reward  *)
(* alone.                                                                  *)
RewardableAlone(amounts) ==
    LET after == Added(rewards, amounts)
    IN  /\ Total(amounts) <= MaxRewardPerEpoch
        /\ \A v \in Validators : amounts[v] > 0 =>
              v \in registered /\ after.of[v] <= MaxRewardPerValidator

Rewardable(amounts) ==
    LET after == Added(rewards, amounts)
    IN  /\ after.total <= MaxRewardPerEpoch
        /\ \A v \in Validators : amounts[v] > 0 =>
              v \in registered /\ after.of[v] <= MaxRewardPerValidator

Pay(amounts) ==
    /\ rewards' = Added(rewards, amounts)
    /\ paid' = [v \in Validators |-> paid[v] + amounts[v]]
    /\ UNCHANGED slashes

(* A list, given by how often it names each validator, is rewarded one by  *)
(* one and whoever no longer fits is skipped; which ones fit depends on    *)
(* the order of the list.                                                  *)
RewardEach(times, amount) ==
    LET Amounts(granted) == [v \in Validators |-> granted[v] * RewardOf(amount)]
    IN  \E granted \in Lists :
            /\ \A v \in Validators :
                  \/ granted[v] = times[v]
                  \/ /\ granted[v] < times[v]
                     /\ ~Rewardable(Amounts([granted EXCEPT ![v] = @ + 1]))
            /\ Rewardable(Amounts(granted))
            /\ Pay(Amounts(granted))

SlashFits(v, amount) ==
    /\ v \in registered
    /\ slashes.total + amount <= MaxSlashPerEpoch
    /\ slashes.of[v] + amount <= MaxSlashPerValidator

(* execute_slash_validator: amount 0 stands for a share of the balance,    *)
(* and what counts against the caps is what Currency::slash returns, the   *)
(* part of the amount it did NOT take.                                     *)
Slash(v, amount) ==
    /\ \E asked \in IF amount = 0 THEN 0 .. MaxSlashPerValidator ELSE {amount} :
          IF SlashFits(v, asked)
          THEN \E remainder \in 0 .. asked : slashes' = Added(slashes, Only(v, remainder))
          ELSE UNCHANGED slashes
    /\ UNCHANGED <<rewards, paid>>

(* distribute_rewards: a base share for each active validator, a second    *)
(* one for the high performers, a third one for the top of the ranking;    *)
(* every share is rounded down.                                            *)
ShareOf(pool, percentage, group) == ((pool * percentage) \div 100) \div Cardinality(group)

Distribution(pool, active, high, top) == [v \in Validators |->
    IF v \notin active THEN 0
    ELSE RewardOf(ShareOf(pool, Shares.base, active)
          + (IF v \in high THEN ShareOf(pool, Shares.performance, high) ELSE 0)
          + (IF v \in top THEN ShareOf(pool, Shares.top, top) ELSE 0))]

(* All or nothing: the first reward that fails rolls the call back.        *)
DistributeEpochRewards ==
    \E pool \in Pools, active \in (SUBSET Validators) \ {{}} : \E high, top \in SUBSET active :
        /\ Cardinality(top) = (Cardinality(active) * TopPerformerPercentage) \div 100
        /\ high \subseteq top \/ top \subseteq high
        /\ Rewardable(Distribution(pool, active, high, top))
        /\ Pay(Distribution(pool, active, high, top))

(* Mutant of ResetEpochTotals: the validators' own totals stay.            *)
ResetTotalsOnly ==
    /\ rewards' = [rewards EXCEPT !.total = 0]
    /\ slashes' = [slashes EXCEPT !.total = 0]
    /\ paid' = Nothing

ResetEpochTotals ==
    /\ rewards' = NoBudgetUsed
    /\ slashes' = NoBudgetUsed
    /\ paid' = Nothing

-----------------------------------------------------------------------------

(* What is credited to balances between two resets stays within both caps, *)
(* whichever calls, proposals and distributions paid it, and the counters  *)
(* say exactly what was paid.                                              *)
RewardsWithinCaps ==
    /\ {rewards, slashes} \subseteq Budgets /\ paid \in [Validators -> Nat]
    /\ Total(paid) = rewards.total
    /\ rewards.total <= MaxRewardPerEpoch
    /\ \A v \in Validators : paid[v] = rewards.of[v] /\ paid[v] <= MaxRewardPerValidator

=============================================================================
