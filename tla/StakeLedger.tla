------------------------------ MODULE StakeLedger ------------------------------
(***************************************************************************)
(* What the PoS pallet keeps of an account: the recorded stake, the entry  *)
(* in `Validators` and the slashing count, beside the free and the         *)
(* reserved balance that the Balances pallet keeps.  bond_stake and        *)
(* unbond_stake touch the record alone, increase_validator_stake and       *)
(* decrease_validator_stake both the record and the reserve.               *)
(*                                                                         *)
(* Balances are Currency::reserve, which fails on too little free balance, *)
(* and Currency::unreserve, which moves what it can and returns the rest.  *)
(* Epoch rewards and slashes are in EpochBudget; submit_score, boost_score *)
(* and slash_score write ValidatorScores, which nothing of the runtime     *)
(* reads, and are left out.                                                *)
(***************************************************************************)
EXTENDS Integers, FiniteSets

CONSTANTS
    Accounts,
    Stakers,            \* bound: the accounts that sign calls of the PoS pallet
    Amounts,            \* the amounts of such calls
    MaxStake,           \* bound: what a record may grow to by these calls
    MinStake,           \* T::MinStake
    MaxValidators,      \* T::MaxValidators, 100 in the runtime
    MaxSlashingCount    \* T::MaxSlashingCount, 3 in the runtime

ASSUME AccountsAssumption == IsFiniteSet(Accounts) /\ Stakers \subseteq Accounts
ASSUME AmountsAssumption == Amounts \subseteq Nat /\ MaxStake \in Nat
ASSUME MinStakeAssumption == MinStake \in Nat \ {0}
ASSUME MaxValidatorsAssumption == MaxValidators \in Nat \ {0}
ASSUME MaxSlashingCountAssumption == MaxSlashingCount \in Nat \ {0}

VARIABLES
    free,           \* Currency::free_balance
    reserved,       \* Currency::reserved_balance
    stake,          \* pos::Stake
    validators,     \* pos::Validators: registered accounts, and whether they are on
    slashingCount,  \* pos::SlashingCount
    unbacked        \* history: the accounts whose record and reserve came apart

ledger == <<free, reserved, stake, validators, slashingCount, unbacked>>

-----------------------------------------------------------------------------

(* Storage maps are functions on the keys that have an entry.              *)
With(f, x, y) == [z \in DOMAIN f \cup {x} |-> IF z = x THEN y ELSE f[z]]
Without(f, S) == [z \in DOMAIN f \ S |-> f[z]]

Least(x, y) == IF x <= y THEN x ELSE y

IsRegistered(v) == v \in DOMAIN validators

(* Currency::reserve and Currency::unreserve.                              *)
Reserve(v, amount) ==
    /\ free[v] >= amount
    /\ free' = [free EXCEPT ![v] = @ - amount]
    /\ reserved' = [reserved EXCEPT ![v] = @ + amount]

Released(v, amount) == Least(amount, reserved[v])
Remainder(v, amount) == amount - Released(v, amount)

(* All of S unreserve what their records say.                              *)
UnreserveAll(S) ==
    /\ free' = [v \in Accounts |-> IF v \in S THEN free[v] + Released(v, stake[v]) ELSE free[v]]
    /\ reserved' = [v \in Accounts |-> IF v \in S THEN reserved[v] - Released(v, stake[v]) ELSE reserved[v]]

Unreserve(v, amount) ==
    /\ free' = [free EXCEPT ![v] = @ + Released(v, amount)]
    /\ reserved' = [reserved EXCEPT ![v] = @ - Released(v, amount)]

-----------------------------------------------------------------------------

Register(v) ==
    /\ ~IsRegistered(v)
    /\ Cardinality(DOMAIN validators) < MaxValidators
    /\ validators' = With(validators, v, TRUE)
    /\ UNCHANGED <<free, reserved, stake, slashingCount, unbacked>>

(* slash_validator_call: any signed account counts a strike, and the last  *)
(* one erases the PoS entry; the stake and the validator set stay.         *)
Strike(v) ==
    LET count == slashingCount[v] + 1
    IN  /\ IsRegistered(v)
        /\ IF count >= MaxSlashingCount
           THEN /\ validators' = Without(validators, {v})
                /\ slashingCount' = [slashingCount EXCEPT ![v] = 0]
           ELSE /\ slashingCount' = [slashingCount EXCEPT ![v] = count]
                /\ UNCHANGED validators
        /\ UNCHANGED <<free, reserved, stake, unbacked>>

(* bond_stake: the record grows, no funds are reserved.                    *)
Bond(v, amount) ==
    /\ amount >= MinStake
    /\ IsRegistered(v)
    /\ stake[v] + amount <= MaxStake
    /\ stake' = [stake EXCEPT ![v] = @ + amount]
    /\ unbacked' = unbacked \cup {v}
    /\ UNCHANGED <<free, reserved, validators, slashingCount>>

(* unbond_stake: the record shrinks, the reserve stays.                    *)
Unbond(v, amount) ==
    /\ IsRegistered(v)
    /\ stake[v] >= amount
    /\ stake[v] - amount >= MinStake
    /\ stake' = [stake EXCEPT ![v] = @ - amount]
    /\ unbacked' = IF amount = 0 THEN unbacked ELSE unbacked \cup {v}
    /\ UNCHANGED <<free, reserved, validators, slashingCount>>

(* Mutant of IncreaseStake: the record grows by more than is reserved.     *)
IncreaseStakeTwice(v, amount) ==
    /\ IsRegistered(v)
    /\ stake[v] + amount <= MaxStake
    /\ Reserve(v, amount)
    /\ stake' = [stake EXCEPT ![v] = @ + 2 * amount]
    /\ UNCHANGED <<validators, slashingCount, unbacked>>

IncreaseStake(v, amount) ==
    /\ IsRegistered(v)
    /\ stake[v] + amount <= MaxStake
    /\ Reserve(v, amount)
    /\ stake' = [stake EXCEPT ![v] = @ + amount]
    /\ UNCHANGED <<validators, slashingCount, unbacked>>

(* decrease_validator_stake: the reserve shrinks by the amount, the record *)
(* by what unreserve returns, which is what could NOT be released.         *)
DecreaseStake(v, amount) ==
    /\ IsRegistered(v)
    /\ stake[v] >= amount
    /\ stake[v] - amount >= MinStake
    /\ Unreserve(v, amount)
    /\ stake' = [stake EXCEPT ![v] = @ - Remainder(v, amount)]
    /\ unbacked' = IF Released(v, amount) = Remainder(v, amount) THEN unbacked
                                                                  ELSE unbacked \cup {v}
    /\ UNCHANGED <<validators, slashingCount>>

(* What leaving for good does to the ledger, by expiry or by ejection: the *)
(* reserve gives up what the record says, and the record is erased.  An    *)
(* account that holds a reserve beyond its record stays apart.             *)
Exit(S) ==
    /\ UnreserveAll(S)
    /\ stake' = [v \in Accounts |-> IF v \in S THEN 0 ELSE stake[v]]
    /\ validators' = Without(validators, S)
    /\ unbacked' = unbacked
    /\ UNCHANGED slashingCount

(* What join_validators does to the ledger: it reserves the minimum and    *)
(* OVERWRITES the record, whatever it was.                                 *)
Enter(v) ==
    /\ Reserve(v, MinStake)
    /\ stake' = [stake EXCEPT ![v] = MinStake]
    /\ validators' = With(validators, v, TRUE)
    /\ unbacked' = IF stake[v] = 0 THEN unbacked ELSE unbacked \cup {v}
    /\ UNCHANGED slashingCount

(* leave_validators and cancel_leave_request turn the entry off and on.    *)
SetOn(v, on) ==
    /\ validators' = With(validators, v, on)
    /\ UNCHANGED <<free, reserved, stake, slashingCount, unbacked>>

LedgerNext ==
    \E v \in Stakers :
        \/ Register(v)
        \/ Strike(v)
        \/ \E amount \in Amounts :
            \/ Bond(v, amount)
            \/ Unbond(v, amount)
            \/ IncreaseStake(v, amount)
            \/ DecreaseStake(v, amount)

-----------------------------------------------------------------------------

LedgerTypeOK ==
    /\ free \in [Accounts -> Nat]
    /\ reserved \in [Accounts -> Nat]
    /\ stake \in [Accounts -> Nat]
    /\ \E S \in SUBSET Accounts : validators \in [S -> BOOLEAN]
    /\ slashingCount \in [Accounts -> 0..(MaxSlashingCount - 1)]
    /\ unbacked \subseteq Accounts

(* Whatever else happens to an account - slashing strikes, ejection, a     *)
(* leave that expires, one that is cancelled, governance - its reserve is  *)
(* exactly the stake that counts for it, as long as it never used one of   *)
(* the calls that write only one of the two (bond_stake, unbond_stake, a   *)
(* decrease) and never joined over an older record.                        *)
ReserveBacksStake == \A v \in Accounts \ unbacked : reserved[v] = stake[v]

=============================================================================
