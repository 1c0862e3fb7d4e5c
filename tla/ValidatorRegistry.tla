--------------------------- MODULE ValidatorRegistry ---------------------------
(***************************************************************************)
(* The life cycle of a validator: the registry of the DVF pallet, which    *)
(* the DCF pallet reads and writes through ValidatorRegistryProvider, on   *)
(* top of the ledger of the PoS pallet.                                    *)
(*                                                                         *)
(* Three storage items say who is a validator: ValidatorSet (membership),  *)
(* ActiveValidators (the seats that vote and author) and pos::Validators.  *)
(* Each is written by extrinsics, by the hooks that run at the start of a  *)
(* block, by the epoch transition and by governance, never all together.   *)
(*                                                                         *)
(* A block number stored with an entry is modelled by the entry's age in   *)
(* blocks; a score by whether it reaches MinValidatorScore.                *)
(***************************************************************************)
EXTENDS StakeLedger

CONSTANTS
    Genesis,            \* the validators of the genesis configuration
    Funds,              \* what an account owns, reserved stake included
    LeaveCooldown,      \* T::LeaveCooldown in blocks, 1000 in the runtime
    EpochLength,        \* T::EpochLength, 100 in the runtime
    CheckInterval       \* T::UnderperformanceCheckInterval, 50 in the runtime

ASSUME GenesisAssumption == Genesis \subseteq Accounts /\ Cardinality(Genesis) <= MaxValidators
ASSUME FundsAssumption == Funds \in Nat /\ Funds >= MinStake
ASSUME LeaveCooldownAssumption == LeaveCooldown \in Nat \ {0}
ASSUME EpochLengthAssumption == EpochLength \in Nat \ {0}
ASSUME CheckIntervalAssumption == CheckInterval \in Nat \ {0}

VARIABLES
    validatorSet,       \* ValidatorSet
    active,             \* ActiveValidators
    pending,            \* PendingValidatorActions
    leaveRequests,      \* ValidatorLeaveRequests: the age of each request
    recentlyRemoved,    \* RecentlyRemovedValidators: the age of each removal
    fit,                \* ValidatorStates: is final_score at least MinValidatorScore?
    block,              \* the block number within its epoch
    viaJoin,            \* history: the seats that a pending Join filled
    outFor              \* history: blocks since the account last was a member

registry == <<validatorSet, active, pending, leaveRequests, recentlyRemoved, fit>>
vars == <<ledger, registry, block, viaJoin, outFor>>

-----------------------------------------------------------------------------

IsFit(v) == v \in DOMAIN fit /\ fit[v]

(* What every operation that changes seats or membership does to the       *)
(* histories: an account that is out of the set starts to count, unless it *)
(* was out before.                                                         *)
Remember ==
    /\ viaJoin' = viaJoin \cap active'
    /\ outFor' = [v \in Accounts |->
                    IF v \in validatorSet' THEN LeaveCooldown
                    ELSE IF v \in validatorSet THEN 0
                    ELSE outFor[v]]

(* The genesis build reserves the stake of every genesis validator and     *)
(* makes it a member with a seat.                                          *)
Init ==
    /\ free = [v \in Accounts |-> IF v \in Genesis THEN Funds - MinStake ELSE Funds]
    /\ reserved = [v \in Accounts |-> IF v \in Genesis THEN MinStake ELSE 0]
    /\ stake = reserved
    /\ validators = [v \in Genesis |-> TRUE]
    /\ slashingCount = [v \in Accounts |-> 0]
    /\ unbacked = {}
    /\ validatorSet = Genesis
    /\ active = Genesis
    /\ pending = << >>
    /\ leaveRequests = << >>
    /\ recentlyRemoved = << >>
    /\ fit \in [Genesis -> BOOLEAN]
    /\ block = 0
    /\ viaJoin = {}
    /\ outFor = [v \in Accounts |-> LeaveCooldown]

-----------------------------------------------------------------------------

(* join_validator_set: asks for a seat at the next epoch.  Membership, a   *)
(* leave request and a cooldown are not looked at.                         *)
JoinValidatorSet(v) ==
    /\ v \notin active
    /\ ~(v \in DOMAIN pending /\ pending[v] = "Join")
    /\ stake[v] >= MinStake
    /\ IsFit(v)
    /\ pending' = With(pending, v, "Join")
    /\ UNCHANGED <<ledger, validatorSet, active, leaveRequests, recentlyRemoved, fit, block, viaJoin, outFor>>

LeaveValidatorSet(v) ==
    /\ v \in active
    /\ ~(v \in DOMAIN pending /\ pending[v] = "Leave")
    /\ pending' = With(pending, v, "Leave")
    /\ UNCHANGED <<ledger, validatorSet, active, leaveRequests, recentlyRemoved, fit, block, viaJoin, outFor>>

(* Mutant of MayRejoin: a removal is forgotten when the account asks.      *)
MayRejoinAtOnce(v) == v \notin DOMAIN leaveRequests

(* validate_rejoin_eligibility.                                            *)
MayRejoin(v) == v \notin DOMAIN recentlyRemoved /\ v \notin DOMAIN leaveRequests

(* join_validators: membership without a seat.  An entry of                *)
(* RecentlyRemoved that has expired is gone since the block's hooks ran.   *)
JoinValidators(v) ==
    /\ MayRejoin(v)
    /\ v \notin validatorSet
    /\ Cardinality(validatorSet) < MaxValidators
    /\ Enter(v)
    /\ validatorSet' = validatorSet \cup {v}
    /\ recentlyRemoved' = Without(recentlyRemoved, {v})
    /\ fit' = IF v \in DOMAIN fit THEN fit ELSE With(fit, v, TRUE)
    /\ UNCHANGED <<active, pending, leaveRequests, block>>
    /\ Remember

(* Mutant of LeaveValidators: the seat is kept.                            *)
LeaveValidatorsSeated(v) ==
    /\ v \in validatorSet
    /\ v \notin DOMAIN leaveRequests
    /\ leaveRequests' = With(leaveRequests, v, 0)
    /\ SetOn(v, FALSE)
    /\ UNCHANGED <<validatorSet, active, pending, recentlyRemoved, fit, block>>
    /\ Remember

(* leave_validators: the seat goes at once, the membership when the        *)
(* request expires.                                                        *)
LeaveValidators(v) ==
    /\ v \in validatorSet
    /\ v \notin DOMAIN leaveRequests
    /\ leaveRequests' = With(leaveRequests, v, 0)
    /\ active' = active \ {v}
    /\ SetOn(v, FALSE)
    /\ UNCHANGED <<validatorSet, pending, recentlyRemoved, fit, block>>
    /\ Remember

(* Mutant of Reseated: the capacity is not looked at.                      *)
ReseatedAlways(v) == active \cup {v}

(* The seat comes back if there is room, whoever vacated it and why.       *)
Reseated(v) == IF Cardinality(active) < MaxValidators THEN active \cup {v} ELSE active

(* cancel_leave_request, before the request expires.                       *)
CancelLeaveRequest(v) ==
    /\ v \in DOMAIN leaveRequests
    /\ leaveRequests[v] < LeaveCooldown
    /\ leaveRequests' = Without(leaveRequests, {v})
    /\ IF v \in validatorSet
       THEN active' = Reseated(v) /\ SetOn(v, TRUE)
       ELSE UNCHANGED <<active, ledger>>
    /\ UNCHANGED <<validatorSet, pending, recentlyRemoved, fit, block>>
    /\ Remember

(* Mutant of Left: the leave request of a member that is ejected stays.    *)
LeftWithRequest(S) ==
    /\ validatorSet' = validatorSet \ S
    /\ leaveRequests' = leaveRequests

(* on_left: out of the set, and no leave request any more.                 *)
Left(S) ==
    /\ validatorSet' = validatorSet \ S
    /\ leaveRequests' = Without(leaveRequests, S)

(* force_eject_validator, by governance or by misbehaviour reports: it     *)
(* looks at nothing and leaves a pending action behind.                    *)
ForceEject(v) ==
    /\ Exit({v})
    /\ Left({v})
    /\ active' = active \ {v}
    /\ recentlyRemoved' = With(recentlyRemoved, v, 0)
    /\ UNCHANGED <<pending, fit, block>>
    /\ Remember

(* execute_add_validator: the proposal is the whole check, cooldown or not *)
(* - apart from the recorded stake and from a capacity() as above, which   *)
(* may refuse any account.                                                 *)
ExecuteAddValidator(v) ==
    /\ v \notin validatorSet
    /\ Cardinality(validatorSet) < MaxValidators
    /\ stake[v] >= MinStake
    /\ validatorSet' = validatorSet \cup {v}
    /\ \/ v \in DOMAIN fit /\ UNCHANGED fit
       \/ v \notin DOMAIN fit /\ \E b \in BOOLEAN : fit' = With(fit, v, b)
    /\ UNCHANGED <<ledger, active, pending, leaveRequests, recentlyRemoved, block>>
    /\ Remember

(* The scores of an epoch, a reward, a missed block...                     *)
ChangeScore(v) ==
    /\ v \in DOMAIN fit
    /\ fit' = [fit EXCEPT ![v] = ~@]
    /\ UNCHANGED <<ledger, validatorSet, active, pending, leaveRequests, recentlyRemoved, block, viaJoin, outFor>>

-----------------------------------------------------------------------------

(* apply_pending_validator_actions: leavers first, then the joiners that   *)
(* are fit, best score first, into the free slots.  Those are counted as   *)
(* capacity() - len() of a vector, and capacity() is what the allocator    *)
(* gave it, not MaxValidators: there are as many as the leavers vacated at *)
(* least, and no push goes beyond the bound.                               *)
Staying == {v \in active : ~(v \in DOMAIN pending /\ pending[v] = "Leave")}
Joiners == {v \in DOMAIN pending \ active : pending[v] = "Join" /\ IsFit(v)}

(* Mutant of Admissions: joiners are let in beyond the seats.              *)
AdmitAll == {Joiners}

Admissions ==
    {J \in SUBSET Joiners :
        /\ Cardinality(J) >= Least(Cardinality(Joiners), Cardinality(active \ Staying))
        /\ Cardinality(Staying \cup J) <= MaxValidators}

(* Mutants of Expired and of CooledDown: one block late, one block early.  *)
ExpiredLate == {v \in DOMAIN leaveRequests : leaveRequests[v] + 1 > LeaveCooldown}
CooledDownEarly == {v \in DOMAIN recentlyRemoved : recentlyRemoved[v] + 2 >= LeaveCooldown}

(* process_expired_leave_requests and cleanup_recently_removed_validators, *)
(* one block later.                                                        *)
Expired == {v \in DOMAIN leaveRequests : leaveRequests[v] + 1 >= LeaveCooldown}
CooledDown == {v \in DOMAIN recentlyRemoved : recentlyRemoved[v] + 1 >= LeaveCooldown}

(* Mutant of Underperforming: nobody is.                                   *)
PerformingAll(seats, n) == {}

(* check_and_handle_underperforming_validators, of DCF and of DVF: only    *)
(* the seat goes.  Both also look for members inactive for too many        *)
(* epochs; whom that can meet is in ValidatorScores.                       *)
Underperforming(seats, n) ==
    {v \in seats : n % CheckInterval = 0 /\ v \in DOMAIN fit /\ ~fit[v]}

(* Mutant of Aged: every block renews the entry.                           *)
Renewed(f) == [v \in DOMAIN f |-> 0]

(* What one more block makes of the ages of those that stay.               *)
Aged(f) == [v \in DOMAIN f |-> f[v] + 1]

(* The hooks at the start of a block.  DCF first: at an epoch boundary it  *)
(* applies the pending actions, in any other block it looks for the        *)
(* underperforming.  Then DVF: removals cool down, leave requests expire,  *)
(* and the underperforming lose their seats.                               *)
NextBlock ==
    LET n == (block + 1) % EpochLength
    IN  \E J \in (IF n = 0 THEN Admissions ELSE {{}}) :
            LET left == IF n = 0 THEN Staying \cup J ELSE active \ Underperforming(active, n)
                seats == left \ Expired
            IN  /\ block' = n
                /\ active' = seats \ Underperforming(seats, n)
                /\ pending' = IF n = 0 THEN << >> ELSE pending
                /\ Exit(Expired)
                /\ validatorSet' = validatorSet \ Expired
                /\ leaveRequests' = Aged(Without(leaveRequests, Expired))
                /\ recentlyRemoved' =
                     [v \in (DOMAIN recentlyRemoved \ CooledDown) \cup Expired |->
                        IF v \in Expired THEN 0 ELSE recentlyRemoved[v] + 1]
                /\ viaJoin' = (viaJoin \cup J) \cap active'
                /\ outFor' = [v \in Accounts |->
                                IF v \in validatorSet' THEN LeaveCooldown
                                ELSE IF v \in validatorSet THEN 0
                                ELSE Least(outFor[v] + 1, LeaveCooldown)]
                /\ UNCHANGED fit

(* sudo_advance_epoch: the transition's pending actions without a block.   *)
SudoAdvanceEpoch ==
    \E J \in Admissions :
        /\ active' = Staying \cup J
        /\ viaJoin' = (viaJoin \cup J) \cap active'
        /\ pending' = << >>
        /\ UNCHANGED <<ledger, validatorSet, leaveRequests, recentlyRemoved, fit, block, outFor>>

(* A call of the PoS pallet leaves the registry alone.                     *)
StakeCall == LedgerNext /\ UNCHANGED <<registry, block, viaJoin, outFor>>

Next ==
    \/ StakeCall
    \/ NextBlock
    \/ SudoAdvanceEpoch
    \/ \E v \in Accounts :
        \/ JoinValidatorSet(v)
        \/ LeaveValidatorSet(v)
        \/ JoinValidators(v)
        \/ LeaveValidators(v)
        \/ CancelLeaveRequest(v)
        \/ ForceEject(v)
        \/ ExecuteAddValidator(v)
        \/ ChangeScore(v)

Spec == Init /\ [][Next]_vars

(* Blocks keep coming; nobody is obliged to call anything.                 *)
FairSpec == Spec /\ WF_vars(NextBlock)

-----------------------------------------------------------------------------

TypeOK ==
    /\ LedgerTypeOK
    /\ validatorSet \subseteq Accounts
    /\ active \subseteq Accounts
    /\ \E S \in SUBSET Accounts : pending \in [S -> {"Join", "Leave"}]
    /\ \E S \in SUBSET Accounts : leaveRequests \in [S -> 0..(LeaveCooldown - 1)]
    /\ \E S \in SUBSET Accounts : recentlyRemoved \in [S -> 0..(LeaveCooldown - 1)]
    /\ \E S \in SUBSET Accounts : fit \in [S -> BOOLEAN]
    /\ block \in 0..(EpochLength - 1)
    /\ viaJoin \subseteq active
    /\ outFor \in [Accounts -> 0..LeaveCooldown]

(* MaxValidators bounds the members and the seats, whichever of a join, a  *)
(* cancelled leave, an epoch's admissions or a proposal fills the last one *)
(* (the first of check_validator_invariants).                              *)
WithinCapacity ==
    /\ Cardinality(validatorSet) <= MaxValidators
    /\ Cardinality(active) <= MaxValidators

(* Only members wait for a leave request to expire: whoever is put out     *)
(* before it has no request left, so the expiry never touches the stake of *)
(* an account that is out or has joined again.                             *)
OnlyMembersLeave == DOMAIN leaveRequests \subseteq validatorSet

(* A seat that was not filled by a pending Join belongs to a member that   *)
(* has not asked to leave: genesis and cancel_leave_request never seat     *)
(* anybody else, and every way out of the set takes the seat along.        *)
SeatsAreMembers ==
    \A v \in active \ viaJoin : v \in validatorSet /\ v \notin DOMAIN leaveRequests

(* Nobody but governance becomes a member again before LeaveCooldown       *)
(* blocks have passed since it was one, however it left.                   *)
RejoinsAfterCooldown ==
    [][ \A v \in validatorSet' \ validatorSet :
            ExecuteAddValidator(v) \/ outFor[v] >= LeaveCooldown ]_vars

(* A leave request is carried out or withdrawn in the end.                 *)
LeaveIsSettled == \A v \in Accounts : v \in DOMAIN leaveRequests ~> v \notin DOMAIN leaveRequests

(* A validator that stays below the minimum score loses its seat again and *)
(* again, however often it leaves and cancels to get it back.              *)
UnfitLoseSeats ==
    \A v \in Accounts : (<>[](v \in DOMAIN fit /\ ~fit[v])) => []<>(v \notin active)

=============================================================================
