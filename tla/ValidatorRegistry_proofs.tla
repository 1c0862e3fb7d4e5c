------------------------ MODULE ValidatorRegistry_proofs ------------------------
(***************************************************************************)
(* The safety of the validator registry and of the stake ledger under it,  *)
(* for every set of accounts, every capacity, cooldown and epoch length,   *)
(* every minimum stake and every amount.                                   *)
(***************************************************************************)
EXTENDS ValidatorRegistry, FiniteSetTheorems, TLAPS

-----------------------------------------------------------------------------

(* A storage map that is well typed stays so when an entry is written or   *)
(* some are erased.                                                        *)
IsMap(f, R) == \E S \in SUBSET Accounts : f \in [S -> R]

LEMMA WithIsMap ==
    ASSUME NEW R, NEW f, IsMap(f, R), NEW v \in Accounts, NEW y \in R
    PROVE  IsMap(With(f, v, y), R)
<1>1. PICK S \in SUBSET Accounts : f \in [S -> R]
    BY DEF IsMap
<1>2. With(f, v, y) \in [S \cup {v} -> R]
    BY <1>1 DEF With
<1>3. S \cup {v} \in SUBSET Accounts
    BY <1>1
<1> QED  BY <1>2, <1>3 DEF IsMap

LEMMA WithoutIsMap ==
    ASSUME NEW R, NEW f, IsMap(f, R), NEW T
    PROVE  IsMap(Without(f, T), R)
<1>1. PICK S \in SUBSET Accounts : f \in [S -> R]
    BY DEF IsMap
<1>2. Without(f, T) \in [S \ T -> R]
    BY <1>1 DEF Without
<1>3. S \ T \in SUBSET Accounts
    BY <1>1
<1> QED  BY <1>2, <1>3 DEF IsMap

LEMMA EmptyIsMap == \A R : IsMap(<< >>, R)
<1> TAKE R
<1>1. << >> \in [{} -> R]
    OBVIOUS
<1> QED  BY <1>1 DEF IsMap

(* What unreserve releases is no more than asked for and no more than is   *)
(* there.                                                                  *)
LEMMA ReleasedBounds ==
    ASSUME LedgerTypeOK, NEW v \in Accounts, NEW amount \in Nat
    PROVE  /\ Released(v, amount) \in Nat
           /\ Released(v, amount) <= amount
           /\ Released(v, amount) <= reserved[v]
           /\ Remainder(v, amount) \in Nat
           /\ Remainder(v, amount) <= amount
           /\ amount <= reserved[v] => Released(v, amount) = amount
    BY DEF LedgerTypeOK, Released, Remainder, Least

-----------------------------------------------------------------------------

(* The ledger's types, without those of the maps, for the provers' sake.   *)
Balances ==
    /\ free \in [Accounts -> Nat]
    /\ reserved \in [Accounts -> Nat]
    /\ stake \in [Accounts -> Nat]

LEMMA ReserveBalances ==
    ASSUME LedgerTypeOK, NEW v \in Accounts, NEW amount \in Nat, Reserve(v, amount)
    PROVE  free' \in [Accounts -> Nat] /\ reserved' \in [Accounts -> Nat]
<1>1. free[v] - amount \in Nat /\ reserved[v] + amount \in Nat
    BY DEF LedgerTypeOK, Reserve
<1> QED  BY <1>1 DEF LedgerTypeOK, Reserve

LEMMA UnreserveBalances ==
    ASSUME LedgerTypeOK, NEW v \in Accounts, NEW amount \in Nat, Unreserve(v, amount)
    PROVE  free' \in [Accounts -> Nat] /\ reserved' \in [Accounts -> Nat]
<1>1. free[v] + Released(v, amount) \in Nat /\ reserved[v] - Released(v, amount) \in Nat
    BY ReleasedBounds DEF LedgerTypeOK
<1> QED  BY <1>1 DEF LedgerTypeOK, Unreserve

LEMMA ExitBalances ==
    ASSUME LedgerTypeOK, NEW S \in SUBSET Accounts, Exit(S)
    PROVE  Balances'
<1>1. \A v \in Accounts : stake[v] \in Nat
    BY DEF LedgerTypeOK
<1>2. \A v \in Accounts : free[v] + Released(v, stake[v]) \in Nat /\ reserved[v] - Released(v, stake[v]) \in Nat
    BY <1>1, ReleasedBounds DEF LedgerTypeOK
<1>3. \A v \in Accounts : free[v] \in Nat /\ reserved[v] \in Nat
    BY DEF LedgerTypeOK
<1>4. free' \in [Accounts -> Nat]
    BY <1>2, <1>3 DEF Exit, UnreserveAll
<1>5. reserved' \in [Accounts -> Nat]
    BY <1>2, <1>3 DEF Exit, UnreserveAll
<1>6. stake' \in [Accounts -> Nat]
    BY <1>1 DEF Exit
<1> QED  BY <1>4, <1>5, <1>6 DEF Balances

(* The four ways in which the registry changes the ledger keep its types.  *)
LEMMA ExitType ==
    ASSUME LedgerTypeOK, NEW S \in SUBSET Accounts, Exit(S)
    PROVE  LedgerTypeOK'
<1>1. IsMap(validators, BOOLEAN)
    BY DEF LedgerTypeOK, IsMap
<1>2. IsMap(validators', BOOLEAN)
    BY <1>1, WithoutIsMap DEF Exit
<1> QED  BY <1>2, ExitBalances DEF LedgerTypeOK, Balances, Exit, IsMap

LEMMA SetOnType ==
    ASSUME LedgerTypeOK, NEW v \in Accounts, NEW on \in BOOLEAN, SetOn(v, on)
    PROVE  LedgerTypeOK'
<1>1. IsMap(validators, BOOLEAN)
    BY DEF LedgerTypeOK, IsMap
<1>2. IsMap(validators', BOOLEAN)
    BY <1>1, WithIsMap DEF SetOn
<1> QED  BY <1>2 DEF LedgerTypeOK, SetOn, IsMap

LEMMA EnterType ==
    ASSUME LedgerTypeOK, NEW v \in Accounts, Enter(v)
    PROVE  LedgerTypeOK'
<1>1. IsMap(validators, BOOLEAN) /\ TRUE \in BOOLEAN
    BY DEF LedgerTypeOK, IsMap
<1>2. IsMap(validators', BOOLEAN)
    BY <1>1, WithIsMap DEF Enter
<1>3. MinStake \in Nat
    BY MinStakeAssumption
<1>4. free' \in [Accounts -> Nat] /\ reserved' \in [Accounts -> Nat]
    BY <1>3, ReserveBalances DEF Enter
<1>5. stake' \in [Accounts -> Nat]
    BY <1>3 DEF Enter, LedgerTypeOK
<1>6. unbacked' \subseteq Accounts
    BY DEF Enter, LedgerTypeOK
<1> QED  BY <1>2, <1>4, <1>5, <1>6 DEF LedgerTypeOK, Enter, IsMap

LEMMA LedgerNextType ==
    ASSUME LedgerTypeOK, LedgerNext
    PROVE  LedgerTypeOK'
<1>0. IsMap(validators, BOOLEAN) /\ TRUE \in BOOLEAN
    BY DEF LedgerTypeOK, IsMap
<1>1. ASSUME NEW v \in Stakers, Register(v)
      PROVE  LedgerTypeOK'
  <2>1. IsMap(validators', BOOLEAN)
      BY <1>0, <1>1, WithIsMap, AccountsAssumption DEF Register
  <2> QED  BY <1>1, <2>1 DEF LedgerTypeOK, Register, IsMap
<1>2. ASSUME NEW v \in Stakers, Strike(v)
      PROVE  LedgerTypeOK'
  <2>1. IsMap(validators', BOOLEAN)
      BY <1>0, <1>2, WithoutIsMap DEF Strike
  <2>2. v \in Accounts /\ MaxSlashingCount \in Nat /\ MaxSlashingCount > 0
      BY AccountsAssumption, MaxSlashingCountAssumption
  <2>3. slashingCount' \in [Accounts -> 0..(MaxSlashingCount - 1)]
      BY <1>2, <2>2 DEF Strike, LedgerTypeOK
  <2> QED  BY <1>2, <2>1, <2>3 DEF LedgerTypeOK, Strike, IsMap
<1>3. ASSUME NEW v \in Stakers, NEW amount \in Amounts,
             Bond(v, amount) \/ Unbond(v, amount) \/ IncreaseStake(v, amount) \/ DecreaseStake(v, amount)
      PROVE  LedgerTypeOK'
  <2>1. v \in Accounts /\ amount \in Nat /\ MinStake \in Nat
      BY AccountsAssumption, AmountsAssumption, MinStakeAssumption
  <2>2. CASE Bond(v, amount)
      BY <2>1, <2>2 DEF LedgerTypeOK, Bond
  <2>3. CASE Unbond(v, amount)
    <3>1. stake[v] - amount \in Nat
        BY <2>1, <2>3 DEF LedgerTypeOK, Unbond
    <3>2. stake' \in [Accounts -> Nat]
        BY <2>3, <3>1 DEF LedgerTypeOK, Unbond
    <3>3. unbacked' \subseteq Accounts
        BY <2>1, <2>3 DEF LedgerTypeOK, Unbond
    <3> QED  BY <2>3, <3>2, <3>3 DEF LedgerTypeOK, Unbond
  <2>4. CASE IncreaseStake(v, amount)
    <3>1. free' \in [Accounts -> Nat] /\ reserved' \in [Accounts -> Nat]
        BY <2>1, <2>4, ReserveBalances DEF IncreaseStake
    <3>2. stake' \in [Accounts -> Nat]
        BY <2>1, <2>4 DEF LedgerTypeOK, IncreaseStake
    <3> QED  BY <2>4, <3>1, <3>2 DEF LedgerTypeOK, IncreaseStake
  <2>5. CASE DecreaseStake(v, amount)
    <3>1. free' \in [Accounts -> Nat] /\ reserved' \in [Accounts -> Nat]
        BY <2>1, <2>5, UnreserveBalances DEF DecreaseStake
    <3>2. stake[v] - Remainder(v, amount) \in Nat
        BY <2>1, <2>5, ReleasedBounds DEF LedgerTypeOK, DecreaseStake
    <3>3. stake' \in [Accounts -> Nat]
        BY <2>5, <3>2 DEF LedgerTypeOK, DecreaseStake
    <3>4. unbacked' \subseteq Accounts
        BY <2>1, <2>5 DEF LedgerTypeOK, DecreaseStake
    <3> QED  BY <2>5, <3>1, <3>3, <3>4 DEF LedgerTypeOK, DecreaseStake
  <2> QED  BY <1>3, <2>2, <2>3, <2>4, <2>5
<1> QED  BY <1>1, <1>2, <1>3 DEF LedgerNext

-----------------------------------------------------------------------------

Ages == 0..(LeaveCooldown - 1)
Action == {"Join", "Leave"}

(* TypeOK with its maps named.                                             *)
RegistryTypeOK ==
    /\ LedgerTypeOK
    /\ validatorSet \subseteq Accounts
    /\ active \subseteq Accounts
    /\ IsMap(pending, Action)
    /\ IsMap(leaveRequests, Ages)
    /\ IsMap(recentlyRemoved, Ages)
    /\ IsMap(fit, BOOLEAN)
    /\ block \in 0..(EpochLength - 1)
    /\ viaJoin \subseteq active
    /\ outFor \in [Accounts -> 0..LeaveCooldown]

LEMMA TypeIsRegistryType == TypeOK <=> RegistryTypeOK
    BY DEF TypeOK, RegistryTypeOK, IsMap, Ages, Action

LEMMA ZeroAge == 0 \in Ages /\ LeaveCooldown \in Nat /\ LeaveCooldown > 0
    BY LeaveCooldownAssumption DEF Ages

(* The histories keep their types however membership and seats change.     *)
LEMMA RememberType ==
    ASSUME RegistryTypeOK, Remember
    PROVE  viaJoin' \subseteq active' /\ outFor' \in [Accounts -> 0..LeaveCooldown]
<1>1. 0 \in 0..LeaveCooldown /\ LeaveCooldown \in 0..LeaveCooldown
    BY ZeroAge
<1>2. \A v \in Accounts : outFor[v] \in 0..LeaveCooldown
    BY DEF RegistryTypeOK
<1> QED  BY <1>1, <1>2 DEF Remember

LEMMA InitType == Init => RegistryTypeOK
<1> SUFFICES ASSUME Init PROVE RegistryTypeOK
    OBVIOUS
<1>1. MinStake \in Nat /\ Funds \in Nat /\ Funds - MinStake \in Nat /\ Genesis \subseteq Accounts
    BY MinStakeAssumption, FundsAssumption, GenesisAssumption
<1>2. Balances
    BY <1>1 DEF Init, Balances
<1>3. validators \in [Genesis -> BOOLEAN] /\ Genesis \in SUBSET Accounts
    BY <1>1 DEF Init
<1>4. slashingCount \in [Accounts -> 0..(MaxSlashingCount - 1)]
  <2>1. 0 \in 0..(MaxSlashingCount - 1)
      BY MaxSlashingCountAssumption
  <2> QED  BY <2>1 DEF Init
<1>5. LedgerTypeOK
    BY <1>2, <1>3, <1>4 DEF Init, LedgerTypeOK, Balances
<1>6. IsMap(fit, BOOLEAN)
    BY <1>1 DEF Init, IsMap
<1>7. IsMap(pending, Action) /\ IsMap(leaveRequests, Ages) /\ IsMap(recentlyRemoved, Ages)
    BY EmptyIsMap DEF Init
<1>8. block \in 0..(EpochLength - 1)
    BY EpochLengthAssumption DEF Init
<1>9. outFor \in [Accounts -> 0..LeaveCooldown]
    BY ZeroAge DEF Init
<1> QED  BY <1>1, <1>5, <1>6, <1>7, <1>8, <1>9 DEF Init, RegistryTypeOK

(* What the hooks of a block make of the ages of requests and removals.    *)
LEMMA AgedType ==
    ASSUME RegistryTypeOK
    PROVE  IsMap(Aged(Without(leaveRequests, Expired)), Ages)
<1>1. PICK S \in SUBSET Accounts : leaveRequests \in [S -> Ages]
    BY DEF RegistryTypeOK, IsMap
<1>2. \A v \in S \ Expired : leaveRequests[v] + 1 \in Ages
    BY <1>1, ZeroAge DEF Expired, Ages
<1>3. Aged(Without(leaveRequests, Expired)) = [v \in S \ Expired |-> leaveRequests[v] + 1]
    BY <1>1 DEF Aged, Without
<1>4. Aged(Without(leaveRequests, Expired)) \in [S \ Expired -> Ages]
    BY <1>2, <1>3
<1> QED  BY <1>4 DEF IsMap

LEMMA RemovedType ==
    ASSUME RegistryTypeOK
    PROVE  IsMap([v \in (DOMAIN recentlyRemoved \ CooledDown) \cup Expired |->
                    IF v \in Expired THEN 0 ELSE recentlyRemoved[v] + 1], Ages)
<1>1. PICK S \in SUBSET Accounts : recentlyRemoved \in [S -> Ages]
    BY DEF RegistryTypeOK, IsMap
<1>2. Expired \subseteq Accounts
    BY DEF RegistryTypeOK, IsMap, Expired
<1>3. \A v \in S \ CooledDown : recentlyRemoved[v] + 1 \in Ages
    BY <1>1, ZeroAge DEF CooledDown, Ages
<1>4. (DOMAIN recentlyRemoved \ CooledDown) \cup Expired \in SUBSET Accounts
    BY <1>1, <1>2
<1>5. [v \in (DOMAIN recentlyRemoved \ CooledDown) \cup Expired |->
            IF v \in Expired THEN 0 ELSE recentlyRemoved[v] + 1]
        \in [(DOMAIN recentlyRemoved \ CooledDown) \cup Expired -> Ages]
    BY <1>1, <1>3, ZeroAge
<1> QED  BY <1>4, <1>5 DEF IsMap

LEMMA NextBlockType ==
    ASSUME RegistryTypeOK, NextBlock
    PROVE  RegistryTypeOK'
<1> DEFINE n == (block + 1) % EpochLength
<1>1. PICK J \in (IF n = 0 THEN Admissions ELSE {{}}) :
        LET left == IF n = 0 THEN Staying \cup J ELSE active \ Underperforming(active, n)
            seats == left \ Expired
        IN  /\ block' = n
            /\ active' = seats \ Underperforming(seats, n)
            /\ pending' = IF n = 0 THEN << >> ELSE pending
            /\ Exit(Expired)
            /\ validatorSet' = validatorSet \ Expired
            /\ leaveRequests' = Aged(Without(leaveRequests, Expired))
            /\ recentlyRemoved' =
                 [v \in (DOMAIN recentlyRemoved \ CooledDown) \cup Expired |->
                    IF v \in Expired THEN 0 ELSE recentlyRemoved[v] + 1]
            /\ viaJoin' = (viaJoin \cup J) \cap active'
            /\ outFor' = [v \in Accounts |->
                            IF v \in validatorSet' THEN LeaveCooldown
                            ELSE IF v \in validatorSet THEN 0
                            ELSE Least(outFor[v] + 1, LeaveCooldown)]
            /\ UNCHANGED fit
    BY DEF NextBlock
<1>2. Expired \subseteq Accounts
    BY DEF RegistryTypeOK, IsMap, Expired
<1>3. LedgerTypeOK'
    BY <1>1, <1>2, ExitType DEF RegistryTypeOK
<1>4. active' \subseteq Accounts
  <2>1. J \subseteq Accounts
      BY <1>1 DEF Admissions, Joiners, RegistryTypeOK, IsMap
  <2> QED  BY <1>1, <2>1 DEF Staying, RegistryTypeOK
<1>5. block' \in 0..(EpochLength - 1)
  <2>1. block \in Nat
      BY DEF RegistryTypeOK
  <2> QED  BY <1>1, <2>1, EpochLengthAssumption
<1>6. outFor' \in [Accounts -> 0..LeaveCooldown]
  <2>1. \A v \in Accounts : Least(outFor[v] + 1, LeaveCooldown) \in 0..LeaveCooldown
      BY ZeroAge DEF RegistryTypeOK, Least
  <2> QED  BY <1>1, <2>1, ZeroAge
<1>7. IsMap(pending', Action)
    BY <1>1, EmptyIsMap DEF RegistryTypeOK
<1>8. IsMap(leaveRequests', Ages) /\ IsMap(recentlyRemoved', Ages)
    BY <1>1, AgedType, RemovedType
<1> QED  BY <1>1, <1>3, <1>4, <1>5, <1>6, <1>7, <1>8 DEF RegistryTypeOK

LEMMA AccountStepType ==
    ASSUME RegistryTypeOK, NEW v \in Accounts,
           \/ JoinValidatorSet(v) \/ LeaveValidatorSet(v) \/ JoinValidators(v) \/ LeaveValidators(v)
           \/ CancelLeaveRequest(v) \/ ForceEject(v) \/ ExecuteAddValidator(v) \/ ChangeScore(v)
    PROVE  RegistryTypeOK'
<1>1. CASE JoinValidatorSet(v) \/ LeaveValidatorSet(v)
  <2>1. "Join" \in Action /\ "Leave" \in Action
      BY DEF Action
  <2>2. IsMap(pending', Action)
      BY <1>1, <2>1, WithIsMap DEF RegistryTypeOK, JoinValidatorSet, LeaveValidatorSet
  <2> QED  BY <1>1, <2>2 DEF RegistryTypeOK, JoinValidatorSet, LeaveValidatorSet, ledger, LedgerTypeOK
<1>2. CASE JoinValidators(v)
  <2>1. LedgerTypeOK'
      BY <1>2, EnterType DEF RegistryTypeOK, JoinValidators
  <2>2. IsMap(recentlyRemoved', Ages)
      BY <1>2, WithoutIsMap DEF RegistryTypeOK, JoinValidators
  <2>3. IsMap(fit', BOOLEAN)
      BY <1>2, WithIsMap DEF RegistryTypeOK, JoinValidators
  <2>4. viaJoin' \subseteq active' /\ outFor' \in [Accounts -> 0..LeaveCooldown]
      BY <1>2, RememberType DEF JoinValidators
  <2> QED  BY <1>2, <2>1, <2>2, <2>3, <2>4 DEF RegistryTypeOK, JoinValidators
<1>3. CASE LeaveValidators(v)
  <2>1. LedgerTypeOK'
      BY <1>3, SetOnType DEF RegistryTypeOK, LeaveValidators
  <2>2. IsMap(leaveRequests', Ages)
      BY <1>3, WithIsMap, ZeroAge DEF RegistryTypeOK, LeaveValidators
  <2>3. viaJoin' \subseteq active' /\ outFor' \in [Accounts -> 0..LeaveCooldown]
      BY <1>3, RememberType DEF LeaveValidators
  <2> QED  BY <1>3, <2>1, <2>2, <2>3 DEF RegistryTypeOK, LeaveValidators
<1>4. CASE CancelLeaveRequest(v)
  <2>1. LedgerTypeOK'
    <3>1. CASE SetOn(v, TRUE)
        BY <3>1, SetOnType DEF RegistryTypeOK
    <3>2. CASE UNCHANGED ledger
        BY <3>2 DEF RegistryTypeOK, LedgerTypeOK, ledger
    <3> QED  BY <1>4, <3>1, <3>2 DEF CancelLeaveRequest
  <2>2. IsMap(leaveRequests', Ages)
      BY <1>4, WithoutIsMap DEF RegistryTypeOK, CancelLeaveRequest
  <2>3. viaJoin' \subseteq active' /\ outFor' \in [Accounts -> 0..LeaveCooldown]
      BY <1>4, RememberType DEF CancelLeaveRequest
  <2>4. active' \subseteq Accounts
      BY <1>4 DEF RegistryTypeOK, CancelLeaveRequest, Reseated
  <2> QED  BY <1>4, <2>1, <2>2, <2>3, <2>4 DEF RegistryTypeOK, CancelLeaveRequest
<1>5. CASE ForceEject(v)
  <2>1. LedgerTypeOK'
      BY <1>5, ExitType DEF RegistryTypeOK, ForceEject
  <2>2. IsMap(leaveRequests', Ages)
      BY <1>5, WithoutIsMap DEF RegistryTypeOK, ForceEject, Left
  <2>3. IsMap(recentlyRemoved', Ages)
      BY <1>5, WithIsMap, ZeroAge DEF RegistryTypeOK, ForceEject
  <2>4. viaJoin' \subseteq active' /\ outFor' \in [Accounts -> 0..LeaveCooldown]
      BY <1>5, RememberType DEF ForceEject
  <2> QED  BY <1>5, <2>1, <2>2, <2>3, <2>4 DEF RegistryTypeOK, ForceEject, Left
<1>6. CASE ExecuteAddValidator(v)
  <2>1. IsMap(fit', BOOLEAN)
      BY <1>6, WithIsMap DEF RegistryTypeOK, ExecuteAddValidator
  <2>2. viaJoin' \subseteq active' /\ outFor' \in [Accounts -> 0..LeaveCooldown]
      BY <1>6, RememberType DEF ExecuteAddValidator
  <2>3. LedgerTypeOK'
      BY <1>6 DEF RegistryTypeOK, ExecuteAddValidator, LedgerTypeOK, ledger
  <2> QED  BY <1>6, <2>1, <2>2, <2>3 DEF RegistryTypeOK, ExecuteAddValidator
<1>7. CASE ChangeScore(v)
  <2>1. PICK S \in SUBSET Accounts : fit \in [S -> BOOLEAN]
      BY DEF RegistryTypeOK, IsMap
  <2>2. fit' \in [S -> BOOLEAN]
      BY <1>7, <2>1 DEF ChangeScore
  <2>3. IsMap(fit', BOOLEAN)
      BY <2>2 DEF IsMap
  <2>4. LedgerTypeOK'
      BY <1>7 DEF RegistryTypeOK, ChangeScore, LedgerTypeOK, ledger
  <2> QED  BY <1>7, <2>3, <2>4 DEF RegistryTypeOK, ChangeScore
<1> QED  BY <1>1, <1>2, <1>3, <1>4, <1>5, <1>6, <1>7

LEMMA NextType == RegistryTypeOK /\ [Next]_vars => RegistryTypeOK'
<1> SUFFICES ASSUME RegistryTypeOK, [Next]_vars PROVE RegistryTypeOK'
    OBVIOUS
<1>1. CASE StakeCall
  <2>1. LedgerTypeOK'
      BY <1>1, LedgerNextType DEF RegistryTypeOK, StakeCall
  <2> QED  BY <1>1, <2>1 DEF RegistryTypeOK, StakeCall, registry
<1>2. CASE SudoAdvanceEpoch
  <2>1. PICK J \in Admissions : active' = Staying \cup J /\ viaJoin' = (viaJoin \cup J) \cap active'
      BY <1>2 DEF SudoAdvanceEpoch
  <2>2. J \subseteq Accounts
      BY <2>1 DEF Admissions, Joiners, RegistryTypeOK, IsMap
  <2>3. active' \subseteq Accounts /\ viaJoin' \subseteq active'
      BY <2>1, <2>2 DEF Staying, RegistryTypeOK
  <2>4. IsMap(pending', Action)
      BY <1>2, EmptyIsMap DEF SudoAdvanceEpoch
  <2>5. LedgerTypeOK'
      BY <1>2 DEF RegistryTypeOK, SudoAdvanceEpoch, LedgerTypeOK, ledger
  <2> QED  BY <1>2, <2>3, <2>4, <2>5 DEF RegistryTypeOK, SudoAdvanceEpoch
<1>3. CASE UNCHANGED vars
    BY <1>3 DEF RegistryTypeOK, LedgerTypeOK, vars, ledger, registry
<1> QED  BY <1>1, <1>2, <1>3, NextBlockType, AccountStepType DEF Next

(* The storage of both pallets keeps its types: no balance and no stake    *)
(* ever goes below zero, and no request or removal outlives its cooldown.  *)
THEOREM TypeCorrect == Spec => []TypeOK
<1>1. Init => RegistryTypeOK
    BY InitType
<1>2. RegistryTypeOK /\ [Next]_vars => RegistryTypeOK'
    BY NextType
<1>3. RegistryTypeOK => TypeOK
    BY TypeIsRegistryType
<1> QED  BY <1>1, <1>2, <1>3, PTL DEF Spec

LEMMA RegistryTypeCorrect == Spec => []RegistryTypeOK
    BY TypeCorrect, TypeIsRegistryType, PTL

-----------------------------------------------------------------------------

(* The domains of the maps after an entry is written or some are erased.   *)
LEMMA MapDomains ==
    /\ \A f, x, y : DOMAIN With(f, x, y) = DOMAIN f \cup {x}
    /\ \A f, S : DOMAIN Without(f, S) = DOMAIN f \ S
    /\ \A f, S : \A x \in DOMAIN f \ S : Without(f, S)[x] = f[x]
    /\ \A f : DOMAIN Aged(f) = DOMAIN f
    BY DEF With, Without, Aged

LEMMA RequestDomains ==
    ASSUME NEW v \in Accounts
    PROVE  /\ LeaveValidators(v) => DOMAIN leaveRequests' = DOMAIN leaveRequests \cup {v}
           /\ CancelLeaveRequest(v) => DOMAIN leaveRequests' = DOMAIN leaveRequests \ {v}
           /\ ForceEject(v) => DOMAIN leaveRequests' = DOMAIN leaveRequests \ {v}
<1>1. LeaveValidators(v) => leaveRequests' = With(leaveRequests, v, 0)
    BY DEF LeaveValidators
<1>2. CancelLeaveRequest(v) => leaveRequests' = Without(leaveRequests, {v})
    BY DEF CancelLeaveRequest
<1>3. ForceEject(v) => leaveRequests' = Without(leaveRequests, {v})
    BY DEF ForceEject, Left
<1> QED  BY <1>1, <1>2, <1>3, MapDomains

(* Whatever one block does to the registry, said once for the proofs.      *)
LEMMA BlockStep ==
    ASSUME NextBlock
    PROVE  \E J \in SUBSET Joiners :
            /\ Cardinality(J) = 0 \/ J \in Admissions
            /\ \/ active' \subseteq active /\ J = {}
               \/ active' \subseteq Staying \cup J /\ J \in Admissions
            /\ active' \cap Expired = {}
            /\ viaJoin' = (viaJoin \cup J) \cap active'
            /\ validatorSet' = validatorSet \ Expired
            /\ DOMAIN leaveRequests' = DOMAIN leaveRequests \ Expired
            /\ Exit(Expired)
<1> DEFINE n == (block + 1) % EpochLength
<1>1. PICK J \in (IF n = 0 THEN Admissions ELSE {{}}) :
        LET left == IF n = 0 THEN Staying \cup J ELSE active \ Underperforming(active, n)
            seats == left \ Expired
        IN  /\ active' = seats \ Underperforming(seats, n)
            /\ Exit(Expired)
            /\ validatorSet' = validatorSet \ Expired
            /\ leaveRequests' = Aged(Without(leaveRequests, Expired))
            /\ viaJoin' = (viaJoin \cup J) \cap active'
    BY DEF NextBlock
<1>2. DOMAIN leaveRequests' = DOMAIN leaveRequests \ Expired
    BY <1>1, MapDomains
<1>3. CASE n = 0
    BY <1>1, <1>2, <1>3 DEF Admissions
<1>4. CASE n # 0
  <2>1. J = {} /\ J \in SUBSET Joiners /\ Cardinality(J) = 0
      BY <1>1, <1>4, FS_EmptySet
  <2> QED  BY <1>1, <1>2, <1>4, <2>1
<1> QED  BY <1>3, <1>4

-----------------------------------------------------------------------------

(* A leave request belongs to a member: every way out of the set takes the *)
(* request along, and only a member can make one.                          *)
LEMMA OnlyMembersLeaveStep == OnlyMembersLeave /\ [Next]_vars => OnlyMembersLeave'
<1> SUFFICES ASSUME OnlyMembersLeave, [Next]_vars PROVE OnlyMembersLeave'
    OBVIOUS
<1>1. CASE NextBlock
    BY <1>1, BlockStep DEF OnlyMembersLeave
<1>2. ASSUME NEW v \in Accounts,
             JoinValidators(v) \/ LeaveValidators(v) \/ CancelLeaveRequest(v)
                \/ ForceEject(v) \/ ExecuteAddValidator(v)
      PROVE  OnlyMembersLeave'
  <2>1. CASE JoinValidators(v) \/ ExecuteAddValidator(v)
      BY <2>1 DEF OnlyMembersLeave, JoinValidators, ExecuteAddValidator
  <2>2. CASE LeaveValidators(v)
      BY <2>2, RequestDomains DEF OnlyMembersLeave, LeaveValidators
  <2>3. CASE CancelLeaveRequest(v)
      BY <2>3, RequestDomains DEF OnlyMembersLeave, CancelLeaveRequest
  <2>4. CASE ForceEject(v)
      BY <2>4, RequestDomains DEF OnlyMembersLeave, ForceEject, Left
  <2> QED  BY <1>2, <2>1, <2>2, <2>3, <2>4
<1>3. ASSUME NEW v \in Accounts, JoinValidatorSet(v) \/ LeaveValidatorSet(v) \/ ChangeScore(v)
      PROVE  OnlyMembersLeave'
    BY <1>3 DEF OnlyMembersLeave, JoinValidatorSet, LeaveValidatorSet, ChangeScore
<1>4. CASE StakeCall \/ SudoAdvanceEpoch \/ UNCHANGED vars
    BY <1>4 DEF OnlyMembersLeave, StakeCall, SudoAdvanceEpoch, vars, registry
<1> QED  BY <1>1, <1>2, <1>3, <1>4 DEF Next

(* Nobody who is out of the set waits for a leave request to expire.       *)
THEOREM LeaversAreMembers == Spec => []OnlyMembersLeave
<1>1. Init => OnlyMembersLeave
    BY DEF Init, OnlyMembersLeave
<1> QED  BY <1>1, OnlyMembersLeaveStep, PTL DEF Spec

-----------------------------------------------------------------------------

(* A seat that no pending Join filled is one that was there before, or one *)
(* that a cancelled leave request gave back to a member.                   *)
LEMMA SeatsAreMembersStep ==
    OnlyMembersLeave /\ SeatsAreMembers /\ [Next]_vars => SeatsAreMembers'
<1> SUFFICES ASSUME OnlyMembersLeave, SeatsAreMembers, [Next]_vars PROVE SeatsAreMembers'
    OBVIOUS
<1>1. CASE NextBlock
    BY <1>1, BlockStep DEF SeatsAreMembers, Staying
<1>2. CASE SudoAdvanceEpoch
    BY <1>2 DEF SeatsAreMembers, SudoAdvanceEpoch, Staying
<1>3. ASSUME NEW v \in Accounts, JoinValidators(v) \/ ExecuteAddValidator(v)
      PROVE  SeatsAreMembers'
    BY <1>3 DEF SeatsAreMembers, JoinValidators, ExecuteAddValidator, Remember
<1>4. ASSUME NEW v \in Accounts, LeaveValidators(v) \/ ForceEject(v)
      PROVE  SeatsAreMembers'
  <2>1. CASE LeaveValidators(v)
      BY <2>1, RequestDomains DEF SeatsAreMembers, LeaveValidators, Remember
  <2>2. CASE ForceEject(v)
      BY <2>2, RequestDomains DEF SeatsAreMembers, ForceEject, Left, Remember
  <2> QED  BY <1>4, <2>1, <2>2
<1>5. ASSUME NEW v \in Accounts, CancelLeaveRequest(v)
      PROVE  SeatsAreMembers'
  <2>1. active' \subseteq active \cup {v} /\ v \in validatorSet
      BY <1>5 DEF CancelLeaveRequest, Reseated, OnlyMembersLeave
  <2>2. DOMAIN leaveRequests' = DOMAIN leaveRequests \ {v}
      BY <1>5, RequestDomains
  <2> QED  BY <1>5, <2>1, <2>2 DEF SeatsAreMembers, CancelLeaveRequest, Remember
<1>6. ASSUME NEW v \in Accounts, JoinValidatorSet(v) \/ LeaveValidatorSet(v) \/ ChangeScore(v)
      PROVE  SeatsAreMembers'
    BY <1>6 DEF SeatsAreMembers, JoinValidatorSet, LeaveValidatorSet, ChangeScore
<1>7. CASE StakeCall \/ UNCHANGED vars
    BY <1>7 DEF SeatsAreMembers, StakeCall, vars, registry
<1> QED  BY <1>1, <1>2, <1>3, <1>4, <1>5, <1>6, <1>7 DEF Next

(* Only the seats that a pending Join filled can be held by an account     *)
(* that is no member or that has asked to leave.                           *)
THEOREM SeatedAreMembers == Spec => []SeatsAreMembers
<1>1. Init => OnlyMembersLeave /\ SeatsAreMembers
    BY DEF Init, OnlyMembersLeave, SeatsAreMembers
<1>2. OnlyMembersLeave /\ SeatsAreMembers /\ [Next]_vars => (OnlyMembersLeave /\ SeatsAreMembers)'
    BY OnlyMembersLeaveStep, SeatsAreMembersStep
<1> QED  BY <1>1, <1>2, PTL DEF Spec

-----------------------------------------------------------------------------

LEMMA ExitKeepsBacking ==
    ASSUME LedgerTypeOK, ReserveBacksStake, NEW S, Exit(S)
    PROVE  ReserveBacksStake'
<1> SUFFICES ASSUME NEW v \in Accounts \ unbacked
             PROVE  reserved'[v] = stake'[v]
    BY DEF ReserveBacksStake, Exit
<1>1. reserved[v] = stake[v] /\ reserved[v] \in Nat
    BY DEF ReserveBacksStake, LedgerTypeOK
<1>2. Released(v, stake[v]) = stake[v]
    BY <1>1, ReleasedBounds
<1> QED  BY <1>1, <1>2 DEF Exit, UnreserveAll

LEMMA EnterKeepsBacking ==
    ASSUME LedgerTypeOK, ReserveBacksStake, NEW v \in Accounts, Enter(v)
    PROVE  ReserveBacksStake'
<1> SUFFICES ASSUME NEW w \in Accounts, w \notin unbacked'
             PROVE  reserved'[w] = stake'[w]
    BY DEF ReserveBacksStake
<1>1. reserved[w] = stake[w] /\ reserved[w] \in Nat
    BY DEF ReserveBacksStake, LedgerTypeOK, Enter
<1>2. w = v => stake[w] = 0
    BY DEF Enter
<1> QED  BY <1>1, <1>2, MinStakeAssumption DEF Enter, Reserve, LedgerTypeOK

LEMMA LedgerNextKeepsBacking ==
    ASSUME LedgerTypeOK, ReserveBacksStake, LedgerNext
    PROVE  ReserveBacksStake'
<1>1. ASSUME NEW v \in Stakers, Register(v) \/ Strike(v)
      PROVE  ReserveBacksStake'
    BY <1>1 DEF Register, Strike, ReserveBacksStake
<1>2. ASSUME NEW v \in Stakers, NEW amount \in Amounts,
             Bond(v, amount) \/ Unbond(v, amount) \/ IncreaseStake(v, amount) \/ DecreaseStake(v, amount)
      PROVE  ReserveBacksStake'
  <2>1. v \in Accounts /\ amount \in Nat
      BY AccountsAssumption, AmountsAssumption
  <2>2. CASE Bond(v, amount)
      BY <2>1, <2>2 DEF Bond, ReserveBacksStake, LedgerTypeOK
  <2>3. CASE Unbond(v, amount)
      BY <2>1, <2>3 DEF Unbond, ReserveBacksStake, LedgerTypeOK
  <2>4. CASE IncreaseStake(v, amount)
      BY <2>1, <2>4 DEF IncreaseStake, Reserve, ReserveBacksStake, LedgerTypeOK
  <2>5. CASE DecreaseStake(v, amount)
    <3> SUFFICES ASSUME NEW w \in Accounts, w \notin unbacked'
                 PROVE  reserved'[w] = stake'[w]
        BY DEF ReserveBacksStake
    <3>1. reserved[w] = stake[w]
        BY <2>5 DEF DecreaseStake, ReserveBacksStake
    <3>2. w = v => Released(v, amount) = Remainder(v, amount)
        BY <2>5 DEF DecreaseStake
    <3> QED  BY <2>1, <2>5, <3>1, <3>2 DEF DecreaseStake, Unreserve, LedgerTypeOK
  <2> QED  BY <1>2, <2>2, <2>3, <2>4, <2>5
<1> QED  BY <1>1, <1>2 DEF LedgerNext

LEMMA BackingStep == RegistryTypeOK /\ ReserveBacksStake /\ [Next]_vars => ReserveBacksStake'
<1> SUFFICES ASSUME LedgerTypeOK, ReserveBacksStake, [Next]_vars PROVE ReserveBacksStake'
    BY DEF RegistryTypeOK
<1>1. CASE StakeCall
    BY <1>1, LedgerNextKeepsBacking DEF StakeCall
<1>2. CASE NextBlock
    BY <1>2, BlockStep, ExitKeepsBacking
<1>3. ASSUME NEW v \in Accounts, JoinValidators(v) \/ ForceEject(v)
      PROVE  ReserveBacksStake'
    BY <1>3, EnterKeepsBacking, ExitKeepsBacking DEF JoinValidators, ForceEject
<1>4. ASSUME NEW v \in Accounts, LeaveValidators(v) \/ CancelLeaveRequest(v)
      PROVE  ReserveBacksStake'
    BY <1>4 DEF LeaveValidators, CancelLeaveRequest, SetOn, ReserveBacksStake, ledger
<1>5. ASSUME NEW v \in Accounts,
             JoinValidatorSet(v) \/ LeaveValidatorSet(v) \/ ChangeScore(v) \/ ExecuteAddValidator(v)
      PROVE  ReserveBacksStake'
    BY <1>5 DEF JoinValidatorSet, LeaveValidatorSet, ChangeScore, ExecuteAddValidator, ReserveBacksStake, ledger
<1>6. CASE SudoAdvanceEpoch \/ UNCHANGED vars
    BY <1>6 DEF SudoAdvanceEpoch, vars, ReserveBacksStake, ledger
<1> QED  BY <1>1, <1>2, <1>3, <1>4, <1>5, <1>6 DEF Next

(* The stake that counts for an account is reserved, exactly, unless the   *)
(* account used a call that moves one without the other.                   *)
THEOREM StakeIsBacked == Spec => []ReserveBacksStake
<1>1. Init => ReserveBacksStake
    BY DEF Init, ReserveBacksStake
<1>2. RegistryTypeOK /\ ReserveBacksStake /\ [Next]_vars => ReserveBacksStake'
    BY BackingStep
<1> QED  BY <1>1, <1>2, RegistryTypeCorrect, PTL DEF Spec

-----------------------------------------------------------------------------

LEMMA Smaller ==
    ASSUME NEW S \in SUBSET Accounts, NEW T, T \subseteq S, Cardinality(S) <= MaxValidators
    PROVE  Cardinality(T) <= MaxValidators
<1>1. IsFiniteSet(S)
    BY AccountsAssumption, FS_Subset
<1>2. IsFiniteSet(T) /\ Cardinality(T) <= Cardinality(S)
    BY <1>1, FS_Subset
<1>3. Cardinality(S) \in Nat /\ Cardinality(T) \in Nat
    BY <1>1, <1>2, FS_CardinalityType
<1> QED  BY <1>2, <1>3, MaxValidatorsAssumption

LEMMA OneMore ==
    ASSUME NEW S \in SUBSET Accounts, NEW v, Cardinality(S) < MaxValidators
    PROVE  Cardinality(S \cup {v}) <= MaxValidators
<1>1. IsFiniteSet(S)
    BY AccountsAssumption, FS_Subset
<1>2. Cardinality(S) \in Nat
    BY <1>1, FS_CardinalityType
<1>3. Cardinality(S \cup {v}) \in {Cardinality(S), Cardinality(S) + 1}
    BY <1>1, FS_AddElement
<1> QED  BY <1>2, <1>3, MaxValidatorsAssumption

(* The seats of an epoch, before and after its admissions.                 *)
LEMMA AdmittedFit ==
    ASSUME RegistryTypeOK, NEW J \in Admissions
    PROVE  Staying \cup J \in SUBSET Accounts /\ Cardinality(Staying \cup J) <= MaxValidators
    BY DEF Admissions, Joiners, Staying, RegistryTypeOK, IsMap

LEMMA CapacityStep == RegistryTypeOK /\ WithinCapacity /\ [Next]_vars => WithinCapacity'
<1> SUFFICES ASSUME RegistryTypeOK, WithinCapacity, [Next]_vars PROVE WithinCapacity'
    OBVIOUS
<1>0. validatorSet \in SUBSET Accounts /\ active \in SUBSET Accounts
    BY DEF RegistryTypeOK
<1>1. CASE NextBlock
  <2>1. Cardinality(validatorSet') <= MaxValidators
      BY <1>0, <1>1, BlockStep, Smaller DEF WithinCapacity
  <2>2. Cardinality(active') <= MaxValidators
    <3>1. \/ active' \subseteq active
          \/ \E J \in Admissions : active' \subseteq Staying \cup J
        BY <1>1, BlockStep
    <3> QED  BY <1>0, <3>1, AdmittedFit, Smaller DEF WithinCapacity
  <2> QED  BY <2>1, <2>2 DEF WithinCapacity
<1>2. CASE SudoAdvanceEpoch
  <2>1. \E J \in Admissions : active' = Staying \cup J
      BY <1>2 DEF SudoAdvanceEpoch
  <2> QED  BY <1>2, <2>1, AdmittedFit DEF WithinCapacity, SudoAdvanceEpoch
<1>3. ASSUME NEW v \in Accounts, JoinValidators(v) \/ ExecuteAddValidator(v)
      PROVE  WithinCapacity'
    BY <1>0, <1>3, OneMore DEF WithinCapacity, JoinValidators, ExecuteAddValidator
<1>4. ASSUME NEW v \in Accounts, LeaveValidators(v) \/ ForceEject(v)
      PROVE  WithinCapacity'
  <2>1. active' \subseteq active /\ validatorSet' \subseteq validatorSet
      BY <1>4 DEF LeaveValidators, ForceEject, Left
  <2> QED  BY <1>0, <2>1, Smaller DEF WithinCapacity
<1>5. ASSUME NEW v \in Accounts, CancelLeaveRequest(v)
      PROVE  WithinCapacity'
    BY <1>0, <1>5, OneMore DEF WithinCapacity, CancelLeaveRequest, Reseated
<1>6. ASSUME NEW v \in Accounts, JoinValidatorSet(v) \/ LeaveValidatorSet(v) \/ ChangeScore(v)
      PROVE  WithinCapacity'
    BY <1>6 DEF WithinCapacity, JoinValidatorSet, LeaveValidatorSet, ChangeScore
<1>7. CASE StakeCall \/ UNCHANGED vars
    BY <1>7 DEF WithinCapacity, StakeCall, vars, registry
<1> QED  BY <1>1, <1>2, <1>3, <1>4, <1>5, <1>6, <1>7 DEF Next

(* Members and seats stay within MaxValidators, whichever operation fills  *)
(* the last place.                                                         *)
THEOREM CapacityHolds == Spec => []WithinCapacity
<1>1. Init => WithinCapacity
    BY GenesisAssumption DEF Init, WithinCapacity
<1>2. RegistryTypeOK /\ WithinCapacity /\ [Next]_vars => WithinCapacity'
    BY CapacityStep
<1> QED  BY <1>1, <1>2, RegistryTypeCorrect, PTL DEF Spec

-----------------------------------------------------------------------------

(* The strengthening behind the cooldown: an account that is out for less  *)
(* than LeaveCooldown blocks has an entry in RecentlyRemovedValidators that *)
(* is no older than its absence.                                           *)
RemovalsRemembered ==
    \A v \in Accounts \ validatorSet :
        outFor[v] < LeaveCooldown =>
            v \in DOMAIN recentlyRemoved /\ recentlyRemoved[v] <= outFor[v]

LEMMA RememberedStep == RegistryTypeOK /\ OnlyMembersLeave /\ RemovalsRemembered /\ [Next]_vars
                            => RemovalsRemembered'
<1> SUFFICES ASSUME RegistryTypeOK, OnlyMembersLeave, RemovalsRemembered, [Next]_vars,
                    NEW v \in Accounts, v \notin validatorSet', outFor'[v] < LeaveCooldown
             PROVE  v \in DOMAIN recentlyRemoved' /\ recentlyRemoved'[v] <= outFor'[v]
    BY DEF RemovalsRemembered
<1>0. outFor[v] \in Nat /\ LeaveCooldown \in Nat
    BY ZeroAge DEF RegistryTypeOK
<1>1. CASE NextBlock
  <2>1. /\ validatorSet' = validatorSet \ Expired
        /\ recentlyRemoved' =
             [w \in (DOMAIN recentlyRemoved \ CooledDown) \cup Expired |->
                IF w \in Expired THEN 0 ELSE recentlyRemoved[w] + 1]
        /\ outFor' = [w \in Accounts |->
                        IF w \in validatorSet' THEN LeaveCooldown
                        ELSE IF w \in validatorSet THEN 0
                        ELSE Least(outFor[w] + 1, LeaveCooldown)]
      BY <1>1 DEF NextBlock
  <2>2. CASE v \in validatorSet
      BY <2>1, <2>2
  <2>3. CASE v \notin validatorSet
    <3>1. outFor'[v] = outFor[v] + 1 /\ outFor[v] + 1 < LeaveCooldown
        BY <1>0, <2>1, <2>3 DEF Least
    <3>2. v \in DOMAIN recentlyRemoved /\ recentlyRemoved[v] <= outFor[v]
        BY <1>0, <2>3, <3>1 DEF RemovalsRemembered
    <3>3. recentlyRemoved[v] \in Nat
        BY <3>2 DEF RegistryTypeOK, IsMap, Ages
    <3>4. v \notin CooledDown /\ v \notin Expired
        BY <1>0, <2>3, <3>1, <3>2, <3>3 DEF CooledDown, Expired, OnlyMembersLeave
    <3> QED  BY <1>0, <2>1, <3>1, <3>2, <3>3, <3>4
  <2> QED  BY <2>2, <2>3
<1>2. ASSUME NEW w \in Accounts, ForceEject(w)
      PROVE  v \in DOMAIN recentlyRemoved' /\ recentlyRemoved'[v] <= outFor'[v]
  <2>1. recentlyRemoved' = With(recentlyRemoved, w, 0) /\ validatorSet' = validatorSet \ {w}
      BY <1>2 DEF ForceEject, Left
  <2>2. outFor'[v] = IF v \in validatorSet THEN 0 ELSE outFor[v]
      BY <1>2 DEF ForceEject, Remember
  <2>3. CASE v = w
      BY <1>0, <2>1, <2>2, <2>3 DEF With
  <2>4. CASE v # w
    <3>1. v \notin validatorSet /\ outFor[v] < LeaveCooldown
        BY <2>1, <2>2, <2>4
    <3> QED  BY <2>1, <2>2, <2>4, <3>1 DEF With, RemovalsRemembered
  <2> QED  BY <2>3, <2>4
<1>3. ASSUME NEW w \in Accounts, JoinValidators(w)
      PROVE  v \in DOMAIN recentlyRemoved' /\ recentlyRemoved'[v] <= outFor'[v]
  <2>1. recentlyRemoved' = Without(recentlyRemoved, {w}) /\ validatorSet' = validatorSet \cup {w}
      BY <1>3 DEF JoinValidators
  <2>2. v \notin validatorSet /\ v # w /\ outFor'[v] = outFor[v]
      BY <1>3, <2>1 DEF JoinValidators, Remember
  <2> QED  BY <2>1, <2>2 DEF Without, RemovalsRemembered
<1>4. ASSUME NEW w \in Accounts, LeaveValidators(w) \/ CancelLeaveRequest(w) \/ ExecuteAddValidator(w)
      PROVE  v \in DOMAIN recentlyRemoved' /\ recentlyRemoved'[v] <= outFor'[v]
  <2>1. recentlyRemoved' = recentlyRemoved /\ v \notin validatorSet /\ outFor'[v] = outFor[v]
      BY <1>4 DEF LeaveValidators, CancelLeaveRequest, ExecuteAddValidator, Remember
  <2> QED  BY <2>1 DEF RemovalsRemembered
<1>5. CASE UNCHANGED <<recentlyRemoved, validatorSet, outFor>>
    BY <1>5 DEF RemovalsRemembered
<1>6. ASSUME NEW w \in Accounts, JoinValidatorSet(w) \/ LeaveValidatorSet(w) \/ ChangeScore(w)
      PROVE  UNCHANGED <<recentlyRemoved, validatorSet, outFor>>
    BY <1>6 DEF JoinValidatorSet, LeaveValidatorSet, ChangeScore
<1>7. (StakeCall \/ SudoAdvanceEpoch \/ UNCHANGED vars) => UNCHANGED <<recentlyRemoved, validatorSet, outFor>>
    BY DEF StakeCall, SudoAdvanceEpoch, vars, registry
<1> QED  BY <1>1, <1>2, <1>3, <1>4, <1>5, <1>6, <1>7 DEF Next

(* However an account left - its request expired, it was ejected, by       *)
(* governance or for misbehaviour - it is out for LeaveCooldown blocks     *)
(* unless governance adds it.                                              *)
THEOREM CooldownIsServed == Spec => RejoinsAfterCooldown
<1>1. Init => OnlyMembersLeave /\ RemovalsRemembered
    BY ZeroAge DEF Init, OnlyMembersLeave, RemovalsRemembered
<1>2. RegistryTypeOK /\ OnlyMembersLeave /\ RemovalsRemembered /\ [Next]_vars
        => (OnlyMembersLeave /\ RemovalsRemembered)'
    BY OnlyMembersLeaveStep, RememberedStep
<1>3. RegistryTypeOK /\ RemovalsRemembered /\ [Next]_vars =>
        [ \A v \in validatorSet' \ validatorSet :
            ExecuteAddValidator(v) \/ outFor[v] >= LeaveCooldown ]_vars
  <2> SUFFICES ASSUME RegistryTypeOK, RemovalsRemembered, Next,
                      NEW v \in validatorSet' \ validatorSet
               PROVE  ExecuteAddValidator(v) \/ outFor[v] >= LeaveCooldown
      OBVIOUS
  <2>1. CASE NextBlock
      BY <2>1, BlockStep
  <2>2. CASE StakeCall \/ SudoAdvanceEpoch
      BY <2>2 DEF StakeCall, SudoAdvanceEpoch, registry
  <2>3. ASSUME NEW w \in Accounts,
               JoinValidatorSet(w) \/ LeaveValidatorSet(w) \/ ChangeScore(w) \/ LeaveValidators(w)
                  \/ CancelLeaveRequest(w) \/ ForceEject(w)
        PROVE  FALSE
      BY <2>3 DEF JoinValidatorSet, LeaveValidatorSet, ChangeScore, LeaveValidators, CancelLeaveRequest,
                  ForceEject, Left
  <2>4. ASSUME NEW w \in Accounts, ExecuteAddValidator(w)
        PROVE  ExecuteAddValidator(v)
    <3>1. v = w
        BY <2>4 DEF ExecuteAddValidator
    <3> QED  BY <2>4, <3>1
  <2>5. ASSUME NEW w \in Accounts, JoinValidators(w)
        PROVE  outFor[v] >= LeaveCooldown
    <3>1. v = w /\ v \in Accounts \ validatorSet /\ v \notin DOMAIN recentlyRemoved
        BY <2>5 DEF JoinValidators, MayRejoin
    <3>2. outFor[v] \in Nat /\ LeaveCooldown \in Nat
        BY <3>1, ZeroAge DEF RegistryTypeOK
    <3> QED  BY <3>1, <3>2 DEF RemovalsRemembered
  <2> QED  BY <2>1, <2>2, <2>3, <2>4, <2>5 DEF Next
<1> QED  BY <1>1, <1>2, <1>3, RegistryTypeCorrect, PTL DEF Spec, RejoinsAfterCooldown

=============================================================================
