SPECIFICATION FairSpec
CONSTANTS
    g = g
    c = c
    Accounts = {g, c}
    Stakers = {c}
    Amounts = {1}
    MaxStake = 2
    MinStake = 1
    MaxValidators = 1
    MaxSlashingCount = 2
    Genesis = {g}
    Funds = 2
    LeaveCooldown = 2
    EpochLength = 2
    CheckInterval = 1
INVARIANTS ReserveBacksStake WithinCapacity OnlyMembersLeave SeatsAreMembers
PROPERTIES RejoinsAfterCooldown LeaveIsSettled UnfitLoseSeats
CHECK_DEADLOCK FALSE
