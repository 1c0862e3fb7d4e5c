SPECIFICATION Spec
CONSTANTS
    v1 = v1
    v2 = v2
    v3 = v3
    a2 = a2
    b2 = b2
    a4 = a4
    a6 = a6
    a8 = a8
    NoBlock = NoBlock
    Validators <- MCValidators
    Blocks = {a2}
    Number <- ForkNumber
    FinalityCheckpointInterval = 0
    VoteRetentionRounds = 0
    VoteWeightScale = 753
    ThresholdPercent = 67
    GenesisStake <- BaseStake
    StakeTables <- SmallStakes
    MaxSetId = 1
INVARIANTS QuorumHoldsTwoThirds EnoughStakeIsQuorum
CHECK_DEADLOCK FALSE
