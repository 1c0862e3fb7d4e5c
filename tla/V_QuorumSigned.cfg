SPECIFICATION Spec
CONSTANTS
    v1 = v1
    v2 = v2
    v3 = v3
    a2 = a2
    b2 = b2
    a4 = a4
    a6 = a6
    a8 = a8
    NoBlock = NoBlock
    Validators <- MCValidators
    Blocks = {a2, b2, a4}
    Number <- ForkNumber
    FinalityCheckpointInterval = 2
    VoteRetentionRounds = 0
    VoteWeightScale = 12
    ThresholdPercent = 67
    GenesisStake <- BaseStake
    StakeTables <- NoTables
    MaxSetId = 2
PROPERTIES QuorumSigned
CHECK_DEADLOCK FALSE
