SPECIFICATION ScoresSpec
CONSTANTS
    a = a
    b = b
    Accounts = {a, b}
    Genesis = {a}
    Stakes = {10, 30}
    Results = {2}
    WeightPairs <- MCWeightPairs
    Precision = 20
    StakeScale = 20
    GenesisDivisor = 1
    MaxScore = 5
    MinScore = 3
    AuthorshipBoost = 2
    DecayRate = 1
    MaxInactiveEpochs = 1
    BlocksPerEpoch = 2
    DecayInterval = 1
    CheckInterval = 1
    DefaultWeights <- MCDefaultWeights
    Rewards = {20}
    MaxRootCalls = 1
    MaxStakeScore = 25
INVARIANTS IdleThroughSudo
PROPERTIES FitKeepSeats SomebodyFit
CHECK_DEADLOCK FALSE
