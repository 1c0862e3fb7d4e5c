SPECIFICATION Spec
CONSTANTS
    v1 = v1
    v2 = v2
    a1 = a1
    a2 = a2
    Validators = {v1, v2}
    Accounts = {a1, a2}
    Actions <- MCActions
    Pools = {5}
    MaxTimes = 2
    RootLists <- MCRootLists
    RootAmounts = {1}
    Slashable = {v1}
    Movable = {v2}
    Shares <- MCShares
    ValidatorReward = 2
    TopPerformerPercentage = 50
    MaxRewardPerEpoch = 3
    MaxRewardPerValidator = 2
    MaxSlashPerEpoch = 1
    MaxSlashPerValidator = 1
    MaxActive = 3
    MaxProposals = 2
    MaxBlock = 3
    EpochLength = 2
    PerBlock <- PerBlockOf
    PerAccount <- One
    Window <- MCWindow
    Interval <- One
SYMMETRY MCSymmetry
INVARIANTS RewardsWithinCaps TalliesMatchBallots EffectsAuthorized RateBounded
PROPERTIES SettledForever
