SPECIFICATION FairSpec
CONSTANTS
    n1 = n1
    n2 = n2
    n3 = n3
    g = g
    a1 = a1
    b1 = b1
    a2 = a2
    a3 = a3
    a4 = a4
    Nodes = {n1, n2, n3}
    Blocks = {g, a1, a2, a3}
    Genesis = g
    Parent <- TreeParent
    Number <- TreeNumber
    FinalityCheckpointInterval = 2
    NodeWeight <- MCWeight
    Restarting = {}
    Idle = Idle
    VoteWeightScale = 12
    ThresholdPercent = 67
PROPERTIES CheckpointFinalized
CHECK_DEADLOCK FALSE
