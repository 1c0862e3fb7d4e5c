SPECIFICATION FairSpec
CONSTANTS
    n1 = n1
    n2 = n2
    v1 = v1
    v2 = v2
    Nodes = {n1, n2}
    Validators = {v1, v2}
    EpochLength = 2
    MaxNumber = 3
    MaxFinal = 1
    Finalizing = {n1}
    SeatChoices <- MCSeats
    Reseating = {1}
    Failing <- MCFailing
    LegacyDraw <- AnySeat
    RoundRobin <- AnySeat
    GenesisDraw <- MCGenesisDraw
    NoAuthor = NoAuthor
    Idle = Idle
INVARIANTS OneBlockPerHeight AuthorsAgreeInEpoch
PROPERTIES ChainGrows
CHECK_DEADLOCK FALSE
