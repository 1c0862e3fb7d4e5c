SPECIFICATION Spec
CONSTANTS
    t1 = t1
    t2 = t2
    v1 = v1
    v2 = v2
    a = a
    b = b
    c = c
    NoThread = NoThread
    Threads = {t1, t2}
    Validators = {v1, v2}
    Blocks = {a, b, c}
    Number <- PoolNumber
    MaxRound = 1
    MaxSize = 2
INVARIANTS OneVotePerRound EveryVoteMarked
CHECK_DEADLOCK FALSE
PROPERTIES OnlyTrimStrands
