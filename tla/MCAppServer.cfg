CONSTANT MaxNoise = 2
SPECIFICATION FairSpec
INVARIANTS TypeOK RepliesAreOwn NothingLeaks TimeIsTold
PROPERTY KeepsContract
CHECK_DEADLOCK FALSE
