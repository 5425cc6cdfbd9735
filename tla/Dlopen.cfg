SPECIFICATION FairSpec
CONSTANTS
    Goroutines = {g1, g2}
    Threads = {t1, t2, t3}
    MaxOps = 2
    NoMsg = NoMsg
INVARIANTS MessageOwn OnceBeforeUse LockBalanced
PROPERTIES DlopenEnds
