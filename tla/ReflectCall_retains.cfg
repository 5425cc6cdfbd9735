SPECIFICATION Spec
CONSTANTS
    Calls = {k1, k2}
    Goroutines = {g1}
    Threads = {t1, t2}
    Ctxs = {c1, c2}
    Cap = 2
    MaxArgs = 3
    Errnos = {}
    HasErrnoFn = TRUE
    Shapes <- PlainShapes
    NoCall = NoCall
    NoCtx = NoCtx
    NoThread = NoThread
    Nil = Nil
INVARIANTS PoolRetainsNoArguments
