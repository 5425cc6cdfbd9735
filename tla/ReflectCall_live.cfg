SPECIFICATION FairSpec
CONSTANTS
    Calls = {k1, k2}
    Goroutines = {g1}
    Threads = {t1, t2}
    Ctxs = {c1, c2}
    Cap = 2
    MaxArgs = 3
    Errnos = {1}
    HasErrnoFn = FALSE
    Shapes <- MixedShapes
    NoCall = NoCall
    NoCtx = NoCtx
    NoThread = NoThread
    Nil = Nil
PROPERTIES ImplementsForeignCall CallsEnd
