SPECIFICATION Spec
CONSTANTS
    Calls = {k1, k2, k3}
    Goroutines = {g1, g2}
    Threads = {t1, t2, t3}
    Ctxs = {c1, c2, c3}
    Cap = 2
    MaxArgs = 3
    Errnos = {1}
    HasErrnoFn = TRUE
    Shapes <- SafetyShapes
    NoCall = NoCall
    NoCtx = NoCtx
    NoThread = NoThread
    Nil = Nil
SYMMETRY Symmetry
INVARIANTS CtxExclusive ArgsIntact CleanPool ErrnoOwn LockBalanced
PROPERTIES ImplementsForeignCall
