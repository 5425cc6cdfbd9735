SPECIFICATION Spec
CONSTANTS
    Calls = {k1, k2, k3}
    Ctxs = {c1, c2, c3}
    Sigs <- MixedSigs
    MaxArgs = 3
    Errnos = {}
    NoCtx = NoCtx
    NoOut = NoOut
    Nil = Nil
SYMMETRY Symmetry
INVARIANTS CtxExclusive ArgumentsInPlace
PROPERTIES ImplementsForeignCall
