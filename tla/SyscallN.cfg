SPECIFICATION FairSpec
CONSTANTS
    Calls = {k1, k2}
    Ctxs = {c1, c2}
    Cap = 2
    MaxArgs = 3
    Preparable <- SomePreparable
    WordBits = 3
    IntBits = 2
    Errnos = {1}
    NoCtx = NoCtx
    NoOut = NoOut
    Nil = Nil
INVARIANTS TypeOK CtxExclusive TableComplete FailuresReported ResultOwn
PROPERTIES ImplementsForeignCall CallsEnd
