SPECIFICATION Spec
CONSTANTS
    Calls = {k1}
    Ctxs = {c1}
    Cap = 1
    MaxArgs = 1
    Preparable <- SomePreparable
    WordBits = 4
    IntBits = 2
    Errnos = {1}
    NoCtx = NoCtx
    NoOut = NoOut
    Nil = Nil
INVARIANTS ErrnoOnlyOnError
