SPECIFICATION FairSpec
CONSTANTS
    f1 = f1
    f2 = f2
    f3 = f3
    f4 = f4
    u = u
    v = v
    w = w
    x = x
    Actors = {a1, a2}
    Fns = {f1, f2, f3, f4}
    Types = {u, v, w, x}
    TypeOf <- OwnTypes
    Encodable = {u, v, w}
    MaxCallbacks = 2
    Addrs = {b1, b2}
    MaxRefs = 2
    NoActor = NoActor
    NoFn = NoFn
    NoBlock = NoBlock
INVARIANTS TypeOK FunctionOfBlock FunctionsOfLive CalledLive OneCallbackPerType
PROPERTIES LayoutsAnswered
