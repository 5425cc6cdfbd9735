SPECIFICATION Spec
CONSTANTS
    Types <- GoTypes
    Height <- GoHeight
    Attempts = {r1, r2}
    Plans <- AllPlans
    MaxCallbacks = 4
    CallbackKinds <- Kinds
    Capital <- Capitals
    AllCapital = {"X"}
INVARIANTS VisibleComplete AccessorsOwn SignaturesReadBack PanicsOverAccessors
