SPECIFICATION Spec
CONSTANTS
    Types <- GoTypes
    Height <- GoHeight
    Attempts = {r1}
    Plans <- NumberPlans
    MaxCallbacks = 1
    CallbackKinds <- KindsAmd64
    Capital <- Capitals
    AllCapital = {"X"}
INVARIANTS SignaturesReadBack
