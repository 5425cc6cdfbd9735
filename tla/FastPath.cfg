SPECIFICATION Spec
CONSTANTS
    Sigs <- AllSigs
    SupportedOS = TRUE
INVARIANTS AcceptedInstalled SlotsAgree ArgumentsInPlace PointersKept AcceptsEligible
