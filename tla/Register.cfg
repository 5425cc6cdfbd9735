SPECIFICATION Spec
CONSTANTS
    MaxParams = 2
    MaxTail = 2
INVARIANTS InterfaceMatches VariadicBoundary MsgSendInRegisters
