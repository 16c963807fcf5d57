CONSTANTS
    Modes <- MC_Modes
    MaxCalls <- MC_MaxCalls
SPECIFICATION Spec
INVARIANT ConstructorAcceptsDocumentedArgs
CHECK_DEADLOCK FALSE
