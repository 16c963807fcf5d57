CONSTANTS
    Kinds <- MC_Kinds
    Modes <- MC_Modes
    Channels <- MC_Channels
    Groups <- MC_Groups
    MaxCalls <- MC_MaxCalls
    None = None
SPECIFICATION Spec
INVARIANT BiasUsedIffCreated
\* A script ends after its last forward call, or when a constructor raised.
CHECK_DEADLOCK FALSE
