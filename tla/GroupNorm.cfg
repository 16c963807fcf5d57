CONSTANTS
    Kinds <- MC_Kinds
    Modes <- MC_Modes
    Sizes <- MC_Sizes
    PaddingArgs <- MC_PaddingArgs
    WeightShapes <- MC_WeightShapes
    Dims <- MC_Dims
    MaxCalls <- MC_MaxCalls
    None = None
SPECIFICATION Spec
INVARIANT GroupNormDefaultAffine
\* A script ends after its last forward call, or when a constructor raised.
CHECK_DEADLOCK FALSE
