CONSTANTS
    Modes <- MC_Modes
    MaxCalls <- MC_MaxCalls
SPECIFICATION Spec
PROPERTY IsTestFreezesStaticStats
PROPERTY EvalFreezesStats
\* A constructor that raised ends the script: no step follows.
CHECK_DEADLOCK FALSE
