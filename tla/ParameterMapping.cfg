CONSTANTS
    Names <- MC_Names
    Values <- MC_Values
    MaxOps <- MC_MaxOps
    None = None
    n1 = n1
    n2 = n2
    v1 = v1
    v2 = v2
SPECIFICATION Spec
PROPERTY ImplementsSpec
\* The call returns or raises: a finished call takes no further step.
CHECK_DEADLOCK FALSE
