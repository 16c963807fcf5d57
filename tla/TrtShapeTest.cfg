CONSTANTS
    SkipDims <- MC_SkipDims
SPECIFICATION Spec
INVARIANT PredictorConfigsConsistent
PROPERTY ImplementsCases
PROPERTY EventuallyAllCovered
\* test() returns after the PIR pass: no step follows.
CHECK_DEADLOCK FALSE
