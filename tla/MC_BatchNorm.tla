---------------------------- MODULE MC_BatchNorm ----------------------------
(* Model-checking instance of BatchNorm: all three execution modes, and    *)
(* enough calls for eval() to be followed by a forward and by a run of a   *)
(* program holding two batch_norm ops.                                     *)
EXTENDS BatchNorm

MC_Modes == {"dygraph", "legacy", "static"}
MC_MaxCalls == 4
=============================================================================
