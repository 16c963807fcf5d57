-------------------------- MODULE MC_SimpleLayers --------------------------
(* Model-checking instance of SimpleLayers: all four layer classes, all    *)
(* three modes, two Embedding sizes whose dimensions differ, padding_idx   *)
(* from -4 to 3 (beyond [-vocab_size, vocab_size) on both sides), weight   *)
(* shapes of rank 2 and 3 with one holding a zero, dim from -4 to 3, and   *)
(* two forward calls.                                                      *)
EXTENDS SimpleLayers

MC_Kinds == LayerKinds
MC_Modes == ExecModes
MC_Sizes == {<<2, 3>>, <<3, 2>>}
MC_PaddingArgs == -4..3
MC_WeightShapes == {<<2, 3>>, <<2, 0>>, <<1, 2, 2>>}
MC_Dims == -4..3
MC_MaxCalls == 2
=============================================================================
