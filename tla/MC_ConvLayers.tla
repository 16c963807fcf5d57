--------------------------- MODULE MC_ConvLayers ---------------------------
(* Model-checking instance of ConvLayers: all four layer classes, both     *)
(* modes, channel counts 2 and 3 (so that 2 does not divide 3), groups     *)
(* None, 0, 1 and 2, and two forward calls.                                *)
EXTENDS ConvLayers

MC_Kinds == LayerKinds
MC_Modes == ExecModes
MC_Channels == {2, 3}
MC_Groups == {0, 1, 2}
MC_MaxCalls == 2
=============================================================================
