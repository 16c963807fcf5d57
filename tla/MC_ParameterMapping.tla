------------------------ MODULE MC_ParameterMapping ------------------------
(* Two names, so that a name missing from one program, a name declared    *)
(* twice and a swap of names all occur; programs of up to two ops.      *)
EXTENDS ParameterMapping

CONSTANTS n1, n2, v1, v2

MC_Names == {n1, n2}
MC_Values == {v1, v2}
MC_MaxOps == 2
=============================================================================
