-------------------------- MODULE MC_TrtShapeTest --------------------------
(* Model-checking instance of TrtShapeTest: the harness may skip the       *)
(* configurations of two ranks, so that a configuration run after a skip,  *)
(* and after another rank's dynamic shape, is explored.                    *)
EXTENDS TrtShapeTest

MC_SkipDims == {2, 3}
=============================================================================
