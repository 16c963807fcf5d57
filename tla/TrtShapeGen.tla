----------------------------- MODULE TrtShapeGen -----------------------------
(***************************************************************************)
(* The pure functions of test/ir/inference/test_trt_convert_shape.py that  *)
(* both the test's model, TrtShapeTest, and the specification of the      *)
(* cases it means to run, TrtShapeCases, are built from: the loops over    *)
(* dims and batch, generate_input1, clear_dynamic_shape,                   *)
(* generate_dynamic_shape and generate_trt_nodes_num, each as a function  *)
(* of the rank it reads from self.dims.  Shapes are sequences; a           *)
(* {"input1": shape} dict is its shape, and the empty dict is <<>>.        *)
(***************************************************************************)
EXTENDS Integers, Sequences

CONSTANT SkipDims   \* the dims whose configurations the harness may skip

ASSUME SkipDimsAssumption == SkipDims \subseteq 1..4

\* for dims in [1, 2, 3, 4]: for batch in [1, 4]:
\* Mutant: the dims loop stops one short.
DimsListShort == <<1, 2, 3>>

DimsList == <<1, 2, 3, 4>>
BatchList == <<1, 4>>

\* The (dims, batch) pairs in the order the nested loops visit them.
Configs == [i \in 1..(Len(DimsList) * Len(BatchList)) |->
              <<DimsList[(i - 1) \div Len(BatchList) + 1],
                BatchList[((i - 1) % Len(BatchList)) + 1]>>]

\* generate_input1(batch) with the current self.dims.
InputShape(dims, batch) ==
    CASE dims = 4 -> <<batch, 3, 24, 24>>
      [] dims = 3 -> <<batch, 3, 24>>
      [] dims = 2 -> <<batch, 24>>
      [] dims = 1 -> <<24>>

\* self.dynamic_shape's min, max and opt input shapes for "input1".
NoShape == [min |-> <<>>, max |-> <<>>, opt |-> <<>>]

\* generate_dynamic_shape() with the current self.dims.
DynamicShape(dims) ==
    CASE dims = 4 -> [min |-> <<1, 3, 24, 24>>, max |-> <<4, 3, 48, 48>>,
                      opt |-> <<1, 3, 24, 24>>]
      [] dims = 3 -> [min |-> <<1, 3, 24>>, max |-> <<4, 3, 48>>,
                      opt |-> <<1, 3, 24>>]
      [] dims = 2 -> [min |-> <<1, 24>>, max |-> <<4, 48>>, opt |-> <<1, 24>>]
      [] dims = 1 -> [min |-> <<24>>, max |-> <<48>>, opt |-> <<24>>]

\* generate_trt_nodes_num(dynamic_shape)
TrtNodesNum(dynamic) == IF dynamic THEN <<1, 2>> ELSE <<0, 3>>

IRs == {"old", "pir"}

=============================================================================
