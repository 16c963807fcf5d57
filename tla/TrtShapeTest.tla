--------------------------- MODULE TrtShapeTest ---------------------------
(***************************************************************************)
(* The TensorRT converter test of the shape op,                            *)
(* test/ir/inference/test_trt_convert_shape.py: two generators that share  *)
(* the test object's state, driven by the harness TrtLayerAutoScanTest.    *)
(*                                                                         *)
(*  - sample_program_configs (lines 31-65) sets self.dims and yields one   *)
(*    program configuration per (dims, batch); its input generator         *)
(*    partial(generate_input1, batch) reads self.dims when it is called.   *)
(*  - sample_predictor_configs (88-126) mutates self.dynamic_shape,        *)
(*    self.trt_param.precision and the configuration's input type, and     *)
(*    yields predictor configurations with their expected node counts.     *)
(*  - test (128-132) runs the harness twice: old IR, then PIR.             *)
(*                                                                         *)
(* The harness (run_test, not in this repository) iterates the program     *)
(* generator lazily; for each configuration it may skip it at random       *)
(* (only for the dims in SkipDims here) and otherwise iterates the         *)
(* predictor generator, running each yielded predictor before resuming it. *)
(* Whether TensorConfig calls data_gen at construction or when the input   *)
(* is fed is not fixed here: both are allowed.  The code between two       *)
(* yields runs with the other generator suspended, so each stretch is one  *)
(* action.  The generators' pure functions are in TrtShapeGen; what the    *)
(* test means to run, without the shared state, is TrtShapeCases.         *)
(***************************************************************************)
EXTENDS TrtShapeGen, FiniteSets

VARIABLES
    ir,         \* the run_test call in progress: "old", "pir", or "done"
    pi,         \* the next iteration of the program generator's loops
    stage,      \* "prog", "harness" (a program config was yielded) or "pred"
    seg,        \* the next stretch of the predictor generator (1..4), 5: ended
    selfDims,   \* self.dims (0 before it is first set)
    dyn,        \* self.dynamic_shape
    precision,  \* self.trt_param.precision
    cfg,        \* the current program configuration
    dataGen,    \* "eager": TensorConfig calls data_gen at once; "lazy": at use
    runs,       \* the predictor configurations run so far
    skipped     \* the configurations the harness skipped

vars == <<ir, pi, stage, seg, selfDims, dyn, precision, cfg, dataGen, runs,
          skipped>>

Init ==
    /\ ir = "old"
    /\ pi = 1
    /\ stage = "prog"
    /\ seg = 1
    /\ selfDims = 0
    /\ dyn = NoShape
    /\ precision = "f32"
    /\ cfg = [dims |-> 0, batch |-> 0, inputType |-> "f32", data |-> <<>>]
    /\ dataGen \in {"eager", "lazy"}
    /\ runs = {}
    /\ skipped = {}

(***************************************************************************)
(* One iteration of sample_program_configs: self.dims = dims, build the    *)
(* configuration (its input from partial(generate_input1, batch)), yield.  *)
(***************************************************************************)
YieldProgramConfig ==
    /\ ir # "done"
    /\ stage = "prog"
    /\ pi <= Len(Configs)
    /\ LET d == Configs[pi][1]
           b == Configs[pi][2]
       IN  /\ selfDims' = d
           /\ cfg' = [dims |-> d, batch |-> b, inputType |-> "f32",
                      data |-> IF dataGen = "eager" THEN InputShape(d, b)
                                                    ELSE <<>>]
    /\ pi' = pi + 1
    /\ stage' = "harness"
    /\ UNCHANGED <<ir, seg, dyn, precision, dataGen, runs, skipped>>

\* The harness skips the configuration (random_to_skip).
SkipProgramConfig ==
    /\ stage = "harness"
    /\ cfg.dims \in SkipDims
    /\ skipped' = skipped \cup {<<ir, cfg.dims, cfg.batch>>}
    /\ stage' = "prog"
    /\ UNCHANGED <<ir, pi, seg, selfDims, dyn, precision, cfg, dataGen, runs>>

\* Mutant: run_pir is ignored, and the PIR pass runs the static cases too.
StartPredictorConfigsIgnoresPir ==
    /\ stage = "harness"
    /\ stage' = "pred"
    /\ seg' = 1
    /\ UNCHANGED <<ir, pi, selfDims, dyn, precision, cfg, dataGen, runs,
                   skipped>>

\* The harness calls sample_predictor_configs(program_config, run_pir).
StartPredictorConfigs ==
    /\ stage = "harness"
    /\ stage' = "pred"
    /\ seg' = IF ir = "pir" THEN 3 ELSE 1
    /\ UNCHANGED <<ir, pi, selfDims, dyn, precision, cfg, dataGen, runs,
                   skipped>>

(***************************************************************************)
(* A yield of sample_predictor_configs, with the harness running the       *)
(* predictor at once: create_inference_config() reads self.dynamic_shape   *)
(* and the precision; the input is the configuration's data, generated now *)
(* from self.dims if data_gen was not called at construction.              *)
(***************************************************************************)
RunRecord(dynShape, prec, inputType, dynamic) ==
    [ir |-> ir, dims |-> cfg.dims, batch |-> cfg.batch, precision |-> prec,
     inputType |-> inputType,
     input |-> IF cfg.data = <<>> THEN InputShape(selfDims, cfg.batch)
                                  ELSE cfg.data,
     dyn |-> dynShape, nodes |-> TrtNodesNum(dynamic)]

\* One stretch: set the dynamic shape, the precision and the input type,
\* then yield.
PredictorYield(s, dynShape, prec, dynamic) ==
    /\ stage = "pred"
    /\ seg = s
    /\ dyn' = dynShape
    /\ precision' = prec
    /\ cfg' = [cfg EXCEPT !.inputType = prec]
    /\ runs' = runs \cup {RunRecord(dynShape, prec, prec, dynamic)}
    /\ seg' = s + 1
    /\ UNCHANGED <<ir, pi, stage, selfDims, dataGen, skipped>>

\* Mutant: clear_dynamic_shape() leaves the dict it was meant to clear.
ClearDynamicShapeKeeps == dyn

\* clear_dynamic_shape()
ClearDynamicShape == NoShape

\* Lines 102-109: static shape, Float32.
StaticFloat32 == PredictorYield(1, ClearDynamicShape, "f32", FALSE)

\* Lines 110-114: static shape, Half.
StaticHalf == PredictorYield(2, dyn, "f16", FALSE)

\* Lines 115-123: generate_dynamic_shape(), Float32.
DynamicFloat32 == PredictorYield(3, DynamicShape(selfDims), "f32", TRUE)

\* Lines 124-126: dynamic shape, Half.
DynamicHalf == PredictorYield(4, dyn, "f16", TRUE)

\* The predictor generator is exhausted: the harness resumes the program one.
EndPredictorConfigs ==
    /\ stage = "pred"
    /\ seg = 5
    /\ stage' = "prog"
    /\ UNCHANGED <<ir, pi, seg, selfDims, dyn, precision, cfg, dataGen, runs,
                   skipped>>

\* The program generator is exhausted: test() goes on to run_test(run_pir=True).
EndRunTest ==
    /\ ir # "done"
    /\ stage = "prog"
    /\ pi > Len(Configs)
    /\ ir' = IF ir = "old" THEN "pir" ELSE "done"
    /\ pi' = 1
    /\ UNCHANGED <<stage, seg, selfDims, dyn, precision, cfg, dataGen, runs,
                   skipped>>

Next ==
    \/ YieldProgramConfig
    \/ SkipProgramConfig
    \/ StartPredictorConfigs
    \/ StaticFloat32
    \/ StaticHalf
    \/ DynamicFloat32
    \/ DynamicHalf
    \/ EndPredictorConfigs
    \/ EndRunTest

\* The harness is a sequential loop: it keeps stepping while it can.
Spec == Init /\ [][Next]_vars /\ WF_vars(Next)

-----------------------------------------------------------------------------
Shape == Seq(Nat)
DynShapes == [min : Shape, max : Shape, opt : Shape]
Run == [ir : IRs, dims : 0..4, batch : Nat, precision : {"f32", "f16"},
        inputType : {"f32", "f16"}, input : Shape, dyn : DynShapes,
        nodes : {<<0, 3>>, <<1, 2>>}]

TypeOK ==
    /\ ir \in IRs \cup {"done"}
    /\ pi \in 1..(Len(Configs) + 1)
    /\ stage \in {"prog", "harness", "pred"}
    /\ seg \in 1..5
    /\ selfDims \in 0..4
    /\ dyn \in DynShapes
    /\ precision \in {"f32", "f16"}
    /\ cfg \in [dims : 0..4, batch : Nat, inputType : {"f32", "f16"},
                data : Shape]
    /\ dataGen \in {"eager", "lazy"}
    /\ runs \subseteq Run
    /\ skipped \subseteq IRs \X (1..4) \X {1, 4}

\* The input lies within the dynamic shape's min and max, and so does opt.
WithinDynamicRange(input, d) ==
    /\ Len(d.min) = Len(input) /\ Len(d.max) = Len(input)
    /\ Len(d.opt) = Len(input)
    /\ \A k \in 1..Len(input) : /\ d.min[k] <= input[k] /\ input[k] <= d.max[k]
                               /\ d.min[k] <= d.opt[k] /\ d.opt[k] <= d.max[k]

(***************************************************************************)
(* Every predictor configuration the harness runs is self-consistent, in   *)
(* both IR passes and whatever the harness skipped before it: the input    *)
(* has the rank of its program configuration's dims; the precision is the *)
(* input type; a dynamic shape is configured exactly when the expected     *)
(* node counts are the dynamic ones, (1, 2); and then the input lies       *)
(* within it.  The generators share self.dims and self.dynamic_shape       *)
(* across yields, so a stale value left by one configuration would reach  *)
(* the next.                                                               *)
(***************************************************************************)
PredictorConfigsConsistent ==
    \A r \in runs :
        /\ Len(r.input) = r.dims
        /\ r.precision = r.inputType
        /\ (r.dyn # NoShape) <=> (r.nodes = <<1, 2>>)
        /\ r.dyn # NoShape => WithinDynamicRange(r.input, r.dyn)

\* Every (dims, batch) of the test was run with a dynamic shape in the given
\* IR pass, unless the harness skipped it.
Covered(pass) ==
    \A d \in 1..4, b \in {1, 4} :
        \/ <<pass, d, b>> \in skipped
        \/ \E r \in runs : r.ir = pass /\ r.dims = d /\ r.batch = b
                          /\ r.dyn # NoShape

(***************************************************************************)
(* test() terminates, having run every rank 1-4 with both batch sizes      *)
(* under a dynamic shape in the old-IR pass and in the PIR pass, except    *)
(* the configurations the harness skipped.                                 *)
(***************************************************************************)
EventuallyAllCovered ==
    <>(ir = "done" /\ \A pass \in IRs : Covered(pass))

(***************************************************************************)
(* The refinement mapping to the cases the test means to run: the         *)
(* (dims, batch) being handled is the one the program generator yielded   *)
(* last, until the harness resumes that generator; the next case is the   *)
(* predictor generator's next stretch while it runs.                      *)
(***************************************************************************)
CasePos == IF stage = "prog" THEN pi ELSE pi - 1
CaseSlot == IF stage = "pred" THEN seg ELSE 0

Cases == INSTANCE TrtShapeCases WITH pos <- CasePos, slot <- CaseSlot

(***************************************************************************)
(* The two generators, with the state they share (self.dims,              *)
(* self.dynamic_shape, the precision, the configuration's input type) and  *)
(* either moment of data generation, run exactly the cases of              *)
(* TrtShapeCases, in its order: every run is the intended case of its     *)
(* pass, dims, batch and position, and the PIR pass runs no static case.   *)
(***************************************************************************)
ImplementsCases == Cases!CSpec

=============================================================================
