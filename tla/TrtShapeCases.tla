---------------------------- MODULE TrtShapeCases ----------------------------
(***************************************************************************)
(* The cases test_trt_convert_shape.py means to run, as nested loops with  *)
(* no state shared between them: for the old-IR pass and then the PIR     *)
(* pass (test, lines 128-132), for every (dims, batch) of the loops of     *)
(* sample_program_configs (42-43), unless the harness skips it, the cases  *)
(* sample_predictor_configs lists (102-126) in its order: static shape in *)
(* Float32 and in Half (old IR only), then dynamic shape in Float32 and   *)
(* in Half.  Every case's input is generate_input1(batch) and its dynamic  *)
(* shape generate_dynamic_shape() for the case's own dims, and its         *)
(* expected node counts are generate_trt_nodes_num of its shape kind.      *)
(***************************************************************************)
EXTENDS TrtShapeGen

VARIABLES
    ir,       \* the pass: "old", "pir", or "done"
    pos,      \* the index in Configs of the (dims, batch) being handled
    slot,     \* 0: not started; 1..4: the next case of it; 5: all run
    runs,     \* the cases run so far
    skipped   \* the (pass, dims, batch) the harness skipped

cvars == <<ir, pos, slot, runs, skipped>>

\* The first case of a (dims, batch): the PIR pass has no static cases.
FirstSlot(pass) == IF pass = "pir" THEN 3 ELSE 1

\* The precision of case k, which is also its input type.
SlotPrecision(k) == IF k \in {1, 3} THEN "f32" ELSE "f16"

\* Case k of (pass, dims, batch).
Case(pass, d, b, k) ==
    [ir |-> pass, dims |-> d, batch |-> b, precision |-> SlotPrecision(k),
     inputType |-> SlotPrecision(k), input |-> InputShape(d, b),
     dyn |-> IF k >= 3 THEN DynamicShape(d) ELSE NoShape,
     nodes |-> TrtNodesNum(k >= 3)]

CInit ==
    /\ ir = "old"
    /\ pos = 1
    /\ slot = 0
    /\ runs = {}
    /\ skipped = {}

\* The harness skips the (dims, batch) at pos.
SkipCases ==
    /\ ir # "done"
    /\ slot = 0
    /\ pos <= Len(Configs)
    /\ Configs[pos][1] \in SkipDims
    /\ skipped' = skipped \cup {<<ir, Configs[pos][1], Configs[pos][2]>>}
    /\ pos' = pos + 1
    /\ UNCHANGED <<ir, slot, runs>>

\* The harness starts on the cases of the (dims, batch) at pos.
StartCases ==
    /\ ir # "done"
    /\ slot = 0
    /\ pos <= Len(Configs)
    /\ slot' = FirstSlot(ir)
    /\ UNCHANGED <<ir, pos, runs, skipped>>

\* The next case runs.
RunCase ==
    /\ slot \in 1..4
    /\ runs' = runs \cup {Case(ir, Configs[pos][1], Configs[pos][2], slot)}
    /\ slot' = slot + 1
    /\ UNCHANGED <<ir, pos, skipped>>

\* All cases of the (dims, batch) have run: on to the next one.
EndCases ==
    /\ slot = 5
    /\ slot' = 0
    /\ pos' = pos + 1
    /\ UNCHANGED <<ir, runs, skipped>>

\* Every (dims, batch) of the pass is handled: on to the next pass.
EndPass ==
    /\ ir # "done"
    /\ slot = 0
    /\ pos > Len(Configs)
    /\ ir' = IF ir = "old" THEN "pir" ELSE "done"
    /\ pos' = 1
    /\ UNCHANGED <<slot, runs, skipped>>

CNext == SkipCases \/ StartCases \/ RunCase \/ EndCases \/ EndPass

CSpec == CInit /\ [][CNext]_cvars

=============================================================================
