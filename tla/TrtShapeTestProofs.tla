------------------------- MODULE TrtShapeTestProofs -------------------------
(***************************************************************************)
(* Proofs, for every set of ranks the harness may skip, that every        *)
(* predictor configuration the TensorRT shape test runs is consistent      *)
(* (PredictorConfigsConsistent), and that the test implements the cases   *)
(* it means to run, TrtShapeCases (ImplementsCases).                       *)
(*                                                                         *)
(* The invariant is not inductive: it talks about the runs recorded so    *)
(* far, but whether the next run is right depends on the shared state the *)
(* generators leave behind.  IInv adds what the code keeps true of that   *)
(* state between two yields: self.dims is the current configuration's     *)
(* rank, its data (once generated) is generate_input1's shape for it, the *)
(* dynamic shape is cleared after the static Float32 stretch and is the   *)
(* current rank's after the dynamic Float32 one, and the PIR pass starts  *)
(* at the dynamic stretch.                                                 *)
(***************************************************************************)
EXTENDS TrtShapeTest, TLAPS

\* The configuration the program generator yielded last.
CfgOK ==
    /\ cfg.dims \in 1..4
    /\ cfg.batch \in {1, 4}
    /\ selfDims = cfg.dims
    /\ cfg.data \in {<<>>, InputShape(cfg.dims, cfg.batch)}

IInv ==
    /\ ir \in IRs \cup {"done"}
    /\ pi \in Nat \ {0}
    /\ stage \in {"prog", "harness", "pred"}
    /\ seg \in 1..5
    /\ stage \in {"harness", "pred"} => CfgOK /\ ir \in IRs
    /\ stage = "pred" =>
          /\ ir = "pir" => seg >= 3
          /\ seg = 2 => dyn = NoShape
          /\ seg \in {4, 5} => dyn = DynamicShape(selfDims)
    /\ PredictorConfigsConsistent

(***************************************************************************)
(* For the refinement: the program generator's position stays within its  *)
(* loops, and while the harness holds a configuration, that configuration *)
(* is the (dims, batch) of the loop iteration before the position.         *)
(***************************************************************************)
PosInv ==
    /\ pi \in 1..(Len(Configs) + 1)
    /\ stage \in {"harness", "pred"} =>
          /\ pi \in 2..(Len(Configs) + 1)
          /\ cfg.dims = Configs[pi - 1][1]
          /\ cfg.batch = Configs[pi - 1][2]

-----------------------------------------------------------------------------
\* generate_input1 and generate_dynamic_shape agree on every rank and batch
\* of the test: the input has the rank, and lies within the dynamic shape.
LEMMA InputFits ==
  ASSUME NEW d \in 1..4, NEW b \in {1, 4}
  PROVE  /\ Len(InputShape(d, b)) = d
         /\ WithinDynamicRange(InputShape(d, b), DynamicShape(d))
         /\ DynamicShape(d) # NoShape
<1>1. CASE d = 1
  BY <1>1 DEF InputShape, DynamicShape, WithinDynamicRange, NoShape
<1>2. CASE d = 2
  BY <1>2 DEF InputShape, DynamicShape, WithinDynamicRange, NoShape
<1>3. CASE d = 3
  BY <1>3 DEF InputShape, DynamicShape, WithinDynamicRange, NoShape
<1>4. CASE d = 4
  BY <1>4 DEF InputShape, DynamicShape, WithinDynamicRange, NoShape
<1>. QED  BY <1>1, <1>2, <1>3, <1>4

\* Every (dims, batch) pair of the loops is a rank 1-4 and a batch 1 or 4.
LEMMA ConfigsRange ==
  ASSUME NEW k \in 1..Len(Configs)
  PROVE  Configs[k][1] \in 1..4 /\ Configs[k][2] \in {1, 4}
BY DEF Configs, DimsList, BatchList

\* A yield of the predictor generator records a consistent run when the
\* dynamic shape it configures is the current rank's exactly when the
\* expected node counts are the dynamic ones.
LEMMA YieldStep ==
  ASSUME IInv, stage = "pred", NEW s, NEW dynShape, NEW prec,
         NEW dynamic \in BOOLEAN,
         PredictorYield(s, dynShape, prec, dynamic),
         dynamic => dynShape = DynamicShape(selfDims),
         ~dynamic => dynShape = NoShape
  PROVE  PredictorConfigsConsistent'
<1> DEFINE r == RunRecord(dynShape, prec, prec, dynamic)
<1>1. CfgOK
  BY DEF IInv
<1>2. r.input = InputShape(cfg.dims, cfg.batch)
  BY <1>1 DEF CfgOK, RunRecord
<1>3. /\ Len(r.input) = r.dims
      /\ WithinDynamicRange(r.input, DynamicShape(cfg.dims))
      /\ DynamicShape(cfg.dims) # NoShape
  BY <1>1, <1>2, InputFits DEF CfgOK, RunRecord
<1>4. r.nodes = <<1, 2>> <=> dynamic
  BY DEF RunRecord, TrtNodesNum
<1>5. /\ r.dyn = dynShape /\ r.precision = r.inputType /\ r.dims = cfg.dims
  BY DEF RunRecord
<1>6. /\ Len(r.input) = r.dims
      /\ r.precision = r.inputType
      /\ (r.dyn # NoShape) <=> (r.nodes = <<1, 2>>)
      /\ r.dyn # NoShape => WithinDynamicRange(r.input, r.dyn)
  BY <1>1, <1>3, <1>4, <1>5 DEF CfgOK
<1>7. runs' = runs \cup {r}
  BY DEF PredictorYield
<1>. QED  BY <1>6, <1>7 DEF IInv, PredictorConfigsConsistent

LEMMA InitIInv == Init => IInv
BY DEF Init, IInv, PredictorConfigsConsistent, IRs

\* Every step of the test keeps the invariant.
LEMMA IInvStep == IInv /\ [Next]_vars => IInv'
<1> SUFFICES ASSUME IInv, [Next]_vars PROVE IInv'
  OBVIOUS
<1>1. CASE YieldProgramConfig
  <2>1. pi \in 1..Len(Configs)
    BY <1>1 DEF YieldProgramConfig, IInv
  <2>2. Configs[pi][1] \in 1..4 /\ Configs[pi][2] \in {1, 4}
    BY <2>1, ConfigsRange
  <2>3. CfgOK'
    BY <1>1, <2>2 DEF YieldProgramConfig, CfgOK
  <2>. QED  BY <1>1, <2>3 DEF YieldProgramConfig, IInv, IRs,
                             PredictorConfigsConsistent
<1>2. CASE SkipProgramConfig
  BY <1>2 DEF SkipProgramConfig, IInv, PredictorConfigsConsistent
<1>3. CASE StartPredictorConfigs
  BY <1>3 DEF StartPredictorConfigs, IInv, CfgOK, PredictorConfigsConsistent
<1>4. CASE StaticFloat32
  <2>1. PredictorConfigsConsistent'
    BY <1>4, YieldStep DEF StaticFloat32, ClearDynamicShape, PredictorYield
  <2>. QED  BY <1>4, <2>1 DEF StaticFloat32, ClearDynamicShape, PredictorYield,
                              IInv, CfgOK
<1>5. CASE StaticHalf
  <2>1. dyn = NoShape
    BY <1>5 DEF StaticHalf, PredictorYield, IInv
  <2>2. PredictorConfigsConsistent'
    BY <1>5, <2>1, YieldStep DEF StaticHalf, PredictorYield
  <2>. QED  BY <1>5, <2>1, <2>2 DEF StaticHalf, PredictorYield, IInv, CfgOK
<1>6. CASE DynamicFloat32
  <2>1. PredictorConfigsConsistent'
    BY <1>6, YieldStep DEF DynamicFloat32, PredictorYield
  <2>. QED  BY <1>6, <2>1 DEF DynamicFloat32, PredictorYield, IInv, CfgOK
<1>7. CASE DynamicHalf
  <2>1. dyn = DynamicShape(selfDims)
    BY <1>7 DEF DynamicHalf, PredictorYield, IInv
  <2>2. PredictorConfigsConsistent'
    BY <1>7, <2>1, YieldStep DEF DynamicHalf, PredictorYield
  <2>. QED  BY <1>7, <2>1, <2>2 DEF DynamicHalf, PredictorYield, IInv, CfgOK
<1>8. CASE EndPredictorConfigs
  BY <1>8 DEF EndPredictorConfigs, IInv, PredictorConfigsConsistent
<1>9. CASE EndRunTest
  BY <1>9 DEF EndRunTest, IInv, IRs, PredictorConfigsConsistent
<1>10. CASE UNCHANGED vars
  BY <1>10 DEF vars, IInv, CfgOK, PredictorConfigsConsistent
<1>. QED  BY <1>1, <1>2, <1>3, <1>4, <1>5, <1>6, <1>7, <1>8, <1>9, <1>10
          DEF Next

(***************************************************************************)
(* Every predictor configuration the harness runs, in both IR passes and   *)
(* whatever it skips, has an input of its configuration's rank, its       *)
(* precision as input type, and a dynamic shape exactly when it expects   *)
(* the dynamic node counts, one that contains its input: the state the    *)
(* two generators share never leaks from one configuration into the next. *)
(***************************************************************************)
THEOREM PredictorConfigsConsistentHolds == Spec => []PredictorConfigsConsistent
<1>1. IInv => PredictorConfigsConsistent
  BY DEF IInv
<1>. QED  BY <1>1, InitIInv, IInvStep, PTL DEF Spec

-----------------------------------------------------------------------------
\* The loops of sample_program_configs visit eight (dims, batch) pairs.
LEMMA ConfigsLen == Len(Configs) = 8
BY DEF Configs, DimsList, BatchList

\* TrtShapeCases is built from the same generator functions.
LEMMA SameGen ==
    /\ Cases!Configs = Configs
    /\ Cases!NoShape = NoShape
    /\ \A d, b : Cases!InputShape(d, b) = InputShape(d, b)
    /\ \A d : Cases!DynamicShape(d) = DynamicShape(d)
    /\ \A x : Cases!TrtNodesNum(x) = TrtNodesNum(x)
BY DEF Cases!Configs, Configs, Cases!DimsList, DimsList, Cases!BatchList,
       BatchList, Cases!NoShape, NoShape, Cases!InputShape, InputShape,
       Cases!DynamicShape, DynamicShape, Cases!TrtNodesNum, TrtNodesNum

LEMMA SameConfigs == Cases!Configs = Configs
BY DEF Cases!Configs, Configs, Cases!DimsList, DimsList, Cases!BatchList,
       BatchList

LEMMA InitPosInv == Init => PosInv
BY ConfigsLen DEF Init, PosInv

\* Every step of the test keeps the program generator's position.
LEMMA PosInvStep == IInv /\ PosInv /\ [Next]_vars => PosInv'
<1> SUFFICES ASSUME IInv, PosInv, [Next]_vars PROVE PosInv'
  OBVIOUS
<1>0. Len(Configs) = 8
  BY ConfigsLen
<1>1. CASE YieldProgramConfig
  BY <1>0, <1>1 DEF YieldProgramConfig, PosInv
<1>2. CASE SkipProgramConfig
  BY <1>2 DEF SkipProgramConfig, PosInv
<1>3. CASE StartPredictorConfigs
  BY <1>3 DEF StartPredictorConfigs, PosInv
\* A yield changes only the configuration's input type.
<1>y. ASSUME NEW s, NEW dynShape, NEW prec, NEW dynamic,
             PredictorYield(s, dynShape, prec, dynamic)
      PROVE  PosInv'
  BY <1>y DEF PredictorYield, PosInv
<1>4. CASE StaticFloat32 \/ StaticHalf \/ DynamicFloat32 \/ DynamicHalf
  BY <1>4, <1>y DEF StaticFloat32, StaticHalf, DynamicFloat32, DynamicHalf
<1>5. CASE EndPredictorConfigs
  BY <1>5 DEF EndPredictorConfigs, PosInv
<1>6. CASE EndRunTest
  BY <1>0, <1>6 DEF EndRunTest, PosInv
<1>7. CASE UNCHANGED vars
  BY <1>7 DEF vars, PosInv
<1> QED
  BY <1>1, <1>2, <1>3, <1>4, <1>5, <1>6, <1>7 DEF Next

(***************************************************************************)
(* A yield of the predictor generator at stretch k, which configures the  *)
(* dynamic shape, precision and input type of case k of TrtShapeCases,    *)
(* runs exactly that case for the configuration the harness holds.        *)
(***************************************************************************)
LEMMA YieldIsCase ==
  ASSUME IInv, PosInv, stage = "pred", NEW k \in 1..4, seg = k,
         NEW dynShape, NEW prec, NEW dynamic,
         dynShape = IF k >= 3 THEN DynamicShape(selfDims) ELSE NoShape,
         prec = Cases!SlotPrecision(k), dynamic = (k >= 3),
         PredictorYield(k, dynShape, prec, dynamic)
  PROVE  Cases!RunCase
<1>1. CfgOK /\ cfg.dims = Configs[pi - 1][1] /\ cfg.batch = Configs[pi - 1][2]
  BY DEF IInv, PosInv
<1>2. RunRecord(dynShape, prec, prec, dynamic)
        = Cases!Case(ir, Configs[pi - 1][1], Configs[pi - 1][2], k)
  BY <1>1, SameGen DEF RunRecord, Cases!Case, CfgOK
<1>3. CaseSlot = k /\ CaseSlot' = k + 1 /\ CasePos = pi - 1 /\ CasePos' = pi - 1
  BY DEF PredictorYield, CaseSlot, CasePos
<1> QED
  BY <1>2, <1>3, SameGen DEF PredictorYield, Cases!RunCase

(***************************************************************************)
(* The two generators and the harness, with the state the generators      *)
(* share and either moment of data generation, implement TrtShapeCases:   *)
(* every step runs the next intended case, skips or finishes a (dims,      *)
(* batch), ends a pass, or changes nothing the cases see.  So no run ever  *)
(* carries a stale rank, a stale dynamic shape or a wrong precision, the  *)
(* runs come in the intended order, and the PIR pass runs only dynamic    *)
(* cases, for every set of ranks the harness may skip.                    *)
(***************************************************************************)
THEOREM ImplementsCasesHolds == Spec => ImplementsCases
<1>1. Init => Cases!CInit
  BY DEF Init, Cases!CInit, CasePos, CaseSlot
<1>2. IInv /\ PosInv /\ [Next]_vars => [Cases!CNext]_Cases!cvars
  <2> SUFFICES ASSUME IInv, PosInv, [Next]_vars
               PROVE  [Cases!CNext]_Cases!cvars
    OBVIOUS
  <2>0. Len(Configs) = 8
    BY ConfigsLen
  <2>1. CASE YieldProgramConfig
    <3>1. UNCHANGED Cases!cvars
      BY <2>1 DEF YieldProgramConfig, Cases!cvars, CasePos, CaseSlot, PosInv
    <3> QED
      BY <3>1
  <2>2. CASE SkipProgramConfig
    <3>1. /\ stage = "harness" /\ stage' = "prog"
          /\ CasePos = pi - 1 /\ CasePos' = pi
          /\ CaseSlot = 0 /\ CaseSlot' = 0
      BY <2>2 DEF SkipProgramConfig, CasePos, CaseSlot
    <3>2. /\ ir # "done"
          /\ pi \in Nat /\ pi - 1 \in 1..Len(Configs)
          /\ Configs[pi - 1][1] = cfg.dims /\ Configs[pi - 1][2] = cfg.batch
      BY <3>1 DEF IInv, PosInv, IRs
    <3>3. Cases!SkipCases
      BY <2>2, <3>1, <3>2, SameConfigs DEF SkipProgramConfig, Cases!SkipCases
    <3> QED
      BY <3>3 DEF Cases!CNext
  <2>3. CASE StartPredictorConfigs
    <3>1. /\ stage = "harness" /\ stage' = "pred"
          /\ CasePos = pi - 1 /\ CasePos' = pi - 1
          /\ CaseSlot = 0 /\ CaseSlot' = Cases!FirstSlot(ir)
      BY <2>3 DEF StartPredictorConfigs, CasePos, CaseSlot, Cases!FirstSlot
    <3>2. ir # "done" /\ pi - 1 \in 1..Len(Configs)
      BY <3>1 DEF IInv, PosInv, IRs
    <3>3. Cases!StartCases
      BY <2>3, <3>1, <3>2, SameConfigs DEF StartPredictorConfigs,
                                            Cases!StartCases
    <3> QED
      BY <3>3 DEF Cases!CNext
  <2>4. CASE StaticFloat32
    <3>1. stage = "pred" /\ seg = 1
      BY <2>4 DEF StaticFloat32, PredictorYield
    <3>2. /\ 1 \in 1..4
          /\ NoShape = IF 1 >= 3 THEN DynamicShape(selfDims) ELSE NoShape
          /\ "f32" = Cases!SlotPrecision(1)
          /\ FALSE = (1 >= 3)
      BY <3>1 DEF Cases!SlotPrecision
    <3>3. PredictorYield(1, NoShape, "f32", FALSE)
      BY <2>4 DEF StaticFloat32, ClearDynamicShape
    <3>4. Cases!RunCase
      BY <3>1, <3>2, <3>3, YieldIsCase, Zenon
    <3> QED
      BY <3>4 DEF Cases!CNext
  <2>5. CASE StaticHalf
    <3>1. stage = "pred" /\ seg = 2 /\ dyn = NoShape
      BY <2>5 DEF StaticHalf, PredictorYield, IInv
    <3>2. /\ 2 \in 1..4
          /\ dyn = IF 2 >= 3 THEN DynamicShape(selfDims) ELSE NoShape
          /\ "f16" = Cases!SlotPrecision(2)
          /\ FALSE = (2 >= 3)
      BY <3>1 DEF Cases!SlotPrecision
    <3>3. PredictorYield(2, dyn, "f16", FALSE)
      BY <2>5 DEF StaticHalf
    <3>4. Cases!RunCase
      BY <3>1, <3>2, <3>3, YieldIsCase, Zenon
    <3> QED
      BY <3>4 DEF Cases!CNext
  <2>6. CASE DynamicFloat32
    <3>1. stage = "pred" /\ seg = 3
      BY <2>6 DEF DynamicFloat32, PredictorYield
    <3>2. /\ 3 \in 1..4
          /\ DynamicShape(selfDims) = IF 3 >= 3 THEN DynamicShape(selfDims) ELSE NoShape
          /\ "f32" = Cases!SlotPrecision(3)
          /\ TRUE = (3 >= 3)
      BY <3>1 DEF Cases!SlotPrecision
    <3>3. PredictorYield(3, DynamicShape(selfDims), "f32", TRUE)
      BY <2>6 DEF DynamicFloat32
    <3>4. Cases!RunCase
      BY <3>1, <3>2, <3>3, YieldIsCase, Zenon
    <3> QED
      BY <3>4 DEF Cases!CNext
  <2>7. CASE DynamicHalf
    <3>1. stage = "pred" /\ seg = 4 /\ dyn = DynamicShape(selfDims)
      BY <2>7 DEF DynamicHalf, PredictorYield, IInv
    <3>2. /\ 4 \in 1..4
          /\ dyn = IF 4 >= 3 THEN DynamicShape(selfDims) ELSE NoShape
          /\ "f16" = Cases!SlotPrecision(4)
          /\ TRUE = (4 >= 3)
      BY <3>1 DEF Cases!SlotPrecision
    <3>3. PredictorYield(4, dyn, "f16", TRUE)
      BY <2>7 DEF DynamicHalf
    <3>4. Cases!RunCase
      BY <3>1, <3>2, <3>3, YieldIsCase, Zenon
    <3> QED
      BY <3>4 DEF Cases!CNext
  <2>8. CASE EndPredictorConfigs
    <3>1. Cases!EndCases
      BY <2>8 DEF EndPredictorConfigs, Cases!EndCases, PosInv, CasePos,
                  CaseSlot
    <3> QED
      BY <3>1 DEF Cases!CNext
  <2>9. CASE EndRunTest
    <3>1. Cases!EndPass
      BY <2>0, <2>9, SameGen DEF EndRunTest, Cases!EndPass, CasePos, CaseSlot
    <3> QED
      BY <3>1 DEF Cases!CNext
  <2>10. CASE UNCHANGED vars
    <3>1. UNCHANGED Cases!cvars
      BY <2>10 DEF vars, Cases!cvars, CasePos, CaseSlot
    <3> QED
      BY <3>1
  <2> QED
    BY <2>1, <2>2, <2>3, <2>4, <2>5, <2>6, <2>7, <2>8, <2>9, <2>10 DEF Next
<1> QED
  BY <1>1, <1>2, InitIInv, IInvStep, InitPosInv, PosInvStep, PTL
  DEF Spec, ImplementsCases, Cases!CSpec
=============================================================================
