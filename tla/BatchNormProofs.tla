-------------------------- MODULE BatchNormProofs --------------------------
(***************************************************************************)
(* Proofs about the BatchNorm layer model, for every value of the          *)
(* constants: type correctness, that eval() freezes the running           *)
(* statistics in the eager modes, and that the constructor's is_test       *)
(* freezes them in static mode.                                            *)
(***************************************************************************)
EXTENDS BatchNorm, TLAPS

\* Every step of the layer keeps the state well-typed.
LEMMA TypeStep == TypeOK /\ [Next]_vars => TypeOK'
<1> SUFFICES ASSUME TypeOK, [Next]_vars PROVE TypeOK'
  OBVIOUS
<1>1. CASE Construct
  BY <1>1 DEF Construct, SGValue, TypeOK
<1>2. CASE Train
  BY <1>2 DEF Train, TypeOK
<1>3. CASE Eval
  BY <1>3 DEF Eval, TypeOK
<1>4. CASE ForwardDygraph
  BY <1>4 DEF ForwardDygraph, TypeOK
<1>5. CASE ForwardStatic
  BY <1>5 DEF ForwardStatic, TypeOK
<1>6. CASE RunProgram
  BY <1>6 DEF RunProgram, TypeOK
<1>7. CASE UNCHANGED vars
  BY <1>7 DEF vars, TypeOK
<1>8. QED
  BY <1>1, <1>2, <1>3, <1>4, <1>5, <1>6, <1>7 DEF Next

\* Type correctness of every reachable state.
THEOREM TypeCorrect == Spec => []TypeOK
<1>1. Init => TypeOK
  <2> SUFFICES ASSUME Init PROVE TypeOK
    OBVIOUS
  <2> QED
    BY DEF Init, TypeOK
<1>2. TypeOK /\ [Next]_vars => TypeOK'
  BY TypeStep
<1>3. QED
  BY <1>1, <1>2, PTL DEF Spec

\* In an eager mode, no step of a layer in eval mode without
\* trainable_statistics moves the running statistics.
THEOREM EvalFreezesStatsHolds == Spec => EvalFreezesStats
<1>1. [Next]_vars => ((mode \in {"dygraph", "legacy"} /\ ~training
                       /\ ~args.trainableStatistics) => stats' = stats)
  <2> SUFFICES ASSUME [Next]_vars,
                      mode \in {"dygraph", "legacy"}, ~training,
                      ~args.trainableStatistics
               PROVE stats' = stats
    OBVIOUS
  <2>1. CASE ForwardDygraph
    BY <2>1 DEF ForwardDygraph, BatchStatsUsed, IsTestDygraph
  <2>2. CASE RunProgram
    BY <2>2 DEF RunProgram
  <2>3. CASE Construct \/ Train \/ Eval \/ ForwardStatic \/ UNCHANGED vars
    BY <2>3 DEF Construct, Train, Eval, ForwardStatic, vars
  <2>4. QED
    BY <2>1, <2>2, <2>3 DEF Next
<1>2. QED
  BY <1>1, PTL DEF Spec, EvalFreezesStats

\* In static mode, no step of a layer built with is_test and without
\* trainable_statistics moves the running statistics, whatever the training
\* flag says.
THEOREM IsTestFreezesStaticStatsHolds == Spec => IsTestFreezesStaticStats
<1>1. [Next]_vars => ((mode = "static" /\ args.isTest
                       /\ ~args.trainableStatistics) => stats' = stats)
  <2> SUFFICES ASSUME [Next]_vars,
                      mode = "static", args.isTest,
                      ~args.trainableStatistics
               PROVE stats' = stats
    OBVIOUS
  <2>1. CASE RunProgram
    BY <2>1 DEF RunProgram, BatchStatsUsed, IsTestStatic
  <2>2. CASE ForwardDygraph
    BY <2>2 DEF ForwardDygraph
  <2>3. CASE Construct \/ Train \/ Eval \/ ForwardStatic \/ UNCHANGED vars
    BY <2>3 DEF Construct, Train, Eval, ForwardStatic, vars
  <2>4. QED
    BY <2>1, <2>2, <2>3 DEF Next
<1>2. QED
  BY <1>1, PTL DEF Spec, IsTestFreezesStaticStats
=============================================================================
