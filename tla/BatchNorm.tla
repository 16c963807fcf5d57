----------------------------- MODULE BatchNorm -----------------------------
(***************************************************************************)
(* The BatchNorm layer of python/paddle/fluid/dygraph/nn.py (class         *)
(* BatchNorm, lines 643-945): its constructor, which creates the scale,    *)
(* shift and the two running-statistics parameters and sets their          *)
(* stop_gradient flags, and its forward in the three execution modes the   *)
(* code distinguishes: the eager mode (in_dygraph_mode), the legacy eager  *)
(* mode (_in_legacy_dygraph) and the static-graph mode, in which forward   *)
(* only appends a batch_norm op to the main program and an executor run    *)
(* later executes it.                                                      *)
(*                                                                         *)
(* The data is abstracted to what the properties tell apart: a ParamAttr   *)
(* argument is None, False or an attribute whose learning rate is zero or  *)
(* not; the running mean and variance (which the code updates in place:    *)
(* mean_out is self._mean, variance_out is self._variance) are abstracted  *)
(* to the number of moving-average updates they have received.  Momentum,  *)
(* epsilon, data layout, dtype, in_place, the parameter names and the      *)
(* activation do not change which statistics move and are left out.       *)
(***************************************************************************)
EXTENDS Naturals

CONSTANTS
    Modes,      \* the execution modes a run may use
    MaxCalls    \* bound on forward calls plus executor runs

ExecModes == {"dygraph", "legacy", "static"}

ASSUME ModesAssumption == Modes \subseteq ExecModes /\ Modes # {}
ASSUME MaxCallsAssumption == MaxCalls \in Nat

\* param_attr: None, False, or a ParamAttr with learning_rate 0.0 or not.
ParamAttrArgs == {"None", "False", "lr0", "lr1"}
\* bias_attr: None, False, or a ParamAttr.
BiasAttrArgs == {"None", "False", "attr"}

\* The constructor arguments the layer's behaviour depends on.
Args == [paramAttr : ParamAttrArgs, biasAttr : BiasAttrArgs,
         useGlobalStats : BOOLEAN, trainableStatistics : BOOLEAN,
         isTest : BOOLEAN]

VARIABLES
    args,       \* the arguments the script passes to BatchNorm(...)
    phase,      \* "init" before __init__, "built" after it, "raised" if it raised
    weightSG,   \* self.weight.stop_gradient
    biasSG,     \* self.bias.stop_gradient
    training,   \* Layer.training, toggled by train() / eval()
    mode,       \* the execution mode the script runs in
    stats,      \* moving-average updates applied to self._mean / self._variance
    nops,       \* batch_norm ops forward has appended to the main program
    calls       \* forward calls plus executor runs so far

vars == <<args, phase, weightSG, biasSG, training, mode, stats, nops, calls>>

(***************************************************************************)
(* The batch_norm kernel normalises with the statistics of the current     *)
(* batch, and then folds them into the running mean and variance, unless   *)
(* use_global_stats is set, or is_test is set without                      *)
(* trainable_statistics (docstring of BatchNorm: use_global_stats,         *)
(* trainable_statistics).                                                  *)
(***************************************************************************)
BatchStatsUsed(isTest) ==
    /\ ~args.useGlobalStats
    /\ (~isTest \/ args.trainableStatistics)

\* Layer.__init__ leaves a layer in training mode; the script's arguments
\* and mode are any the constants allow.
Init ==
    /\ args \in Args
    /\ phase = "init"
    /\ weightSG = FALSE
    /\ biasSG = FALSE
    /\ training = TRUE
    /\ mode \in Modes
    /\ stats = 0
    /\ nops = 0
    /\ calls = 0

(***************************************************************************)
(* BatchNorm.__init__.  The assert on bias_attr raises first.  Then        *)
(*   self.weight.stop_gradient = (use_global_stats and                     *)
(*                                self._param_attr.learning_rate == 0.0)   *)
(* evaluates its right-hand side first: with use_global_stats it reads     *)
(* learning_rate of param_attr, which None and False do not have           *)
(* (AttributeError); then it assigns to self.weight, which is None when    *)
(* param_attr is False (AttributeError).  The bias flag is computed from   *)
(* the same param_attr, not from bias_attr.                                *)
(***************************************************************************)
SGValue == args.useGlobalStats /\ args.paramAttr = "lr0"

Raises ==
    \/ args.biasAttr = "False"
    \/ args.useGlobalStats /\ args.paramAttr \in {"None", "False"}
    \/ args.paramAttr = "False"

Construct ==
    /\ phase = "init"
    /\ IF Raises
         THEN /\ phase' = "raised"
              /\ UNCHANGED <<weightSG, biasSG>>
         ELSE /\ phase' = "built"
              /\ weightSG' = SGValue
              /\ biasSG' = SGValue
    /\ UNCHANGED <<args, training, mode, stats, nops, calls>>

\* Layer.train() and Layer.eval() set the training flag.
Train ==
    /\ phase = "built"
    /\ training' = TRUE
    /\ UNCHANGED <<args, phase, weightSG, biasSG, mode, stats, nops, calls>>

Eval ==
    /\ phase = "built"
    /\ training' = FALSE
    /\ UNCHANGED <<args, phase, weightSG, biasSG, mode, stats, nops, calls>>

(***************************************************************************)
(* forward in both eager modes: _C_ops.batch_norm (or the legacy           *)
(* _legacy_C_ops.batch_norm with mean_out and variance_out aliasing the    *)
(* running statistics) runs at once with is_test = not self.training.      *)
(***************************************************************************)
\* Mutant: forward passes self.training itself as is_test.
IsTestFromTraining == training

IsTestDygraph == ~training

ForwardDygraph ==
    /\ phase = "built"
    /\ mode \in {"dygraph", "legacy"}
    /\ calls < MaxCalls
    /\ stats' = IF BatchStatsUsed(IsTestDygraph) THEN stats + 1 ELSE stats
    /\ calls' = calls + 1
    /\ UNCHANGED <<args, phase, weightSG, biasSG, training, mode, nops>>

(***************************************************************************)
(* forward in static mode: appends one batch_norm op whose is_test         *)
(* attribute is the constructor's is_test (self._is_test), and whose       *)
(* MeanOut and VarianceOut are the layer's own running statistics.         *)
(***************************************************************************)
ForwardStatic ==
    /\ phase = "built"
    /\ mode = "static"
    /\ calls < MaxCalls
    /\ nops' = nops + 1
    /\ calls' = calls + 1
    /\ UNCHANGED <<args, phase, weightSG, biasSG, training, mode, stats>>

\* Mutant: the appended op takes is_test from the training flag, as the
\* eager paths do.
IsTestStaticFromTraining == ~training

IsTestStatic == args.isTest

\* An executor run of the main program executes every appended batch_norm
\* op once; each carries is_test = self._is_test.
RunProgram ==
    /\ phase = "built"
    /\ mode = "static"
    /\ calls < MaxCalls
    /\ stats' = IF BatchStatsUsed(IsTestStatic) THEN stats + nops ELSE stats
    /\ calls' = calls + 1
    /\ UNCHANGED <<args, phase, weightSG, biasSG, training, mode, nops>>

Next ==
    \/ Construct
    \/ Train
    \/ Eval
    \/ ForwardDygraph
    \/ ForwardStatic
    \/ RunProgram

Spec == Init /\ [][Next]_vars

-----------------------------------------------------------------------------
TypeOK ==
    /\ args \in Args
    /\ phase \in {"init", "built", "raised"}
    /\ weightSG \in BOOLEAN
    /\ biasSG \in BOOLEAN
    /\ training \in BOOLEAN
    /\ mode \in Modes
    /\ stats \in Nat
    /\ nops \in Nat
    /\ calls \in Nat

(***************************************************************************)
(* Eval freezes the running statistics in the eager modes: once eval() has *)
(* been called on a layer built without trainable_statistics, no forward  *)
(* call (nor any other step) moves self._mean / self._variance.  This is   *)
(* what a script relies on when it calls model.eval() and then runs many   *)
(* forwards (test_dygraph_multi_forward does so); it rests on forward      *)
(* passing is_test = not self.training.  (In static mode eval() has no     *)
(* effect: the op carries the constructor's is_test.)                      *)
(***************************************************************************)
EvalFreezesStats ==
    [][(mode \in {"dygraph", "legacy"} /\ ~training
        /\ ~args.trainableStatistics) => stats' = stats]_vars

(***************************************************************************)
(* In static mode the constructor's is_test is the switch: the docstring   *)
(* says it "only has effect on static graph mode".  A layer built with     *)
(* is_test and without trainable_statistics never moves self._mean /       *)
(* self._variance on any step, whatever train() or eval() calls, forward   *)
(* calls (each appending a batch_norm op) and executor runs follow; it     *)
(* rests on every appended op carrying self._is_test, not the training    *)
(* flag the eager paths read.                                              *)
(***************************************************************************)
IsTestFreezesStaticStats ==
    [][(mode = "static" /\ args.isTest /\ ~args.trainableStatistics)
         => stats' = stats]_vars

(***************************************************************************)
(* The constructor accepts every argument combination its docstring        *)
(* documents: param_attr None or a ParamAttr, bias_attr None or a          *)
(* ParamAttr (False is rejected by an assert), use_global_stats either     *)
(* value.  Checked as a violation run: it fails for use_global_stats=True *)
(* with the default param_attr=None.                                       *)
(***************************************************************************)
ConstructorAcceptsDocumentedArgs ==
    (args.paramAttr # "False" /\ args.biasAttr # "False")
        => phase # "raised"

=============================================================================
