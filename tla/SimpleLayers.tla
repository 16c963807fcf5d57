--------------------------- MODULE SimpleLayers ---------------------------
(***************************************************************************)
(* The parameter-holding layers of python/paddle/fluid/dygraph/nn.py that  *)
(* have no running state of their own: Linear (lines 558-640), Embedding   *)
(* (1056-1126), GroupNorm (1249-1336) and SpectralNorm (1398-1464).  One   *)
(* script builds one layer and calls its forward up to MaxCalls times in   *)
(* one of the three execution modes.  Each forward is recorded as the      *)
(* kernel calls or appended ops it makes, with the parameters each reads   *)
(* and the one attribute a property is about (Embedding's padding_idx).    *)
(*                                                                         *)
(* A parameter is abstracted to whether it exists (create_parameter        *)
(* returns None for attr=False); shapes are kept only where the code       *)
(* computes with them (Embedding's size, SpectralNorm's weight_shape).     *)
(* dtypes, initialisers, use_mkldnn, epsilon and activations are left out. *)
(***************************************************************************)
EXTENDS Integers, Sequences

CONSTANTS
    Kinds,        \* the layer classes a script may build
    Modes,        \* the execution modes a script may run in
    Sizes,        \* Embedding sizes <<vocab_size, emb_size>>
    PaddingArgs,  \* the integers a script may pass as padding_idx
    WeightShapes, \* SpectralNorm weight shapes
    Dims,         \* the integers a script may pass as SpectralNorm's dim
    None,         \* Python's None
    MaxCalls      \* bound on forward calls

LayerKinds == {"Linear", "Embedding", "GroupNorm", "SpectralNorm"}
ExecModes == {"dygraph", "legacy", "static"}

ASSUME KindsAssumption == Kinds \subseteq LayerKinds /\ Kinds # {}
ASSUME ModesAssumption == Modes \subseteq ExecModes /\ Modes # {}
ASSUME SizesAssumption == Sizes \subseteq (Nat \ {0}) \X (Nat \ {0})
ASSUME PaddingAssumption == PaddingArgs \subseteq Int
ASSUME ShapesAssumption == WeightShapes \subseteq Seq(Nat) \ {<<>>}
ASSUME DimsAssumption == Dims \subseteq Int
ASSUME NoneAssumption == None \notin Int
ASSUME MaxCallsAssumption == MaxCalls \in Nat

\* param_attr / bias_attr: None, False or a ParamAttr.  Linear's param_attr
\* is documented as a ParamAttr or None only.
AttrArgs == {"None", "False", "attr"}

Args ==
    [kind : {"Linear"} \cap Kinds, paramAttr : {"None", "attr"},
     biasAttr : AttrArgs]
    \cup [kind : {"Embedding"} \cap Kinds, size : Sizes,
          paddingIdx : PaddingArgs \cup {None}]
    \cup [kind : {"GroupNorm"} \cap Kinds, paramAttr : AttrArgs,
          biasAttr : AttrArgs]
    \cup [kind : {"SpectralNorm"} \cap Kinds, weightShape : WeightShapes,
          dim : Dims]

ParamNames == {"weight", "bias", "weight_u", "weight_v"}
OpNames == {"matmul", "elementwise_add", "lookup_table_v2", "group_norm",
            "spectral_norm"}
Call == [op : OpNames, call : Nat, reads : SUBSET ParamNames, attr : Int]

VARIABLES
    args,        \* the arguments of the constructor call
    mode,        \* the execution mode
    phase,       \* "init", "built" or "raised"
    params,      \* the parameters __init__ created (not None)
    paddingIdx,  \* Embedding's self._padding_idx
    vecLens,     \* SpectralNorm's <<h, w>>: lengths of weight_u, weight_v
    trace,       \* kernel calls and appended ops, in order
    calls        \* forward calls so far

vars == <<args, mode, phase, params, paddingIdx, vecLens, trace, calls>>

\* Layer.create_parameter returns None for attr=False: the names created.
Created(name, attr) == IF attr = "False" THEN {} ELSE {name}

\* One kernel call or appended op of the current forward call.
Rec(op, reads, attr) == [op |-> op, call |-> calls, reads |-> reads,
                         attr |-> attr]

Init ==
    /\ args \in Args
    /\ mode \in Modes
    /\ phase = "init"
    /\ params = {}
    /\ paddingIdx = 0
    /\ vecLens = <<>>
    /\ trace = <<>>
    /\ calls = 0

\* The part every forward shares.
Forwarded(kind, recs) ==
    /\ phase = "built"
    /\ args.kind = kind
    /\ calls < MaxCalls
    /\ trace' = trace \o recs
    /\ calls' = calls + 1
    /\ UNCHANGED <<args, mode, phase, params, paddingIdx, vecLens>>

(***************************************************************************)
(* Linear.__init__ creates weight [input_dim, output_dim] and bias         *)
(* [output_dim] (None for bias_attr False).  forward in the eager modes    *)
(* runs matmul and _append_bias_in_dygraph, which adds the bias unless it  *)
(* is None; in static mode it appends matmul and, if self.bias is not      *)
(* None, elementwise_add.                                                  *)
(***************************************************************************)
ConstructLinear ==
    /\ phase = "init"
    /\ args.kind = "Linear"
    /\ phase' = "built"
    /\ params' = Created("weight", args.paramAttr) \cup Created("bias", args.biasAttr)
    /\ UNCHANGED <<args, mode, paddingIdx, vecLens, trace, calls>>

ForwardLinear ==
    Forwarded("Linear",
              <<Rec("matmul", {"weight"}, 0)>>
              \o (IF "bias" \in params
                    THEN <<Rec("elementwise_add", {"bias"}, 0)>> ELSE <<>>))

(***************************************************************************)
(* Embedding.__init__ normalises padding_idx: None becomes -1, a           *)
(* non-negative index stays, a negative one becomes size[0] + padding_idx. *)
(* forward calls lookup_table_v2 with that attribute in every mode.        *)
(***************************************************************************)
\* Mutant: a negative index is offset by the embedding width size[1].
NormalisedPaddingWrongDim(p, size) ==
    IF p = None THEN -1 ELSE IF p >= 0 THEN p ELSE size[2] + p

\* Mutant: None is stored as is instead of becoming -1.
NormalisedPaddingKeepsNone(p, size) ==
    IF p = None THEN None ELSE IF p >= 0 THEN p ELSE size[1] + p

NormalisedPadding(p, size) ==
    IF p = None THEN -1 ELSE IF p >= 0 THEN p ELSE size[1] + p

ConstructEmbedding ==
    /\ phase = "init"
    /\ args.kind = "Embedding"
    /\ phase' = "built"
    /\ paddingIdx' = NormalisedPadding(args.paddingIdx, args.size)
    /\ params' = {"weight"}
    /\ UNCHANGED <<args, mode, vecLens, trace, calls>>

ForwardEmbedding ==
    Forwarded("Embedding",
              <<Rec("lookup_table_v2", {"weight"}, paddingIdx)>>)

(***************************************************************************)
(* GroupNorm.__init__ creates its scale and shift from                     *)
(* "self._param_attr or False" and "self._bias_attr or False": None, like  *)
(* False, creates no parameter.  forward passes self.weight and self.bias  *)
(* (None included) to the eager kernels; the static path adds Scale and    *)
(* Bias to the op's inputs only when they are not None.                    *)
(***************************************************************************)
OrFalse(attr) == IF attr = "attr" THEN "attr" ELSE "False"

ConstructGroupNorm ==
    /\ phase = "init"
    /\ args.kind = "GroupNorm"
    /\ phase' = "built"
    /\ params' = Created("weight", OrFalse(args.paramAttr))
                 \cup Created("bias", OrFalse(args.biasAttr))
    /\ UNCHANGED <<args, mode, paddingIdx, vecLens, trace, calls>>

ForwardGroupNorm ==
    Forwarded("GroupNorm", <<Rec("group_norm", params, 0)>>)

(***************************************************************************)
(* SpectralNorm.__init__ asserts that the product of weight_shape is       *)
(* positive and that dim < len(weight_shape); h = weight_shape[dim] with   *)
(* Python indexing (a negative dim counts from the end, one below          *)
(* -len raises IndexError), w = prod // h; weight_u has length h and       *)
(* weight_v length w.  forward calls spectral_norm with u, v and dim.      *)
(***************************************************************************)
Prod(s) == LET f[i \in 0..Len(s)] == IF i = 0 THEN 1 ELSE f[i - 1] * s[i]
           IN  f[Len(s)]

PyIndex(s, d) == IF d >= 0 THEN d + 1 ELSE Len(s) + d + 1

SpectralNormRaises ==
    \/ Prod(args.weightShape) <= 0
    \/ args.dim >= Len(args.weightShape)
    \/ args.dim < -Len(args.weightShape)

\* Mutant: w divides by the first dimension instead of h.
SpectralNormLensFirstDim ==
    LET s == args.weightShape
    IN  <<s[PyIndex(s, args.dim)], Prod(s) \div s[1]>>

SpectralNormLens ==
    LET s == args.weightShape
        h == s[PyIndex(s, args.dim)]
    IN  <<h, Prod(s) \div h>>

ConstructSpectralNorm ==
    /\ phase = "init"
    /\ args.kind = "SpectralNorm"
    /\ IF SpectralNormRaises
         THEN /\ phase' = "raised"
              /\ UNCHANGED <<params, vecLens>>
         ELSE /\ phase' = "built"
              /\ params' = {"weight_u", "weight_v"}
              /\ vecLens' = SpectralNormLens
    /\ UNCHANGED <<args, mode, paddingIdx, trace, calls>>

ForwardSpectralNorm ==
    Forwarded("SpectralNorm",
              <<Rec("spectral_norm", {"weight_u", "weight_v"}, args.dim)>>)

Next ==
    \/ ConstructLinear
    \/ ForwardLinear
    \/ ConstructEmbedding
    \/ ForwardEmbedding
    \/ ConstructGroupNorm
    \/ ForwardGroupNorm
    \/ ConstructSpectralNorm
    \/ ForwardSpectralNorm

Spec == Init /\ [][Next]_vars

-----------------------------------------------------------------------------
TypeOK ==
    /\ args \in Args
    /\ mode \in Modes
    /\ phase \in {"init", "built", "raised"}
    /\ params \subseteq ParamNames
    /\ paddingIdx \in Int
    /\ vecLens \in Seq(Int)
    /\ trace \in Seq(Call)
    /\ calls \in Nat

\* padding_idx values the Embedding docstring allows: None or
\* [-vocab_size, vocab_size).
DocumentedPadding(p, size) == p = None \/ p \in -size[1]..(size[1] - 1)

(***************************************************************************)
(* For every documented padding_idx, every lookup_table_v2 call receives   *)
(* -1 (no padding) for None, and otherwise a row index of the table that   *)
(* is padding_idx modulo vocab_size, as the docstring describes.           *)
(***************************************************************************)
PaddingIdxNormalised ==
    \A i \in 1..Len(trace) :
        (trace[i].op = "lookup_table_v2"
         /\ DocumentedPadding(args.paddingIdx, args.size)) =>
            IF args.paddingIdx = None
              THEN trace[i].attr = -1
              ELSE /\ trace[i].attr \in 0..(args.size[1] - 1)
                   /\ (trace[i].attr - args.paddingIdx) % args.size[1] = 0

(***************************************************************************)
(* A SpectralNorm that was built has vectors u and v whose lengths         *)
(* multiply to the number of elements of the weight, so that the weight    *)
(* reshaped to [h, w] matches them.                                        *)
(***************************************************************************)
SpectralNormVectorsFit ==
    (phase = "built" /\ args.kind = "SpectralNorm") =>
        vecLens[1] * vecLens[2] = Prod(args.weightShape)

(***************************************************************************)
(* GroupNorm's docstring: with param_attr None the scale is created and    *)
(* initialised to one, with bias_attr None the shift is created and        *)
(* initialised to zero.  Checked as a violation run: "None or False" is    *)
(* False, so the default layer has neither.                                *)
(***************************************************************************)
GroupNormDefaultAffine ==
    (phase = "built" /\ args.kind = "GroupNorm") =>
        /\ args.paramAttr = "None" => "weight" \in params
        /\ args.biasAttr = "None" => "bias" \in params

=============================================================================
