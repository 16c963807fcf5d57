---------------------------- MODULE ConvLayers ----------------------------
(***************************************************************************)
(* The convolution layers of python/paddle/fluid/dygraph/nn.py: Conv3D     *)
(* (lines 176-275), Conv3DTranspose (420-503), RowConv (1177-1205) and     *)
(* TreeConv (1512-1584).  One script builds one layer and calls its        *)
(* forward up to MaxCalls times; every forward appends ops through         *)
(* LayerHelper.append_op, recorded here in the sequence prog in the order  *)
(* they are appended (in the eager modes the tracer runs them at once, in  *)
(* static mode they go to the main program; the order is the same).        *)
(*                                                                         *)
(* A filter is abstracted to its first two dimensions, the bias to its     *)
(* length, an op to its type, the parameters it reads, its groups          *)
(* attribute and the forward call that appended it.  Strides, paddings,    *)
(* dilations, filter sizes, dtypes, use_cudnn, initialisers and the        *)
(* activation op (append_activation) change none of these and are left     *)
(* out.                                                                    *)
(***************************************************************************)
EXTENDS Naturals, Sequences

CONSTANTS
    Kinds,      \* the layer classes a script may build
    Modes,      \* the execution modes a script may run in
    Channels,   \* the channel and filter counts a script may pass
    Groups,     \* the integer values a script may pass as groups
    None,       \* Python's None
    MaxCalls    \* bound on forward calls

LayerKinds == {"Conv3D", "Conv3DTranspose", "TreeConv", "RowConv"}

\* _non_static_mode() is true in both eager modes; these layers do not
\* distinguish them.
ExecModes == {"dygraph", "static"}

ASSUME KindsAssumption == Kinds \subseteq LayerKinds /\ Kinds # {}
ASSUME ModesAssumption == Modes \subseteq ExecModes /\ Modes # {}
ASSUME ChannelsAssumption == Channels \subseteq Nat \ {0} /\ Channels # {}
ASSUME GroupsAssumption == Groups \subseteq Nat
ASSUME NoneAssumption == None \notin Nat \cup (Nat \X Nat)
ASSUME MaxCallsAssumption == MaxCalls \in Nat

(***************************************************************************)
(* Constructor arguments.  numChannels and numFilters stand for            *)
(* num_channels / num_filters of the convolutions, feature_size /          *)
(* num_filters of TreeConv, and input.shape[1] / future_context_size of    *)
(* RowConv.  param_attr is None, False or a ParamAttr; False is documented *)
(* (and asserted against) only for the 3-D convolutions.                   *)
(***************************************************************************)
AttrArgs == {"None", "False", "attr"}
ParamAttrsOf(k) ==
    IF k \in {"Conv3D", "Conv3DTranspose"} THEN AttrArgs ELSE {"None", "attr"}

Args ==
    UNION {[kind : {k}, numChannels : Channels, numFilters : Channels,
            groups : Groups \cup {None}, paramAttr : ParamAttrsOf(k),
            biasAttr : AttrArgs] : k \in Kinds}

Params == {"weight", "bias"}
OpTypes == {"conv3d", "conv3d_transpose", "tree_conv", "row_conv",
            "elementwise_add"}
Op == [type : OpTypes, call : Nat, reads : SUBSET Params, groups : Nat]

VARIABLES
    args,     \* the arguments of the constructor call
    mode,     \* the execution mode
    phase,    \* "init" before __init__, "built" after, "raised" if it raised
    weight,   \* self.weight: <<dim0, dim1>> of the filter, or None
    bias,     \* self.bias: its length, or None
    prog,     \* the ops appended so far, in order
    calls     \* forward calls so far

vars == <<args, mode, phase, weight, bias, prog, calls>>

\* Layer.create_parameter returns None for attr=False.
CreateParameter(attr, shape) == IF attr = "False" THEN None ELSE shape

\* Mutant: forward passes self._groups as the attribute, None included.
GroupsAttrRaw(g) == g

\* The groups attribute of the conv ops: self._groups if self._groups else 1.
GroupsAttr(g) == IF g \in {None, 0} THEN 1 ELSE g

ConvOp(type, g) ==
    [type |-> type, call |-> calls, reads |-> {"weight"}, groups |-> g]
BiasAddOp == [type |-> "elementwise_add", call |-> calls, reads |-> {"bias"},
              groups |-> 0]

Init ==
    /\ args \in Args
    /\ mode \in Modes
    /\ phase = "init"
    /\ weight = None
    /\ bias = None
    /\ prog = <<>>
    /\ calls = 0

\* Completes a constructor: raises, or stores the two parameters.
Built(raises, w, b) ==
    IF raises THEN /\ phase' = "raised"
                   /\ UNCHANGED <<weight, bias>>
              ELSE /\ phase' = "built"
                   /\ weight' = w
                   /\ bias' = b

(***************************************************************************)
(* Conv3D.__init__: asserts param_attr is not False; with groups given,    *)
(* raises unless num_channels % groups == 0 (ZeroDivisionError for 0); the *)
(* filter is [num_filters, num_channels // groups, ...] (num_channels      *)
(* with groups None); the bias is [num_filters], None for bias_attr False. *)
(***************************************************************************)
\* Mutant: the divisibility check of num_channels by groups dropped.
Conv3DRaisesUnchecked ==
    \/ args.paramAttr = "False"
    \/ args.groups = 0

Conv3DRaises ==
    \/ args.paramAttr = "False"
    \/ args.groups # None /\ (args.groups = 0
                              \/ args.numChannels % args.groups # 0)

Conv3DFilterChannels ==
    IF args.groups = None THEN args.numChannels
                          ELSE args.numChannels \div args.groups

ConstructConv3D ==
    /\ phase = "init"
    /\ args.kind = "Conv3D"
    /\ Built(Conv3DRaises,
             CreateParameter(args.paramAttr,
                             <<args.numFilters, Conv3DFilterChannels>>),
             CreateParameter(args.biasAttr, args.numFilters))
    /\ UNCHANGED <<args, mode, prog, calls>>

\* Conv3D.forward: conv3d, then elementwise_add if self.bias is not None.
ForwardConv3D ==
    /\ phase = "built"
    /\ args.kind = "Conv3D"
    /\ calls < MaxCalls
    /\ prog' = prog \o <<ConvOp("conv3d", GroupsAttr(args.groups))>>
                    \o (IF bias # None THEN <<BiasAddOp>> ELSE <<>>)
    /\ calls' = calls + 1
    /\ UNCHANGED <<args, mode, phase, weight, bias>>

(***************************************************************************)
(* Conv3DTranspose.__init__: asserts param_attr is not False; groups None  *)
(* becomes 1; the filter is [num_channels, num_filters // groups, ...]     *)
(* (ZeroDivisionError for 0), with no divisibility check; the bias is      *)
(* created as in Conv3D.  (use_cudnn is a bool in every modelled call.)    *)
(***************************************************************************)
TransposeGroups == IF args.groups = None THEN 1 ELSE args.groups

ConstructConv3DTranspose ==
    /\ phase = "init"
    /\ args.kind = "Conv3DTranspose"
    /\ Built(args.paramAttr = "False" \/ TransposeGroups = 0,
             CreateParameter(args.paramAttr,
                             <<args.numChannels,
                               args.numFilters \div TransposeGroups>>),
             CreateParameter(args.biasAttr, args.numFilters))
    /\ UNCHANGED <<args, mode, prog, calls>>

\* Conv3DTranspose.forward: conv3d_transpose, then elementwise_add only
\* "if self._bias_attr", i.e. for a ParamAttr and not for None.
ForwardConv3DTranspose ==
    /\ phase = "built"
    /\ args.kind = "Conv3DTranspose"
    /\ calls < MaxCalls
    /\ prog' = prog \o <<ConvOp("conv3d_transpose", GroupsAttr(TransposeGroups))>>
                    \o (IF args.biasAttr = "attr" THEN <<BiasAddOp>> ELSE <<>>)
    /\ calls' = calls + 1
    /\ UNCHANGED <<args, mode, phase, weight, bias>>

(***************************************************************************)
(* TreeConv.__init__: the bias is created only "if self._bias_attr"; the   *)
(* filter is [feature_size, 3, output_size, num_filters].  forward         *)
(* appends tree_conv and, under the same test, the bias add.               *)
(***************************************************************************)
ConstructTreeConv ==
    /\ phase = "init"
    /\ args.kind = "TreeConv"
    /\ Built(FALSE,
             CreateParameter(args.paramAttr,
                             <<args.numChannels, args.numFilters>>),
             IF args.biasAttr = "attr" THEN args.numFilters ELSE None)
    /\ UNCHANGED <<args, mode, prog, calls>>

\* Mutant: forward adds the bias without testing bias_attr.
ForwardTreeConvUnguarded ==
    /\ phase = "built"
    /\ args.kind = "TreeConv"
    /\ calls < MaxCalls
    /\ prog' = prog \o <<ConvOp("tree_conv", 0), BiasAddOp>>
    /\ calls' = calls + 1
    /\ UNCHANGED <<args, mode, phase, weight, bias>>

ForwardTreeConv ==
    /\ phase = "built"
    /\ args.kind = "TreeConv"
    /\ calls < MaxCalls
    /\ prog' = prog \o <<ConvOp("tree_conv", 0)>>
                    \o (IF args.biasAttr = "attr" THEN <<BiasAddOp>> ELSE <<>>)
    /\ calls' = calls + 1
    /\ UNCHANGED <<args, mode, phase, weight, bias>>

(***************************************************************************)
(* RowConv.__init__ asserts static mode and creates no parameter.  The     *)
(* first call (Layer.__call__ runs _build_once while not self._built)      *)
(* creates the filter [future_context_size + 1, input.shape[1]]; forward   *)
(* appends row_conv.                                                       *)
(***************************************************************************)
ConstructRowConv ==
    /\ phase = "init"
    /\ args.kind = "RowConv"
    /\ Built(mode # "static", None, None)
    /\ UNCHANGED <<args, mode, prog, calls>>

ForwardRowConv ==
    /\ phase = "built"
    /\ args.kind = "RowConv"
    /\ calls < MaxCalls
    /\ weight' = IF calls = 0
                   THEN CreateParameter(args.paramAttr,
                                        <<args.numFilters + 1, args.numChannels>>)
                   ELSE weight
    /\ prog' = Append(prog, ConvOp("row_conv", 0))
    /\ calls' = calls + 1
    /\ UNCHANGED <<args, mode, phase, bias>>

Next ==
    \/ ConstructConv3D
    \/ ForwardConv3D
    \/ ConstructConv3DTranspose
    \/ ForwardConv3DTranspose
    \/ ConstructTreeConv
    \/ ForwardTreeConv
    \/ ConstructRowConv
    \/ ForwardRowConv

Spec == Init /\ [][Next]_vars

-----------------------------------------------------------------------------
Filter == (Nat \X Nat) \cup {None}

TypeOK ==
    /\ args \in Args
    /\ mode \in Modes
    /\ phase \in {"init", "built", "raised"}
    /\ weight \in Filter
    /\ bias \in Nat \cup {None}
    /\ prog \in Seq(Op)
    /\ calls \in Nat

(***************************************************************************)
(* Every conv3d op a Conv3D forward appended agrees with the filter and    *)
(* bias the constructor created: groups times the filter's input channels  *)
(* is num_channels, the filter has num_filters output channels, and so     *)
(* does the bias.  It rests on the divisibility check of __init__ and on   *)
(* forward turning groups None into the attribute 1.                       *)
(***************************************************************************)
ConvFilterConsistent ==
    \A i \in 1..Len(prog) :
        prog[i].type = "conv3d" =>
            /\ weight # None
            /\ prog[i].groups * weight[2] = args.numChannels
            /\ weight[1] = args.numFilters
            /\ bias \in {None, args.numFilters}

(***************************************************************************)
(* No op reads a parameter the layer does not have: a bias add is          *)
(* appended only when a bias was created, and RowConv's filter exists      *)
(* before its first row_conv.                                              *)
(***************************************************************************)
NoMissingParamRead ==
    \A i \in 1..Len(prog) :
        /\ "weight" \in prog[i].reads => weight # None
        /\ "bias" \in prog[i].reads => bias # None

(***************************************************************************)
(* Every forward call uses the bias the constructor created: it appends    *)
(* a bias add exactly when the layer has a bias.  Violated by              *)
(* Conv3DTranspose, which creates a bias for bias_attr None (the default)  *)
(* but adds it only "if self._bias_attr".                                  *)
(***************************************************************************)
BiasUsedIffCreated ==
    \A c \in 0..(calls - 1) :
        (\E i \in 1..Len(prog) : prog[i].call = c
                                 /\ prog[i].type = "elementwise_add")
            <=> bias # None

(***************************************************************************)
(* Every conv3d_transpose op is well formed: its groups divide the input   *)
(* channels, and groups times the filter's second dimension is             *)
(* num_filters, the output channel count the docstring promises.           *)
(* Violated: __init__ checks neither divisibility.                         *)
(***************************************************************************)
TransposeFilterConsistent ==
    \A i \in 1..Len(prog) :
        prog[i].type = "conv3d_transpose" =>
            /\ weight # None
            /\ weight[1] = args.numChannels
            /\ args.numChannels % prog[i].groups = 0
            /\ prog[i].groups * weight[2] = args.numFilters

=============================================================================
