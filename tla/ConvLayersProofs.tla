------------------------- MODULE ConvLayersProofs -------------------------
(***************************************************************************)
(* Proofs about the convolution layers model, for every value of the       *)
(* constants: type correctness, and that every conv3d op a Conv3D forward  *)
(* appends agrees with the filter and bias its constructor created.        *)
(***************************************************************************)
EXTENDS ConvLayers, SequenceTheorems, TLAPS

\* A one-op sequence of a set's element is a sequence over that set.
LEMMA SingletonSeq ==
    ASSUME NEW S, NEW e \in S
    PROVE  <<e>> \in Seq(S)
  OBVIOUS

\* Appending a sequence of ops (possibly empty) keeps prog a sequence over S.
LEMMA ConcatOps ==
    ASSUME NEW S, NEW s \in Seq(S), NEW t \in Seq(S), NEW e \in S
    PROVE  /\ s \o <<e>> \in Seq(S)
           /\ (s \o <<e>>) \o t \in Seq(S)
           /\ (s \o <<e>>) \o <<>> \in Seq(S)
  <1>1. <<e>> \in Seq(S)
    BY SingletonSeq
  <1>2. s \o <<e>> \in Seq(S)
    BY <1>1, ConcatProperties
  <1>3. <<>> \in Seq(S)
    BY EmptySeq
  <1> QED
    BY <1>1, <1>2, <1>3, ConcatProperties

\* The ops the forwards append are ops, and the arguments are numbers.
LEMMA OpsTyped ==
    ASSUME TypeOK
    PROVE  /\ ConvOp("conv3d", GroupsAttr(args.groups)) \in Op
           /\ ConvOp("conv3d_transpose", GroupsAttr(TransposeGroups)) \in Op
           /\ ConvOp("tree_conv", 0) \in Op
           /\ ConvOp("row_conv", 0) \in Op
           /\ BiasAddOp \in Op
           /\ args.numChannels \in Nat /\ args.numFilters \in Nat
           /\ TransposeGroups \in Nat
           /\ args.groups \in Groups \cup {None}
<1>1. /\ args.numChannels \in Channels /\ args.numFilters \in Channels
      /\ args.groups \in Groups \cup {None}
  <2>1. PICK k \in Kinds :
          args \in [kind : {k}, numChannels : Channels,
                    numFilters : Channels, groups : Groups \cup {None},
                    paramAttr : ParamAttrsOf(k), biasAttr : AttrArgs]
    BY Zenon DEF TypeOK, Args
  <2> QED
    BY <2>1
<1>2. GroupsAttr(args.groups) \in Nat /\ TransposeGroups \in Nat
  BY <1>1, GroupsAssumption DEF GroupsAttr, TransposeGroups
<1>3. GroupsAttr(TransposeGroups) \in Nat
  BY <1>2 DEF GroupsAttr
<1> QED
  BY <1>1, <1>2, <1>3, ChannelsAssumption
  DEF TypeOK, ConvOp, BiasAddOp, Op, OpTypes, Params

\* A Conv3D that passed its checks has a whole number of filter channels.
LEMMA FilterChannelsNat ==
    ASSUME TypeOK, ~Conv3DRaises
    PROVE  Conv3DFilterChannels \in Nat
<1>1. CASE args.groups = None
  BY OpsTyped, <1>1 DEF Conv3DFilterChannels
<1>2. CASE args.groups # None
  <2>1. args.groups \in Nat \ {0}
    BY OpsTyped, <1>2, GroupsAssumption DEF Conv3DRaises
  <2> QED
    BY OpsTyped, <1>2, <2>1 DEF Conv3DFilterChannels
<1> QED
  BY <1>1, <1>2

\* Every step keeps the state well-typed.
LEMMA TypeStep == TypeOK /\ [Next]_vars => TypeOK'
<1> SUFFICES ASSUME TypeOK, [Next]_vars PROVE TypeOK'
  OBVIOUS
<1> USE DEF TypeOK
<1>1. CASE ConstructConv3D
  <2>1. CASE Conv3DRaises
    BY <1>1, <2>1 DEF ConstructConv3D, Built
  <2>2. CASE ~Conv3DRaises
    <3>1. Conv3DFilterChannels \in Nat
      BY <2>2, FilterChannelsNat
    <3> QED
      BY OpsTyped, <1>1, <2>2, <3>1 DEF ConstructConv3D, Built, CreateParameter, Filter
  <2> QED
    BY <2>1, <2>2
<1>2. CASE ForwardConv3D
  BY OpsTyped, <1>2, ConcatOps DEF ForwardConv3D
<1>3. CASE ConstructConv3DTranspose
  <2>1. CASE TransposeGroups = 0 \/ args.paramAttr = "False"
    BY <1>3, <2>1 DEF ConstructConv3DTranspose, Built
  <2>2. CASE TransposeGroups # 0 /\ args.paramAttr # "False"
    <3>1. args.numFilters \div TransposeGroups \in Nat
      BY OpsTyped, <2>2
    <3> QED
      BY OpsTyped, <1>3, <2>2, <3>1
      DEF ConstructConv3DTranspose, Built, CreateParameter, Filter
  <2> QED
    BY <2>1, <2>2
<1>4. CASE ForwardConv3DTranspose
  BY OpsTyped, <1>4, ConcatOps DEF ForwardConv3DTranspose
<1>5. CASE ConstructTreeConv
  BY OpsTyped, <1>5 DEF ConstructTreeConv, Built, CreateParameter, Filter
<1>6. CASE ForwardTreeConv
  BY OpsTyped, <1>6, ConcatOps DEF ForwardTreeConv
<1>7. CASE ConstructRowConv
  BY <1>7 DEF ConstructRowConv, Built, Filter
<1>8. CASE ForwardRowConv
  BY OpsTyped, <1>8, SingletonSeq, ConcatProperties
  DEF ForwardRowConv, CreateParameter, Filter
<1>9. CASE UNCHANGED vars
  BY <1>9 DEF vars
<1>10. QED
  BY <1>1, <1>2, <1>3, <1>4, <1>5, <1>6, <1>7, <1>8, <1>9 DEF Next

\* Type correctness of every reachable state.
THEOREM TypeCorrect == Spec => []TypeOK
<1>1. Init => TypeOK
  <2> SUFFICES ASSUME Init PROVE TypeOK
    OBVIOUS
  <2> QED
    BY EmptySeq DEF Init, TypeOK, Filter
<1>2. QED
  BY <1>1, TypeStep, PTL DEF Spec

\* Integer division is exact when the divisor divides the dividend.
LEMMA DivExact ==
    ASSUME NEW c \in Nat, NEW g \in Nat \ {0}, c % g = 0
    PROVE  g * (c \div g) = c
  OBVIOUS

\* The channel arithmetic of Conv3D: when __init__ did not raise, the groups
\* attribute forward passes times the filter's input channels is
\* num_channels.
LEMMA Conv3DChannels ==
    ASSUME args.numChannels \in Nat, args.groups \in Groups \cup {None},
           ~Conv3DRaises
    PROVE  GroupsAttr(args.groups) * Conv3DFilterChannels = args.numChannels
  <1>1. CASE args.groups = None
    BY <1>1 DEF GroupsAttr, Conv3DFilterChannels
  <1>2. CASE args.groups # None
    <2>1. args.groups \in Nat \ {0} /\ args.numChannels % args.groups = 0
      BY <1>2, GroupsAssumption DEF Conv3DRaises
    <2>2. args.groups * (args.numChannels \div args.groups) = args.numChannels
      BY <2>1, DivExact
    <2> QED
      BY <1>2, <2>1, <2>2 DEF GroupsAttr, Conv3DFilterChannels
  <1> QED
    BY <1>1, <1>2

(***************************************************************************)
(* ConvFilterConsistent speaks of the ops in prog and of the parameters;   *)
(* it is not inductive, because nothing in it says that only a Conv3D      *)
(* appends conv3d ops, with the groups attribute of its own arguments, nor *)
(* that the parameters of a built Conv3D are the ones its constructor      *)
(* computed.  IInv adds both, and that no op exists before a constructor   *)
(* has succeeded.                                                          *)
(***************************************************************************)
GoodOps ==
    {o \in Op : o.type = "conv3d" =>
                   /\ args.kind = "Conv3D"
                   /\ o.groups = GroupsAttr(args.groups)}

IInv ==
    /\ TypeOK
    /\ prog \in Seq(GoodOps)
    /\ phase # "built" => prog = <<>>
    /\ (phase = "built" /\ args.kind = "Conv3D") =>
           /\ ~Conv3DRaises
           /\ weight = <<args.numFilters, Conv3DFilterChannels>>
           /\ bias \in {None, args.numFilters}

\* The ops every forward other than Conv3D's appends are not conv3d ops.
LEMMA OtherOpsGood ==
    ASSUME TypeOK
    PROVE  /\ ConvOp("conv3d_transpose", GroupsAttr(TransposeGroups)) \in GoodOps
           /\ ConvOp("tree_conv", 0) \in GoodOps
           /\ ConvOp("row_conv", 0) \in GoodOps
           /\ BiasAddOp \in GoodOps
  BY OpsTyped DEF GoodOps, ConvOp, BiasAddOp

\* Every step preserves IInv.
LEMMA IInvStep == IInv /\ [Next]_vars => IInv'
<1> SUFFICES ASSUME IInv, [Next]_vars PROVE IInv'
  OBVIOUS
<1>0. TypeOK'
  BY TypeStep DEF IInv
<1>1. CASE ConstructConv3D
  BY <1>0, <1>1, EmptySeq
  DEF IInv, ConstructConv3D, Built, CreateParameter, GoodOps, Conv3DRaises,
      Conv3DFilterChannels
<1>2. CASE ForwardConv3D
  <2>1. ConvOp("conv3d", GroupsAttr(args.groups)) \in GoodOps
    BY <1>2, OpsTyped DEF IInv, ForwardConv3D, GoodOps, ConvOp
  <2>2. prog' \in Seq(GoodOps)
    BY <1>2, <2>1, OtherOpsGood, ConcatOps, SingletonSeq DEF IInv, ForwardConv3D
  <2> QED
    BY <1>0, <1>2, <2>2 DEF IInv, ForwardConv3D, GoodOps, Conv3DRaises,
                           Conv3DFilterChannels
<1>3. CASE ConstructConv3DTranspose
  BY <1>0, <1>3, EmptySeq DEF IInv, ConstructConv3DTranspose, Built, GoodOps
<1>4. CASE ForwardConv3DTranspose
  <2>1. prog' \in Seq(GoodOps)
    BY <1>4, OtherOpsGood, ConcatOps, SingletonSeq DEF IInv, ForwardConv3DTranspose
  <2> QED
    BY <1>0, <1>4, <2>1 DEF IInv, ForwardConv3DTranspose, GoodOps
<1>5. CASE ConstructTreeConv
  BY <1>0, <1>5, EmptySeq DEF IInv, ConstructTreeConv, Built, GoodOps
<1>6. CASE ForwardTreeConv
  <2>1. prog' \in Seq(GoodOps)
    BY <1>6, OtherOpsGood, ConcatOps, SingletonSeq DEF IInv, ForwardTreeConv
  <2> QED
    BY <1>0, <1>6, <2>1 DEF IInv, ForwardTreeConv, GoodOps
<1>7. CASE ConstructRowConv
  BY <1>0, <1>7, EmptySeq DEF IInv, ConstructRowConv, Built, GoodOps
<1>8. CASE ForwardRowConv
  <2>1. prog' \in Seq(GoodOps)
    BY <1>8, OtherOpsGood, AppendProperties DEF IInv, ForwardRowConv
  <2> QED
    BY <1>0, <1>8, <2>1 DEF IInv, ForwardRowConv, GoodOps
<1>9. CASE UNCHANGED vars
  BY <1>0, <1>9 DEF IInv, vars, GoodOps, Conv3DRaises, Conv3DFilterChannels
<1>10. QED
  BY <1>1, <1>2, <1>3, <1>4, <1>5, <1>6, <1>7, <1>8, <1>9 DEF Next

\* A Conv3D forward never appends a conv3d op whose groups attribute and
\* filter disagree with num_channels, num_filters or the bias, whatever the
\* arguments, the mode and the number of forward calls.
THEOREM ConvFilterConsistentHolds == Spec => []ConvFilterConsistent
<1>1. Init => IInv
  <2> SUFFICES ASSUME Init PROVE IInv
    OBVIOUS
  <2>1. TypeOK
    BY TypeCorrect, EmptySeq DEF Init, TypeOK, Filter
  <2> QED
    BY <2>1, EmptySeq DEF Init, IInv
<1>2. IInv => ConvFilterConsistent
  <2> SUFFICES ASSUME IInv, NEW i \in 1..Len(prog), prog[i].type = "conv3d"
               PROVE  /\ weight # None
                      /\ prog[i].groups * weight[2] = args.numChannels
                      /\ weight[1] = args.numFilters
                      /\ bias \in {None, args.numFilters}
    BY DEF ConvFilterConsistent
  <2>1. prog[i] \in GoodOps
    BY ElementOfSeq DEF IInv
  <2>2. args.kind = "Conv3D" /\ prog[i].groups = GroupsAttr(args.groups)
    BY <2>1 DEF GoodOps
  <2>3. phase = "built"
    BY EmptySeq DEF IInv
  <2>4. /\ ~Conv3DRaises
        /\ weight = <<args.numFilters, Conv3DFilterChannels>>
        /\ bias \in {None, args.numFilters}
    BY <2>2, <2>3 DEF IInv
  <2>5. GroupsAttr(args.groups) * Conv3DFilterChannels = args.numChannels
    BY <2>4, OpsTyped, Conv3DChannels DEF IInv
  <2>6. Conv3DFilterChannels \in Nat /\ args.numFilters \in Nat
    BY <2>4, OpsTyped, FilterChannelsNat DEF IInv
  <2> QED
    BY <2>2, <2>4, <2>5, <2>6, NoneAssumption
<1>3. QED
  BY <1>1, <1>2, IInvStep, PTL DEF Spec

(***************************************************************************)
(* NoMissingParamRead is not inductive either: it says nothing of the      *)
(* parameters a forward is about to read.  ReadInv adds that the filter of *)
(* every built layer other than RowConv exists (param_attr=False raises or *)
(* is not accepted), that the bias of a Conv3DTranspose or TreeConv built  *)
(* with a ParamAttr exists, and that RowConv's filter exists once its      *)
(* first forward call (the only one that creates it) has run.  Ops are     *)
(* kept in ReadsOK, the ops whose parameters exist.                        *)
(***************************************************************************)
ReadsOK ==
    {o \in Op : /\ "weight" \in o.reads => weight # None
                /\ "bias" \in o.reads => bias # None}

ReadInv ==
    /\ TypeOK
    /\ prog \in Seq(ReadsOK)
    /\ phase # "built" => calls = 0
    /\ calls = 0 => prog = <<>>
    /\ (phase = "built" /\ args.kind \in {"Conv3D", "Conv3DTranspose", "TreeConv"})
          => weight # None
    /\ (phase = "built" /\ args.kind \in {"Conv3DTranspose", "TreeConv"}
        /\ args.biasAttr = "attr") => bias # None
    /\ (phase = "built" /\ args.kind = "RowConv" /\ calls # 0) => weight # None

\* The attributes of the constructor arguments: param_attr False is only
\* possible for the 3-D convolutions.
LEMMA AttrsTyped ==
    ASSUME TypeOK
    PROVE  /\ args.paramAttr \in ParamAttrsOf(args.kind)
           /\ args.biasAttr \in AttrArgs
           /\ args.kind \in LayerKinds
<1>1. PICK k \in Kinds :
        args \in [kind : {k}, numChannels : Channels,
                  numFilters : Channels, groups : Groups \cup {None},
                  paramAttr : ParamAttrsOf(k), biasAttr : AttrArgs]
  BY Zenon DEF TypeOK, Args
<1> QED
  BY <1>1, KindsAssumption

\* A constructor that does not raise creates the filter.
LEMMA FilterCreated ==
    ASSUME TypeOK, phase = "init", phase' = "built",
           \/ ConstructConv3D \/ ConstructConv3DTranspose \/ ConstructTreeConv
    PROVE  weight' # None
<1>1. CASE ConstructConv3D
  <2>1. ~Conv3DRaises /\ Conv3DFilterChannels \in Nat
    BY <1>1, FilterChannelsNat DEF ConstructConv3D, Built
  <2> QED
    BY <1>1, <2>1, OpsTyped, NoneAssumption
    DEF ConstructConv3D, Built, CreateParameter, Conv3DRaises
<1>2. CASE ConstructConv3DTranspose
  <2>1. TransposeGroups # 0 /\ args.paramAttr # "False"
    BY <1>2 DEF ConstructConv3DTranspose, Built
  <2>2. args.numFilters \div TransposeGroups \in Nat
    BY <2>1, OpsTyped
  <2> QED
    BY <1>2, <2>1, <2>2, OpsTyped, NoneAssumption
    DEF ConstructConv3DTranspose, Built, CreateParameter
<1>3. CASE ConstructTreeConv
  <2>1. args.paramAttr # "False"
    BY <1>3, AttrsTyped DEF ConstructTreeConv, ParamAttrsOf
  <2> QED
    BY <1>3, <2>1, OpsTyped, NoneAssumption
    DEF ConstructTreeConv, Built, CreateParameter
<1> QED
  BY <1>1, <1>2, <1>3

\* Every step preserves ReadInv.
LEMMA ReadInvStep == ReadInv /\ [Next]_vars => ReadInv'
<1> SUFFICES ASSUME ReadInv, [Next]_vars PROVE ReadInv'
  OBVIOUS
<1>0. TypeOK' /\ TypeOK
  BY TypeStep DEF ReadInv
\* A constructor runs on the empty program, and leaves it empty.
<1>c. ASSUME phase = "init", UNCHANGED <<prog, calls>>
      PROVE  prog' \in Seq(ReadsOK') /\ prog' = <<>>
  BY <1>c, EmptySeq DEF ReadInv
<1>1. CASE ConstructConv3D
  <2>1. phase' = "built" => weight' # None
    BY <1>0, <1>1, FilterCreated DEF ConstructConv3D
  <2> QED
    BY <1>0, <1>1, <1>c, <2>1 DEF ReadInv, ConstructConv3D, Built
<1>2. CASE ConstructConv3DTranspose
  <2>1. phase' = "built" => weight' # None
    BY <1>0, <1>2, FilterCreated DEF ConstructConv3DTranspose
  <2>2. (phase' = "built" /\ args.biasAttr = "attr") => bias' # None
    BY <1>0, <1>2, OpsTyped, NoneAssumption
    DEF ConstructConv3DTranspose, Built, CreateParameter
  <2> QED
    BY <1>0, <1>2, <1>c, <2>1, <2>2 DEF ReadInv, ConstructConv3DTranspose, Built
<1>3. CASE ConstructTreeConv
  <2>1. weight' # None
    BY <1>0, <1>3, FilterCreated DEF ConstructTreeConv, Built
  <2>2. args.biasAttr = "attr" => bias' # None
    BY <1>0, <1>3, OpsTyped, NoneAssumption DEF ConstructTreeConv, Built
  <2> QED
    BY <1>0, <1>3, <1>c, <2>1, <2>2 DEF ReadInv, ConstructTreeConv, Built
<1>4. CASE ConstructRowConv
  <2>1. prog' \in Seq(ReadsOK') /\ prog' = <<>>
    BY <1>4, <1>c DEF ConstructRowConv
  <2>2. args'.kind = "RowConv" /\ calls' = 0
    BY <1>4 DEF ConstructRowConv, ReadInv
  <2> QED
    BY <1>0, <2>1, <2>2 DEF ReadInv
\* A forward that keeps both parameters keeps ReadsOK; its new ops must
\* read only parameters that exist.
<1>f. ASSUME phase = "built", args.kind # "RowConv",
             prog' \in Seq(ReadsOK), calls' = calls + 1,
             UNCHANGED <<args, mode, phase, weight, bias>>
      PROVE  ReadInv'
  <2>1. ReadsOK' = ReadsOK
    BY <1>f DEF ReadsOK
  <2>2. calls \in Nat
    BY <1>0 DEF TypeOK
  <2>3. prog' \in Seq(ReadsOK')
    BY <1>f, <2>1
  <2>4. phase' = "built" /\ calls' # 0 /\ args'.kind # "RowConv"
    BY <1>f, <2>2
  <2>5. (phase' = "built" /\ args'.kind \in {"Conv3D", "Conv3DTranspose", "TreeConv"})
          => weight' # None
    BY <1>f DEF ReadInv
  <2>6. (phase' = "built" /\ args'.kind \in {"Conv3DTranspose", "TreeConv"}
         /\ args'.biasAttr = "attr") => bias' # None
    BY <1>f DEF ReadInv
  <2> QED
    BY <1>0, <2>3, <2>4, <2>5, <2>6 DEF ReadInv
<1>5. CASE ForwardConv3D
  <2>1. ConvOp("conv3d", GroupsAttr(args.groups)) \in ReadsOK
    BY <1>0, <1>5, OpsTyped DEF ReadInv, ForwardConv3D, ReadsOK, ConvOp
  <2>2. bias # None => BiasAddOp \in ReadsOK
    BY <1>0, OpsTyped DEF ReadsOK, BiasAddOp
  <2>3. prog' \in Seq(ReadsOK)
    BY <1>5, <2>1, <2>2, ConcatOps DEF ReadInv, ForwardConv3D
  <2> QED
    BY <1>5, <1>f, <2>3 DEF ForwardConv3D
<1>6. CASE ForwardConv3DTranspose
  <2>1. ConvOp("conv3d_transpose", GroupsAttr(TransposeGroups)) \in ReadsOK
    BY <1>0, <1>6, OpsTyped DEF ReadInv, ForwardConv3DTranspose, ReadsOK, ConvOp
  <2>2. args.biasAttr = "attr" => BiasAddOp \in ReadsOK
    BY <1>0, <1>6, OpsTyped DEF ReadInv, ForwardConv3DTranspose, ReadsOK, BiasAddOp
  <2>3. prog' \in Seq(ReadsOK)
    BY <1>6, <2>1, <2>2, ConcatOps DEF ReadInv, ForwardConv3DTranspose
  <2> QED
    BY <1>6, <1>f, <2>3 DEF ForwardConv3DTranspose
<1>7. CASE ForwardTreeConv
  <2>1. ConvOp("tree_conv", 0) \in ReadsOK
    BY <1>0, <1>7, OpsTyped DEF ReadInv, ForwardTreeConv, ReadsOK, ConvOp
  <2>2. args.biasAttr = "attr" => BiasAddOp \in ReadsOK
    BY <1>0, <1>7, OpsTyped DEF ReadInv, ForwardTreeConv, ReadsOK, BiasAddOp
  <2>3. prog' \in Seq(ReadsOK)
    BY <1>7, <2>1, <2>2, ConcatOps DEF ReadInv, ForwardTreeConv
  <2> QED
    BY <1>7, <1>f, <2>3 DEF ForwardTreeConv
\* RowConv's first forward creates the filter on the empty program.
<1>8. CASE ForwardRowConv
  <2>0. calls \in Nat /\ args.kind = "RowConv" /\ phase = "built"
    BY <1>0, <1>8 DEF TypeOK, ForwardRowConv
  <2>1. weight' # None
    <3>1. CASE calls = 0
      <4>1. args.paramAttr # "False" /\ args.numChannels \in Nat
                                     /\ args.numFilters \in Nat
        BY <1>0, <2>0, AttrsTyped, OpsTyped DEF ParamAttrsOf
      <4> QED
        BY <1>8, <3>1, <4>1, NoneAssumption DEF ForwardRowConv, CreateParameter
    <3>2. CASE calls # 0
      BY <1>8, <2>0, <3>2 DEF ReadInv, ForwardRowConv
    <3> QED
      BY <3>1, <3>2
  <2>2. ConvOp("row_conv", 0) \in ReadsOK'
    BY <1>0, <2>1, OpsTyped DEF ReadsOK, ConvOp
  <2>3. prog \in Seq(ReadsOK')
    <3>1. CASE calls = 0
      BY <2>0, <3>1, EmptySeq DEF ReadInv
    <3>2. CASE calls # 0
      <4>1. weight' = weight /\ bias' = bias
        BY <1>8, <3>2 DEF ForwardRowConv
      <4>2. ReadsOK' = ReadsOK
        BY <4>1 DEF ReadsOK
      <4> QED
        BY <4>2 DEF ReadInv
    <3> QED
      BY <3>1, <3>2
  <2>4. prog' \in Seq(ReadsOK')
    BY <1>8, <2>2, <2>3, AppendProperties DEF ForwardRowConv
  <2> QED
    BY <1>0, <1>8, <2>0, <2>1, <2>4 DEF ReadInv, ForwardRowConv
<1>9. CASE UNCHANGED vars
  BY <1>0, <1>9 DEF ReadInv, vars, ReadsOK
<1>10. QED
  BY <1>1, <1>2, <1>3, <1>4, <1>5, <1>6, <1>7, <1>8, <1>9 DEF Next

(***************************************************************************)
(* No op any forward of Conv3D, Conv3DTranspose, TreeConv or RowConv       *)
(* appends reads a parameter the layer does not have: the bias adds are    *)
(* guarded by the bias that exists (Conv3D) or by the bias_attr that       *)
(* created it (the others), and RowConv's _build_once creates the filter   *)
(* before its first row_conv.  For every argument and number of calls.     *)
(***************************************************************************)
THEOREM NoMissingParamReadHolds == Spec => []NoMissingParamRead
<1>1. Init => ReadInv
  <2> SUFFICES ASSUME Init PROVE ReadInv
    OBVIOUS
  <2>1. TypeOK
    BY EmptySeq DEF Init, TypeOK, Filter
  <2> QED
    BY <2>1, EmptySeq DEF Init, ReadInv
<1>2. ReadInv => NoMissingParamRead
  <2> SUFFICES ASSUME ReadInv, NEW i \in 1..Len(prog)
               PROVE  /\ "weight" \in prog[i].reads => weight # None
                      /\ "bias" \in prog[i].reads => bias # None
    BY DEF NoMissingParamRead
  <2>1. prog[i] \in ReadsOK
    BY ElementOfSeq DEF ReadInv
  <2> QED
    BY <2>1 DEF ReadsOK
<1>3. QED
  BY <1>1, <1>2, ReadInvStep, PTL DEF Spec
=============================================================================
