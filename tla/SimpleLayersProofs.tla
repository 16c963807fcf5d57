------------------------- MODULE SimpleLayersProofs -------------------------
(***************************************************************************)
(* Proof, for every value of the constants, of the SimpleLayers invariant  *)
(* that does not depend on the product of a weight shape: every            *)
(* lookup_table_v2 call of an Embedding built with a documented            *)
(* padding_idx receives the normalised row index (PaddingIdxNormalised).   *)
(* The inductive invariant IInv is also the base SimpleLayersProdProofs    *)
(* builds on.                                                              *)
(***************************************************************************)
EXTENDS SimpleLayers, SequenceTheorems, TLAPS

\* A record of the trace whose attribute is an integer.
Recs == [op : OpNames, call : Nat, reads : SUBSET ParamNames, attr : Int]

(***************************************************************************)
(* What the trace t of n finished forward calls of a layer with            *)
(* parameters P looks like: every record belongs to a finished call and    *)
(* reads only parameters of P, every parameter is read by some record of   *)
(* every call, and a lookup_table_v2 record exists only when K holds and   *)
(* carries the attribute a.                                                *)
(***************************************************************************)
TraceOK(t, n, P, K, a) ==
    /\ t \in Seq(Recs)
    /\ \A i \in 1..Len(t) :
          /\ t[i].call < n
          /\ t[i].reads \subseteq P
          /\ t[i].op = "lookup_table_v2" => K /\ t[i].attr = a
    /\ \A c \in 0..(n - 1), p \in P :
          \E i \in 1..Len(t) : t[i].call = c /\ p \in t[i].reads

\* The records r that forward call number n appends, for the same P, K, a.
CallOK(r, n, P, K, a) ==
    /\ r \in Seq(Recs)
    /\ \A k \in 1..Len(r) :
          /\ r[k].call = n
          /\ r[k].reads \subseteq P
          /\ r[k].op = "lookup_table_v2" => K /\ r[k].attr = a
    /\ \A p \in P : \E k \in 1..Len(r) : p \in r[k].reads

(***************************************************************************)
(* The invariant is not inductive as it stands.  IInv says, besides the    *)
(* types, that the trace has the shape TraceOK describes, that nothing has *)
(* run before a constructor succeeded, what each constructor left in       *)
(* params as far as its forward depends on it, and that an Embedding keeps *)
(* the padding index its constructor normalised.                           *)
(***************************************************************************)
IInv ==
    /\ args \in Args
    /\ phase \in {"init", "built", "raised"}
    /\ calls \in Nat
    /\ paddingIdx \in Int
    /\ params \subseteq ParamNames
    /\ TraceOK(trace, calls, params, args.kind = "Embedding", paddingIdx)
    /\ phase # "built" => trace = <<>> /\ calls = 0 /\ params = {}
    /\ phase = "built" /\ args.kind = "Linear" =>
          "weight" \in params /\ params \subseteq {"weight", "bias"}
    /\ phase = "built" /\ args.kind = "Embedding" =>
          /\ params = {"weight"}
          /\ paddingIdx = NormalisedPadding(args.paddingIdx, args.size)
    /\ phase = "built" /\ args.kind = "SpectralNorm" =>
          params = {"weight_u", "weight_v"}

-----------------------------------------------------------------------------
\* The fields of the constructor arguments of each layer kind.
LEMMA ArgsFields ==
    ASSUME args \in Args
    PROVE  /\ args.kind \in LayerKinds
           /\ args.kind = "Linear" =>
                 args.paramAttr \in {"None", "attr"} /\ args.biasAttr \in AttrArgs
           /\ args.kind = "Embedding" =>
                 args.size \in Sizes /\ args.paddingIdx \in PaddingArgs \cup {None}
           /\ args.kind = "GroupNorm" =>
                 args.paramAttr \in AttrArgs /\ args.biasAttr \in AttrArgs
           /\ args.kind = "SpectralNorm" =>
                 args.weightShape \in WeightShapes /\ args.dim \in Dims
  BY DEF Args, LayerKinds

\* Appending the records of forward call n to the trace of calls 0..n-1
\* gives the trace of calls 0..n.
LEMMA AppendStep ==
    ASSUME NEW n \in Nat, NEW P, NEW K, NEW a, NEW t, NEW r,
           TraceOK(t, n, P, K, a), CallOK(r, n, P, K, a)
    PROVE  TraceOK(t \o r, n + 1, P, K, a)
<1> DEFINE u == t \o r
<1>1. /\ u \in Seq(Recs)
      /\ Len(u) = Len(t) + Len(r)
      /\ \A i \in 1..Len(u) : u[i] = IF i <= Len(t) THEN t[i] ELSE r[i - Len(t)]
  BY ConcatProperties DEF TraceOK, CallOK
<1>2. \A i \in 1..Len(u) :
          /\ u[i].call < n + 1
          /\ u[i].reads \subseteq P
          /\ u[i].op = "lookup_table_v2" => K /\ u[i].attr = a
  <2> SUFFICES ASSUME NEW i \in 1..Len(u) 
               PROVE  /\ u[i].call < n + 1
                      /\ u[i].reads \subseteq P
                      /\ u[i].op = "lookup_table_v2" => K /\ u[i].attr = a
    OBVIOUS
  <2>1. CASE i <= Len(t)
    <3>1. i \in 1..Len(t) /\ u[i] = t[i]
      BY <1>1, <2>1 DEF TraceOK
    <3>2. u[i].call < n + 1
      <4>1. t[i] \in Recs
        BY <3>1, ElementOfSeq DEF TraceOK
      <4>2. t[i].call < n
        BY <3>1 DEF TraceOK
      <4> QED
        BY <3>1, <4>1, <4>2 DEF Recs
    <3>3. t[i].reads \subseteq P
      BY <3>1 DEF TraceOK
    <3>4. t[i].op = "lookup_table_v2" => K /\ t[i].attr = a
      BY <3>1, Zenon DEF TraceOK
    <3> QED
      BY <3>1, <3>2, <3>3, <3>4, Zenon
  <2>2. CASE ~(i <= Len(t))
    <3>1. i - Len(t) \in 1..Len(r) /\ u[i] = r[i - Len(t)]
      BY <1>1, <2>2 DEF TraceOK, CallOK
    <3> QED
      BY <3>1 DEF CallOK
  <2> QED
    BY <2>1, <2>2
<1>3. ASSUME NEW c \in 0..n, NEW p \in P
      PROVE  \E i \in 1..Len(u) : u[i].call = c /\ p \in u[i].reads
  <2>1. CASE c < n
    <3>1. PICK i \in 1..Len(t) : t[i].call = c /\ p \in t[i].reads
      BY <2>1 DEF TraceOK
    <3> QED
      BY <1>1, <3>1 DEF TraceOK, CallOK
  <2>2. CASE c = n
    <3>1. PICK k \in 1..Len(r) : p \in r[k].reads
      BY DEF CallOK
    <3>2. Len(t) + k \in 1..Len(u) /\ u[Len(t) + k] = r[k]
      BY <1>1, <3>1 DEF TraceOK, CallOK
    <3> QED
      BY <2>2, <3>1, <3>2 DEF CallOK
  <2> QED
    BY <2>1, <2>2
<1> QED
  BY <1>1, <1>2, <1>3 DEF TraceOK

\* The empty trace of no forward call has the shape TraceOK describes.
LEMMA EmptyTraceOK ==
    ASSUME NEW P, NEW K, NEW a
    PROVE  TraceOK(<<>>, 0, P, K, a)
  BY EmptySeq DEF TraceOK

\* Embedding's padding attribute is an integer for every argument.
LEMMA PaddingInt ==
    ASSUME NEW size \in Sizes, NEW p \in PaddingArgs \cup {None}
    PROVE  NormalisedPadding(p, size) \in Int
  BY SizesAssumption, PaddingAssumption DEF NormalisedPadding

(***************************************************************************)
(* The arithmetic of Embedding.__init__: for a padding_idx in the range    *)
(* the docstring allows, the normalised index is -1 for None, and          *)
(* otherwise a row of the table congruent to padding_idx modulo            *)
(* vocab_size.                                                             *)
(***************************************************************************)
LEMMA PaddingArith ==
    ASSUME NEW size \in Sizes, NEW p \in PaddingArgs \cup {None},
           DocumentedPadding(p, size)
    PROVE  IF p = None
             THEN NormalisedPadding(p, size) = -1
             ELSE /\ NormalisedPadding(p, size) \in 0..(size[1] - 1)
                  /\ (NormalisedPadding(p, size) - p) % size[1] = 0
<1>1. size[1] \in Nat \ {0}
  BY SizesAssumption
<1>2. CASE p = None
  BY <1>2 DEF NormalisedPadding
<1>3. CASE p # None /\ p >= 0
  <2>1. p \in 0..(size[1] - 1)
    BY <1>1, <1>3 DEF DocumentedPadding
  <2> QED
    BY <1>1, <1>3, <2>1 DEF NormalisedPadding
<1>4. CASE p # None /\ ~(p >= 0)
  <2>1. p \in -size[1]..-1
    BY <1>1, <1>4, PaddingAssumption DEF DocumentedPadding
  <2> QED
    BY <1>1, <1>4, <2>1 DEF NormalisedPadding
<1> QED
  BY <1>2, <1>3, <1>4

\* The records each forward appends fit the trace of the calls before it.
LEMMA ForwardCallOK ==
    ASSUME IInv, phase = "built", calls \in Nat
    PROVE  LET K == args.kind = "Embedding"
               M == Rec("matmul", {"weight"}, 0)
               E == Rec("elementwise_add", {"bias"}, 0)
           IN  /\ args.kind = "Linear" =>
                    CallOK(<<M>> \o (IF "bias" \in params THEN <<E>> ELSE <<>>),
                           calls, params, K, paddingIdx)
               /\ args.kind = "Embedding" =>
                    CallOK(<<Rec("lookup_table_v2", {"weight"}, paddingIdx)>>,
                           calls, params, K, paddingIdx)
               /\ args.kind = "GroupNorm" =>
                    CallOK(<<Rec("group_norm", params, 0)>>,
                           calls, params, K, paddingIdx)
               /\ args.kind = "SpectralNorm" =>
                    CallOK(<<Rec("spectral_norm", {"weight_u", "weight_v"},
                                 args.dim)>>,
                           calls, params, K, paddingIdx)
<1> DEFINE K == args.kind = "Embedding"
           M == Rec("matmul", {"weight"}, 0)
           E == Rec("elementwise_add", {"bias"}, 0)
<1>0. M \in Recs /\ E \in Recs
  BY DEF Rec, Recs, OpNames, ParamNames
<1>1. ASSUME args.kind = "Linear"
      PROVE  CallOK(<<M>> \o (IF "bias" \in params THEN <<E>> ELSE <<>>),
                    calls, params, K, paddingIdx)
  <2>1. "weight" \in params /\ params \subseteq {"weight", "bias"}
    BY <1>1 DEF IInv
  <2>2. CASE "bias" \in params
    <3>1. /\ <<M>> \o <<E>> \in Seq(Recs)
          /\ Len(<<M>> \o <<E>>) = 2
          /\ (<<M>> \o <<E>>)[1] = M /\ (<<M>> \o <<E>>)[2] = E
      <4>1. <<M>> \in Seq(Recs) /\ <<E>> \in Seq(Recs)
        BY <1>0
      <4> QED
        BY <4>1, ConcatProperties
    <3>2. CallOK(<<M>> \o <<E>>, calls, params, K, paddingIdx)
      BY <1>0, <2>1, <2>2, <3>1 DEF CallOK, Rec
    <3> QED
      BY <2>2, <3>2
  <2>3. CASE "bias" \notin params
    <3>1. /\ <<M>> \o <<>> \in Seq(Recs)
          /\ Len(<<M>> \o <<>>) = 1
          /\ (<<M>> \o <<>>)[1] = M
      <4>1. <<M>> \in Seq(Recs) /\ <<>> \in Seq(Recs)
        BY <1>0, EmptySeq
      <4> QED
        BY <4>1, ConcatProperties
    <3>2. CallOK(<<M>> \o <<>>, calls, params, K, paddingIdx)
      BY <1>0, <2>1, <2>3, <3>1 DEF CallOK, Rec
    <3> QED
      BY <2>3, <3>2
  <2> QED
    BY <2>2, <2>3
<1>2. ASSUME args.kind = "Embedding"
      PROVE  CallOK(<<Rec("lookup_table_v2", {"weight"}, paddingIdx)>>,
                    calls, params, K, paddingIdx)
  BY <1>2 DEF IInv, CallOK, Rec, Recs, OpNames, ParamNames
<1>3. ASSUME args.kind = "GroupNorm"
      PROVE  CallOK(<<Rec("group_norm", params, 0)>>, calls, params, K, paddingIdx)
  BY <1>3 DEF IInv, CallOK, Rec, Recs, OpNames
<1>4. ASSUME args.kind = "SpectralNorm"
      PROVE  CallOK(<<Rec("spectral_norm", {"weight_u", "weight_v"}, args.dim)>>,
                    calls, params, K, paddingIdx)
  <2>1. args.dim \in Int
    BY <1>4, ArgsFields, DimsAssumption DEF IInv
  <2> QED
    BY <1>4, <2>1 DEF IInv, CallOK, Rec, Recs, OpNames, ParamNames
<1> QED
  BY <1>1, <1>2, <1>3, <1>4

\* The initial states satisfy IInv.
LEMMA InitIInv == Init => IInv
<1> SUFFICES ASSUME Init PROVE IInv
  OBVIOUS
<1>1. TraceOK(trace, calls, params, args.kind = "Embedding", paddingIdx)
  BY EmptyTraceOK DEF Init
<1> QED
  BY <1>1 DEF Init, IInv, ParamNames

\* Every step preserves IInv.
LEMMA IInvStep == IInv /\ [Next]_vars => IInv'
<1> SUFFICES ASSUME IInv, [Next]_vars PROVE IInv'
  OBVIOUS
<1>0. /\ args.kind \in LayerKinds
      /\ args.kind = "Linear" =>
            args.paramAttr \in {"None", "attr"} /\ args.biasAttr \in AttrArgs
      /\ args.kind = "Embedding" =>
            args.size \in Sizes /\ args.paddingIdx \in PaddingArgs \cup {None}
  BY ArgsFields DEF IInv
\* A constructor leaves no trace and no call behind it.
<1>c. ASSUME NEW P, NEW K, NEW a, phase = "init"
      PROVE  trace = <<>> /\ calls = 0 /\ TraceOK(trace, calls, P, K, a)
  BY <1>c, EmptyTraceOK DEF IInv
<1>1. CASE ConstructLinear
  <2>1. TraceOK(trace', calls', params', args'.kind = "Embedding", paddingIdx')
    BY <1>1, <1>c DEF ConstructLinear
  <2> QED
    BY <1>0, <1>1, <2>1 DEF IInv, ConstructLinear, Created, ParamNames
<1>2. CASE ConstructEmbedding
  <2>1. TraceOK(trace', calls', params', args'.kind = "Embedding", paddingIdx')
    BY <1>2, <1>c DEF ConstructEmbedding
  <2>2. paddingIdx' \in Int
    BY <1>0, <1>2, PaddingInt DEF ConstructEmbedding
  <2> QED
    BY <1>2, <2>1, <2>2 DEF IInv, ConstructEmbedding, ParamNames
<1>3. CASE ConstructGroupNorm
  <2>1. TraceOK(trace', calls', params', args'.kind = "Embedding", paddingIdx')
    BY <1>3, <1>c DEF ConstructGroupNorm
  <2> QED
    BY <1>3, <2>1 DEF IInv, ConstructGroupNorm, Created, OrFalse, ParamNames
<1>4. CASE ConstructSpectralNorm
  <2>1. TraceOK(trace', calls', params', args'.kind = "Embedding", paddingIdx')
    BY <1>4, <1>c DEF ConstructSpectralNorm
  <2> QED
    BY <1>4, <2>1 DEF IInv, ConstructSpectralNorm, ParamNames
\* A forward appends the records ForwardCallOK describes and changes
\* nothing IInv says of the constructor.
<1>f. ASSUME NEW r, phase = "built",
             CallOK(r, calls, params, args.kind = "Embedding", paddingIdx),
             trace' = trace \o r, calls' = calls + 1,
             UNCHANGED <<args, mode, phase, params, paddingIdx, vecLens>>
      PROVE  IInv'
  <2>1. TraceOK(trace \o r, calls + 1, params, args.kind = "Embedding",
                paddingIdx)
    BY <1>f, AppendStep DEF IInv
  <2> QED
    BY <1>f, <2>1 DEF IInv
<1>5. CASE ForwardLinear
  BY <1>5, <1>f, ForwardCallOK DEF ForwardLinear, Forwarded, IInv
<1>6. CASE ForwardEmbedding
  BY <1>6, <1>f, ForwardCallOK DEF ForwardEmbedding, Forwarded, IInv
<1>7. CASE ForwardGroupNorm
  BY <1>7, <1>f, ForwardCallOK DEF ForwardGroupNorm, Forwarded, IInv
<1>8. CASE ForwardSpectralNorm
  BY <1>8, <1>f, ForwardCallOK DEF ForwardSpectralNorm, Forwarded, IInv
<1>9. CASE UNCHANGED vars
  BY <1>9 DEF vars, IInv, TraceOK
<1> QED
  BY <1>1, <1>2, <1>3, <1>4, <1>5, <1>6, <1>7, <1>8, <1>9 DEF Next

(***************************************************************************)
(* For every padding_idx in the range Embedding's docstring allows, every  *)
(* lookup_table_v2 call receives -1 for None and otherwise the row of the   *)
(* table that is padding_idx modulo vocab_size, in every mode.             *)
(***************************************************************************)
THEOREM PaddingIdxNormalisedHolds == Spec => []PaddingIdxNormalised
<1>1. IInv => PaddingIdxNormalised
  <2> SUFFICES ASSUME IInv, NEW i \in 1..Len(trace),
                      trace[i].op = "lookup_table_v2",
                      DocumentedPadding(args.paddingIdx, args.size)
               PROVE  IF args.paddingIdx = None
                        THEN trace[i].attr = -1
                        ELSE /\ trace[i].attr \in 0..(args.size[1] - 1)
                             /\ (trace[i].attr - args.paddingIdx) % args.size[1] = 0
    BY DEF PaddingIdxNormalised
  <2>1. args.kind = "Embedding" /\ trace[i].attr = paddingIdx
    BY Zenon DEF IInv, TraceOK
  <2>2. phase = "built"
    BY EmptySeq DEF IInv
  <2>3. paddingIdx = NormalisedPadding(args.paddingIdx, args.size)
    BY <2>1, <2>2 DEF IInv
  <2>4. args.size \in Sizes /\ args.paddingIdx \in PaddingArgs \cup {None}
    BY <2>1, ArgsFields DEF IInv
  <2> QED
    BY <2>1, <2>3, <2>4, PaddingArith
<1> QED
  BY <1>1, InitIInv, IInvStep, PTL DEF Spec
=============================================================================
