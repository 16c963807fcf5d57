----------------------- MODULE SimpleLayersProdProofs -----------------------
(***************************************************************************)
(* Proofs of the SimpleLayers invariants that depend on the product of a   *)
(* SpectralNorm weight shape: the type invariant (the vector lengths are    *)
(* integers) and SpectralNormVectorsFit (they multiply to the number of    *)
(* elements of the weight).  Both rest on what Prod computes, which is an  *)
(* induction over the shape.  The library's induction theorems take the    *)
(* predicate as an operator parameter, which the provers cannot            *)
(* instantiate.  Each induction below is therefore a least counterexample: *)
(* the set of indices where the claim fails is a set of naturals, WFMin    *)
(* with the well-founded order < on Nat gives its least element, and the   *)
(* step from the index below it refutes it.                                *)
(***************************************************************************)
EXTENDS SimpleLayersProofs, WellFoundedInduction

\* The function Prod's LET defines, named so that a proof can speak of it.
ProdF(s) == CHOOSE f : f = [i \in 0..Len(s) |-> IF i = 0 THEN 1
                                                 ELSE f[i - 1] * s[i]]

\* g holds the products of the first 0..n elements of s.
ProdOk(s, n, g) ==
    /\ g \in [0..n -> Int]
    /\ g[0] = 1
    /\ \A i \in 1..n : g[i] = g[i - 1] * s[i]

(***************************************************************************)
(* What the SpectralNorm constructor leaves behind, beside IInv: the mode  *)
(* and the vector lengths are typed, and a built SpectralNorm passed the   *)
(* constructor's checks and holds the lengths SpectralNormLens computed    *)
(* from its (unchanging) arguments.                                        *)
(***************************************************************************)
VecInv ==
    /\ mode \in Modes
    /\ vecLens \in Seq(Int)
    /\ phase = "built" /\ args.kind = "SpectralNorm" =>
          /\ ~SpectralNormRaises
          /\ vecLens = SpectralNormLens

-----------------------------------------------------------------------------
\* Prod(s) is the last entry of the function ProdF(s).
LEMMA ProdIsProdF ==
    ASSUME NEW s
    PROVE  Prod(s) = ProdF(s)[Len(s)]
  BY DEF Prod, ProdF

\* Every non-empty set of naturals has a least element.
LEMMA LeastNat ==
    ASSUME NEW T \in SUBSET Nat, T # {}
    PROVE  \E x \in T : \A y \in T : ~(y < x)
<1>1. IsWellFoundedOn({ss \in Nat \X Nat : ss[1] < ss[2]}, Nat)
  BY NatLessThanWellFounded DEF OpToRel
<1>2. \E x \in T : \A y \in T : ~(<<y, x>> \in {ss \in Nat \X Nat : ss[1] < ss[2]})
  BY <1>1, WFMin, Zenon
<1> QED
  BY <1>2

\* For every prefix of an integer sequence there is a function holding the
\* products of its prefixes.
LEMMA ProdPrefixExists ==
    ASSUME NEW s \in Seq(Int)
    PROVE  \A n \in 0..Len(s) : \E g : ProdOk(s, n, g)
<1> DEFINE T == {n \in 0..Len(s) : ~\E g : ProdOk(s, n, g)}
<1> SUFFICES ASSUME T # {} PROVE FALSE
  OBVIOUS
<1>0. T \in SUBSET Nat
  OBVIOUS
<1>1. PICK x \in T : \A y \in T : ~(y < x)
  BY <1>0, LeastNat
<1>2. x # 0
  <2>1. ProdOk(s, 0, [i \in 0..0 |-> 1])
    BY DEF ProdOk
  <2> QED
    BY <2>1
<1>3. PICK g0 : ProdOk(s, x - 1, g0)
  <2>1. x - 1 \in 0..Len(s) /\ x - 1 < x
    BY <1>2
  <2> QED
    BY <2>1, <1>1
<1> DEFINE g == [i \in 0..x |-> IF i < x THEN g0[i] ELSE g0[x - 1] * s[x]]
<1>4. x \in 1..Len(s) /\ s[x] \in Int
  BY <1>2
<1>5. g \in [0..x -> Int]
  BY <1>3, <1>4 DEF ProdOk
<1>6. \A i \in 1..x : g[i] = g[i - 1] * s[i]
  BY <1>3, <1>4 DEF ProdOk
<1>7. g[0] = 1
  BY <1>2, <1>3 DEF ProdOk
<1> QED
  BY <1>5, <1>6, <1>7 DEF ProdOk

\* The recursive definition of Prod defines a function: ProdF(s) satisfies
\* its equation.
LEMMA ProdFDef ==
    ASSUME NEW s \in Seq(Int)
    PROVE  ProdF(s) = [i \in 0..Len(s) |-> IF i = 0 THEN 1
                                           ELSE ProdF(s)[i - 1] * s[i]]
<1>1. PICK g : ProdOk(s, Len(s), g)
  BY ProdPrefixExists
<1>2. g = [i \in 0..Len(s) |-> IF i = 0 THEN 1 ELSE g[i - 1] * s[i]]
  BY <1>1 DEF ProdOk
<1> QED
  BY <1>2 DEF ProdF

\* Every product of a prefix is an integer that each of its factors divides.
LEMMA ProdFFactors ==
    ASSUME NEW s \in Seq(Int)
    PROVE  \A n \in 0..Len(s) :
              /\ ProdF(s)[n] \in Int
              /\ \A k \in 1..n : \E q \in Int : ProdF(s)[n] = s[k] * q
<1> DEFINE F == ProdF(s)
           T == {n \in 0..Len(s) :
                   ~(/\ F[n] \in Int
                     /\ \A k \in 1..n : \E q \in Int : F[n] = s[k] * q)}
<1> SUFFICES ASSUME T # {} PROVE FALSE
  OBVIOUS
<1>0. T \in SUBSET Nat
  OBVIOUS
<1>1. PICK x \in T : \A y \in T : ~(y < x)
  BY <1>0, LeastNat
<1>d. F = [i \in 0..Len(s) |-> IF i = 0 THEN 1 ELSE F[i - 1] * s[i]]
  BY ProdFDef
<1>2. x # 0
  BY <1>d
<1>3. x \in 1..Len(s) /\ s[x] \in Int /\ F[x] = F[x - 1] * s[x]
  <2>1. x \in 1..Len(s)
    BY <1>2
  <2>2. s[x] \in Int
    BY <2>1
  <2>3. F[x] = IF x = 0 THEN 1 ELSE F[x - 1] * s[x]
    BY <1>d, Zenon
  <2> QED
    BY <1>2, <2>1, <2>2, <2>3
<1>4. F[x - 1] \in Int /\ \A k \in 1..x - 1 : \E q \in Int : F[x - 1] = s[k] * q
  <2>1. x - 1 \in 0..Len(s) /\ x - 1 < x
    BY <1>3
  <2>2. x - 1 \notin T
    BY <2>1, <1>1
  <2> QED
    BY <2>1, <2>2
<1>5. F[x] \in Int
  BY <1>3, <1>4
<1>6. ASSUME NEW k \in 1..x PROVE \E q \in Int : F[x] = s[k] * q
  <2>1. CASE k = x
    <3>1. F[x] = s[k] * F[x - 1]
      BY <2>1, <1>3, <1>4
    <3> QED
      BY <3>1, <1>4
  <2>2. CASE k # x
    <3>1. PICK q \in Int : F[x - 1] = s[k] * q
      BY <2>2, <1>4
    <3>2. s[k] \in Int
      BY <1>3
    <3>3. F[x] = s[k] * (q * s[x])
      BY <3>1, <3>2, <1>3
    <3> QED
      BY <3>3, <3>2, <1>3
  <2> QED
    BY <2>1, <2>2
<1> QED
  BY <1>5, <1>6

\* Prod of an integer sequence is an integer, a multiple of each element.
LEMMA ProdFactor ==
    ASSUME NEW s \in Seq(Int), NEW k \in 1..Len(s)
    PROVE  /\ Prod(s) \in Int
           /\ \E q \in Int : Prod(s) = s[k] * q
  BY ProdFFactors, ProdIsProdF

(***************************************************************************)
(* When the product of a shape of naturals is positive, every dimension is *)
(* positive and divides it exactly: w = prod // h loses nothing.           *)
(***************************************************************************)
LEMMA ProdDivExact ==
    ASSUME NEW s \in Seq(Nat), NEW k \in 1..Len(s), Prod(s) > 0
    PROVE  /\ s[k] > 0
           /\ Prod(s) \div s[k] \in Int
           /\ s[k] * (Prod(s) \div s[k]) = Prod(s)
<1>0. s \in Seq(Int)
  OBVIOUS
<1>1. PICK q \in Int : Prod(s) = s[k] * q
  BY <1>0, ProdFactor
<1>2. s[k] \in Nat /\ Prod(s) \in Int
  BY <1>0, ProdFactor
<1>3. s[k] > 0
  BY <1>1, <1>2
<1>4. (s[k] * q) \div s[k] = q
  BY <1>3
<1> QED
  BY <1>1, <1>3, <1>4

(***************************************************************************)
(* The arithmetic of SpectralNorm.__init__: when it does not raise, dim    *)
(* picks a dimension h of the shape with Python indexing, and h and        *)
(* prod // h are integers whose product is the product of the shape.       *)
(***************************************************************************)
LEMMA SpectralNormLensFit ==
    ASSUME args \in Args, args.kind = "SpectralNorm", ~SpectralNormRaises
    PROVE  /\ SpectralNormLens \in Seq(Int)
           /\ SpectralNormLens[1] * SpectralNormLens[2] = Prod(args.weightShape)
<1> DEFINE s == args.weightShape
           k == PyIndex(s, args.dim)
<1>1. s \in Seq(Nat) /\ s # <<>> /\ args.dim \in Int
  BY ArgsFields, ShapesAssumption, DimsAssumption
<1>p. Prod(s) \in Int
  <2>1. s \in Seq(Int) /\ 1 \in 1..Len(s)
    BY <1>1, EmptySeq, LenProperties
  <2> QED
    BY <2>1, ProdFactor
<1>2. Prod(s) > 0 /\ args.dim < Len(s) /\ args.dim >= -Len(s)
  BY <1>1, <1>p DEF SpectralNormRaises
<1>3. k \in 1..Len(s)
  BY <1>1, <1>2 DEF PyIndex
<1>4. /\ s[k] > 0
      /\ Prod(s) \div s[k] \in Int
      /\ s[k] * (Prod(s) \div s[k]) = Prod(s)
  BY <1>1, <1>2, <1>3, ProdDivExact
<1>5. s[k] \in Int
  BY <1>1, <1>3
<1> QED
  BY <1>4, <1>5 DEF SpectralNormLens

\* The initial states satisfy VecInv.
LEMMA InitVecInv == Init => VecInv
  BY DEF Init, VecInv

\* Every step from a state satisfying IInv preserves VecInv.
LEMMA VecInvStep == IInv /\ VecInv /\ [Next]_vars => VecInv'
<1> SUFFICES ASSUME IInv, VecInv, [Next]_vars PROVE VecInv'
  OBVIOUS
\* Every action but ConstructSpectralNorm leaves args, mode and vecLens
\* alone and builds no SpectralNorm.
<1>u. ASSUME UNCHANGED <<args, mode, vecLens>>,
             phase' = "built" /\ args.kind = "SpectralNorm" => phase = "built"
      PROVE  VecInv'
  BY <1>u DEF VecInv, SpectralNormRaises, SpectralNormLens
<1>1. CASE ConstructSpectralNorm
  <2>1. CASE SpectralNormRaises
    BY <1>1, <2>1 DEF ConstructSpectralNorm, VecInv
  <2>2. CASE ~SpectralNormRaises
    <3>1. SpectralNormLens \in Seq(Int)
      BY <1>1, <2>2, SpectralNormLensFit DEF IInv, ConstructSpectralNorm
    <3> QED
      BY <1>1, <2>2, <3>1 DEF ConstructSpectralNorm, VecInv, SpectralNormRaises,
                              SpectralNormLens
  <2> QED
    BY <2>1, <2>2
<1>2. CASE ConstructLinear \/ ConstructEmbedding \/ ConstructGroupNorm
  BY <1>2, <1>u DEF ConstructLinear, ConstructEmbedding, ConstructGroupNorm
<1>3. CASE ForwardLinear \/ ForwardEmbedding \/ ForwardGroupNorm
           \/ ForwardSpectralNorm
  BY <1>3, <1>u DEF ForwardLinear, ForwardEmbedding, ForwardGroupNorm,
                    ForwardSpectralNorm, Forwarded
<1>4. CASE UNCHANGED vars
  BY <1>4, <1>u DEF vars
<1> QED
  BY <1>1, <1>2, <1>3, <1>4 DEF Next

\* IInv /\ VecInv is inductive.
LEMMA BothInv == Spec => [](IInv /\ VecInv)
  BY InitIInv, InitVecInv, IInvStep, VecInvStep, PTL DEF Spec

(***************************************************************************)
(* Every reachable state of every layer is well typed; in particular the   *)
(* lengths SpectralNorm.__init__ gives weight_u and weight_v are integers  *)
(* for every weight shape and dim it accepts.                              *)
(***************************************************************************)
THEOREM TypeCorrect == Spec => []TypeOK
<1>1. IInv /\ VecInv => TypeOK
  <2> SUFFICES ASSUME IInv, VecInv PROVE TypeOK
    OBVIOUS
  <2>1. trace \in Seq(Call)
    BY DEF IInv, TraceOK, Recs, Call
  <2> QED
    BY <2>1 DEF IInv, VecInv, TypeOK
<1> QED
  BY <1>1, BothInv, PTL

(***************************************************************************)
(* For every weight shape and dim SpectralNorm.__init__ accepts (product   *)
(* positive, dim within [-rank, rank)), the vectors u and v it creates     *)
(* have lengths h and prod // h that multiply back to the number of        *)
(* elements of the weight: the integer division in __init__ is exact.      *)
(***************************************************************************)
THEOREM SpectralNormVectorsFitHolds == Spec => []SpectralNormVectorsFit
<1>1. IInv /\ VecInv => SpectralNormVectorsFit
  BY SpectralNormLensFit DEF IInv, VecInv, SpectralNormVectorsFit
<1> QED
  BY <1>1, BothInv, PTL

=============================================================================
