----------------------- MODULE ParameterMappingProofs -----------------------
(***************************************************************************)
(* Proof that the loops of create_parameter_mapping implement its          *)
(* specification CreateParameterMapping, for all finite sets of names and  *)
(* values and every bound on the programs' length.                        *)
(*                                                                         *)
(* The inductive invariant says what each loop has built so far: after    *)
(* the first m ops of a program, its dict is Table(prog, opName, m), and   *)
(* every declared name has a last declaration (Known).  The mapping built *)
(* by the items loop is the specification's mapping restricted to the     *)
(* names visited.  Since every op result is fresh, the main dict is       *)
(* injective, which is why mapping a value to the startup parameter of    *)
(* "the" name with that value is well defined.                            *)
(***************************************************************************)
EXTENDS ParameterMapping, FiniteSetTheorems, TLAPS

SP == Abs!SetParameter
P == Abs!Parameter

\* Every name declared among the first m ops has a last declaration.
Known(prog, opName, m) ==
    \A n \in Abs!Declared(prog, opName, m) :
        Abs!IsLast(prog, opName, n, m, Abs!LastWrite(prog, opName, n, m))

\* The mapping built once the names in D are visited.
MapOf(sp, mp, D) ==
    [v \in {mp[n] : n \in D} |-> sp[CHOOSE n \in DOMAIN mp : mp[n] = v]]

Empty == Abs!EmptyDict

IInv ==
    /\ startup \in Seq(Abs!StartupOps)
    /\ main \in Seq(Abs!MainOps)
    /\ Abs!FreshResults(main)
    /\ i \in Nat \ {0}
    /\ pc \in {"startup", "main", "check", "map", "done", "failed"}
    /\ todo \subseteq Names
    /\ pc = "startup" =>
          /\ i <= Len(startup) + 1
          /\ startupParams = Abs!Table(startup, SP, i - 1)
          /\ Known(startup, SP, i - 1)
          /\ mainParams = Empty
    /\ pc # "startup" =>
          /\ startupParams = Abs!Table(startup, SP, Len(startup))
          /\ Known(startup, SP, Len(startup))
    /\ pc = "main" =>
          /\ i <= Len(main) + 1
          /\ mainParams = Abs!Table(main, P, i - 1)
          /\ Known(main, P, i - 1)
    /\ pc \notin {"startup", "main"} =>
          /\ mainParams = Abs!Table(main, P, Len(main))
          /\ Known(main, P, Len(main))
    /\ pc \in {"startup", "main", "check"} => mapping = Empty
    /\ pc \in {"map", "done"} =>
          /\ todo \subseteq DOMAIN startupParams
          /\ Cardinality(DOMAIN startupParams) = Cardinality(DOMAIN mainParams)
          /\ DOMAIN startupParams \ todo \subseteq DOMAIN mainParams
          /\ mapping = MapOf(startupParams, mainParams,
                             DOMAIN startupParams \ todo)
    /\ pc = "done" => todo = {}
    /\ pc = "failed" => ~Abs!SameNames(startup, main)

-----------------------------------------------------------------------------
(***************************************************************************)
(* One more op of the loop: the dict gains the op's name and value when it *)
(* is a parameter op, and every declared name keeps a last declaration.   *)
(***************************************************************************)
LEMMA TableStep ==
  ASSUME NEW prog, NEW opName, NEW m \in Nat, NEW S,
         prog \in Seq(S), m + 1 <= Len(prog),
         prog[m + 1].name = opName => prog[m + 1].param \in Names,
         Known(prog, opName, m)
  PROVE  /\ Abs!Table(prog, opName, m + 1) =
               IF prog[m + 1].name = opName
               THEN Put(Abs!Table(prog, opName, m), prog[m + 1].param,
                        prog[m + 1].value)
               ELSE Abs!Table(prog, opName, m)
         /\ Known(prog, opName, m + 1)
<1> DEFINE q == prog[m + 1]
           W(n, k) == Abs!Writes(prog, opName, n, k)
           D(k) == Abs!Declared(prog, opName, k)
           L(n, k) == Abs!LastWrite(prog, opName, n, k)
           Last(n, k, j) == Abs!IsLast(prog, opName, n, k, j)
           New(n) == q.name = opName /\ q.param = n
<1>1. \A n : W(n, m + 1) = IF New(n) THEN W(n, m) \cup {m + 1} ELSE W(n, m)
  BY DEF Abs!Writes
<1>2. \A n : W(n, m) \subseteq 1..m
  BY DEF Abs!Writes
<1>3. D(m + 1) = IF q.name = opName THEN D(m) \cup {q.param} ELSE D(m)
  BY <1>1, <1>2 DEF Abs!Declared
<1>4. ASSUME NEW n, New(n) PROVE Last(n, m + 1, m + 1) /\ L(n, m + 1) = m + 1
  <2>0. W(n, m + 1) = W(n, m) \cup {m + 1} /\ W(n, m) \subseteq 1..m
    BY <1>1, <1>2, <1>4
  <2>1. Last(n, m + 1, m + 1)
    BY <2>0 DEF Abs!IsLast
  <2>2. \A k : Last(n, m + 1, k) => k = m + 1
    BY <2>0 DEF Abs!IsLast
  <2>3. m + 1 \in 1..(m + 1)
    OBVIOUS
  <2>. QED  BY <2>1, <2>2, <2>3 DEF Abs!LastWrite
<1>5. ASSUME NEW n \in D(m), ~New(n)
      PROVE  Last(n, m + 1, L(n, m)) /\ L(n, m + 1) = L(n, m)
  <2>1. W(n, m + 1) = W(n, m)
    BY <1>1, <1>5
  <2>2. \A k : Last(n, m + 1, k) <=> Last(n, m, k)
    BY <2>1 DEF Abs!IsLast
  <2>3. Last(n, m, L(n, m))
    BY <1>5 DEF Known
  <2>4. \A k, j : Last(n, m, k) /\ Last(n, m, j) => k = j
    BY <1>2 DEF Abs!IsLast
  <2>5. L(n, m) \in 1..(m + 1)
    BY <2>3, <1>2 DEF Abs!IsLast
  <2>. QED  BY <2>2, <2>3, <2>4, <2>5 DEF Abs!LastWrite
<1>6. Known(prog, opName, m + 1)
  BY <1>3, <1>4, <1>5 DEF Known
<1>7. CASE q.name = opName
  <2>1. DOMAIN Abs!Table(prog, opName, m + 1)
          = DOMAIN Put(Abs!Table(prog, opName, m), q.param, q.value)
    BY <1>3, <1>7 DEF Abs!Table, Put
  <2>2. ASSUME NEW n \in D(m + 1)
        PROVE  Abs!Table(prog, opName, m + 1)[n]
                 = Put(Abs!Table(prog, opName, m), q.param, q.value)[n]
    <3>1. CASE n = q.param
      BY <1>4, <1>7, <3>1 DEF Abs!Table, Put
    <3>2. CASE n # q.param
      BY <1>3, <1>5, <1>7, <3>2 DEF Abs!Table, Put
    <3>. QED  BY <3>1, <3>2
  <2>. QED  BY <1>7, <2>1, <2>2, <1>6 DEF Abs!Table, Put
<1>8. CASE q.name # opName
  BY <1>3, <1>5, <1>6, <1>8 DEF Abs!Table
<1>. QED  BY <1>7, <1>8

\* The dict of a program whose parameter ops all have fresh results maps
\* different names to different values.
LEMMA TableInjective ==
  ASSUME NEW prog \in Seq(Abs!MainOps), Abs!FreshResults(prog),
         NEW m \in 0..Len(prog), Known(prog, P, m),
         NEW n1 \in DOMAIN Abs!Table(prog, P, m),
         NEW n2 \in DOMAIN Abs!Table(prog, P, m), n1 # n2
  PROVE  Abs!Table(prog, P, m)[n1] # Abs!Table(prog, P, m)[n2]
<1> DEFINE k1 == Abs!LastWrite(prog, P, n1, m)
           k2 == Abs!LastWrite(prog, P, n2, m)
<1>1. /\ k1 \in Abs!Writes(prog, P, n1, m)
      /\ k2 \in Abs!Writes(prog, P, n2, m)
  BY DEF Known, Abs!IsLast, Abs!Table
<1>2. /\ k1 \in 1..Len(prog) /\ k2 \in 1..Len(prog) /\ k1 # k2
      /\ prog[k1].name = P /\ prog[k2].name = P
  BY <1>1 DEF Abs!Writes
<1>3. prog[k1].value # prog[k2].value
  BY <1>2 DEF Abs!FreshResults, P
<1>. QED  BY <1>3 DEF Abs!Table

\* The programs of an initial state are op lists.
LEMMA ProgramsSeq ==
  ASSUME NEW p \in Abs!Programs
  PROVE  /\ p[1] \in Seq(Abs!StartupOps)
         /\ p[2] \in Seq(Abs!MainOps)
         /\ Abs!FreshResults(p[2])
<1>1. \A S : Abs!OpLists(S) \subseteq Seq(S)
  <2> SUFFICES ASSUME NEW S, NEW k \in 0..MaxOps, NEW s \in [1..k -> S]
               PROVE  s \in Seq(S)
    BY DEF Abs!OpLists
  <2>. QED  BY MaxOpsAssumption
<1>. QED  BY <1>1 DEF Abs!Programs

\* Before its loop, a dict is empty and no name is declared.
LEMMA EmptyTable ==
  ASSUME NEW prog, NEW opName
  PROVE  Abs!Table(prog, opName, 0) = Empty /\ Known(prog, opName, 0)
<1>1. Abs!Declared(prog, opName, 0) = {}
  BY DEF Abs!Declared, Abs!Writes
<1>. QED  BY <1>1 DEF Abs!Table, Known, Empty, Abs!EmptyDict

\* The items loop visits one more name n of an injective main dict.
LEMMA MapOfStep ==
  ASSUME NEW sp, NEW mp, NEW D \in SUBSET DOMAIN mp, NEW n \in DOMAIN mp,
         \A a, b \in DOMAIN mp : a # b => mp[a] # mp[b]
  PROVE  Put(MapOf(sp, mp, D), mp[n], sp[n]) = MapOf(sp, mp, D \cup {n})
<1>1. (CHOOSE x \in DOMAIN mp : mp[x] = mp[n]) = n
  OBVIOUS
<1>2. {mp[x] : x \in D} \cup {mp[n]} = {mp[x] : x \in D \cup {n}}
  OBVIOUS
<1>. QED  BY <1>1, <1>2 DEF MapOf, Put

\* The ops of the programs are records whose parameter ops name a parameter.
LEMMA OpFields ==
  ASSUME NEW prog, NEW S \in {Abs!StartupOps, Abs!MainOps}, prog \in Seq(S),
         NEW k \in 1..Len(prog)
  PROVE  prog[k].name \in {SP, P} => prog[k].param \in Names
BY DEF Abs!StartupOps, Abs!MainOps, SP, P, Abs!SetParameter, Abs!Parameter

\* The domain of a dict is the set of declared names.
LEMMA TableDomain ==
  ASSUME NEW prog, NEW opName, NEW m
  PROVE  DOMAIN Abs!Table(prog, opName, m) = Abs!Declared(prog, opName, m)
         /\ Abs!Declared(prog, opName, m) \subseteq Names
BY DEF Abs!Table, Abs!Declared

LEMMA InitIInv == Init => IInv
<1> SUFFICES ASSUME Init PROVE IInv
  OBVIOUS
<1>1. PICK p \in Abs!Programs : startup = p[1] /\ main = p[2]
  BY DEF Init
<1>2. /\ startup \in Seq(Abs!StartupOps) /\ main \in Seq(Abs!MainOps)
      /\ Abs!FreshResults(main)
  BY <1>1, ProgramsSeq
<1>3. Abs!Table(startup, SP, 0) = Empty /\ Known(startup, SP, 0)
  BY EmptyTable
<1>. QED  BY <1>2, <1>3 DEF Init, IInv, Empty

\* Every step of the loops preserves the invariant.
LEMMA IInvStep == IInv /\ [Next]_vars => IInv'
<1> SUFFICES ASSUME IInv, [Next]_vars PROVE IInv'
  OBVIOUS
<1> DEFINE sp == startupParams
           mp == mainParams
<1>0. /\ startup \in Seq(Abs!StartupOps) /\ main \in Seq(Abs!MainOps)
      /\ Abs!FreshResults(main) /\ i \in Nat \ {0}
  BY DEF IInv
<1>1. CASE ScanStartupOp
  <2>1. /\ i - 1 \in Nat /\ (i - 1) + 1 <= Len(startup)
        /\ startup[(i - 1) + 1].name = SP => startup[(i - 1) + 1].param \in Names
        /\ Known(startup, SP, i - 1)
        /\ startupParams = Abs!Table(startup, SP, i - 1)
    BY <1>0, <1>1, OpFields DEF ScanStartupOp, IInv
  <2>2. /\ Abs!Table(startup, SP, (i - 1) + 1) =
             IF startup[(i - 1) + 1].name = SP
             THEN Put(Abs!Table(startup, SP, i - 1), startup[(i - 1) + 1].param,
                      startup[(i - 1) + 1].value)
             ELSE Abs!Table(startup, SP, i - 1)
        /\ Known(startup, SP, (i - 1) + 1)
    BY <2>1, <1>0, TableStep
  <2>. QED  BY <2>1, <2>2, <1>0, <1>1 DEF ScanStartupOp, IInv, SP
<1>2. CASE EndStartupScan
  <2>1. i - 1 = Len(startup)
    BY <1>0, <1>2 DEF EndStartupScan, IInv
  <2>2. Abs!Table(main, P, 0) = Empty /\ Known(main, P, 0)
    BY EmptyTable
  <2>. QED  BY <2>1, <2>2, <1>0, <1>2 DEF EndStartupScan, IInv
<1>3. CASE ScanMainOp
  <2>1. /\ i - 1 \in Nat /\ (i - 1) + 1 <= Len(main)
        /\ main[(i - 1) + 1].name = P => main[(i - 1) + 1].param \in Names
        /\ Known(main, P, i - 1)
        /\ mainParams = Abs!Table(main, P, i - 1)
    BY <1>0, <1>3, OpFields DEF ScanMainOp, IInv
  <2>2. /\ Abs!Table(main, P, (i - 1) + 1) =
             IF main[(i - 1) + 1].name = P
             THEN Put(Abs!Table(main, P, i - 1), main[(i - 1) + 1].param,
                      main[(i - 1) + 1].value)
             ELSE Abs!Table(main, P, i - 1)
        /\ Known(main, P, (i - 1) + 1)
    BY <2>1, <1>0, TableStep
  <2>. QED  BY <2>1, <2>2, <1>0, <1>3 DEF ScanMainOp, IInv, P
<1>4. CASE EndMainScan
  <2>1. i - 1 = Len(main)
    BY <1>0, <1>4 DEF EndMainScan, IInv
  <2>. QED  BY <2>1, <1>0, <1>4 DEF EndMainScan, IInv
<1>5. CASE CheckSizes
  <2>1. /\ DOMAIN sp = Abs!Declared(startup, SP, Len(startup))
        /\ DOMAIN mp = Abs!Declared(main, P, Len(main))
        /\ DOMAIN sp \subseteq Names
        /\ mapping = Empty
    BY <1>5, TableDomain DEF CheckSizes, IInv
  <2>2. CASE SizesEqual(sp, mp)
    <3>1. MapOf(sp, mp, {}) = Empty
      BY DEF MapOf, Empty, Abs!EmptyDict
    <3>. QED  BY <2>1, <2>2, <3>1, <1>0, <1>5 DEF CheckSizes, IInv, SizesEqual
  <2>3. CASE ~SizesEqual(sp, mp)
    <3>1. ~Abs!SameNames(startup, main)
      BY <2>1, <2>3 DEF SizesEqual, Abs!SameNames, SP, P
    <3>. QED  BY <2>1, <2>3, <3>1, <1>0, <1>5 DEF CheckSizes, IInv
  <2>. QED  BY <2>2, <2>3
<1>6. CASE MapParameter
  <2>1. /\ pc = "map"
        /\ sp = Abs!Table(startup, SP, Len(startup))
        /\ mp = Abs!Table(main, P, Len(main))
        /\ Known(main, P, Len(main))
        /\ todo \subseteq DOMAIN sp
        /\ DOMAIN sp \ todo \subseteq DOMAIN mp
        /\ mapping = MapOf(sp, mp, DOMAIN sp \ todo)
    BY <1>6 DEF MapParameter, IInv
  <2>2. PICK n \in todo :
          IF n \in DOMAIN mp
          THEN /\ mapping' = Put(mapping, mp[n], sp[n])
               /\ todo' = todo \ {n}
               /\ UNCHANGED pc
          ELSE /\ pc' = "failed"
               /\ UNCHANGED <<todo, mapping>>
    BY <1>6 DEF MapParameter
  <2>3. CASE n \in DOMAIN mp
    <3>1. \A a, b \in DOMAIN mp : a # b => mp[a] # mp[b]
      BY <2>1, <1>0, TableInjective, Len(main) \in 0..Len(main)
    <3>2. Put(MapOf(sp, mp, DOMAIN sp \ todo), mp[n], sp[n])
            = MapOf(sp, mp, (DOMAIN sp \ todo) \cup {n})
      BY <2>1, <2>3, <3>1, MapOfStep
    <3>3. (DOMAIN sp \ todo) \cup {n} = DOMAIN sp \ (todo \ {n})
      BY <2>1
    <3>. QED  BY <2>1, <2>2, <2>3, <3>2, <3>3, <1>0, <1>6
              DEF MapParameter, IInv
  <2>4. CASE n \notin DOMAIN mp
    <3>1. ~Abs!SameNames(startup, main)
      BY <2>1, <2>4, TableDomain DEF Abs!SameNames, SP, P
    <3>. QED  BY <2>1, <2>2, <2>4, <3>1, <1>0, <1>6 DEF MapParameter, IInv
  <2>. QED  BY <2>3, <2>4
<1>7. CASE ReturnMapping
  BY <1>0, <1>7 DEF ReturnMapping, IInv
<1>8. CASE UNCHANGED vars
  BY <1>8 DEF vars, IInv
<1>. QED  BY <1>1, <1>2, <1>3, <1>4, <1>5, <1>6, <1>7, <1>8 DEF Next

\* While the call runs, the specification sees it pending with no result.
LEMMA PendingView ==
  ASSUME pc \in {"startup", "main", "check", "map"}
  PROVE  Status = "pending" /\ Out = Abs!EmptyDict
BY DEF Status, Out, Abs!EmptyDict

\* The names of both programs are the same once the items loop has visited
\* every startup name.
LEMMA AllVisited ==
  ASSUME IInv, pc = "map", todo = {}
  PROVE  /\ Abs!SameNames(startup, main)
         /\ mapping = Abs!Expected(startup, main)
<1> DEFINE sp == startupParams
           mp == mainParams
<1>1. /\ sp = Abs!Table(startup, SP, Len(startup))
      /\ mp = Abs!Table(main, P, Len(main))
      /\ DOMAIN sp \subseteq DOMAIN mp
      /\ Cardinality(DOMAIN sp) = Cardinality(DOMAIN mp)
      /\ mapping = MapOf(sp, mp, DOMAIN sp)
  BY DEF IInv
<1>2. DOMAIN mp \subseteq Names
  BY <1>1, TableDomain
<1>3. DOMAIN sp = DOMAIN mp
  BY <1>1, <1>2, NamesAssumption, FS_Subset
<1>4. Abs!SameNames(startup, main)
  BY <1>1, <1>3, TableDomain DEF Abs!SameNames, SP, P
<1>. QED  BY <1>1, <1>3, <1>4 DEF Abs!Expected, MapOf, SP, P

\* A step of the loops is a stutter of the specification, or its one step.
LEMMA RefinementStep ==
  IInv /\ IInv' /\ [Next]_vars => [Abs!Compute]_Abs!vars
<1> SUFFICES ASSUME IInv, IInv', [Next]_vars PROVE [Abs!Compute]_Abs!vars
  OBVIOUS
<1> USE DEF Abs!vars
<1>1. ASSUME pc \in {"startup", "main", "check", "map"},
             pc' \in {"startup", "main", "check", "map"},
             UNCHANGED <<startup, main>>
      PROVE  UNCHANGED Abs!vars
  <2>1. Status = "pending" /\ Out = Abs!EmptyDict
    BY <1>1, PendingView
  <2>2. Status' = "pending" /\ Out' = Abs!EmptyDict
    BY <1>1 DEF Status, Out, Abs!EmptyDict
  <2>. QED  BY <1>1, <2>1, <2>2
<1>2. ASSUME pc \in {"check", "map"}, pc' = "failed",
             UNCHANGED <<startup, main>>
      PROVE  Abs!Compute
  <2>1. Status = "pending" /\ Out = Abs!EmptyDict
    BY <1>2, PendingView
  <2>2. Status' = "failed" /\ Out' = Abs!EmptyDict
    BY <1>2 DEF Status, Out, Abs!EmptyDict
  <2>3. ~Abs!SameNames(startup, main)
    BY <1>2 DEF IInv
  <2>. QED  BY <1>2, <2>1, <2>2, <2>3 DEF Abs!Compute
<1>3. CASE ScanStartupOp \/ EndStartupScan \/ ScanMainOp \/ EndMainScan
  BY <1>1, <1>3 DEF ScanStartupOp, EndStartupScan, ScanMainOp, EndMainScan
<1>4. CASE CheckSizes
  BY <1>1, <1>2, <1>4 DEF CheckSizes
<1>5. CASE MapParameter
  BY <1>1, <1>2, <1>5 DEF MapParameter
<1>6. CASE ReturnMapping
  <2>1. Status = "pending"
    BY <1>6, PendingView DEF ReturnMapping
  <2>2. Status' = "done" /\ Out' = mapping
    BY <1>6 DEF ReturnMapping, Status, Out
  <2>3. Abs!SameNames(startup, main) /\ mapping = Abs!Expected(startup, main)
    BY <1>6, AllVisited DEF ReturnMapping
  <2>. QED  BY <1>6, <2>1, <2>2, <2>3 DEF ReturnMapping, Abs!Compute
<1>7. CASE UNCHANGED vars
  BY <1>7 DEF vars, Status, Out
<1>. QED  BY <1>3, <1>4, <1>5, <1>6, <1>7 DEF Next

(***************************************************************************)
(* create_parameter_mapping implements its specification                   *)
(* (ImplementsSpec): whatever the two programs, a call that returns maps   *)
(* every main parameter value to the startup parameter of the same name,  *)
(* and a call raises exactly when the programs' parameter names differ.   *)
(***************************************************************************)
THEOREM ImplementsSpecHolds == Spec => ImplementsSpec
<1>1. Init => Abs!Init
  <2> SUFFICES ASSUME Init PROVE Abs!Init
    OBVIOUS
  <2>1. Status = "pending" /\ Out = Abs!EmptyDict
    BY PendingView DEF Init
  <2>. QED  BY <2>1 DEF Init, Abs!Init
<1>2. IInv /\ [][Next]_vars => [][Abs!Compute]_Abs!vars
  BY RefinementStep, IInvStep, PTL
<1>. QED  BY <1>1, <1>2, InitIInv, IInvStep, PTL
          DEF Spec, ImplementsSpec, Abs!Spec
=============================================================================
