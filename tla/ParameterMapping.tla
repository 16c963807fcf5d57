-------------------------- MODULE ParameterMapping --------------------------
(***************************************************************************)
(* create_parameter_mapping(startup_program, main_program),               *)
(* test/legacy_test/test_dygraph_multi_forward.py lines 107-128, loop by  *)
(* loop: scan the startup program's ops for builtin.set_parameter, scan   *)
(* the main program's ops for builtin.parameter, assert the two dicts     *)
(* have the same size, then, for each startup name, assert it is a main   *)
(* name and map the main value to the startup value.  An AssertionError   *)
(* ends the call in "failed".  The items loop visits the startup names in *)
(* some order (the dict's insertion order): which name it fails on is not *)
(* observable, so the model lets it take any order.                       *)
(***************************************************************************)
EXTENDS Naturals, Sequences, FiniteSets

CONSTANTS Names, Values, None, MaxOps

ASSUME NamesAssumption == IsFiniteSet(Names)
ASSUME NoneAssumption == None \notin Names \cup Values
ASSUME MaxOpsAssumption == MaxOps \in Nat

VARIABLES
    startup,        \* startup_program.global_block().ops
    main,           \* main_program.global_block().ops
    pc,             \* "startup", "main", "check", "map", "done", "failed"
    i,              \* index of the next op of the loop in progress
    startupParams,  \* startup_params: name -> value
    mainParams,     \* main_params: name -> value
    todo,           \* startup names the items loop has still to visit
    mapping         \* parameter_mapping: main value -> startup value

vars == <<startup, main, pc, i, startupParams, mainParams, todo, mapping>>

\* What the call returns, as the abstract specification sees it.
Status ==
    CASE pc = "done" -> "done"
      [] pc = "failed" -> "failed"
      [] OTHER -> "pending"

Out == IF pc = "done" THEN mapping ELSE [x \in {} |-> None]

Abs == INSTANCE CreateParameterMapping WITH status <- Status, out <- Out

\* d[k] = v on a dict d.
Put(d, k, v) == [x \in DOMAIN d \cup {k} |-> IF x = k THEN v ELSE d[x]]

Init ==
    /\ \E p \in Abs!Programs : startup = p[1] /\ main = p[2]
    /\ pc = "startup"
    /\ i = 1
    /\ startupParams = Abs!EmptyDict
    /\ mainParams = Abs!EmptyDict
    /\ todo = {}
    /\ mapping = Abs!EmptyDict

\* for op in startup_program.global_block().ops: if it is a set_parameter,
\* startup_params[name] = op.operand(0).source()
ScanStartupOp ==
    /\ pc = "startup"
    /\ i <= Len(startup)
    /\ startupParams' = IF startup[i].name = Abs!SetParameter
                        THEN Put(startupParams, startup[i].param, startup[i].value)
                        ELSE startupParams
    /\ i' = i + 1
    /\ UNCHANGED <<startup, main, pc, mainParams, todo, mapping>>

EndStartupScan ==
    /\ pc = "startup"
    /\ i > Len(startup)
    /\ pc' = "main"
    /\ i' = 1
    /\ UNCHANGED <<startup, main, startupParams, mainParams, todo, mapping>>

\* for op in main_program.global_block().ops: if it is a parameter op,
\* main_params[name] = op.result(0)
ScanMainOp ==
    /\ pc = "main"
    /\ i <= Len(main)
    /\ mainParams' = IF main[i].name = Abs!Parameter
                     THEN Put(mainParams, main[i].param, main[i].value)
                     ELSE mainParams
    /\ i' = i + 1
    /\ UNCHANGED <<startup, main, pc, startupParams, todo, mapping>>

EndMainScan ==
    /\ pc = "main"
    /\ i > Len(main)
    /\ pc' = "check"
    /\ UNCHANGED <<startup, main, i, startupParams, mainParams, todo, mapping>>

\* Mutant: the size assertion is dropped.
SameSize(sp, mp) == TRUE

\* assert len(startup_params) == len(main_params)
SizesEqual(sp, mp) == Cardinality(DOMAIN sp) = Cardinality(DOMAIN mp)

CheckSizes ==
    /\ pc = "check"
    /\ pc' = IF SizesEqual(startupParams, mainParams) THEN "map" ELSE "failed"
    /\ todo' = DOMAIN startupParams
    /\ UNCHANGED <<startup, main, i, startupParams, mainParams, mapping>>

\* One iteration of the items loop: assert name in main_params, then
\* parameter_mapping[main_params[name]] = startup_param.
MapParameter ==
    /\ pc = "map"
    /\ \E n \in todo :
          IF n \in DOMAIN mainParams
          THEN /\ mapping' = Put(mapping, mainParams[n], startupParams[n])
               /\ todo' = todo \ {n}
               /\ UNCHANGED pc
          ELSE /\ pc' = "failed"
               /\ UNCHANGED <<todo, mapping>>
    /\ UNCHANGED <<startup, main, i, startupParams, mainParams>>

\* return parameter_mapping
ReturnMapping ==
    /\ pc = "map"
    /\ todo = {}
    /\ pc' = "done"
    /\ UNCHANGED <<startup, main, i, startupParams, mainParams, todo, mapping>>

Next ==
    \/ ScanStartupOp
    \/ EndStartupScan
    \/ ScanMainOp
    \/ EndMainScan
    \/ CheckSizes
    \/ MapParameter
    \/ ReturnMapping

Spec == Init /\ [][Next]_vars

-----------------------------------------------------------------------------
\* The dicts with keys in K and values in V.
Dicts(K, V) == UNION {[D -> V] : D \in SUBSET K}

TypeOK ==
    /\ \E p \in Abs!Programs : startup = p[1] /\ main = p[2]
    /\ pc \in {"startup", "main", "check", "map", "done", "failed"}
    /\ i \in 1..(MaxOps + 1)
    /\ startupParams \in Dicts(Names, Values)
    /\ mainParams \in Dicts(Names, Values)
    /\ todo \subseteq Names
    /\ mapping \in Dicts(Values, Values)

(***************************************************************************)
(* create_parameter_mapping implements its specification: every call that *)
(* returns pairs each main parameter value with the startup parameter of  *)
(* the same name (so that parameter_mapping[param] at line 230 finds every *)
(* main parameter), and it fails exactly when the two programs declare    *)
(* different parameter names.                                             *)
(***************************************************************************)
ImplementsSpec == Abs!Spec
=============================================================================
