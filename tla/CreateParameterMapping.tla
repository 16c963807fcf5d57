----------------------- MODULE CreateParameterMapping -----------------------
(***************************************************************************)
(* What create_parameter_mapping (test_dygraph_multi_forward.py, 107-128) *)
(* promises, as one atomic step: it pairs every parameter value of the     *)
(* main program with the startup program's parameter of the same name, or *)
(* fails when the two programs do not declare the same parameter names.   *)
(* A program is its global block's op list; a name declared twice counts  *)
(* with its last declaration, as a Python dict keeps the last write.      *)
(***************************************************************************)
EXTENDS Naturals, Sequences, FiniteSets

CONSTANTS
    Names,    \* parameter names
    Values,   \* pir values (op operands and results), as model values
    None,     \* the name and value fields of an op that is no parameter op
    MaxOps    \* bound on the length of a program's op list

SetParameter == "builtin.set_parameter"
Parameter == "builtin.parameter"

\* The ops of a startup and of a main program: parameter ops, and one other
\* op standing for all the rest.
StartupOps == [name : {SetParameter}, param : Names, value : Values]
                \cup {[name |-> "pd_op.full", param |-> None, value |-> None]}
MainOps == [name : {Parameter}, param : Names, value : Values]
             \cup {[name |-> "pd_op.conv2d", param |-> None, value |-> None]}

OpLists(S) == UNION {[1..k -> S] : k \in 0..MaxOps}

\* Every op result is a fresh pir value: no two parameter ops of the main
\* program share a result.
FreshResults(prog) ==
    \A j, k \in 1..Len(prog) :
        j # k /\ prog[j].name = Parameter /\ prog[k].name = Parameter
            => prog[j].value # prog[k].value

Programs == OpLists(StartupOps) \X {m \in OpLists(MainOps) : FreshResults(m)}

\* The indices among the first m ops of prog that are `opName` ops of name n.
Writes(prog, opName, n, m) ==
    {k \in 1..m : prog[k].name = opName /\ prog[k].param = n}

\* The names declared by `opName` ops among the first m ops.
Declared(prog, opName, m) ==
    {n \in Names : Writes(prog, opName, n, m) # {}}

\* k is the last of the first m ops that is an `opName` op of name n.
IsLast(prog, opName, n, m, k) ==
    /\ k \in Writes(prog, opName, n, m)
    /\ \A j \in Writes(prog, opName, n, m) : j <= k

LastWrite(prog, opName, n, m) == CHOOSE k \in 1..m : IsLast(prog, opName, n, m, k)

\* The dict {name: value} that the loop over the first m ops builds: a
\* name's value is the one its last declaration writes.
Table(prog, opName, m) ==
    [n \in Declared(prog, opName, m) |-> prog[LastWrite(prog, opName, n, m)].value]

\* The two programs declare the same parameter names.
SameNames(startup, main) ==
    Declared(startup, SetParameter, Len(startup))
        = Declared(main, Parameter, Len(main))

\* The mapping from main parameter values to startup parameter values.
Expected(startup, main) ==
    LET sp == Table(startup, SetParameter, Len(startup))
        mp == Table(main, Parameter, Len(main))
    IN  [v \in {mp[n] : n \in DOMAIN mp} |->
            sp[CHOOSE n \in DOMAIN mp : mp[n] = v]]

\* The empty dict.
EmptyDict == [x \in {} |-> None]

VARIABLES
    startup,  \* the startup program's ops
    main,     \* the main program's ops
    status,   \* "pending", then "done" (returned) or "failed" (raised)
    out       \* the mapping returned

vars == <<startup, main, status, out>>

Init ==
    /\ \E p \in Programs : startup = p[1] /\ main = p[2]
    /\ status = "pending"
    /\ out = EmptyDict

Compute ==
    /\ status = "pending"
    /\ IF SameNames(startup, main)
       THEN status' = "done" /\ out' = Expected(startup, main)
       ELSE status' = "failed" /\ out' = out
    /\ UNCHANGED <<startup, main>>

Spec == Init /\ [][Compute]_vars
=============================================================================
