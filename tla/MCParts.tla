------------------------------ MODULE MCParts ------------------------------
(***************************************************************************)
(* Four parts of the repository that no other part of it runs concurrently *)
(* with: the first step decides which part a behaviour is about.           *)
(***************************************************************************)
EXTENDS RequestMap, EvtMerge, Policy, PgExpr

VARIABLE part

Init == part = "" /\ ReqInit /\ MergeInit /\ PolInit /\ PgInit

Is(p) == part \in {"", p} /\ part' = p
Next ==
    \/ Is("requests") /\ ReqNext /\ UNCHANGED <<mergeVars, polVars, pgVars>>
    \/ Is("events") /\ MergeSteps /\ UNCHANGED <<reqVars, polVars, pgVars>>
    \/ Is("policy") /\ PolNext /\ UNCHANGED <<reqVars, mergeVars, pgVars>>
    \/ Is("statement") /\ PgNext /\ UNCHANGED <<reqVars, mergeVars, polVars>>

Spec == Init /\ [][Next]_<<part, reqVars, mergeVars, polVars, pgVars>>

-----------------------------------------------------------------------------
MCNewArgs == {[k |-> 1, l |-> 1], [k |-> 2]}
MCModArgs == {[k |-> 2], [l |-> 2]}

-----------------------------------------------------------------------------
MCPgValues ==
    [bool |-> {<<"bool", 0>>, <<"bool", 1>>}, int |-> {<<"int", i>> : i \in 0..2},
     str |-> {<<"str", 0>>, <<"str", 1>>}, list |-> {<<"list", i>> : i \in -1..1},
     opt |-> {<<"null", 0>>, <<"int", 1>>}]

A == Sym("a", "bool")   B == Sym("b", "bool")
X == Sym("x", "int")    Y == Sym("y", "int")
V == Sym("v", "str")    L == Sym("l", "list")   O == Sym("o", "opt")
P == Sym("$p", "int")   Q == Sym("$q", "int")
One == Lit("1", "int")  Two == Lit("2", "int")

Binary(fs, t, us, vs) == {Call(f, t, <<u, v>>) : f \in fs, u \in us, v \in vs}

Ints0 == {X, Y, Two}
Ints1 == Binary({"add", "sub", "mul"}, "int", {X, Y}, {X, Two})
            \cup {Call("div", "int", <<X, Two>>), Call("if", "int", <<A, X, One>>),
                  Call("con", "int", <<X>>)}
Ints2 == Binary({"add", "sub", "mul"}, "int", Ints1, {Y} \cup Ints1)
            \cup Binary({"add", "sub", "mul"}, "int", {Y}, Ints1)
            \cup {Call("div", "int", <<u, Two>>) : u \in Ints1}
            \cup {Call("add", "int", <<X, Two, u>>) : u \in Ints1}
Strs  == {V, Call("cat", "str", <<V, Sym("w", "str")>>)}

Tests0 == {A, B, X, V, L, O}
Tests1 == {Call("eq", "bool", <<Call("add", "int", <<X, One>>), Y>>),
           Call("eq", "bool", <<X, Y, One>>), Call("lt", "bool", <<X, One, Y>>),
           Call("equal", "bool", <<X, Y>>), Call("ge", "bool", <<V, Sym("w", "str")>>),
           Call("ne", "bool", <<X, Call("if", "int", <<V, Y, One>>)>>)}
Logic1 == Binary({"and", "or", "not"}, "bool", Tests0, Tests0 \cup Tests1)
Logic2 == Binary({"and", "or", "not"}, "bool", {A} \cup Tests1, {u \in Logic1 : u.args[1] \in {X, L}})
            \cup {Call(f, "bool", <<u>>) : f \in {"bool", "not"}, u \in Logic1}
Ifs == {Call("if", "int", <<c, X, L2, Y, One>>) : c \in Logic1, L2 \in {V, L}}
Params == Binary({"eq", "ne"}, "bool", {X, Y}, {P, Q})

MCPgQueries ==
    {<<e>> : e \in Ints2 \cup Strs \cup Ifs}
        \cup {<<X, c>> : c \in Tests1 \cup Logic1 \cup Logic2}
        \cup {<<Call("add", "int", <<Q, Two>>), c, d>> : c, d \in Params}
        \cup {<<X, c, d>> : c \in Tests1, d \in Tests1 \cup {Call("and", "bool", <<A, V>>)}}
=============================================================================
