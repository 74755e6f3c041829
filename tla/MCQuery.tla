------------------------------ MODULE MCQuery ------------------------------
(* Instances of Query for TLC: the domain of the tests (dom/domtest/prod.go), with *)
(* numbers for names, three data sets, and families of query documents.            *)
EXTENDS QueryMeaning

MCFields  == [cat |-> <<"id", "name">>, prod |-> <<"id", "name", "cat">>]
MCInitial == [cat |-> "c", prod |-> "p"]

Cat(i, n)     == [id |-> i, name |-> n]
Prod(i, n, c) == [id |-> i, name |-> n, cat |-> c]

\* Equal names, tables that are not sorted, a category without and one with two products.
Full == [cat |-> <<Cat(2, 5), Cat(1, 4), Cat(3, 4)>>,
         prod |-> <<Prod(2, 4, 1), Prod(1, 5, 1), Prod(3, 4, 3)>>]
\* A product whose category does not exist.
Dangling == [cat |-> <<Cat(1, 4)>>, prod |-> <<Prod(1, 4, 1), Prod(2, 5, 9)>>]
Empty    == [cat |-> <<Cat(1, 4)>>, prod |-> <<>>]

MCDatabases == {Full, Dangling, Empty}

-----------------------------------------------------------------------------
Tag(n, a)    == [name |-> n, arg |-> a]
Eq(k, e)     == [key |-> k, arg |-> e]
Mode(m)      == [mode |-> m, name |-> None, el |-> None]
Name(m, n)   == [mode |-> m, name |-> n, el |-> None]
Def(m, n, e) == [mode |-> m, name |-> n, el |-> e]
Only(k)      == <<Def("_", None, Fld(0, k))>>
Src(k, m, w, t, d) == [kind |-> k, model |-> m, whr |-> w, tags |-> t, decl |-> d]
Named1(n, src) == [name |-> n, el |-> Sub(src)]
One(src)     == <<Named1(None, src)>>

Kinds == {"?", "*", "#"}

TagLists ==
  { <<>>, <<Tag("off", 1)>>, <<Tag("lim", 1)>>, <<Tag("off", 1), Tag("lim", 2)>>,
    <<Tag("lim", 2), Tag("lim", 1)>>, <<Tag("asc", "name")>>, <<Tag("desc", "name")>>,
    <<Tag("desc", "cat"), Tag("lim", 2)>>, <<Tag("asc", "id"), Tag("off", 1), Tag("lim", 1)>>,
    <<Tag("asc", "cat"), Tag("desc", "name")>>, <<Tag("max", 1)>>, <<Tag("id", None)>> }

\* One query: conditions, tags and selections.
Plain ==
  {One(Src(k, "prod", w, t, d)) :
     k \in Kinds, t \in TagLists,
     w \in { <<>>, <<Eq("name", Lit(4))>>, <<Eq("name", Lit(4)), Eq("cat", Lit(2))>> },
     d \in { <<>>, <<Mode("_"), Name(None, "id"), Name(None, "name")>>, <<Name("-", "cat")>>,
             Only("name"), <<Mode("+"), Def(None, "label", Fn("name"))>> }}

\* Selections of up to three declarations.  The tags before the first mode count as tags of
\* the query, and a bare symbol before it stands after a tag.
Decls == { Mode("+"), Mode("-"), Mode("_"), Name(None, "id"), Name(None, "name"), Name("-", "cat"),
           Name("+", "cat"), Def(None, "label", Fn("name")), Def("+", "label", Fn("id")),
           Name("-", "label"), Def("_", None, Fld(0, "name")), Def("_", None, Fld(0, "nope")),
           Def("_", None, Fn("name")) }

Split(d) ==
  LET n == CHOOSE k \in 0..Len(d) :
             /\ \A i \in 1..k : d[i].mode = None /\ d[i].el # None
             /\ k < Len(d) => d[k + 1].mode # None \/ d[k + 1].el = None
      tags == [i \in 1..n |-> Tag(d[i].name, None)]
  IN Src("*", "prod", <<>>, IF n = 0 /\ d[1].mode = None THEN <<Tag("lim", 2)>> ELSE tags, SubSeq(d, n + 1, Len(d)))
Selections == {One(Split(d)) : d \in UNION {[1..n -> Decls] : n \in 1..3}}

\* A query below a query, in both directions of the reference.
SubTags == { <<>>, <<Tag("asc", "name")>>, <<Tag("desc", "id"), Tag("lim", 1)>> }
Subs ==
  {Src(k, "prod", w, t, d) :
     k \in Kinds, t \in SubTags,
     w \in { <<>>, <<Eq("cat", Fld(1, "id"))>>, <<Eq("id", Fld(1, "id"))>> },
     d \in { <<>>, <<Mode("_"), Name(None, "name"), Name(None, "id")>>, Only("id"),
             <<Mode("+"), Def(None, "label", Fn("name"))>> }}
Down ==
  {One(Src(k, "cat", <<>>, t, <<Mode(m), Def(None, "prods", Sub(s))>>)) :
     k \in Kinds, m \in {"+", "_"}, t \in { <<>>, <<Tag("desc", "id")>> }, s \in Subs}
Up ==
  {One(Src(k, "prod", w, t, <<Mode("_"), Name(None, "name"), Def(None, n, Sub(Src(k2, "cat", <<Eq("id", Fld(1, "cat"))>>, <<>>, d)))>>)) :
     k \in Kinds, k2 \in Kinds, n \in {"c", "cat"},
     w \in { <<>>, <<Eq("id", Lit(1))>> },
     t \in { <<>>, <<Tag("asc", "name")>>, <<Tag("lim", 1)>> },
     d \in { <<>>, Only("name"), <<Mode("_"), Def(None, "label", Fn("name"))>> }}

\* The same, ordered by the field that refers to the category.
UpByCat ==
  {One(Src("*", "prod", <<>>, <<Tag(o, "cat")>>, <<Mode("+"), Def(None, "c", Sub(Src(k, "cat", <<Eq("id", Fld(1, "cat"))>>, <<>>, d)))>>)) :
     o \in {"asc", "desc"}, k \in Kinds, d \in { <<>>, Only("name") }}

\* Three levels, and several queries of one model side by side.
Deep ==
  {One(Src(k, "prod", <<>>, <<>>, <<Mode("+"),
     Def(None, "c", Sub(Src(k2, "cat", <<Eq("id", Fld(1, "cat"))>>, <<>>, <<Mode("+"),
       Def(None, "p", Sub(Src(k3, "prod", <<Eq("cat", Fld(u, "id"))>>, <<>>, <<>>)))>>)))>>)) :
     k \in {"?", "*"}, k2 \in {"?", "*"}, k3 \in Kinds, u \in {1, 2, 3}}
Beside ==
  {One(Src("*", "cat", <<>>, <<>>, <<Mode("+"),
     Def(None, "one", Sub(Src(k1, "cat", <<Eq("id", Fld(1, "id"))>>, <<>>, d1))),
     Def(None, "two", Sub(Src(k2, "cat", <<Eq("name", Fld(1, "name"))>>, <<>>, d2)))>>)) :
     k1 \in Kinds, k2 \in {"*", "#"}, d1 \in { <<>>, Only("name") }, d2 \in { <<>>, Only("id") }}

\* Documents of several root tasks that refer to each other.
Several ==
  {<<Named1("a", Src("#", "prod", <<Eq("cat", Lit(1))>>, <<>>, <<>>)),
     [name |-> n, el |-> e],
     Named1("b", Src(k, "cat", <<Eq("id", Root(r))>>, <<>>, <<>>))>> :
     k \in {"?", "*"}, n \in {"a", "x"}, e \in {Lit(3), Root("a"), Fld(0, "id")}, r \in {"a", "b", "x"}}

\* A query orders a table that another one, around it, beside it or after it, reads too.
Shared ==
  {One(Src("*", "cat", <<>>, t, <<Mode(m), Def(None, "again", Sub(Src(k, n, w, <<Tag(o, "id")>>, d)))>>)) :
     k \in {"?", "*"}, n \in {"cat", "prod"}, o \in {"asc", "desc"}, m \in {"+", "_"},
     w \in { <<>>, <<Eq("name", Lit(4))>> },
     t \in { <<>>, <<Tag("asc", "name")>> }, d \in { <<>>, Only("id") }}
  \cup
  {<<Named1("a", Src("*", "cat", w, <<Tag(o, k)>>, d)), Named1("b", Src("*", "cat", <<>>, t, <<>>)),
     Named1("c", Src("*", "cat", <<>>, <<Tag("off", 1)>>, Only("name")))>> :
     w \in { <<>>, <<Eq("name", Lit(4))>> }, o \in {"asc", "desc"}, k \in {"id", "name"},
     d \in { <<>>, Only("name") }, t \in { <<>>, <<Tag("lim", 2)>>, <<Tag("asc", "name")>> }}

\* Equal rows at two levels, and an order by a computed value that has the name of a field.
Ties ==
  {One(Src("*", "prod", <<>>, t, <<Mode("+"), Def(None, "again", Sub(Src("*", "prod", <<>>, <<Tag(o, k)>>, <<>>)))>>)) :
     t \in { <<>>, <<Tag("desc", "cat")>> }, o \in {"asc", "desc"}, k \in {"id", "name", "cat"}}
  \cup
  {One(Src("*", "prod", <<>>, <<Tag(o, "name")>>, <<Mode("_"), Name(None, "id"), Def(None, "name", Fn(k))>>)) :
     o \in {"asc", "desc"}, k \in {"id", "name"}}

MCDocs == Ties \cup Shared \cup Plain \cup Selections \cup Down \cup Up \cup UpByCat \cup Deep \cup Beside \cup Several

\* The queries of the documents, nested up to two deep.
Inner(srcs) == UNION {{src.decl[i].el.q : i \in SubQueries(src.decl)} : src \in srcs}
MCSources ==
  LET outer == UNION {{d[i].el.q : i \in {k \in DOMAIN d : d[k].el.op = "qry"}} : d \in MCDocs}
      inner == Inner(outer)
  IN outer \cup inner \cup Inner(inner)
MCDepth ==
  [src \in MCSources |-> LET inner == Inner({src})
                         IN IF inner = {} THEN 0 ELSE IF Inner(inner) = {} THEN 1 ELSE 2]
=============================================================================
