------------------------------- MODULE QryDoc -------------------------------
(***************************************************************************)
(* Query documents of package qry, and how the qry form resolves their     *)
(* source into tasks (resolver.go).                                        *)
(*                                                                         *)
(* The source of a query names a kind ("?" one, "*" many, "#" count), a    *)
(* model, plain arguments (whr, those in tags of that name included),      *)
(* tags, and declarations that choose what is selected.  A task stands for *)
(* a field of the model, an expression, or a query of its own, whose       *)
(* expressions may refer to the rows around it.                            *)
(*                                                                         *)
(* Names are compared without case in the code, and are the same here.     *)
(* What recurs into nested queries is a function of the queries, which are *)
(* nested no deeper than Depth says.                                       *)
(***************************************************************************)
EXTENDS Integers, Sequences, FiniteSets, SequencesExt

CONSTANTS Fields,    \* the project: the fields of each model, in their order
          Sources,   \* the sources of queries, those of nested queries included
          Depth,     \* how deep queries are nested in each of them
          None,      \* an absent expression, query, name or mode
          Null,      \* the null literal
          Err,       \* an error returned by the code
          Panic      \* a panic of the code

ASSUME SentinelsAssumption ==
  /\ None \notin {Null, Err, Panic, "+", "-", "_", "scalar"}
  /\ {Err, Panic} \cap {Null, "scalar"} = {}

-----------------------------------------------------------------------------
(* Expressions *)

Lit(v)       == [op |-> "lit", val |-> v]
Fld(up, key) == [op |-> "fld", up |-> up, key |-> key]   \* .key, ..key and so on
Fn(key)      == [op |-> "fn", up |-> 0, key |-> key]     \* a call with .key as argument
Root(name)   == [op |-> "root", key |-> name]            \* /name
Sub(src)     == [op |-> "qry", q |-> src]                \* a query

\* What the language makes of a call on a value: an injective, monotone function stands
\* for all of them, as ('Label: ' .name) does for names.
Called(v) == v + 10

Bad(x) == x \in {Err, Panic}

\* A task of a document or of a selection; without expression and query it stands for
\* the field of its name.
Task(name, el, q) == [name |-> name, el |-> el, q |-> q]
FieldTask(f) == Task(f, None, None)

\* A record with one more value; an error of either is one of both.
Keyed(rec, name, v) == IF rec = Err \/ v = Err THEN Err ELSE (name :> v) @@ rec

NamesOf(sel) == {sel[i].name : i \in DOMAIN sel}
ModelFields(m) == ToSet(Fields[m])
FieldTasks(m) == [i \in DOMAIN Fields[m] |-> FieldTask(Fields[m][i])]

\* The positions of queries: among declarations, and among the tasks of a selection.
SubQueries(decl) == {i \in DOMAIN decl : decl[i].el # None /\ decl[i].el.op = "qry"}
QueryTasks(sel)  == {i \in DOMAIN sel : sel[i].q # None}

\* The fields of a model have different names.
ASSUME FieldsAssumption ==
  \A m \in DOMAIN Fields :
     /\ Fields[m] \in Seq(ModelFields(m)) /\ None \notin ModelFields(m)
     /\ \A i, k \in DOMAIN Fields[m] : Fields[m][i] = Fields[m][k] => i = k

\* A query cannot contain itself.
WellNested(sources, depth) ==
  /\ depth \in [sources -> Nat]
  /\ \A src \in sources :
       /\ src.tags \in Seq(ToSet(src.tags)) /\ src.decl \in Seq(ToSet(src.decl))
       /\ \A i \in DOMAIN src.decl : src.decl[i].mode \in {None, "+", "-", "_"}
       /\ \A i \in SubQueries(src.decl) :
            src.decl[i].el.q \in sources /\ depth[src.decl[i].el.q] < depth[src]

ASSUME SourcesAssumption == WellNested(Sources, Depth)

\* How the arguments of a query are split: symbols before the first tag or mode are plain
\* arguments, and named tags before the first declaration are tags of the query, also if
\* they were meant to select something.  So only a bare symbol or a call, after a tag, can
\* be declared before any mode is set.
WellSplit(src) ==
  src.decl # <<>> /\ src.decl[1].mode = None =>
     src.tags # <<>> /\ (src.decl[1].name # None => src.decl[1].el = None)

ASSUME SplitAssumption == \A src \in Sources : WellSplit(src)

-----------------------------------------------------------------------------
(* Tags *)

\* One tag: a later limit or offset replaces an earlier one, orders add up.  Any other name
\* is refused, also that of a field.
Tagged(o, tag) ==
  IF o = Err THEN Err ELSE
  CASE tag.name = "lim" -> [o EXCEPT !.lim = tag.arg]
    [] tag.name = "off" -> [o EXCEPT !.off = tag.arg]
    [] tag.name \in {"ord", "asc", "desc"} ->
         [o EXCEPT !.ord = Append(@, [key |-> tag.arg, desc |-> tag.name = "desc"])]
    [] OTHER -> Err

Tags(tags) ==
  LET loop[i \in 0..Len(tags)] ==
        IF i = 0 THEN [lim |-> 0, off |-> 0, ord |-> <<>>] ELSE Tagged(loop[i - 1], tags[i])
  IN loop[Len(tags)]

-----------------------------------------------------------------------------
(* Selections *)

\* How many elements a declaration has: those of a call or a query, or the one symbol.
NArgs(el) ==
  CASE el.op = "qry" -> 1 + Len(el.q.whr) + Len(el.q.tags) + Len(el.q.decl)
    [] el.op = "fn" -> 2
    [] OTHER -> 1

\* The state of the loop over declarations: the current mode, the tasks selected so far,
\* and why the loop has ended.
Ended(s, why) == [s EXCEPT !.end = why]

\* A bare + or - sets the mode for what follows.
Bare(s, d) == IF d.el # None THEN Ended(s, Err) ELSE [s EXCEPT !.mode = d.mode]

\* A bare _ deselects everything.
Reset(s) == [mode |-> "+", res |-> <<>>, end |-> s.end]

\* A _ with a symbol selects it as the only, unnamed value, and ends the loop.  The check
\* for declarations that follow slices the arguments of this one instead, with the
\* position i of the declaration.
Scalar(s, i, d, t) ==
  IF i - 1 > NArgs(d.el) THEN Ended(s, Panic)
  ELSE IF NArgs(d.el) - (i - 1) > 1 THEN Ended(s, Err)
  ELSE IF Bad(t) THEN Ended(s, t)
  ELSE [mode |-> "+", res |-> <<t>>, end |-> "scalar"]

FirstNamed(sel, name) == Min({i \in DOMAIN sel : sel[i].name = name})

Exclude(s, d) ==
  IF d.el # None \/ d.name \notin NamesOf(s.res) THEN Ended(s, Err)
  ELSE [s EXCEPT !.res = RemoveAt(@, FirstNamed(@, d.name))]

\* A naked name selects the field; a name with an expression is added in any case.
Include(s, d, fields, t) ==
  IF d.el # None THEN IF Bad(t) THEN Ended(s, t) ELSE [s EXCEPT !.res = Append(@, t)]
  ELSE IF d.name \notin fields \/ d.name \in NamesOf(s.res) THEN Ended(s, Err)
  ELSE [s EXCEPT !.res = Append(@, FieldTask(d.name))]

\* Mutant: a prefix counts for its own declaration only.
NamedNotSticky(s, d, fields, t) ==
  LET mode == IF d.mode = None THEN s.mode ELSE d.mode
  IN CASE mode = "-" -> Exclude(s, d)
       [] mode = "+" -> Include(s, d, fields, t)
       [] OTHER -> s

\* A declaration with a name: its prefix sets the mode for what follows as well.  A bare
\* symbol before any mode, and what is declared after it, is passed over in silence.
Named(s, d, fields, t) ==
  LET s1 == IF d.mode = None THEN s ELSE [s EXCEPT !.mode = d.mode]
  IN CASE s1.mode = "-" -> Exclude(s1, d)
       [] s1.mode = "+" -> Include(s1, d, fields, t)
       [] OTHER -> s1

Declared(s, i, d, fields, t) ==
  IF s.end # None THEN s
  ELSE IF d.mode = "_" THEN IF d.el = None THEN Reset(s) ELSE Scalar(s, i, d, t)
  ELSE IF d.name # None THEN Named(s, d, fields, t)
  ELSE IF d.mode = None THEN Ended(s, Err)
  ELSE Bare(s, d)

-----------------------------------------------------------------------------
(* Queries and documents *)

\* The task of an element, which for a query is the resolved query q, in a query with these
\* fields; a symbol must be one of them, the argument of a call is left for the execution
\* to find.
ResolveTask(name, el, q, fields) ==
  CASE el.op = "qry" -> IF Bad(q) THEN q ELSE Task(name, None, q)
    [] el.op = "fld" /\ el.up = 0 /\ el.key \notin fields -> Err
    [] OTHER -> Task(name, el, None)

\* The name of an unnamed value is that of its symbol.
DeclName(d) == IF d.mode = "_" /\ d.el.op = "fld" THEN d.el.key ELSE d.name

\* The loop over the declarations; subs has the queries among them.
ResolveSel(model, decl, subs) ==
  LET fields == ModelFields(model)
      task(i) == IF decl[i].el = None THEN None
                 ELSE ResolveTask(DeclName(decl[i]), decl[i].el, subs[i], fields)
      loop[i \in 0..Len(decl)] ==
        IF i = 0 THEN [mode |-> None, res |-> FieldTasks(model), end |-> None]
        ELSE Declared(loop[i - 1], i, decl[i], fields, task(i))
  IN loop[Len(decl)]

\* The limit of a query; for a single result it is one.
LimOf(kind, lim) == IF kind = "?" THEN 1 ELSE lim

Resolution(src, subs) ==
  IF src.model \notin DOMAIN Fields THEN Err ELSE
  LET o == Tags(src.tags)
      s == ResolveSel(src.model, src.decl, subs)
  IN IF o = Err THEN Err
     ELSE IF Bad(s.end) THEN s.end
     ELSE IF src.kind = "?" /\ o.lim > 1 THEN Err
     ELSE [kind |-> src.kind, model |-> src.model, whr |-> src.whr, ord |-> o.ord,
           off |-> o.off, lim |-> LimOf(src.kind, o.lim), sel |-> s.res, sca |-> s.end = "scalar"]

ResolveQuery[src \in Sources] ==
  Resolution(src, [i \in SubQueries(src.decl) |-> ResolveQuery[src.decl[i].el.q]])

\* The queries that sources are resolved to.
Queries == {ResolveQuery[src] : src \in Sources} \ {Err, Panic}

\* None is the absence of a query.
ASSUME QueriesAssumption == None \notin Queries

\* A document is a sequence of named declarations; the first that fails ends it.
ResolveDoc(doc) ==
  LET task(i) == ResolveTask(doc[i].name, doc[i].el, ResolveQuery[doc[i].el.q], {})
      next(ts, t) == IF Bad(ts) THEN ts ELSE IF Bad(t) THEN t ELSE Append(ts, t)
      loop[i \in 0..Len(doc)] == IF i = 0 THEN <<>> ELSE next(loop[i - 1], task(i))
  IN loop[Len(doc)]
=============================================================================
