---------------------------- MODULE QueryMeaning ----------------------------
(***************************************************************************)
(* What query documents mean, and what all three backends return for them: *)
(* the PostgreSQL backend executes the resolved document after the others. *)
(***************************************************************************)
EXTENDS Query, QryPg

ASSUME NamesAssumption == DOMAIN Initial = DOMAIN Fields

VARIABLE pg          \* the results of the PostgreSQL backend so far, or Err

\* It does not mark the results of expressions.
PgMarks == {i \in DOMAIN pg : tasks[i].q # None}

\* A root task of the PostgreSQL backend: a job, or an expression.
PgTask(t, done) ==
  CASE t.q # None -> PgQuery(t.q, done, db)
    [] t.el.op = "lit" -> t.el.val
    [] t.el.op = "root" /\ t.el.key \in DOMAIN done -> done[t.el.key]
    [] OTHER -> Err

\* The PostgreSQL backend executes the next job.
ExecJob ==
  /\ stage = "end" /\ pg # Err /\ Len(pg) < Len(tasks)
  /\ pg' = Continued(pg, PgTask(tasks[Len(pg) + 1], DoneIn(pg, PgMarks)))
  /\ UNCHANGED vars

AllInit == Init /\ pg = <<>>
AllNext == (Next /\ UNCHANGED pg) \/ ExecJob
AllSpec == AllInit /\ [][AllNext]_<<vars, pg>>

-----------------------------------------------------------------------------
(* What documents mean (doc.go), without regard to how it is computed *)

\* Whether row i comes before row k in the order that the tags ask for, one key after the
\* other; rows that are equal in all keys stay in the order of the table.
Before(rows, ord, i, k) ==
  LET differ == {o \in DOMAIN ord : rows[i][ord[o].key] # rows[k][ord[o].key]}
      less(o) == rows[i][ord[o].key] < rows[k][ord[o].key]
  IN IF differ = {} THEN i < k ELSE less(Min(differ)) # ord[Min(differ)].desc

\* The rows of a query in their order, from the offset to the limit.
Chosen(q, outer, done, d) ==
  LET all  == d[q.model]
      good == {i \in DOMAIN all : \A c \in DOMAIN q.whr :
                 all[i][q.whr[c].key] = Value(q.whr[c].arg, <<all[i]>> \o outer, done)}
      seq  == SetToSortSeq(good, LAMBDA i, k : Before(all, q.ord, i, k))
  IN [n \in {m \in DOMAIN seq : m > q.off /\ (q.lim > 0 => m <= q.off + q.lim)} |-> all[seq[n]]]

RECURSIVE Meaning(_, _, _, _)

Meaning(q, outer, done, d) ==
  LET rows == Chosen(q, outer, done, d)
      value(t, row) == CASE t.q # None -> Meaning(t.q, <<row>> \o outer, done, d)
                         [] t.el # None -> Value(t.el, <<row>> \o outer, done)
                         [] OTHER -> row[t.name]
      element(row) == IF q.sca THEN value(q.sel[1], row)
                      ELSE [n \in NamesOf(q.sel) |-> value(
                              CHOOSE t \in ToSet(q.sel) : t.name = n, row)]
  IN CASE q.kind = "#" -> Cardinality(DOMAIN rows)
       [] q.kind = "*" -> [i \in 1..Cardinality(DOMAIN rows) |-> element(rows[q.off + i])]
       [] OTHER -> IF DOMAIN rows = {} THEN Null ELSE element(rows[q.off + 1])

\* What a query of the program means, over the tables d.
ProgramMeaning(i, d) ==
  IF prog[i].q # None THEN Meaning(prog[i].q, <<>>, <<>>, d) ELSE Value(prog[i].el, <<>>, <<>>)

\* What a task means when the results of the tasks before it are as they are.
TaskMeaning(results, i, d) ==
  LET done == [n \in {tasks[k].name : k \in 1..(i - 1)} |->
                 results[CHOOSE k \in 1..(i - 1) : tasks[k].name = n]]
  IN IF tasks[i].q # None THEN Meaning(tasks[i].q, <<>>, done, d)
     ELSE Value(tasks[i].el, <<>>, done)

\* No order of the rows in a table is promised: a result is right if it is what the query
\* means for some order.
Reordered ==
  {[m \in DOMAIN db |-> [i \in DOMAIN db[m] |-> db[m][p[m][i]]]] :
     p \in {f \in [DOMAIN db -> UNION {Permutations(DOMAIN db[m]) : m \in DOMAIN db}] :
              \A m \in DOMAIN db : DOMAIN f[m] = DOMAIN db[m]}}

Right(results) ==
  \A i \in DOMAIN results :
    \/ results[i] = TaskMeaning(results, i, db)
    \/ \E d \in Reordered : results[i] = TaskMeaning(results, i, d)

AltRight ==
  \A i \in DOMAIN alt :
    \/ alt[i] = ProgramMeaning(i, db)
    \/ \E d \in Reordered : alt[i] = ProgramMeaning(i, d)

-----------------------------------------------------------------------------
(* Which documents a backend supports *)

RECURSIVE Within(_)
Within(q) == {q} \cup UNION {Within(q.sel[i].q) : i \in {k \in DOMAIN q.sel : q.sel[k].q # None}}

AllQueries  == UNION {Within(q) : q \in RootQueries}
Nested(q)   == {q.sel[i].q : i \in {k \in DOMAIN q.sel : q.sel[k].q # None}}
Exprs(q)    == {i \in DOMAIN q.sel : q.sel[i].el # None}

RECURSIVE Scoped(_, _)

\* Every reference is to a field of the row it is evaluated for or of a row around it;
\* models are those of the rows around the query, the innermost first.
Scoped(q, models) ==
  LET around == <<q.model>> \o models
  IN /\ \A c \in ToSet(q.whr) : c.key \in ModelFields(q.model)
     /\ \A e \in Refs(q) : e.op \in {"fld", "fn"} =>
           e.up < Len(around) /\ e.key \in ModelFields(around[e.up + 1])
     /\ \A s \in Nested(q) : Scoped(s, around)

\* Names are unique, root tasks refer to results of tasks before them, and what they select
\* is there.
\* A program has no names for the results of its queries.
AltWellFormed ==
  \A i \in DOMAIN prog :
    IF prog[i].q = None THEN prog[i].el.op = "lit"
    ELSE /\ Scoped(prog[i].q, <<>>)
         /\ \A s \in Within(prog[i].q) : \A e \in Refs(s) : e.op # "root"

WellFormed ==
  /\ Unique(tasks)
  /\ \A q \in RootQueries : Scoped(q, <<>>)
  /\ \A i \in DOMAIN tasks :
        LET refs == IF tasks[i].q = None THEN {tasks[i].el} ELSE UNION {Refs(q) : q \in Within(tasks[i].q)}
        IN \A e \in refs : e.op = "root" => \E k \in 1..(i - 1) : tasks[k].name = e.key

\* The keys of the order tell the rows of the table apart.
Definite(q) ==
  \A r1, r2 \in ToSet(db[q.model]) : r1 # r2 => \E i \in DOMAIN q.ord : r1[q.ord[i].key] # r2[q.ord[i].key]

\* In memory: results are ordered by one key, a field that they have as it is or as a call.
MemSupports(q) ==
  /\ Unique(q.sel)
  /\ \/ q.kind = "#" \/ q.ord = <<>>
     \/ /\ Len(q.ord) = 1 /\ ~q.sca /\ q.ord[1].key \in NamesOf(q.sel) \cap ModelFields(q.model)
        /\ \A t \in ToSet(q.sel) : t.name = q.ord[1].key => t.q = None /\ t.el \in {None, Fn(t.name)}

\* A descending order turns equal rows round, as if the table were.  Where rows are equal,
\* the lists of its model in one query all do so.
TurnsRound(q) == q.ord # <<>> /\ q.ord[1].desc
Consistent(q) ==
  LET lists == {s \in Within(q) : s.kind # "#"}
  IN \A s, t \in lists : TurnsRound(s) /\ t.model = s.model => Definite(s) \/ TurnsRound(t)

\* By literal: keys order by a field of the model that is not selected as something else.
AltOrders(q) ==
  \A i \in DOMAIN q.ord :
    /\ q.ord[i].key \in ModelFields(q.model)
    /\ q.sca \/ \A t \in ToSet(q.sel) : t.name = q.ord[i].key => t = FieldTask(t.name)

\* A query that sorts its table does so for everybody, and turns equal rows round if the
\* order descends.
SortsTable(q) == q.ord # <<>> /\ q.whr = <<>> /\ q.kind # "#"

\* A table that a nested query sorts is not in use elsewhere in the same query, and has a
\* definite order.
AltSupports(q) ==
  /\ \A s \in Within(q) : AltOrders(s) /\ s.sel # <<>>
  /\ \A s \in Within(q) \ {q} : SortsTable(s) =>
       Definite(s) /\ \A t \in Within(q) \ {s} : t.model # s.model

\* A list of values or a count takes no tags: PostgreSQL would apply them to the one row
\* of the aggregate.
PlainAggregate(q) == q.ord = <<>> /\ q.lim = 0 /\ q.off = 0

\* A joined query has one row for every row around it, and neither tags, which are left
\* out of the statement, nor calls, which would read the row around it.
Joins(q, s) ==
  /\ DependsOnParent(s) /\ s.ord = <<>> /\ s.off = 0 /\ (Exprs(s) # {} => s.sca)
  /\ \A row \in ToSet(db[q.model]) :
        Cardinality({r \in ToSet(db[s.model]) : \A c \in ToSet(s.whr) :
           r[c.key] = Value(c.arg, <<r, row>>, <<>>)}) = 1

\* The fields that a query names without an alias: those that order it, and those of its
\* conditions and columns that share their name with a computed value.
WithoutAlias(q) ==
  {o.key : o \in ToSet(q.ord)}
    \cup {k \in {c.key : c \in ToSet(q.whr)}
                 \cup {e.key : e \in {r \in Refs(q) : ~q.sca /\ r.op = "fn"}} : Computed(q, k)}

\* What a nested query asks of the row around it, and gets without an alias.
AskedWithoutAlias(q, s) ==
  {e.key : e \in {r \in Refs(s) : r.op = "fld" /\ r.up = 1 /\ Computed(q, r.key)}}

\* No name without an alias is one of a field of another table.
Unambiguous(q) ==
  LET joined == {q} \cup {s \in Nested(q) : s.kind = "?"}
  IN /\ \A s \in Nested(q) : AskedWithoutAlias(q, s) \cap ModelFields(s.model) = {}
     /\ \A s, t \in joined : s # t => WithoutAlias(s) \cap ModelFields(t.model) = {}

\* A single value is a column by its name, and a call has none.
HasColumn(q) == q.sca => None \notin NamesOf(q.sel)

\* The part of the language that the PostgreSQL backend executes.
PgSupports(q) ==
  /\ Unique(q.sel) /\ HasColumn(q)
  /\ {o.key : o \in ToSet(q.ord)} \subseteq ModelFields(q.model)
  /\ q.kind = "#" => PlainAggregate(q) /\ Nested(q) = {}
  /\ q.kind = "*" => ~q.sca
  /\ Unambiguous(q)
  /\ q.kind = "?" /\ q.sca => Nested(q) = {} /\ DOMAIN Chosen(q, <<>>, <<>>, db) # {}
  /\ \A s \in Nested(q) :
        /\ Nested(s) = {} /\ Unique(s.sel) /\ HasColumn(s)
        /\ {o.key : o \in ToSet(s.ord)} \subseteq ModelFields(s.model)
        /\ s.kind = "#" => PlainAggregate(s)
        /\ s.kind = "*" => IF s.sca THEN PlainAggregate(s) ELSE Exprs(s) = {}
        /\ s.kind = "?" => Joins(q, s)

-----------------------------------------------------------------------------
(* Properties *)

\* The in-memory backend returns what the document means: the conditions, the order, the
\* offset and the limit apply in this order at every level (exec.go:110), counts agree
\* with lists (exec.go:155), and nested queries see the rows around them (exec.go:81).
MemMeaning ==
  WellFormed /\ (\A q \in AllQueries : MemSupports(q)) /\ (\A q \in RootQueries : Consistent(q))
    => mem # Err /\ Right(mem)

\* The backend by literal returns what the queries of a program mean, over tables that the
\* queries before them may have sorted (qalt/qry_test.go:37-63).
AltMeaning ==
  ~Bad(prog) /\ AltWellFormed /\ (\A q \in AltQueries : AltSupports(q)) => alt # Err /\ AltRight

\* The statements of the PostgreSQL backend return what the document means, for the part
\* of the language that it supports: joins and subselects, whose conditions, columns and
\* aliases belong to the right tables, take the place of nested evaluation (plan.go:115).
PgMeaning ==
  WellFormed /\ (\A i \in DOMAIN tasks : tasks[i].q # None /\ PgSupports(tasks[i].q))
    => pg # Err /\ Right(pg)
=============================================================================
