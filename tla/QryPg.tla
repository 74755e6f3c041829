------------------------------- MODULE QryPg -------------------------------
(***************************************************************************)
(* The PostgreSQL query backend, package qrypgx: Analyse turns every root  *)
(* task into one job, in which the queries nested below it are joined or   *)
(* become subselects (plan.go); genSelect writes one statement for the job *)
(* (genpg.go); and the rows are scanned into the result (exec.go).         *)
(*                                                                         *)
(* The code tells tasks apart by their address.  Here a query task is      *)
(* known by its path in the root task: the positions in the selections     *)
(* that lead to it.                                                        *)
(***************************************************************************)
EXTENDS QryDoc

CONSTANT Initial     \* the first letter of each model's name

-----------------------------------------------------------------------------
(* The plan *)

QueryAt(q, path) == FoldLeft(LAMBDA a, i : a.sel[i].q, q, path)
ParentPath(path) == SubSeq(path, 1, Len(path) - 1)

RECURSIVE QueryPaths(_, _)

\* The queries of a root query in the order in which jobs are made for them.
QueryPaths(q, path) ==
  <<path>> \o FlattenSeq([i \in DOMAIN q.sel |->
                IF q.sel[i].q = None THEN <<>> ELSE QueryPaths(q.sel[i].q, Append(path, i))])

\* The aliases tried for a model: its first letter, that letter and a digit, then its
\* name, and its name and a digit.
Candidates(m) ==
  [i \in 1..22 |-> IF i <= 11 THEN <<Initial[m], i - 1>> ELSE <<m, i - 12>>]

\* Mutant: aliases that are taken are not remembered.
AddAliasAlways(al, path, m) == (path :> Candidates(m)[1]) @@ al

\* The first alias that is not taken; none when all are.
AddAlias(al, path, m) ==
  LET free == {i \in 1..22 : Candidates(m)[i] \notin Range(al)}
  IN IF free = {} THEN al ELSE (path :> Candidates(m)[Min(free)]) @@ al

Aliases(q) ==
  FoldLeft(LAMBDA al, p : AddAlias(al, p, QueryAt(q, p).model), <<>>, QueryPaths(q, <<>>))

Refs(q) == {q.whr[i].arg : i \in DOMAIN q.whr}
             \cup {q.sel[i].el : i \in {k \in DOMAIN q.sel : q.sel[k].el # None}}
Ups(q) == {e.up : e \in {f \in Refs(q) : f.op \in {"fld", "fn"}}}

\* Whether a query refers to the row around it: to that of its immediate parent, and not
\* only to one further out.
DependsOnParent(q) == 1 \in Ups(q)

\* A job has a task, its kinds, its columns and its tables (paths of queries).  A column
\* belongs to a job and has a key or an expression, or is the statement of another job.
Job(q, path, kinds, tabs) == [q |-> q, path |-> path, kinds |-> kinds, cols |-> <<>>, tabs |-> tabs]
Column(path, key, el, job) == [path |-> path, key |-> key, el |-> el, job |-> job]

KindsOf(q) ==
  (IF q.sca THEN {"scalar"} ELSE {})
    \cup (CASE q.kind = "#" -> {"count", "scalar"} [] q.kind = "?" -> {"single"} [] OTHER -> {"multi"})

\* A nested job becomes a column of its parent, as a subselect.
Inline(j, s, name) ==
  LET s1 == [s EXCEPT !.kinds = @ \cup {"inlined"} \cup (IF "multi" \in @ THEN {"json"} ELSE {}),
                      !.tabs = Append(@, s.path)]
  IN [j EXCEPT !.kinds = @ \cup {"inline"}, !.cols = Append(@, Column(s.path, name, None, s1))]

\* A nested job gives its own table and its columns to its parent; the tables that were
\* joined to it, and its expressions if it is scalar, are left behind.
Join(j, s) ==
  [j EXCEPT !.kinds = @ \cup {"join"},
            !.tabs = Append(@, s.path),
            !.cols = @ \o (IF "scalar" \in s.kinds
                           THEN <<Column(s.path, s.cols[1].key, None, None)>> ELSE s.cols)]

RECURSIVE JobOf(_, _, _)

JobOf(q, path, tabs) ==
  LET add(j, i) ==
        LET t == q.sel[i] IN
        IF t.q = None THEN [j EXCEPT !.cols = Append(@, Column(path, t.name, t.el, None))]
        ELSE LET s == JobOf(t.q, Append(path, i), <<>>)
             IN IF "single" \notin s.kinds \/ ~DependsOnParent(t.q)
                THEN Inline(j, s, t.name) ELSE Join(j, s)
  IN FoldLeft(add, Job(q, path, KindsOf(q), tabs), [i \in DOMAIN q.sel |-> i])

-----------------------------------------------------------------------------
(* The statement *)

\* A reference to a column, with the alias of its table or without.
Col(alias, key, fn) == [op |-> "col", alias |-> alias, key |-> key, fn |-> fn]

\* Whether the selection of a query has an expression or a query of this name; the code
\* then writes the name as it is.  It compares with the selected fields too, but those have
\* the names of the model, which start with a capital letter, and references do not.
Computed(q, key) == \E i \in DOMAIN q.sel : q.sel[i].name = key /\ (q.sel[i].el # None \/ q.sel[i].q # None)

\* An expression of the query at path base.  A reference to a root task becomes a
\* parameter, if the result of that task is known.
Translate(e, base, root, al, prefix, done) ==
  CASE e.op = "lit" -> e
    [] e.op = "root" -> IF e.key \in DOMAIN done THEN Lit(done[e.key]) ELSE Err
    [] e.up > Len(base) -> Err
    [] OTHER ->
         LET path == SubSeq(base, 1, Len(base) - e.up)
             q    == QueryAt(root, path)
         IN CASE Computed(q, e.key) -> Col(None, e.key, e.op = "fn")
              [] e.key \notin ModelFields(q.model) -> Err
              [] OTHER -> Col(IF prefix THEN al[path] ELSE None, e.key, e.op = "fn")

RECURSIVE GenSelect(_, _, _, _)

\* The statement of a job: columns (references, literals, statements), tables with their
\* aliases, conditions, order, limit and offset.  agg tells what becomes of the rows:
\* nothing, a count, or one list (of values for a scalar job).
GenSelect(j, root, al, done) ==
  LET prefix == j.kinds \cap {"join", "inline"} # {} \/ j.path # <<>>
      scalar == "scalar" \in j.kinds
      column(c) ==
        CASE c.job # None /\ ParentPath(c.path) = j.path ->
               [op |-> "sub", sql |-> GenSelect(c.job, root, al, done)]
          [] c.el # None -> Translate(c.el, j.path, root, al, prefix, done)
          [] OTHER -> Col(IF prefix THEN al[c.path] ELSE None, c.key, FALSE)
      first == Col(IF prefix THEN al[j.path] ELSE None, j.cols[1].key, FALSE)
      cond(p, c) == <<Translate(Fld(0, c.key), p, root, al, prefix, done),
                      Translate(c.arg, p, root, al, prefix, done)>>
      conds(p) == LET w == QueryAt(root, p).whr IN [i \in DOMAIN w |-> cond(p, w[i])]
  IN [agg  |-> CASE "count" \in j.kinds -> "count" [] "json" \in j.kinds -> "json" [] OTHER -> "no",
      sca  |-> scalar,
      cols |-> IF "count" \in j.kinds THEN <<>> ELSE IF scalar THEN <<first>>
               ELSE [i \in DOMAIN j.cols |-> column(j.cols[i])],
      from |-> [i \in DOMAIN j.tabs |->
                  <<IF prefix THEN al[j.tabs[i]] ELSE None, QueryAt(root, j.tabs[i]).model>>],
      whr  |-> FlattenSeq([i \in DOMAIN j.tabs |-> conds(j.tabs[i])]),
      ord  |-> j.q.ord, lim |-> j.q.lim, off |-> j.q.off]

-----------------------------------------------------------------------------
(* PostgreSQL: what the statements mean.  A scope is a function from the     *)
(* aliases of one statement to models or rows; the innermost comes first.    *)

\* The aliases of a scope that a reference can be to.
Owners(col, scope) ==
  {a \in DOMAIN scope : (col.alias = None \/ a = col.alias) /\ col.key \in scope[a]}

\* The innermost scope that has the column decides.
Found(col, scopes) ==
  LET deep == {d \in DOMAIN scopes : Owners(col, scopes[d]) # {}}
  IN IF deep = {} THEN {} ELSE {<<Min(deep), a>> : a \in Owners(col, scopes[Min(deep)])}

\* The names of the output columns.
RECURSIVE OutName(_)
OutName(c) ==
  CASE c.op = "col" /\ ~c.fn -> c.key
    [] c.op = "sub" /\ c.sql.agg = "no" -> OutName(c.sql.cols[1])
    [] OTHER -> None

ScopeOf(sql) == FoldLeft(LAMBDA s, f : (f[1] :> ModelFields(f[2])) @@ s, <<>>, sql.from)

\* What ORDER BY key refers to: an output column of that name, else a column of a table.
OrderCol(sql, key) ==
  LET out == {i \in DOMAIN sql.cols : OutName(sql.cols[i]) = key}
  IN IF out # {} THEN IF Cardinality(out) = 1 THEN sql.cols[Min(out)] ELSE Err
     ELSE Col(None, key, FALSE)

RECURSIVE Valid(_, _)

\* A statement PostgreSQL accepts: every reference is to one column of a table of the
\* statement or of one around it, a subselect has one column, and what is aggregated has
\* no order.
Valid(sql, outer) ==
  LET scopes == <<ScopeOf(sql)>> \o outer
      ok(e) == CASE e = Err -> FALSE
                 [] e.op = "lit" -> TRUE
                 [] e.op = "col" -> Cardinality(Found(e, scopes)) = 1
                 [] OTHER -> (e.sql.agg # "no" \/ Len(e.sql.cols) = 1) /\ Valid(e.sql, scopes)
  IN /\ \A i \in DOMAIN sql.cols : ok(sql.cols[i])
     /\ \A i \in DOMAIN sql.whr : ok(sql.whr[i][1]) /\ ok(sql.whr[i][2])
     /\ \A i \in DOMAIN sql.ord : ok(OrderCol(sql, sql.ord[i].key))
     /\ sql.ord # <<>> => sql.agg # "count" /\ ~(sql.agg = "json" /\ sql.sca)

\* All combinations of rows of the tables, the first table varying slowest.
Product(from, db) ==
  FoldLeft(LAMBDA acc, f : FlattenSeq([i \in DOMAIN acc |->
             [k \in DOMAIN db[f[2]] |-> (f[1] :> db[f[2]][k]) @@ acc[i]]]),
           << <<>> >>, from)

Limited(rows, lim, off) ==
  SubSeq(rows, off + 1, IF lim > 0 THEN Min({off + lim, Len(rows)}) ELSE Len(rows))

\* What becomes of the rows of a statement, each a sequence of column values: a count, one
\* list of values, or one list of objects with the names of the columns.
Object(sql, row) ==
  FoldLeft(LAMBDA rec, c : (OutName(sql.cols[c]) :> row[c]) @@ rec, <<>>, [c \in DOMAIN row |-> c])
List(sql, rows) ==
  IF rows = <<>> THEN Null
  ELSE [i \in DOMAIN rows |-> IF sql.sca THEN rows[i][1] ELSE Object(sql, rows[i])]
Aggregated(sql, rows) ==
  CASE sql.agg = "no" -> Limited(rows, sql.lim, sql.off)
    [] sql.agg = "count" -> Limited(<< <<Len(rows)>> >>, sql.lim, sql.off)
    [] sql.sca -> Limited(<< <<List(sql, rows)>> >>, sql.lim, sql.off)
    [] OTHER -> << <<List(sql, Limited(rows, sql.lim, sql.off))>> >>

\* The outputs of keyed rows in the order of their keys.
SortsBefore(ord, keyed, i, k) ==
  LET differ == {o \in DOMAIN ord : keyed[i].keys[o] # keyed[k].keys[o]}
      o == Min(differ)
  IN IF differ = {} THEN i < k
     ELSE (keyed[i].keys[o] < keyed[k].keys[o]) # ord[o].desc
Ordered(ord, keyed) ==
  LET order == SetToSortSeq(DOMAIN keyed, LAMBDA i, k : SortsBefore(ord, keyed, i, k))
  IN [i \in DOMAIN order |-> keyed[order[i]].out]

\* The column that a reference is to, in the rows around.
Cell(e, env) ==
  LET keys == [d \in DOMAIN env |-> [a \in DOMAIN env[d] |-> DOMAIN env[d][a]]]
      at   == CHOOSE x \in Found(e, keys) : TRUE
  IN env[at[1]][at[2]][e.key]

\* A subselect without rows is null.
FirstValue(rows) == IF rows = <<>> THEN Null ELSE rows[1][1]

RECURSIVE Rows(_, _, _)

\* The value of a column or of one side of a condition.
ColValue(e, env, db) ==
  CASE e.op = "lit" -> e.val
    [] e.op = "col" -> IF e.fn THEN Called(Cell(e, env)) ELSE Cell(e, env)
    [] OTHER -> FirstValue(Rows(e.sql, env, db))

\* The combinations of rows that satisfy the conditions.
Kept(sql, outer, db) ==
  SelectSeq(Product(sql.from, db), LAMBDA r : \A i \in DOMAIN sql.whr :
    ColValue(sql.whr[i][1], <<r>> \o outer, db) = ColValue(sql.whr[i][2], <<r>> \o outer, db))

\* Their columns, with the values that order them.
KeyedRows(kept, sql, outer, db) ==
  [i \in DOMAIN kept |->
     [keys |-> [o \in DOMAIN sql.ord |->
                  ColValue(OrderCol(sql, sql.ord[o].key), <<kept[i]>> \o outer, db)],
      out  |-> [c \in DOMAIN sql.cols |-> ColValue(sql.cols[c], <<kept[i]>> \o outer, db)]]]

\* The rows of a statement that PostgreSQL accepts.
Rows(sql, outer, db) ==
  Aggregated(sql, Ordered(sql.ord, KeyedRows(Kept(sql, outer, db), sql, outer, db)))

-----------------------------------------------------------------------------
(* The results *)

\* A column value as the result of the task t: no list is an empty list, the objects of a
\* list must have the names of the selection, and one value is no record.
Converted(t, v) ==
  CASE t.q = None \/ t.q.kind = "#" -> v
    [] t.q.kind = "?" -> IF t.q.sca THEN v ELSE Err
    [] v = Null -> <<>>
    [] t.q.sca -> v
    [] OTHER -> IF \A i \in DOMAIN v : DOMAIN v[i] = NamesOf(t.q.sel) THEN v ELSE Err

\* The column of the job that is scanned into the result of task i of its selection, or
\* into the field key of that result if the task was joined; the last one stays.
ColumnFor(j, i, key) ==
  LET t == j.q.sel[i]
      at == IF t.q = None THEN j.path ELSE Append(j.path, i)
  IN Max({c \in DOMAIN j.cols : j.cols[c].path = at /\ (key = None \/ j.cols[c].key = key)})

\* The value of task i of the selection in a row.
ScanValue(j, i, row) ==
  LET t == j.q.sel[i]
  IN CASE t.q = None -> row[ColumnFor(j, i, t.name)]
       [] t.q.kind # "?" \/ ~DependsOnParent(t.q) \/ t.q.sca ->
            Converted(t, row[ColumnFor(j, i, None)])
       [] OTHER -> [n \in NamesOf(t.q.sel) |-> row[ColumnFor(j, i, n)]]

\* A row as a result.
ScanRow(j, row) ==
  FoldLeft(LAMBDA rec, i : Keyed(rec, j.q.sel[i].name, ScanValue(j, i, row)),
           <<>>, [i \in DOMAIN j.q.sel |-> i])

\* A scalar job wants exactly one row, and cannot assign its value to a list.
ScanScalar(j, rows) ==
  IF Len(rows) # 1 \/ "multi" \in j.kinds THEN Err ELSE rows[1][1]

ScanOne(j, rows) ==
  CASE rows = <<>> -> Null
    [] Len(rows) > 1 -> Err
    [] OTHER -> ScanRow(j, rows[1])

ScanMany(j, rows) ==
  LET list == [i \in DOMAIN rows |-> ScanRow(j, rows[i])]
  IN IF \E i \in DOMAIN list : list[i] = Err THEN Err ELSE list

Scanned(j, rows) ==
  CASE "scalar" \in j.kinds -> ScanScalar(j, rows)
    [] "single" \in j.kinds -> ScanOne(j, rows)
    [] OTHER -> ScanMany(j, rows)

\* A job is executed as one statement.
ExecStatement(j, sql, db) ==
  IF Valid(sql, <<>>) THEN Scanned(j, Rows(sql, <<>>, db)) ELSE Err
ExecRoot(j, q, done, db) == ExecStatement(j, GenSelect(j, q, Aliases(q), done), db)
PgQuery(q, done, db) == ExecRoot(JobOf(q, <<>>, << <<>> >>), q, done, db)
=============================================================================
