------------------------------- MODULE QryMem -------------------------------
(***************************************************************************)
(* The in-memory query backend, package qrymem: a table is a list of rows, *)
(* and every task is evaluated for every row that is selected.  An error   *)
(* anywhere ends the whole execution.                                      *)
(***************************************************************************)
EXTENDS QryDoc

CONSTANT Databases   \* the data: a sequence of rows for each model

\* The rows that there are, and all that tables can be made of them.
AllRows == UNION {UNION {ToSet(db[m]) : m \in DOMAIN db} : db \in Databases}
Tables  == [DOMAIN Fields -> Seq(AllRows)]

ASSUME DataAssumption ==
  /\ Databases # {} /\ Databases \subseteq Tables
  /\ \A db \in Databases : \A m \in DOMAIN db : \A row \in ToSet(db[m]) : DOMAIN row = ModelFields(m)

\* The value of an expression.  rows are the rows in scope, the innermost first; done has
\* the results of the root tasks that are done.  Left out is a call on the name of another
\* task of the selection, which is no error if that task is done (env.go:180): it reads
\* what was selected for this row, or, if the task comes later, for the row before.
Value(e, rows, done) ==
  CASE e.op = "lit" -> e.val
    [] e.op = "root" -> IF e.key \in DOMAIN done THEN done[e.key] ELSE Err
    [] OTHER -> IF e.up >= Len(rows) \/ e.key \notin DOMAIN rows[e.up + 1] THEN Err
                ELSE LET v == rows[e.up + 1][e.key] IN IF e.op = "fn" THEN Called(v) ELSE v

\* A condition (eq .key arg) of the innermost row.
Holds(c, rows, done) ==
  LET v == Value(c.arg, rows, done)
  IN IF Bad(v) \/ c.key \notin DOMAIN rows[1] THEN Err ELSE rows[1][c.key] = v

\* The conditions are joined by a call of and, which stops at the first that is not true.
Accepted(whr, rows, done) ==
  LET next(acc, c) == IF acc = TRUE THEN Holds(c, rows, done) ELSE acc
      loop[i \in 0..Len(whr)] == IF i = 0 THEN TRUE ELSE next(loop[i - 1], whr[i])
  IN loop[Len(whr)]

-----------------------------------------------------------------------------
(* Order, offset and limit *)

\* What the comparison function of orderResult returns: the negation for a descending
\* order, so that elements with equal keys are less than each other.
Less(a, b, ord) == IF ord.desc THEN ~(a[ord.key] < b[ord.key]) ELSE a[ord.key] < b[ord.key]

\* Insertion, as the stable sort of the library does it on short slices: x moves to the
\* front as long as it is less than its neighbour.
Insert(s, x, ord) ==
  LET stays == {j \in DOMAIN s : ~Less(x, s[j], ord)} IN InsertAt(s, Max({0} \cup stays) + 1, x)

Sorted(list, ord) ==
  LET loop[i \in 0..Len(list)] == IF i = 0 THEN <<>> ELSE Insert(loop[i - 1], list[i], ord)
  IN loop[Len(list)]

\* Only the first order counts, and its key must be in the result.
OrderResult(list, q) ==
  IF list = Err \/ q.ord = <<>> \/ Len(list) < 2 THEN list
  ELSE IF q.sca \/ q.ord[1].key \notin NamesOf(q.sel) THEN Err
  ELSE Sorted(list, q.ord[1])

\* Mutant: the limit comes before the offset.
SliceLimFirst(list, off, lim) ==
  IF list = Err THEN Err ELSE SubSeq(list, off + 1, IF lim > 0 THEN Min({lim, Len(list)}) ELSE Len(list))

Slice(list, off, lim) ==
  IF list = Err THEN Err ELSE SubSeq(list, off + 1, IF lim > 0 THEN Min({off + lim, Len(list)}) ELSE Len(list))

Count(n, off, lim) ==
  LET left == Max({n - off, 0}) IN IF lim > 0 THEN Min({left, lim}) ELSE left

-----------------------------------------------------------------------------
(* Tasks *)

\* A list with one more value; an error of either is one of both.
Listed(list, v) == IF list = Err \/ v = Err THEN Err ELSE Append(list, v)

\* What the kind of a query makes of its list.
Single(kind, list) ==
  IF list = Err \/ kind = "*" THEN list ELSE IF list = <<>> THEN Null ELSE list[1]

\* The rows of the table that the conditions accept.
MemFilter(q, outer, done, db) ==
  LET table == db[q.model]
      accepted(row) == Accepted(q.whr, <<row>> \o outer, done)
      next(acc, row) == IF acc = Err \/ accepted(row) = Err THEN Err
                        ELSE IF accepted(row) = TRUE THEN Append(acc, row) ELSE acc
      loop[i \in 0..Len(table)] == IF i = 0 THEN <<>> ELSE next(loop[i - 1], table[i])
  IN loop[Len(table)]

\* A count ignores order and selection.
MemCount(kept, q) == IF kept = Err THEN Err ELSE Count(Len(kept), q.off, q.lim)

\* The value of task i for the innermost row; subs has the results of the queries in the
\* selection, for the rows around them.
MemValue(q, i, subs, rows, done) ==
  LET t == q.sel[i]
  IN IF t.q # None THEN subs[i][rows]
     ELSE IF t.el # None THEN Value(t.el, rows, done)
     ELSE rows[1][t.name]

\* One element of a result: the values of all tasks, or that of the only one.
MemRow(q, subs, rows, done) ==
  LET loop[i \in 0..Len(q.sel)] ==
        IF i = 0 THEN <<>>
        ELSE Keyed(loop[i - 1], q.sel[i].name, MemValue(q, i, subs, rows, done))
  IN IF q.sca THEN MemValue(q, 1, subs, rows, done) ELSE loop[Len(q.sel)]

\* All elements of the result, in the order of the table.
MemElems(kept, q, subs, outer, done) ==
  LET loop[i \in 0..Len(kept)] ==
        IF i = 0 THEN <<>> ELSE Listed(loop[i - 1], MemRow(q, subs, <<kept[i]>> \o outer, done))
  IN IF kept = Err THEN Err ELSE loop[Len(kept)]

MemRun(q, subs, outer, done, db) ==
  LET kept == MemFilter(q, outer, done, db)
  IN IF q.model \notin DOMAIN db THEN Err
     ELSE IF q.kind = "#" THEN MemCount(kept, q)
     ELSE Single(q.kind, Slice(OrderResult(MemElems(kept, q, subs, outer, done), q), q.off, q.lim))

\* A nested query is executed for the rows around it.
MemQuery(root, done, db) ==
  LET run[q \in Queries] ==
        [outer \in Seq(AllRows) |->
           MemRun(q, [i \in QueryTasks(q.sel) |-> run[q.sel[i].q]], outer, done, db)]
  IN run[root][<<>>]

\* A root task.
MemTask(t, done, db) == IF t.q # None THEN MemQuery(t.q, done, db) ELSE Value(t.el, <<>>, done)
=============================================================================
