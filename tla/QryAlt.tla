------------------------------- MODULE QryAlt -------------------------------
(***************************************************************************)
(* The alternative query form and its backend by literal, package qalt.    *)
(*                                                                         *)
(* A query is an expression of its own.  A program with queries is         *)
(* evaluated in passes: the first resolves and plans every query, the next *)
(* executes the jobs.  A query in a selection is planned and executed for  *)
(* every row.                                                              *)
(*                                                                         *)
(* The tables of the backend are lists in memory.  A query without         *)
(* conditions sorts the list of its table in place, so an execution yields *)
(* a result and the tables as it leaves them: [val, data].                 *)
(***************************************************************************)
EXTENDS QryMem

(* Selections *)

\* A field takes the place of one with its name.
With(sel, t) ==
  IF t.name \in NamesOf(sel) THEN [i \in DOMAIN sel |-> IF sel[i].name = t.name THEN t ELSE sel[i]]
  ELSE Append(sel, t)

\* A name that is not selected is not missed.
AltExclude(s, d) ==
  IF d.el # None THEN Ended(s, Err)
  ELSE IF d.name \notin NamesOf(s.res) THEN s
  ELSE [s EXCEPT !.res = RemoveAt(@, FirstNamed(@, d.name))]

AltInclude(s, d, fields, t) ==
  IF d.el # None THEN IF Bad(t) THEN Ended(s, t) ELSE [s EXCEPT !.res = With(@, t)]
  ELSE IF d.name \notin fields THEN Ended(s, Err)
  ELSE [s EXCEPT !.res = With(@, FieldTask(d.name))]

AltNamed(s, d, fields, t) ==
  LET s1 == IF d.mode = None THEN s ELSE [s EXCEPT !.mode = d.mode]
  IN CASE s1.mode = "-" -> AltExclude(s1, d)
       [] s1.mode = "+" -> AltInclude(s1, d, fields, t)
       [] OTHER -> s1

\* A single value must come last.
AltScalar(s, last, t) ==
  IF ~last THEN Ended(s, Err)
  ELSE IF Bad(t) THEN Ended(s, t)
  ELSE [mode |-> "+", res |-> <<t>>, end |-> "scalar"]

AltDeclared(s, last, d, fields, t) ==
  IF s.end # None THEN s
  ELSE IF d.mode = "_" THEN IF d.el = None THEN Reset(s) ELSE AltScalar(s, last, t)
  ELSE IF d.name # None THEN AltNamed(s, d, fields, t)
  ELSE IF d.mode = None THEN Ended(s, Err)
  ELSE Bare(s, d)

\* A query notes itself with the field that it is part of, and an unnamed value has none.
\* Symbols are left for the execution to find.
AltResolveTask(name, el, q) ==
  IF el.op # "qry" THEN Task(name, el, None)
  ELSE IF name = None THEN Panic
  ELSE IF Bad(q) THEN q
  ELSE Task(name, None, q)

AltSel(model, decl, subs) ==
  LET task(i) == IF decl[i].el = None THEN None
                 ELSE AltResolveTask(decl[i].name, decl[i].el, subs[i])
      loop[i \in 0..Len(decl)] ==
        IF i = 0 THEN [mode |-> None, res |-> FieldTasks(model), end |-> None]
        ELSE AltDeclared(loop[i - 1], i = Len(decl), decl[i], ModelFields(model), task(i))
  IN loop[Len(decl)]

\* The keys of an order are looked for in the selection first, and then in the subject.
AltOrd(o, keys) == [key |-> o.key, desc |-> o.desc, subj |-> o.key \notin keys]

AltResolution(src, subs) ==
  IF src.model \notin DOMAIN Fields THEN Err ELSE
  LET o == Tags(src.tags)
      s == AltSel(src.model, src.decl, subs)
      keys == IF s.end = "scalar" THEN {} ELSE NamesOf(s.res)
  IN IF Bad(s.end) THEN s.end
     ELSE IF o = Err THEN Err
     ELSE IF \E i \in DOMAIN o.ord : o.ord[i].key \notin keys \cup ModelFields(src.model) THEN Err
     ELSE [kind |-> src.kind, model |-> src.model, whr |-> src.whr,
           ord |-> [i \in DOMAIN o.ord |-> AltOrd(o.ord[i], keys)],
           off |-> o.off, lim |-> o.lim, sel |-> s.res, sca |-> s.end = "scalar"]

AltResolve[src \in Sources] ==
  AltResolution(src, [i \in SubQueries(src.decl) |-> AltResolve[src.decl[i].el.q]])

AltPlans == {AltResolve[src] : src \in Sources} \ {Err, Panic}

\* The first pass over a program: its queries, or the first error.
AltProgram(doc) ==
  LET query(d) == IF d.el.op = "qry" THEN AltResolve[d.el.q] ELSE None
      task(d, q) == Task(d.name, IF q = None THEN d.el ELSE None, q)
      next(ts, d) == IF Bad(ts) THEN ts
                     ELSE IF Bad(query(d)) THEN query(d) ELSE Append(ts, task(d, query(d)))
      loop[i \in 0..Len(doc)] == IF i = 0 THEN <<>> ELSE next(loop[i - 1], doc[i])
  IN loop[Len(doc)]

-----------------------------------------------------------------------------
(* Execution *)

Out(val, data) == [val |-> val, data |-> data]

\* A row of the subject and the element of the result that is made of it.
Pair(row, elem) == [row |-> row, elem |-> elem]

OrdValue(p, o) == IF o.subj THEN p.row[o.key] ELSE p.elem[o.key]

\* Mutant: only the last key counts.
AltLessByLast(p, r, ord) ==
  LET last == Len(ord)
      less == OrdValue(p, ord[last]) < OrdValue(r, ord[last])
  IN IF ord[last].desc THEN ~less ELSE less

\* The next key counts if this one is the same; the last one always does, and is negated
\* for a descending order.
AltLess(p, r, ord) ==
  LET differ == {i \in DOMAIN ord : OrdValue(p, ord[i]) # OrdValue(r, ord[i])}
      last   == IF differ = {} THEN Len(ord) ELSE Min(differ)
      less   == OrdValue(p, ord[last]) < OrdValue(r, ord[last])
  IN IF ord[last].desc THEN ~less ELSE less

\* One insertion of the stable sort, which moves the rows along with the elements.
AltInsert(s, x, ord) ==
  LET stays == {j \in DOMAIN s : ~AltLess(x, s[j], ord)} IN InsertAt(s, Max({0} \cup stays) + 1, x)

AltSorted(pairs, ord) ==
  LET loop[i \in 0..Len(pairs)] == IF i = 0 THEN <<>> ELSE AltInsert(loop[i - 1], pairs[i], ord)
  IN loop[Len(pairs)]

\* The results of nested queries that are not counts have no order.
Orderable(q, o) ==
  o.subj \/ \A t \in ToSet(q.sel) : t.name = o.key => t.q = None \/ t.q.kind = "#"

AltOrder(q, pairs) ==
  IF q.ord = <<>> \/ Len(pairs) < 2 THEN pairs
  ELSE IF \E i \in DOMAIN q.ord : ~Orderable(q, q.ord[i]) THEN Err
  ELSE AltSorted(pairs, q.ord)

\* Mutant: the rows that are kept are collected in the list of the table itself.
AltKeepsInPlace(q, rows, data) == [data EXCEPT ![q.model] = rows]

\* The rows that are sorted along are the list of the table if there are no conditions.
AltLeaves(q, rows, data) == IF q.whr = <<>> THEN [data EXCEPT ![q.model] = rows] ELSE data

\* The rows that belong to the elements: those that were kept, or the table as it is now.
AltRows(q, kept, data) == IF q.whr = <<>> THEN data[q.model] ELSE kept

\* What is left to do when all rows were looked at.
AltFinish(q, pairs, data) ==
  IF pairs = Err THEN Out(Err, data)
  ELSE Out(Single(q.kind, Slice([i \in DOMAIN pairs |-> pairs[i].elem], q.off, q.lim)),
           AltLeaves(q, [i \in DOMAIN pairs |-> pairs[i].row], data))

AltCollected(q, st) ==
  IF st.elems = Err THEN Out(Err, st.data)
  ELSE LET rows == AltRows(q, st.rows, st.data)
       IN AltFinish(q, AltOrder(q, [i \in DOMAIN st.elems |-> Pair(rows[i], st.elems[i])]), st.data)

\* A count looks at the conditions only.
AltCount(q, outer, data) ==
  LET kept == MemFilter(q, outer, <<>>, data)
  IN Out(IF kept = Err THEN Err ELSE Count(Len(kept), q.off, q.lim), data)

\* The value of task i for the innermost row; subs has the executions of the queries in
\* the selection, for the rows around them and the tables as they are.
AltValue(q, i, subs, rows, data) ==
  LET t == q.sel[i]
  IN IF t.q # None THEN subs[i][rows][data]
     ELSE IF t.el # None THEN Out(Value(t.el, rows, <<>>), data)
     ELSE Out(rows[1][t.name], data)

\* The element for a row; without a selection it is the row itself.
AltElem(q, subs, rows, data) ==
  LET keyed(out, name, v) == Out(Keyed(out.val, name, v.val), v.data)
      next(out, i) == IF out.val = Err THEN out
                      ELSE keyed(out, q.sel[i].name, AltValue(q, i, subs, rows, out.data))
      loop[i \in 0..Len(q.sel)] == IF i = 0 THEN Out(<<>>, data) ELSE next(loop[i - 1], i)
  IN IF q.sel = <<>> THEN Out(rows[1], data)
     ELSE IF q.sca THEN AltValue(q, 1, subs, rows, data)
     ELSE loop[Len(q.sel)]

\* One round of the loop, with the row that is at its place by now.
AltRow(q, subs, outer, st, row) ==
  LET accepted == Accepted(q.whr, <<row>> \o outer, <<>>)
      e == AltElem(q, subs, <<row>> \o outer, st.data)
  IN IF st.elems = Err \/ accepted = FALSE THEN st
     ELSE IF accepted = Err THEN [st EXCEPT !.elems = Err]
     ELSE [rows |-> Append(st.rows, row), elems |-> Listed(st.elems, e.val), data |-> e.data]

AltCollect(q, subs, outer, data) ==
  LET next(st, i) == AltRow(q, subs, outer, st, st.data[q.model][i])
      loop[i \in 0..Len(data[q.model])] ==
        IF i = 0 THEN [rows |-> <<>>, elems |-> <<>>, data |-> data] ELSE next(loop[i - 1], i)
  IN loop[Len(data[q.model])]

AltRun(q, subs, outer, data) ==
  IF q.kind = "#" THEN AltCount(q, outer, data)
  ELSE AltCollected(q, AltCollect(q, subs, outer, data))

\* A nested query is executed for the rows around it.
AltQuery[q \in AltPlans] ==
  [outer \in Seq(AllRows) |->
     [data \in Tables |->
        AltRun(q, [i \in QueryTasks(q.sel) |-> AltQuery[q.sel[i].q]], outer, data)]]

\* A query or another argument of the program.
AltTask(t, data) ==
  IF t.q # None THEN AltQuery[t.q][<<>>][data] ELSE Out(Value(t.el, <<>>, <<>>), data)
=============================================================================
