------------------------------- MODULE Query -------------------------------
(***************************************************************************)
(* One evaluation of a query document (QryEnv.Qry): it is resolved, and    *)
(* then executed task by task by the in-memory backend.  Before that the   *)
(* same document is given as a program to the alternative form and its     *)
(* backend, over the same data.                                            *)
(***************************************************************************)
EXTENDS QryAlt

CONSTANT Docs        \* the sources of query documents

ASSUME DocsAssumption ==
  /\ Docs # {}
  /\ \A d \in Docs : d \in Seq(ToSet(d))
  /\ UNION {{d[i].el.q : i \in {k \in DOMAIN d : d[k].el.op = "qry"}} : d \in Docs} \subseteq Sources

VARIABLES doc,       \* the source
          db,        \* the data
          stage,     \* "program", "alt", "source", "mem", "end" or "refused"
          prog,      \* the planned queries of the program, Err or Panic
          alt,       \* the results of the program so far, or Err
          data,      \* the tables of the backend by literal
          tasks,     \* Doc.Root, the resolved tasks
          mem        \* the results of the tasks so far, or Err

docVars == <<tasks, mem>>
altVars == <<prog, alt, data>>
vars == <<doc, db, stage, docVars, altVars>>

Init ==
  /\ doc \in Docs /\ db \in Databases
  /\ stage = "program" /\ prog = <<>> /\ alt = <<>> /\ data = db
  /\ tasks = <<>> /\ mem = <<>>

\* The next task of an execution has the result r; an error ends it.
Continued(results, r) == IF r = Err THEN Err ELSE Append(results, r)
NextStage(now, results, all, next) ==
  IF results = Err \/ Len(results) = Len(all) THEN next ELSE now

\* The first pass over the program resolves and plans all queries, or fails.
Planned(ps) ==
  /\ prog' = ps
  /\ stage' = IF Bad(ps) THEN "source" ELSE NextStage("alt", alt, ps, "source")

Plan ==
  /\ stage = "program"
  /\ Planned(AltProgram(doc))
  /\ UNCHANGED <<doc, db, alt, data, docVars>>

\* The form resolves the document, or refuses it.
Resolved(ts) ==
  IF Bad(ts) THEN stage' = "refused" /\ UNCHANGED tasks
             ELSE stage' = NextStage("mem", mem, ts, "end") /\ tasks' = ts

Resolve ==
  /\ stage = "source"
  /\ Resolved(ResolveDoc(doc))
  /\ UNCHANGED <<doc, db, mem, altVars>>

\* The tasks that the in-memory backend has marked as done: all that it has executed.
MemMarks == DOMAIN mem

\* The results that root tasks can refer to by a name: that of the first task of the name,
\* if it is marked.
DoneIn(results, marked) ==
  LET first(n) == Min({i \in DOMAIN tasks : tasks[i].name = n})
  IN [n \in {tasks[i].name : i \in {k \in marked : k = first(tasks[k].name)}} |-> results[first(n)]]

\* The next pass executes the jobs, one after the other, over the tables as they are.
Executed(out) == alt' = Continued(alt, out.val) /\ data' = out.data

ExecPlanned ==
  /\ stage = "alt"
  /\ Executed(AltTask(prog[Len(alt) + 1], data))
  /\ stage' = NextStage("alt", alt', prog, "source")
  /\ UNCHANGED <<doc, db, prog, docVars>>

\* The in-memory backend executes the next root task.
ExecTask ==
  /\ stage = "mem"
  /\ mem' = Continued(mem, MemTask(tasks[Len(mem) + 1], DoneIn(mem, MemMarks), db))
  /\ stage' = NextStage("mem", mem', tasks, "end")
  /\ UNCHANGED <<doc, db, tasks, altVars>>

Finished == stage \in {"end", "refused"} /\ UNCHANGED vars

Next == Plan \/ ExecPlanned \/ Resolve \/ ExecTask \/ Finished

Spec == Init /\ [][Next]_vars

-----------------------------------------------------------------------------
(* Properties *)

RootQueries == {tasks[i].q : i \in {k \in DOMAIN tasks : tasks[k].q # None}}
AltQueries  == {prog[i].q : i \in {k \in DOMAIN prog : prog[k].q # None}}
Unique(sel) == \A i, k \in DOMAIN sel : sel[i].name = sel[k].name => i = k

QueriesTyped ==
  \A q \in Queries :
     /\ \A i \in QueryTasks(q.sel) : q.sel[i].q \in Queries
     /\ q.kind = "?" => q.lim = 1
     /\ q.sca => Len(q.sel) = 1
     /\ \A i \in DOMAIN q.sel : q.sel[i].el = None /\ q.sel[i].q = None
                                 => q.sel[i].name \in ModelFields(q.model)

TypeOK ==
  /\ stage \in {"program", "alt", "source", "mem", "end", "refused"}
  /\ Bad(prog) \/ AltQueries \subseteq AltPlans
  /\ alt # Err => Bad(prog) \/ Len(alt) <= Len(prog)
  /\ RootQueries \subseteq Queries /\ QueriesTyped
  /\ mem # Err => Len(mem) <= Len(tasks)

\* The mode in force at declaration i is the last one that was set; a _ sets + as well.
ModeAt(decl, i) ==
  LET set == {k \in 1..i : decl[k].mode # None}
  IN IF set = {} THEN None ELSE IF decl[Max(set)].mode = "_" THEN "+" ELSE decl[Max(set)].mode

\* Of the declarations after the last _ up to the n-th, those that count for a name.
Start(decl, n) == Max({0} \cup {i \in 1..n : decl[i].mode = "_"})
Says(decl, n, name) ==
  {i \in 1..n : i > Start(decl, n) /\ decl[i].name = name /\ ModeAt(decl, i) # None}

\* The names that the first n declarations of a source select.
SelectedBy(src, n) ==
  LET fields == ModelFields(src.model)
      last(name) == Max(Says(src.decl, n, name))
  IN {name \in (fields \cup {src.decl[i].name : i \in 1..n}) \ {None} :
        IF Says(src.decl, n, name) = {} THEN Start(src.decl, n) = 0 /\ name \in fields
        ELSE ModeAt(src.decl, last(name)) = "+"}

Selected(src) == SelectedBy(src, Len(src.decl))

\* Expressions are given names of their own: the code adds them without a look at the
\* names that are already there.
NewNames(src) ==
  LET defs == {i \in DOMAIN src.decl : src.decl[i].el # None}
  IN \A i \in defs : /\ src.decl[i].name \notin ModelFields(src.model)
                      /\ \A k \in defs : src.decl[i].name = src.decl[k].name => i = k

\* Queries are typed, and a selection is what the last word on every name makes it:
\* included or excluded by the mode in force, and otherwise a field that no _ has dropped
\* (resolver.go:313), also in the alternative form, which knows the names that are already
\* there (qalt/sel.go:134).
SelectionMeaning ==
  /\ TypeOK
  /\ \A i \in DOMAIN tasks :
       tasks[i].q # None /\ ~tasks[i].q.sca /\ NewNames(doc[i].el.q) =>
          NamesOf(tasks[i].q.sel) = Selected(doc[i].el.q) /\ Unique(tasks[i].q.sel)
  /\ ~Bad(prog) => \A i \in DOMAIN prog :
       prog[i].q # None /\ ~prog[i].q.sca =>
          NamesOf(prog[i].q.sel) = Selected(doc[i].el.q) /\ Unique(prog[i].q.sel)

\* Queries move the rows of a table at most: every table has the rows that it had, each as
\* often, however the query ends.
RowsKept ==
  \A m \in DOMAIN db :
     \E p \in Bijection(DOMAIN db[m], DOMAIN db[m]) : data[m] = [i \in DOMAIN db[m] |-> db[m][p[i]]]
=============================================================================
