------------------------------- MODULE PgExpr -------------------------------
(***************************************************************************)
(* gen/genpg, gen.Prec: an expression of a query's condition or selection  *)
(* is written as PostgreSQL text.  The writer decides on parentheses by    *)
(* comparing the precedence of the enclosing operator with that of the     *)
(* operator it writes, and it collects the external symbols as the         *)
(* statement's parameters $1, $2, ...                                      *)
(*                                                                         *)
(* Text is a sequence of tokens; quoting, keywords and the formatting of   *)
(* literals are left out.  An element is an exp.El: a symbol, a literal    *)
(* (Atom) or a call, with the type it was resolved to.                     *)
(***************************************************************************)
EXTENDS Integers, Sequences, SequencesExt, FiniteSetsExt

CONSTANTS
    PgQueries,  \* the queries that are written: a selected element, then the conditions
    PgValues    \* type -> the values a symbol of the type may have

ASSUME PgAssumption == \A t \in DOMAIN PgValues : PgValues[t] # {}

VARIABLES
    query,      \* the query that is written, or <<>>
    written,    \* how many of its elements are written
    text        \* the writer: text.out are the tokens so far

pgVars == <<query, written, text>>

Sym(name, t)    == [k |-> "sym", n |-> name, t |-> t, args |-> <<>>]
Lit(token, t)   == [k |-> "lit", n |-> token, t |-> t, args |-> <<>>]
Call(f, t, args) == [k |-> "call", n |-> f, t |-> t, args |-> args]

-----------------------------------------------------------------------------
(* the writer: text, the precedence of the enclosing operator, parameters  *)

PrecOr  == 1
PrecAnd == 2
PrecNot == 3
PrecIs  == 4
PrecCmp == 5
PrecDef == 7
PrecAdd == 8
PrecMul == 9

NewWriter == [out |-> <<>>, prec |-> 0, params |-> <<>>, err |-> FALSE]
Put(w, tokens) == [w EXCEPT !.out = @ \o tokens]
PutIf(w, c, token) == IF c THEN Put(w, <<token>>) ELSE w

(* Prec: parentheses for an operator that binds less than the enclosing    *)
(* one, closed by the restore function that it returns.                    *)
Open(w, prec) == [PutIf(w, w.prec > prec, "(") EXCEPT !.prec = prec]
Close(w, org, prec) == [PutIf(w, org > prec, ")") EXCEPT !.prec = org]

(* Translate: a parameter is found by its name; a name that is no key is   *)
(* external and becomes the next parameter.                                *)
External == {"$p", "$q"}
Dollar(i) == <<"$1", "$2", "$3", "$4">>[i]
Translate(w, name) ==
    LET known == {i \in DOMAIN w.params : w.params[i] = name}
    IN CASE known # {} -> Put(w, <<Dollar(Min(known))>>)
         [] known = {} /\ name \in External ->
              Put([w EXCEPT !.params = Append(@, name)], <<Dollar(Len(w.params) + 1)>>)
         [] OTHER -> Put(w, <<name>>)

(* zeroStrings: the texts an element is compared with to make it a bool    *)
ZeroStrings(t) == CASE t = "int"  -> <<"0">>
                    [] t = "str"  -> <<"''">>
                    [] t = "list" -> <<"'null'", "'[]'">>
                    [] OTHER      -> <<>>

SqlOp == [or |-> "OR", and |-> "AND", bool |-> "AND", not |-> "AND",
          add |-> "+", sub |-> "-", mul |-> "*", div |-> "/", cat |-> "||",
          eq |-> "=", ne |-> "!=", equal |-> "=",
          lt |-> "<", gt |-> ">", le |-> "<=", ge |-> ">="]
SqlType(t) == CASE t = "int" -> "int8" [] t = "str" -> "text" [] OTHER -> t

Logic == {"or", "and", "bool", "not"}
Arith == {"add", "sub", "mul", "div", "cat"}
Eq    == {"eq", "ne", "equal"}
Cmp   == {"lt", "gt", "le", "ge"}

(* Mutant: one precedence for all of arithmetic.                           *)
OpPrecFlat(f) == CASE f = "or" -> PrecOr [] f \in Logic \ {"or"} -> PrecAnd
                   [] f \in {"cat", "if"} -> PrecDef [] OTHER -> PrecAdd

OpPrec(f) == CASE f = "or" -> PrecOr [] f \in Logic \ {"or"} -> PrecAnd
               [] f \in {"add", "sub"} -> PrecAdd [] f \in {"mul", "div"} -> PrecMul
               [] f \in {"cat", "if"} -> PrecDef

RECURSIVE WriteEl(_, _)

(* writeString: the element alone.  It is written by a copy of the writer: *)
(* at the same precedence, and the parameters it adds are the copy's.      *)
WriteString(w, e) == WriteEl([w EXCEPT !.out = <<>>], e)

(* writeBool: an element as a condition, negated if not                    *)
WriteBool(w, not, e) ==
    LET zero == ZeroStrings(e.t)
        op   == IF not THEN "=" ELSE "!="
        both == IF not THEN "OR" ELSE "AND"
        one(v, i) == Put(WriteEl(v, e), <<op, zero[i]>>)
        prec == CASE e.t = "bool" -> PrecNot [] e.t = "opt" -> PrecIs
                  [] Len(zero) = 1 -> PrecCmp [] not -> PrecOr [] OTHER -> PrecAnd
        open == Open(w, prec)
    IN CASE e.t = "bool" /\ ~not -> WriteEl(w, e)
         [] e.t = "bool" /\ not  -> Close(WriteEl(Put(open, <<"NOT">>), e), w.prec, prec)
         [] e.t = "opt" ->
              Close(Put(WriteEl(open, e), <<IF not THEN "IS NULL" ELSE "IS NOT NULL">>), w.prec, prec)
         [] Len(zero) = 1 -> Close(one(open, 1), w.prec, prec)
         [] Len(zero) = 2 ->
              Close(one([Put(one(open, 1), <<both>>) EXCEPT !.prec = PrecCmp], 2), w.prec, prec)

WriteLogic(w, e) ==
    LET prec == OpPrec(e.n)
        arg(v, i) == WriteBool(PutIf(v, i > 1, SqlOp[e.n]), e.n = "not", e.args[i])
    IN Close(FoldLeftDomain(arg, Open(w, prec), e.args), w.prec, prec)

(* writeArith and writeCat *)
WriteArith(w, e) ==
    LET prec == OpPrec(e.n)
        arg(v, i) == WriteEl(PutIf(v, i > 1, SqlOp[e.n]), e.args[i])
    IN Close(FoldLeftDomain(arg, Open(w, prec), e.args), w.prec, prec)

(* renderIf: CASE WHEN condition THEN value ... ELSE value END             *)
WriteIf(w, e) ==
    LET els(i) == i = Len(e.args) /\ i % 2 = 1
        arg(v, i) == CASE els(i)     -> WriteEl(Put(v, <<"ELSE">>), e.args[i])
                       [] i % 2 = 0 -> WriteEl(Put(v, <<"THEN">>), e.args[i])
                       [] OTHER     -> WriteBool(Put(v, <<"WHEN">>), FALSE, e.args[i])
    IN Close(Put(FoldLeftDomain(arg, Put(Open(w, PrecDef), <<"CASE">>), e.args), <<"END">>),
             w.prec, PrecDef)

(* The comparisons of more than two operands are joined by AND.            *)
ManyPrec(w, e) == IF Len(e.args) > 2 THEN PrecAnd ELSE w.prec

(* writeEq: the first operand is written once and compared with each other *)
WriteEq(w, e) ==
    LET prec == ManyPrec(w, e)
        open == Open(w, prec)
        fst  == WriteString(open, e.args[1])
        type(tokens) == <<"pg_typeof(">> \o tokens \o <<")">>
        lax(v, i) == Close(WriteEl(Put(Open(v, PrecCmp), Append(fst.out, SqlOp[e.n])), e.args[i + 1]),
                           v.prec, PrecCmp)
        same(v, oth) == Put([v EXCEPT !.err = @ \/ oth.err],
                            <<"(">> \o fst.out \o <<SqlOp[e.n]>> \o oth.out \o <<"AND">>
                            \o type(fst.out) \o <<SqlOp[e.n]>> \o type(oth.out) \o <<")">>)
        arg(v, i) == LET u == PutIf(v, i > 1, "AND")
                     IN IF e.n = "equal" THEN same(u, WriteString(u, e.args[i + 1])) ELSE lax(u, i)
    IN Close(FoldLeftDomain(arg, [open EXCEPT !.err = @ \/ fst.err], Tail(e.args)), w.prec, prec)

(* writeCmp: each operand is compared with the next *)
WriteCmp(w, e) ==
    LET prec == ManyPrec(w, e)
        open == Open(w, prec)
        first == WriteString(open, e.args[1])
        arg(s, i) ==
            LET v   == Open(PutIf(s.w, i > 1, "AND"), PrecCmp)
                oth == WriteString(v, e.args[i + 1])
            IN [w |-> Close([Put(v, s.last \o <<SqlOp[e.n]>> \o oth.out) EXCEPT !.err = @ \/ oth.err],
                            s.w.prec, PrecCmp),
                last |-> oth.out]
        all == FoldLeftDomain(arg, [w |-> [open EXCEPT !.err = @ \/ first.err], last |-> first.out],
                              Tail(e.args))
    IN Close(all.w, w.prec, prec)

(* writeCon: a conversion of an element that is no literal *)
WriteCon(w, e) == Put(WriteEl(w, e.args[1]), <<"::", SqlType(e.t)>>)

(* WriteEl, WriteExpr *)
WriteEl(w, e) ==
    CASE e.k = "sym" -> Translate(w, e.n)
      [] e.k = "lit" -> Put(w, <<e.n>>)
      [] e.k = "call" /\ e.n \in Logic -> WriteLogic(w, e)
      [] e.k = "call" /\ e.n \in Arith -> WriteArith(w, e)
      [] e.k = "call" /\ e.n \in Eq    -> WriteEq(w, e)
      [] e.k = "call" /\ e.n \in Cmp   -> WriteCmp(w, e)
      [] e.k = "call" /\ e.n = "if"    -> WriteIf(w, e)
      [] e.k = "call" /\ e.n = "con"   -> WriteCon(w, e)
      [] OTHER -> [w EXCEPT !.err = TRUE]

-----------------------------------------------------------------------------
(* how PostgreSQL reads a text: the loosest operator that is in no bracket *)
(* splits it; operators of one precedence group to the left, except the    *)
(* comparisons, which do not group at all.                                 *)

Opening == {"(", "CASE", "pg_typeof("}
Closing == {")", "END"}
Node(op, args) == [op |-> op, args |-> args]
SyntaxError == Node("syntax error", <<>>)

RECURSIVE Parse(_)
Parse(t) ==
    LET count(i, set) == Cardinality({j \in 1..i : t[j] \in set})
        top == {i \in DOMAIN t : t[i] \notin Closing /\ count(i - 1, Opening) = count(i - 1, Closing)}
        at(ops) == {i \in top : t[i] \in ops}
        compared == at({"=", "!=", "<", ">", "<=", ">="})
        inner == SubSeq(t, 2, Len(t) - 1)
        split(i) == Node(t[i], <<Parse(SubSeq(t, 1, i - 1)), Parse(SubSeq(t, i + 1, Len(t)))>>)
        branches == {i \in 2..Len(t) - 1 : /\ t[i] \in {"WHEN", "THEN", "ELSE"}
                                           /\ count(i, Opening) = count(i, Closing) + 1}
        cuts == SetToSortSeq(branches \cup {Len(t)}, <)
        level(ops) == at(ops) # {}
    IN IF t = <<>> THEN SyntaxError
       ELSE IF level({"OR"})  THEN split(Max(at({"OR"})))
       ELSE IF level({"AND"}) THEN split(Max(at({"AND"})))
       ELSE IF t[1] = "NOT"   THEN Node("NOT", <<Parse(Tail(t))>>)
       ELSE IF Last(t) \in {"IS NULL", "IS NOT NULL"} THEN Node(Last(t), <<Parse(Front(t))>>)
       ELSE IF Cardinality(compared) > 1 THEN SyntaxError
       ELSE IF Cardinality(compared) = 1 THEN split(Max(compared))
       ELSE IF level({"||"})     THEN split(Max(at({"||"})))
       ELSE IF level({"+", "-"}) THEN split(Max(at({"+", "-"})))
       ELSE IF level({"*", "/"}) THEN split(Max(at({"*", "/"})))
       ELSE IF Len(t) = 1        THEN Node(t[1], <<>>)
       ELSE IF level({"::"})     THEN split(Max(at({"::"})))
       ELSE IF t[1] = "("          THEN Parse(inner)
       ELSE IF t[1] = "pg_typeof(" THEN Node("pg_typeof", <<Parse(inner)>>)
       ELSE IF t[1] = "CASE"
            THEN Node("CASE", [j \in 1..Len(cuts) - 1 |->
                                  Parse(SubSeq(t, cuts[j] + 1, cuts[j + 1] - 1))])
       ELSE SyntaxError

(* Values are <<type, number>>: a bool is 0 or 1, a str is its length, a   *)
(* list -1 for JSON's null and its length otherwise, an opt without a      *)
(* value is NULL.  Every value that cannot be computed is Failed.          *)
Failed == <<"failed", 0>>
Null   == <<"null", 0>>
Bool(b) == <<"bool", IF b THEN 1 ELSE 0>>
True(v) == v = Bool(TRUE)

Compares(op, m, n) == CASE op \in {"=", "eq", "equal"} -> m = n [] op \in {"!=", "ne"} -> m # n
                        [] op \in {"<", "lt"}  -> m < n  [] op \in {">", "gt"}  -> m > n
                        [] op \in {"<=", "le"} -> m <= n [] op \in {">=", "ge"} -> m >= n
Computes(op, m, n) == CASE op \in {"+", "add", "||", "cat"} -> m + n [] op \in {"-", "sub"} -> m - n
                        [] op \in {"*", "mul"} -> m * n [] op \in {"/", "div"} -> m \div n
Compare(op, u, v) == IF Failed \in {u, v} \/ u[1] # v[1] THEN Failed ELSE Bool(Compares(op, u[2], v[2]))
Compute(op, u, v) ==
    CASE Failed \in {u, v} \/ u[1] # v[1]       -> Failed
      [] op \in {"/", "div"} /\ v[2] = 0        -> Failed
      [] (op \in {"||", "cat"}) # (u[1] = "str") -> Failed
      [] OTHER -> <<u[1], Computes(op, u[2], v[2])>>

LiteralValue(token) ==
    CASE token = "0" -> <<"int", 0>> [] token = "1" -> <<"int", 1>> [] token = "2" -> <<"int", 2>>
      [] token = "''" -> <<"str", 0>> [] token = "'null'" -> <<"list", -1>>
      [] token = "'[]'" -> <<"list", 0>> [] OTHER -> Failed

(* The value of a text that was read: columns have the values of env, and  *)
(* the statement is sent with the values of the writer's parameters.       *)
RECURSIVE SqlValue(_, _, _)
SqlValue(n, params, env) ==
    LET sent == {i \in DOMAIN params : Dollar(i) = n.op}
        arg == [i \in DOMAIN n.args |-> SqlValue(n.args[i], params, env)]
        bools == \A i \in DOMAIN arg : arg[i][1] = "bool"
        whens == {i \in DOMAIN arg : i % 2 = 1 /\ i < Len(arg) /\ True(arg[i])}
    IN CASE n.op \in {"AND", "OR", "NOT"} /\ ~bools -> Failed
         [] n.op = "AND" /\ bools -> Bool(True(arg[1]) /\ True(arg[2]))
         [] n.op = "OR" /\ bools  -> Bool(True(arg[1]) \/ True(arg[2]))
         [] n.op = "NOT" /\ bools -> Bool(~True(arg[1]))
         [] n.op \in {"IS NULL", "IS NOT NULL"} -> Bool((arg[1] = Null) = (n.op = "IS NULL"))
         [] n.op \in {"=", "!=", "<", ">", "<=", ">="} -> Compare(n.op, arg[1], arg[2])
         [] n.op \in {"||", "+", "-", "*", "/"} -> Compute(n.op, arg[1], arg[2])
         [] n.op = "::" -> IF SqlType(arg[1][1]) = n.args[2].op THEN arg[1] ELSE Failed
         [] n.op = "pg_typeof" -> <<arg[1][1], -9>>
         [] n.op = "CASE" -> IF whens # {} THEN arg[Min(whens) + 1] ELSE arg[Len(arg)]
         [] n.args = <<>> /\ n.op \in DOMAIN env -> env[n.op]
         [] n.args = <<>> /\ sent # {} -> env[params[Min(sent)]]
         [] OTHER -> LiteralValue(n.op)

-----------------------------------------------------------------------------
(* what the expression means in xelf *)

Truthy(v) == v # Null /\ v[2] > 0

RECURSIVE Meaning(_, _)
Meaning(e, env) ==
    LET arg == [i \in DOMAIN e.args |-> Meaning(e.args[i], env)]
        compare(u, v) == IF e.n = "equal" /\ u[1] # v[1] THEN Bool(FALSE) ELSE Compare(e.n, u, v)
        results == {IF e.n \in Eq THEN compare(arg[1], arg[i]) ELSE compare(arg[i - 1], arg[i]) :
                       i \in 2..Len(arg)}
        whens == {i \in DOMAIN arg : i % 2 = 1 /\ i < Len(arg) /\ Truthy(arg[i])}
        compute(u, v) == Compute(e.n, u, v)
    IN CASE e.k = "sym" -> env[e.n]
         [] e.k = "lit" -> LiteralValue(e.n)
         [] e.n \in Logic \cup Eq \cup Cmp /\ Failed \in ToSet(arg) -> Failed
         [] e.n = "or" -> Bool(\E i \in DOMAIN arg : Truthy(arg[i]))
         [] e.n = "not" -> Bool(\A i \in DOMAIN arg : ~Truthy(arg[i]))
         [] e.n \in {"and", "bool"} -> Bool(\A i \in DOMAIN arg : Truthy(arg[i]))
         [] e.n \in Eq \cup Cmp -> IF Failed \in results THEN Failed ELSE Bool(results = {Bool(TRUE)})
         [] e.n \in Arith -> FoldLeft(compute, arg[1], Tail(arg))
         [] e.n = "if" -> IF whens # {} THEN arg[Min(whens) + 1] ELSE arg[Len(arg)]
         [] e.n = "con" -> arg[1]

RECURSIVE Parts(_)
Parts(e) == {e} \cup UNION {Parts(e.args[i]) : i \in DOMAIN e.args}

Environments(es) ==
    LET syms == {p \in UNION {Parts(es[i]) : i \in DOMAIN es} : p.k = "sym"}
        extended(s, envs) == {env @@ (s.n :> v) : env \in envs, v \in PgValues[s.t]}
    IN FoldSet(extended, {<<>>}, syms)

-----------------------------------------------------------------------------
(* genSelect, as far as it writes elements: SELECT a column FROM a table   *)
(* WHERE the conditions of the tables the query joins, one after another.  *)

PgInit == query = <<>> /\ written = 0 /\ text = NewWriter

WriteColumn ==
    /\ query = <<>>
    /\ \E q \in PgQueries :
          /\ query' = q
          /\ text' = Put(WriteEl(Put(text, <<"SELECT">>), q[1]), <<"FROM">>)
    /\ written' = 1

WriteCondition ==
    /\ written \in 1..Len(query) - 1
    /\ ~text.err
    /\ written' = written + 1
    /\ text' = WriteEl(Put(text, <<IF written = 1 THEN "WHERE" ELSE "AND">>), query[written + 1])
    /\ UNCHANGED query

PgNext == WriteColumn \/ WriteCondition
PgSpec == PgInit /\ [][PgNext]_pgVars

-----------------------------------------------------------------------------
PgTypeOK ==
    /\ written \in 0..Len(query)
    /\ text.prec = 0 /\ text.err \in BOOLEAN
    /\ ToSet(text.params) \subseteq External

(* The operands of a comparison that are written by writeString            *)
Copied(e) == IF e.n \in {"eq", "ne"} THEN {1}
             ELSE IF e.n \in {"equal"} \cup Cmp THEN DOMAIN e.args ELSE {}

(* What the writer is known to get right: a condition that is an operand   *)
(* of a comparison, a right operand of - * / at the operator's own         *)
(* precedence, a conversion of more than one word and a parameter that is  *)
(* first met in a copied operand are left to SqlAlwaysMeans.               *)
Supported(e) ==
    \A p \in Parts(e) :
        /\ p.n \in Eq \cup Cmp =>
             \A i \in DOMAIN p.args : p.args[i].n \notin Logic \cup Eq \cup Cmp
        /\ \A i \in Copied(p) : \A u \in Parts(p.args[i]) : u.n \notin External
        /\ p.n \in {"sub", "mul", "div"} =>
             \A i \in 2..Len(p.args) :
                \/ p.args[i].n \notin Arith
                \/ OpPrec(p.args[i].n) > OpPrec(p.n)
                \/ OpPrec(p.args[i].n) < OpPrec(p.n)
        /\ p.n = "con" => p.args[1].n \notin Arith \cup Logic \cup Eq \cup Cmp

(* A single condition is a logic call at the top of its own text; joined   *)
(* with others by AND an or is split by them.                              *)
SupportedQuery ==
    /\ \A i \in DOMAIN query : Supported(query[i])
    /\ Len(query) > 2 => \A i \in 2..Len(query) : query[i].n # "or"

Meant(env) ==
    LET conds == [i \in 2..Len(query) |-> Meaning(query[i], env)]
    IN <<Meaning(query[1], env), \A i \in DOMAIN conds : True(conds[i])>>

Agrees ==
    LET from  == CHOOSE i \in DOMAIN text.out : text.out[i] = "FROM"
        col   == Parse(SubSeq(text.out, 2, from - 1))
        whr   == Parse(SubSeq(text.out, from + 2, Len(text.out)))
    IN /\ ~text.err
       /\ \A env \in Environments(query) :
             <<SqlValue(col, text.params, env),
               Len(query) > 1 => True(SqlValue(whr, text.params, env))>> = Meant(env)

(* The state is typed, and the statement that is written selects the value *)
(* the query's expression means, from the rows that meet its conditions,   *)
(* for every row and every value of the external parameters.               *)
SqlMeans ==
    PgTypeOK /\ (query # <<>> /\ written = Len(query) /\ SupportedQuery => Agrees)

(* The same of every expression the writer accepts.                        *)
SqlAlwaysMeans ==
    query # <<>> /\ written = Len(query) => Agrees
=============================================================================
