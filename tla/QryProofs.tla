----------------------------- MODULE QryProofs -----------------------------
(***************************************************************************)
(* Proofs about the evaluation of query documents, for all projects,       *)
(* documents, sources and data.                                            *)
(***************************************************************************)
EXTENDS Query, TLAPS, SequenceTheorems, WellFoundedInduction

-----------------------------------------------------------------------------
(* Induction *)

\* Every set of natural numbers has a least element.
LEMMA LeastNat ==
  ASSUME NEW T \in SUBSET Nat, T # {}
  PROVE  \E x \in T : \A y \in T : x <= y
<1>. DEFINE R == {p \in Nat \X Nat : p[1] < p[2]}
<1>1. IsWellFoundedOn(R, Nat)
  BY NatLessThanWellFounded DEF OpToRel
<1>2. PICK x \in T : \A y \in T : ~ (<<y, x>> \in R)
  <2>. HIDE DEF R
  <2>. QED  BY <1>1, WFMin
<1>3. ASSUME NEW y \in T
      PROVE  x <= y
  <2>1. x \in Nat /\ y \in Nat
    OBVIOUS
  <2>2. ~ (y < x)
    BY <1>2, <2>1, <<y, x>> \in Nat \X Nat
  <2>. QED  BY <2>1, <2>2
<1>. QED  BY <1>3

\* What holds before the first round, and after a round if it held before, holds after all.
LEMMA Rounds ==
  ASSUME NEW n \in Nat, NEW T, 0 \in T, \A i \in 1..n : i - 1 \in T => i \in T
  PROVE  \A i \in 0..n : i \in T
<1>. DEFINE N == {i \in 0..n : i \notin T}
<1>. SUFFICES ASSUME N # {}
              PROVE  FALSE
  OBVIOUS
<1>1. PICK k \in N : \A y \in N : k <= y
  <2>1. N \in SUBSET Nat
    OBVIOUS
  <2>. HIDE DEF N
  <2>. QED  BY <2>1, LeastNat
<1>2. k \in 1..n /\ k \notin T
  OBVIOUS
<1>3. k - 1 \notin N
  BY <1>1, <1>2
<1>. QED  BY <1>2, <1>3

\* The largest of some numbers up to n, and the least.
LEMMA MaxIs ==
  ASSUME NEW n \in Nat, NEW S \in SUBSET (0..n), S # {}
  PROVE  Max(S) \in S /\ \A y \in S : y <= Max(S)
<1>. DEFINE T == {n - x : x \in S}
<1>1. T \in SUBSET Nat /\ T # {}
  <2>1. \A x \in S : n - x \in Nat
    OBVIOUS
  <2>. QED  BY <2>1
<1>2. PICK k \in T : \A y \in T : k <= y
  <2>. HIDE DEF T
  <2>. QED  BY <1>1, LeastNat
<1>3. PICK x \in S : k = n - x
  OBVIOUS
<1>4. \A y \in S : x >= y
  <2>1. ASSUME NEW y \in S
        PROVE  x >= y
    <3>1. k <= n - y
      BY <1>2
    <3>2. x \in Int /\ y \in Int
      OBVIOUS
    <3>. QED  BY <3>1, <3>2, <1>3
  <2>. QED  BY <2>1
<1>. QED  BY <1>3, <1>4 DEF Max

LEMMA MinIs ==
  ASSUME NEW S \in SUBSET Nat, S # {}
  PROVE  Min(S) \in S /\ \A y \in S : Min(S) <= y
BY LeastNat DEF Min

-----------------------------------------------------------------------------
(* Lists *)

\* A list of anything: n elements, at the places from one.
IsList(s, n) == n \in Nat /\ Len(s) = n /\ DOMAIN s = 1..n /\ s = [i \in 1..n |-> s[i]]

LEMMA ListIs ==
  ASSUME NEW S, NEW s \in Seq(S)
  PROVE  IsList(s, Len(s)) /\ \A i \in 1..Len(s) : s[i] \in S
BY LenProperties, ElementOfSeq DEF IsList

LEMMA ListSeq ==
  ASSUME NEW n, NEW s, IsList(s, n), NEW S, \A i \in 1..n : s[i] \in S
  PROVE  s \in Seq(S)
<1>1. s \in [1..n -> S]
  BY DEF IsList
<1>. QED  BY <1>1, IsASeq DEF IsList

LEMMA EmptyList == IsList(<<>>, 0)
BY ListIs, EmptySeq

\* A function of the first n numbers is a list.
LEMMA ListOf ==
  ASSUME NEW n \in Nat, NEW s, DOMAIN s = 1..n, s = [i \in 1..n |-> s[i]]
  PROVE  IsList(s, n)
<1>. DEFINE S == {s[i] : i \in 1..n}
<1>1. s \in [1..n -> S]
  OBVIOUS
<1>2. s \in Seq(S) /\ Len(s) = n
  BY <1>1, IsASeq, LenProperties
<1>. QED  BY <1>2 DEF IsList

\* One more at the end.
LEMMA AppendIs ==
  ASSUME NEW n, NEW s, IsList(s, n), NEW x
  PROVE  /\ IsList(Append(s, x), n + 1) /\ Append(s, x)[n + 1] = x
         /\ \A i \in 1..n : Append(s, x)[i] = s[i]
<1>. DEFINE S == {s[i] : i \in 1..n} \cup {x}
<1>1. s \in Seq(S) /\ n \in Nat /\ Len(s) = n
  <2>1. \A i \in 1..n : s[i] \in S
    OBVIOUS
  <2>. HIDE DEF S
  <2>. QED  BY <2>1, ListSeq DEF IsList
<1>2. x \in S
  OBVIOUS
<1>. HIDE DEF S
<1>. DEFINE t == Append(s, x)
<1>3. t \in Seq(S) /\ Len(t) = n + 1 /\ (\A i \in 1..n : t[i] = s[i]) /\ t[n + 1] = x
  BY <1>1, <1>2, AppendProperties
<1>. HIDE DEF t
<1>4. IsList(t, n + 1)
  BY <1>3, ListIs
<1>. QED  BY <1>3, <1>4 DEF t

\* The same for a loop that adds one value in every round.
Grown(s, i, x, a) == IsList(a, i) /\ a[i] = x /\ \A k \in 1..(i - 1) : a[k] = s[k]

LEMMA GrownIs ==
  ASSUME NEW i \in Nat \ {0}, NEW s, IsList(s, i - 1), NEW x
  PROVE  Grown(s, i, x, Append(s, x))
<1>. DEFINE n == i - 1
            S == {s[k] : k \in 1..n} \cup {x}
            a == Append(s, x)
<1>0. n \in Nat /\ n + 1 = i /\ IsList(s, n)
  OBVIOUS
<1>. HIDE DEF n
<1>1. s \in Seq(S) /\ Len(s) = n
  <2>1. \A k \in 1..n : s[k] \in S
    OBVIOUS
  <2>. HIDE DEF S
  <2>. QED  BY <1>0, <2>1, ListSeq DEF IsList
<1>2. x \in S
  OBVIOUS
<1>. HIDE DEF S
<1>3. a \in Seq(S) /\ Len(a) = n + 1 /\ (\A k \in 1..n : a[k] = s[k]) /\ a[n + 1] = x
  BY <1>1, <1>2, AppendProperties
<1>. HIDE DEF a
<1>4. IsList(a, i)
  BY <1>0, <1>3, ListIs
<1>. QED  BY <1>0, <1>3, <1>4 DEF Grown, n, a

\* One more at place k, in front of those that were there and after it.
LEMMA InsertAtIs ==
  ASSUME NEW n, NEW s, IsList(s, n), NEW x, NEW k \in 1..(n + 1)
  PROVE  /\ IsList(InsertAt(s, k, x), n + 1)
         /\ \A i \in 1..(n + 1) :
              InsertAt(s, k, x)[i] = IF i < k THEN s[i] ELSE IF i = k THEN x ELSE s[i - 1]
<1>. DEFINE S == {s[i] : i \in 1..n} \cup {x}
<1>1. s \in Seq(S) /\ n \in Nat /\ Len(s) = n
  <2>1. \A i \in 1..n : s[i] \in S
    OBVIOUS
  <2>. HIDE DEF S
  <2>. QED  BY <2>1, ListSeq DEF IsList
<1>2. x \in S
  OBVIOUS
<1>. HIDE DEF S
<1>. DEFINE f == SubSeq(s, 1, k - 1)
            m == <<x>>
            r == SubSeq(s, k, n)
            fm == f \o m
            t == fm \o r
<1>3. f \in Seq(S) /\ Len(f) = k - 1 /\ \A i \in 1..(k - 1) : f[i] = s[i]
  <2>1. \A i \in 1..(k - 1) : s[i] \in S
    BY <1>1, ElementOfSeq
  <2>. QED  BY <1>1, <2>1, SubSeqProperties
<1>4. r \in Seq(S) /\ Len(r) = n - k + 1 /\ \A i \in 1..(n - k + 1) : r[i] = s[k + i - 1]
  <2>1. \A i \in k..n : s[i] \in S
    BY <1>1, ElementOfSeq
  <2>2. k \in Int /\ n \in Int /\ k >= 1 /\ k <= n + 1
    BY <1>1
  <2>. QED  BY <1>1, <2>1, <2>2, SubSeqProperties
<1>5. m \in Seq(S) /\ Len(m) = 1 /\ m[1] = x
  BY <1>2
<1>6. InsertAt(s, k, x) = t
  BY <1>1 DEF InsertAt
<1>. HIDE DEF f, m, r
<1>7. /\ fm \in Seq(S) /\ Len(fm) = k
      /\ \A i \in 1..k : fm[i] = IF i < k THEN f[i] ELSE x
  <2>1. fm \in Seq(S) /\ Len(fm) = k - 1 + 1 
         /\ \A i \in 1..(k - 1 + 1) : fm[i] = IF i <= k - 1 THEN f[i] ELSE m[i - (k - 1)]
    <3>1. fm \in Seq(S) /\ Len(fm) = Len(f) + Len(m)
           /\ \A i \in 1..(Len(f) + Len(m)) : fm[i] = IF i <= Len(f) THEN f[i] ELSE m[i - Len(f)]
      BY <1>3, <1>5, ConcatProperties
    <3>. QED  BY <3>1, <1>3, <1>5
  <2>. QED  BY <2>1, <1>1, <1>5
<1>. HIDE DEF fm
<1>8. t \in Seq(S) /\ Len(t) = n + 1 
      /\ \A i \in 1..(n + 1) : t[i] = IF i <= k THEN fm[i] ELSE r[i - k]
  <2>1. t \in Seq(S) /\ Len(t) = k + (n - k + 1)
         /\ \A i \in 1..(k + (n - k + 1)) : t[i] = IF i <= k THEN fm[i] ELSE r[i - k]
    <3>1. t \in Seq(S) /\ Len(t) = Len(fm) + Len(r)
           /\ \A i \in 1..(Len(fm) + Len(r)) : t[i] = IF i <= Len(fm) THEN fm[i] ELSE r[i - Len(fm)]
      BY <1>4, <1>7, ConcatProperties
    <3>. QED  BY <3>1, <1>4, <1>7
  <2>. QED  BY <2>1, <1>1
<1>. HIDE DEF t
<1>9. IsList(t, n + 1)
  BY <1>8, ListIs
<1>10. ASSUME NEW i \in 1..(n + 1)
       PROVE  t[i] = IF i < k THEN s[i] ELSE IF i = k THEN x ELSE s[i - 1]
  <2>1. CASE i < k
    <3>1. i \in 1..k /\ i \in 1..(k - 1) /\ i <= k
      BY <2>1, <1>1
    <3>2. t[i] = fm[i]
      BY <3>1, <1>8
    <3>3. fm[i] = f[i]
      BY <2>1, <3>1, <1>7
    <3>4. f[i] = s[i]
      BY <3>1, <1>3
    <3>. QED  BY <2>1, <3>2, <3>3, <3>4
  <2>2. CASE i = k
    <3>1. i \in 1..k /\ i <= k /\ ~ (i < k)
      BY <2>2, <1>1
    <3>2. t[i] = fm[i] /\ fm[i] = x
      BY <3>1, <1>7, <1>8
    <3>. QED  BY <2>2, <3>1, <3>2
  <2>3. CASE i > k
    <3>1. i - k \in 1..(n - k + 1) /\ k + (i - k) - 1 = i - 1 /\ ~ (i <= k)
      BY <2>3, <1>1
    <3>2. t[i] = r[i - k]
      BY <3>1, <1>8
    <3>. QED  BY <2>3, <3>1, <3>2, <1>4
  <2>. QED  BY <2>1, <2>2, <2>3, <1>1
<1>. QED  BY <1>6, <1>9, <1>10

\* One less, and those behind it move up.
LEMMA RemoveAtIs ==
  ASSUME NEW n, NEW s, IsList(s, n), NEW k \in 1..n
  PROVE  /\ IsList(RemoveAt(s, k), n - 1)
         /\ \A i \in 1..(n - 1) : RemoveAt(s, k)[i] = IF i < k THEN s[i] ELSE s[i + 1]
<1>. DEFINE S == {s[i] : i \in 1..n}
<1>1. s \in Seq(S) /\ n \in Nat /\ Len(s) = n
  <2>1. \A i \in 1..n : s[i] \in S
    OBVIOUS
  <2>. HIDE DEF S
  <2>. QED  BY <2>1, ListSeq DEF IsList
<1>. HIDE DEF S
<1>. DEFINE f == SubSeq(s, 1, k - 1)
            r == SubSeq(s, k + 1, n)
            t == f \o r
<1>3. f \in Seq(S) /\ Len(f) = k - 1 /\ \A i \in 1..(k - 1) : f[i] = s[i]
  <2>1. \A i \in 1..(k - 1) : s[i] \in S
    BY <1>1, ElementOfSeq
  <2>. QED  BY <1>1, <2>1, SubSeqProperties
<1>4. r \in Seq(S) /\ Len(r) = n - k /\ \A i \in 1..(n - k) : r[i] = s[k + i]
  <2>1. \A i \in (k + 1)..n : s[i] \in S
    BY <1>1, ElementOfSeq
  <2>2. k \in Int /\ n \in Int /\ k >= 1 /\ k <= n
    BY <1>1
  <2>. QED  BY <1>1, <2>1, <2>2, SubSeqProperties
<1>6. RemoveAt(s, k) = t
  BY <1>1 DEF RemoveAt
<1>. HIDE DEF f, r
<1>8. t \in Seq(S) /\ Len(t) = n - 1
      /\ \A i \in 1..(n - 1) : t[i] = IF i <= k - 1 THEN f[i] ELSE r[i - (k - 1)]
  <2>1. t \in Seq(S) /\ Len(t) = (k - 1) + (n - k)
         /\ \A i \in 1..((k - 1) + (n - k)) : t[i] = IF i <= k - 1 THEN f[i] ELSE r[i - (k - 1)]
    <3>1. t \in Seq(S) /\ Len(t) = Len(f) + Len(r)
           /\ \A i \in 1..(Len(f) + Len(r)) : t[i] = IF i <= Len(f) THEN f[i] ELSE r[i - Len(f)]
      BY <1>3, <1>4, ConcatProperties
    <3>. QED  BY <3>1, <1>3, <1>4
  <2>. QED  BY <2>1, <1>1
<1>. HIDE DEF t
<1>9. IsList(t, n - 1)
  BY <1>8, ListIs
<1>10. ASSUME NEW i \in 1..(n - 1)
       PROVE  t[i] = IF i < k THEN s[i] ELSE s[i + 1]
  <2>1. CASE i < k
    BY <2>1, <1>1, <1>3, <1>8
  <2>2. CASE i >= k
    <3>1. i - (k - 1) \in 1..(n - k) /\ k + (i - (k - 1)) = i + 1 /\ ~ (i <= k - 1)
      BY <2>2, <1>1
    <3>2. t[i] = r[i - (k - 1)]
      BY <3>1, <1>8
    <3>. QED  BY <2>2, <3>1, <3>2, <1>4
  <2>. QED  BY <2>1, <2>2, <1>1
<1>. QED  BY <1>6, <1>9, <1>10
-----------------------------------------------------------------------------
(* Loops and recursion *)

\* What one round of each loop of the model makes of the state s before it.
SelTask(model, decl, subs, i) ==
  IF decl[i].el = None THEN None
  ELSE ResolveTask(DeclName(decl[i]), decl[i].el, subs[i], ModelFields(model))
AltSelTask(decl, subs, i) ==
  IF decl[i].el = None THEN None ELSE AltResolveTask(decl[i].name, decl[i].el, subs[i])
RootTask(d) == ResolveTask(d.name, d.el, ResolveQuery[d.el.q], {})
ProgramQuery(d) == IF d.el.op = "qry" THEN AltResolve[d.el.q] ELSE None
ProgramTask(d)  == Task(d.name, IF ProgramQuery(d) = None THEN d.el ELSE None, ProgramQuery(d))

SelRound(model, decl, subs, s, i) ==
  Declared(s, i, decl[i], ModelFields(model), SelTask(model, decl, subs, i))
AltSelRound(model, decl, subs, s, i) ==
  AltDeclared(s, i = Len(decl), decl[i], ModelFields(model), AltSelTask(decl, subs, i))
DocRound(d, ts, i) ==
  IF Bad(ts) THEN ts ELSE IF Bad(RootTask(d[i])) THEN RootTask(d[i]) ELSE Append(ts, RootTask(d[i]))
ProgramRound(d, ts, i) ==
  IF Bad(ts) THEN ts
  ELSE IF Bad(ProgramQuery(d[i])) THEN ProgramQuery(d[i]) ELSE Append(ts, ProgramTask(d[i]))
ElemRound(q, subs, rows, out, i) ==
  IF out.val = Err THEN out
  ELSE Out(Keyed(out.val, q.sel[i].name, AltValue(q, i, subs, rows, out.data).val),
           AltValue(q, i, subs, rows, out.data).data)
CollectRound(q, subs, outer, st, i) == AltRow(q, subs, outer, st, st.data[q.model][i])
KeptRound(whr, table, outer, done, acc, i) ==
  LET accepted == Accepted(whr, <<table[i]>> \o outer, done)
  IN IF acc = Err \/ accepted = Err THEN Err ELSE IF accepted = TRUE THEN Append(acc, table[i]) ELSE acc
MemElemRound(kept, q, subs, outer, done, elems, i) ==
  Listed(elems, MemRow(q, subs, <<kept[i]>> \o outer, done))

\* The provers cannot take an operator as a parameter, so the loops are told apart by a job:
\* the name of the loop and what its rounds read.
Round(job, s, i) ==
  CASE job.loop = "sel"       -> SelRound(job.model, job.decl, job.subs, s, i)
    [] job.loop = "altsel"    -> AltSelRound(job.model, job.decl, job.subs, s, i)
    [] job.loop = "doc"       -> DocRound(job.doc, s, i)
    [] job.loop = "program"   -> ProgramRound(job.doc, s, i)
    [] job.loop = "sorted"    -> Insert(s, job.list[i], job.ord)
    [] job.loop = "altsorted" -> AltInsert(s, job.list[i], job.ord)
    [] job.loop = "elem"      -> ElemRound(job.q, job.subs, job.rows, s, i)
    [] job.loop = "collect"   -> CollectRound(job.q, job.subs, job.outer, s, i)
    [] job.loop = "kept"      -> KeptRound(job.whr, job.table, job.outer, job.done, s, i)
    [] job.loop = "memelem"   -> MemElemRound(job.kept, job.q, job.subs, job.outer, job.done, s, i)

LoopOf(loop, first, job, n) ==
  /\ loop = [i \in 0..n |-> loop[i]] /\ loop[0] = first
  /\ \A i \in 1..n : loop[i] = Round(job, loop[i - 1], i)

\* A loop has a state before the first round and after every round.
LEMMA LoopExists ==
  ASSUME NEW first, NEW job, NEW n \in Nat
  PROVE  \E loop : LoopOf(loop, first, job, n)
<1>. DEFINE R(s, i) == Round(job, s, i)
            P(k, f) == f = [i \in 0..k |-> IF i = 0 THEN first ELSE R(f[i - 1], i)]
            T == {k \in 0..n : \E f : P(k, f)}
<1>. HIDE DEF R
<1>1. 0 \in T
  <2>. DEFINE f == [i \in 0..0 |-> first]
  <2>1. P(0, f)
    OBVIOUS
  <2>. HIDE DEF f, P
  <2>. QED  BY <2>1
<1>2. ASSUME NEW k \in 1..n, k - 1 \in T
      PROVE  k \in T
  <2>. DEFINE j == k - 1
  <2>1. j \in 0..n /\ k = j + 1 /\ 0..k = (0..j) \cup {k}
    OBVIOUS
  <2>2. PICK f : P(j, f)
    BY <1>2
  <2>. DEFINE g == [i \in 0..k |-> IF i = k THEN R(f[j], k) ELSE f[i]]
  <2>. HIDE DEF j
  <2>3. \A i \in 0..j : g[i] = f[i]
    BY <2>1
  <2>4. \A i \in 0..k : g[i] = IF i = 0 THEN first ELSE R(g[i - 1], i)
    <3>1. ASSUME NEW i \in 0..j
          PROVE  g[i] = IF i = 0 THEN first ELSE R(g[i - 1], i)
      <4>1. g[i] = f[i] /\ f[i] = IF i = 0 THEN first ELSE R(f[i - 1], i)
        BY <2>2, <2>3
      <4>2. i # 0 => i - 1 \in 0..j
        BY <2>1
      <4>. HIDE DEF g
      <4>. QED  BY <4>1, <4>2, <2>3
    <3>2. g[k] = R(g[k - 1], k)
      <4>1. k - 1 = j /\ j \in 0..j
        BY <2>1
      <4>2. g[k] = R(f[j], k)
        BY <2>1
      <4>. HIDE DEF g
      <4>. QED  BY <4>1, <4>2, <2>3
    <3>. HIDE DEF g
    <3>. QED  BY <3>1, <3>2, <2>1
  <2>5. P(k, g)
    <3>1. g = [i \in 0..k |-> g[i]]
      OBVIOUS
    <3>. HIDE DEF g
    <3>. QED  BY <3>1, <2>4
  <2>. HIDE DEF g, P
  <2>. QED  BY <2>5
<1>3. n \in T
  <2>. HIDE DEF T
  <2>. QED  BY <1>1, <1>2, Rounds
<1>4. PICK f : P(n, f)
  BY <1>3
<1>5. /\ f = [i \in 0..n |-> f[i]] /\ f[0] = first
      /\ \A i \in 1..n : f[i] = R(f[i - 1], i)
  BY <1>4
<1>. QED  BY <1>5 DEF R, LoopOf
\* The loops of the model are such loops.
LEMMA SelLoop ==
  ASSUME NEW model, NEW decl, NEW subs, Len(decl) \in Nat
  PROVE  \E loop :
           /\ loop[0] = [mode |-> None, res |-> FieldTasks(model), end |-> None]
           /\ \A i \in 1..Len(decl) : loop[i] = SelRound(model, decl, subs, loop[i - 1], i)
           /\ ResolveSel(model, decl, subs) = loop[Len(decl)]
<1>. DEFINE n == Len(decl)
            first == [mode |-> None, res |-> FieldTasks(model), end |-> None]
            job == [loop |-> "sel", model |-> model, decl |-> decl, subs |-> subs]
            P(f) == f = [i \in 0..n |-> IF i = 0 THEN first ELSE SelRound(model, decl, subs, f[i - 1], i)]
            g == CHOOSE f : P(f)
<1>. HIDE DEF n, first
<1>1. n \in Nat
  BY DEF n
<1>2. ASSUME NEW f, LoopOf(f, first, job, n)
      PROVE  P(f)
  <2>1. ASSUME NEW i \in 0..n
        PROVE  f[i] = IF i = 0 THEN first ELSE SelRound(model, decl, subs, f[i - 1], i)
    <3>1. i # 0 => i \in 1..n
      BY <1>1
    <3>2. i # 0 => f[i] = Round(job, f[i - 1], i)
      BY <3>1, <1>2 DEF LoopOf
    <3>. QED  BY <3>2, <1>2 DEF LoopOf, Round
  <2>. QED  BY <2>1, <1>2 DEF LoopOf
<1>3. P(g)
  <2>. HIDE DEF P, job
  <2>. QED  BY <1>1, <1>2, LoopExists
<1>4. ResolveSel(model, decl, subs) = g[n]
  BY DEF n, first, ResolveSel, SelRound, SelTask
<1>. HIDE DEF g
<1>5. g[0] = first /\ \A i \in 1..n : g[i] = SelRound(model, decl, subs, g[i - 1], i)
  BY <1>1, <1>3
<1>. QED  BY <1>4, <1>5 DEF n, first

LEMMA AltSelLoop ==
  ASSUME NEW model, NEW decl, NEW subs, Len(decl) \in Nat
  PROVE  \E loop :
           /\ loop[0] = [mode |-> None, res |-> FieldTasks(model), end |-> None]
           /\ \A i \in 1..Len(decl) : loop[i] = AltSelRound(model, decl, subs, loop[i - 1], i)
           /\ AltSel(model, decl, subs) = loop[Len(decl)]
<1>. DEFINE n == Len(decl)
            first == [mode |-> None, res |-> FieldTasks(model), end |-> None]
            job == [loop |-> "altsel", model |-> model, decl |-> decl, subs |-> subs]
            P(f) == f = [i \in 0..n |-> IF i = 0 THEN first ELSE AltSelRound(model, decl, subs, f[i - 1], i)]
            g == CHOOSE f : P(f)
<1>. HIDE DEF n, first
<1>1. n \in Nat
  BY DEF n
<1>2. ASSUME NEW f, LoopOf(f, first, job, n)
      PROVE  P(f)
  <2>1. ASSUME NEW i \in 0..n
        PROVE  f[i] = IF i = 0 THEN first ELSE AltSelRound(model, decl, subs, f[i - 1], i)
    <3>1. i # 0 => i \in 1..n
      BY <1>1
    <3>2. i # 0 => f[i] = Round(job, f[i - 1], i)
      BY <3>1, <1>2 DEF LoopOf
    <3>. QED  BY <3>2, <1>2 DEF LoopOf, Round
  <2>. QED  BY <2>1, <1>2 DEF LoopOf
<1>3. P(g)
  <2>. HIDE DEF P, job
  <2>. QED  BY <1>1, <1>2, LoopExists
<1>4. AltSel(model, decl, subs) = g[n]
  BY DEF n, first, AltSel, AltSelRound, AltSelTask
<1>. HIDE DEF g
<1>5. g[0] = first /\ \A i \in 1..n : g[i] = AltSelRound(model, decl, subs, g[i - 1], i)
  BY <1>1, <1>3
<1>. QED  BY <1>4, <1>5 DEF n, first

LEMMA DocLoop ==
  ASSUME NEW d, Len(d) \in Nat
  PROVE  \E loop :
           /\ loop[0] = <<>>
           /\ \A i \in 1..Len(d) : loop[i] = DocRound(d, loop[i - 1], i)
           /\ ResolveDoc(d) = loop[Len(d)]
<1>. DEFINE n == Len(d)
            first == <<>>
            job == [loop |-> "doc", doc |-> d]
            P(f) == f = [i \in 0..n |-> IF i = 0 THEN first ELSE DocRound(d, f[i - 1], i)]
            g == CHOOSE f : P(f)
<1>. HIDE DEF n, first
<1>1. n \in Nat
  BY DEF n
<1>2. ASSUME NEW f, LoopOf(f, first, job, n)
      PROVE  P(f)
  <2>1. ASSUME NEW i \in 0..n
        PROVE  f[i] = IF i = 0 THEN first ELSE DocRound(d, f[i - 1], i)
    <3>1. i # 0 => i \in 1..n
      BY <1>1
    <3>2. i # 0 => f[i] = Round(job, f[i - 1], i)
      BY <3>1, <1>2 DEF LoopOf
    <3>. QED  BY <3>2, <1>2 DEF LoopOf, Round
  <2>. QED  BY <2>1, <1>2 DEF LoopOf
<1>3. P(g)
  <2>. HIDE DEF P, job
  <2>. QED  BY <1>1, <1>2, LoopExists
<1>4. ResolveDoc(d) = g[n]
  BY DEF n, first, ResolveDoc, DocRound, RootTask
<1>. HIDE DEF g
<1>5. g[0] = first /\ \A i \in 1..n : g[i] = DocRound(d, g[i - 1], i)
  BY <1>1, <1>3
<1>. QED  BY <1>4, <1>5 DEF n, first

LEMMA ProgramLoop ==
  ASSUME NEW d, Len(d) \in Nat
  PROVE  \E loop :
           /\ loop[0] = <<>>
           /\ \A i \in 1..Len(d) : loop[i] = ProgramRound(d, loop[i - 1], i)
           /\ AltProgram(d) = loop[Len(d)]
<1>. DEFINE n == Len(d)
            first == <<>>
            job == [loop |-> "program", doc |-> d]
            P(f) == f = [i \in 0..n |-> IF i = 0 THEN first ELSE ProgramRound(d, f[i - 1], i)]
            g == CHOOSE f : P(f)
<1>. HIDE DEF n, first
<1>1. n \in Nat
  BY DEF n
<1>2. ASSUME NEW f, LoopOf(f, first, job, n)
      PROVE  P(f)
  <2>1. ASSUME NEW i \in 0..n
        PROVE  f[i] = IF i = 0 THEN first ELSE ProgramRound(d, f[i - 1], i)
    <3>1. i # 0 => i \in 1..n
      BY <1>1
    <3>2. i # 0 => f[i] = Round(job, f[i - 1], i)
      BY <3>1, <1>2 DEF LoopOf
    <3>. QED  BY <3>2, <1>2 DEF LoopOf, Round
  <2>. QED  BY <2>1, <1>2 DEF LoopOf
<1>3. P(g)
  <2>. HIDE DEF P, job
  <2>. QED  BY <1>1, <1>2, LoopExists
<1>4. AltProgram(d) = g[n]
  BY DEF n, first, AltProgram, ProgramRound, ProgramTask, ProgramQuery
<1>. HIDE DEF g
<1>5. g[0] = first /\ \A i \in 1..n : g[i] = ProgramRound(d, g[i - 1], i)
  BY <1>1, <1>3
<1>. QED  BY <1>4, <1>5 DEF n, first

LEMMA SortedLoop ==
  ASSUME NEW list, NEW ord, Len(list) \in Nat
  PROVE  \E loop :
           /\ loop[0] = <<>>
           /\ \A i \in 1..Len(list) : loop[i] = Insert(loop[i - 1], list[i], ord)
           /\ Sorted(list, ord) = loop[Len(list)]
<1>. DEFINE n == Len(list)
            first == <<>>
            job == [loop |-> "sorted", list |-> list, ord |-> ord]
            P(f) == f = [i \in 0..n |-> IF i = 0 THEN first ELSE Insert(f[i - 1], list[i], ord)]
            g == CHOOSE f : P(f)
<1>. HIDE DEF n, first
<1>1. n \in Nat
  BY DEF n
<1>2. ASSUME NEW f, LoopOf(f, first, job, n)
      PROVE  P(f)
  <2>1. ASSUME NEW i \in 0..n
        PROVE  f[i] = IF i = 0 THEN first ELSE Insert(f[i - 1], list[i], ord)
    <3>1. i # 0 => i \in 1..n
      BY <1>1
    <3>2. i # 0 => f[i] = Round(job, f[i - 1], i)
      BY <3>1, <1>2 DEF LoopOf
    <3>. QED  BY <3>2, <1>2 DEF LoopOf, Round
  <2>. QED  BY <2>1, <1>2 DEF LoopOf
<1>3. P(g)
  <2>. HIDE DEF P, job
  <2>. QED  BY <1>1, <1>2, LoopExists
<1>4. Sorted(list, ord) = g[n]
  BY DEF n, first, Sorted
<1>. HIDE DEF g
<1>5. g[0] = first /\ \A i \in 1..n : g[i] = Insert(g[i - 1], list[i], ord)
  BY <1>1, <1>3
<1>. QED  BY <1>4, <1>5 DEF n, first

LEMMA AltSortedLoop ==
  ASSUME NEW list, NEW ord, Len(list) \in Nat
  PROVE  \E loop :
           /\ loop[0] = <<>>
           /\ \A i \in 1..Len(list) : loop[i] = AltInsert(loop[i - 1], list[i], ord)
           /\ AltSorted(list, ord) = loop[Len(list)]
<1>. DEFINE n == Len(list)
            first == <<>>
            job == [loop |-> "altsorted", list |-> list, ord |-> ord]
            P(f) == f = [i \in 0..n |-> IF i = 0 THEN first ELSE AltInsert(f[i - 1], list[i], ord)]
            g == CHOOSE f : P(f)
<1>. HIDE DEF n, first
<1>1. n \in Nat
  BY DEF n
<1>2. ASSUME NEW f, LoopOf(f, first, job, n)
      PROVE  P(f)
  <2>1. ASSUME NEW i \in 0..n
        PROVE  f[i] = IF i = 0 THEN first ELSE AltInsert(f[i - 1], list[i], ord)
    <3>1. i # 0 => i \in 1..n
      BY <1>1
    <3>2. i # 0 => f[i] = Round(job, f[i - 1], i)
      BY <3>1, <1>2 DEF LoopOf
    <3>. QED  BY <3>2, <1>2 DEF LoopOf, Round
  <2>. QED  BY <2>1, <1>2 DEF LoopOf
<1>3. P(g)
  <2>. HIDE DEF P, job
  <2>. QED  BY <1>1, <1>2, LoopExists
<1>4. AltSorted(list, ord) = g[n]
  BY DEF n, first, AltSorted
<1>. HIDE DEF g
<1>5. g[0] = first /\ \A i \in 1..n : g[i] = AltInsert(g[i - 1], list[i], ord)
  BY <1>1, <1>3
<1>. QED  BY <1>4, <1>5 DEF n, first

LEMMA ElemLoop ==
  ASSUME NEW q, NEW subs, NEW rows, NEW tabs, Len(q.sel) \in Nat
  PROVE  \E loop :
           /\ loop[0] = Out(<<>>, tabs)
           /\ \A i \in 1..Len(q.sel) : loop[i] = ElemRound(q, subs, rows, loop[i - 1], i)
           /\ AltElem(q, subs, rows, tabs) =
                IF q.sel = <<>> THEN Out(rows[1], tabs)
                ELSE IF q.sca THEN AltValue(q, 1, subs, rows, tabs)
                ELSE loop[Len(q.sel)]
<1>. DEFINE n == Len(q.sel)
            first == Out(<<>>, tabs)
            job == [loop |-> "elem", q |-> q, subs |-> subs, rows |-> rows]
            P(f) == f = [i \in 0..n |-> IF i = 0 THEN first ELSE ElemRound(q, subs, rows, f[i - 1], i)]
            g == CHOOSE f : P(f)
<1>. HIDE DEF n, first
<1>1. n \in Nat
  BY DEF n
<1>2. ASSUME NEW f, LoopOf(f, first, job, n)
      PROVE  P(f)
  <2>1. ASSUME NEW i \in 0..n
        PROVE  f[i] = IF i = 0 THEN first ELSE ElemRound(q, subs, rows, f[i - 1], i)
    <3>1. i # 0 => i \in 1..n
      BY <1>1
    <3>2. i # 0 => f[i] = Round(job, f[i - 1], i)
      BY <3>1, <1>2 DEF LoopOf
    <3>. QED  BY <3>2, <1>2 DEF LoopOf, Round
  <2>. QED  BY <2>1, <1>2 DEF LoopOf
<1>3. P(g)
  <2>. HIDE DEF P, job
  <2>. QED  BY <1>1, <1>2, LoopExists
<1>4. AltElem(q, subs, rows, tabs) =
                IF q.sel = <<>> THEN Out(rows[1], tabs)
                ELSE IF q.sca THEN AltValue(q, 1, subs, rows, tabs)
                ELSE g[n]
  BY DEF n, first, AltElem, ElemRound
<1>. HIDE DEF g
<1>5. g[0] = first /\ \A i \in 1..n : g[i] = ElemRound(q, subs, rows, g[i - 1], i)
  BY <1>1, <1>3
<1>. QED  BY <1>4, <1>5 DEF n, first

Collects(q, subs, outer, tabs) ==
  \E loop :
     /\ loop[0] = [rows |-> <<>>, elems |-> <<>>, data |-> tabs]
     /\ \A i \in 1..Len(tabs[q.model]) : loop[i] = CollectRound(q, subs, outer, loop[i - 1], i)
     /\ AltCollect(q, subs, outer, tabs) = loop[Len(tabs[q.model])]

LEMMA CollectLoop ==
  ASSUME NEW q, NEW subs, NEW outer, NEW tabs, Len(tabs[q.model]) \in Nat
  PROVE  Collects(q, subs, outer, tabs)
<1>. DEFINE n == Len(tabs[q.model])
            first == [rows |-> <<>>, elems |-> <<>>, data |-> tabs]
            job == [loop |-> "collect", q |-> q, subs |-> subs, outer |-> outer]
            P(f) == f = [i \in 0..n |-> IF i = 0 THEN first ELSE CollectRound(q, subs, outer, f[i - 1], i)]
            g == CHOOSE f : P(f)
<1>. HIDE DEF n, first
<1>1. n \in Nat
  BY DEF n
<1>2. ASSUME NEW f, LoopOf(f, first, job, n)
      PROVE  P(f)
  <2>1. ASSUME NEW i \in 0..n
        PROVE  f[i] = IF i = 0 THEN first ELSE CollectRound(q, subs, outer, f[i - 1], i)
    <3>1. i # 0 => i \in 1..n
      BY <1>1
    <3>2. i # 0 => f[i] = Round(job, f[i - 1], i)
      BY <3>1, <1>2 DEF LoopOf
    <3>. QED  BY <3>2, <1>2 DEF LoopOf, Round
  <2>. QED  BY <2>1, <1>2 DEF LoopOf
<1>3. P(g)
  <2>. HIDE DEF P, job
  <2>. QED  BY <1>1, <1>2, LoopExists
<1>4. AltCollect(q, subs, outer, tabs) = g[n]
  BY DEF n, first, AltCollect, CollectRound
<1>. HIDE DEF g
<1>5. g[0] = first /\ \A i \in 1..n : g[i] = CollectRound(q, subs, outer, g[i - 1], i)
  BY <1>1, <1>3
<1>. QED  BY <1>4, <1>5 DEF n, first, Collects
\* The loops of the backend in memory, over the rows of a table and over those it keeps.
LEMMA KeptLoop ==
  ASSUME NEW q, NEW outer, NEW done, NEW d, Len(d[q.model]) \in Nat
  PROVE  \E loop :
           /\ loop[0] = <<>>
           /\ \A i \in 1..Len(d[q.model]) : loop[i] = KeptRound(q.whr, d[q.model], outer, done, loop[i - 1], i)
           /\ MemFilter(q, outer, done, d) = loop[Len(d[q.model])]
<1>. DEFINE table == d[q.model]
            n == Len(table)
            first == <<>>
            whr == q.whr
            job == [loop |-> "kept", whr |-> whr, table |-> table, outer |-> outer, done |-> done]
            P(f) == f = [i \in 0..n |-> IF i = 0 THEN first ELSE KeptRound(whr, table, outer, done, f[i - 1], i)]
            g == CHOOSE f : P(f)
<1>. HIDE DEF n, first, whr, table
<1>1. n \in Nat
  BY DEF n, table
<1>2. ASSUME NEW f, LoopOf(f, first, job, n)
      PROVE  P(f)
  <2>1. ASSUME NEW i \in 0..n
        PROVE  f[i] = IF i = 0 THEN first ELSE KeptRound(whr, table, outer, done, f[i - 1], i)
    <3>1. i # 0 => i \in 1..n
      BY <1>1
    <3>2. i # 0 => f[i] = Round(job, f[i - 1], i)
      BY <3>1, <1>2 DEF LoopOf
    <3>. QED  BY <3>2, <1>2 DEF LoopOf, Round
  <2>. QED  BY <2>1, <1>2 DEF LoopOf
<1>3. P(g)
  <2>. HIDE DEF P, job
  <2>. QED  BY <1>1, <1>2, LoopExists
<1>4. MemFilter(q, outer, done, d) = g[n]
  BY DEF n, first, whr, table, MemFilter, KeptRound
<1>. HIDE DEF g
<1>5. g[0] = first /\ \A i \in 1..n : g[i] = KeptRound(whr, table, outer, done, g[i - 1], i)
  BY <1>1, <1>3
<1>. QED  BY <1>4, <1>5 DEF n, first, whr, table

LEMMA MemElemLoop ==
  ASSUME NEW kept, NEW q, NEW subs, NEW outer, NEW done, Len(kept) \in Nat
  PROVE  \E loop :
           /\ loop[0] = <<>>
           /\ \A i \in 1..Len(kept) : loop[i] = MemElemRound(kept, q, subs, outer, done, loop[i - 1], i)
           /\ kept # Err => MemElems(kept, q, subs, outer, done) = loop[Len(kept)]
<1>. DEFINE n == Len(kept)
            first == <<>>
            job == [loop |-> "memelem", kept |-> kept, q |-> q, subs |-> subs, outer |-> outer, done |-> done]
            P(f) == f = [i \in 0..n |->
                           IF i = 0 THEN first ELSE MemElemRound(kept, q, subs, outer, done, f[i - 1], i)]
            g == CHOOSE f : P(f)
<1>. HIDE DEF n, first
<1>1. n \in Nat
  BY DEF n
<1>2. ASSUME NEW f, LoopOf(f, first, job, n)
      PROVE  P(f)
  <2>1. ASSUME NEW i \in 0..n
        PROVE  f[i] = IF i = 0 THEN first ELSE MemElemRound(kept, q, subs, outer, done, f[i - 1], i)
    <3>1. i # 0 => i \in 1..n
      BY <1>1
    <3>2. i # 0 => f[i] = Round(job, f[i - 1], i)
      BY <3>1, <1>2 DEF LoopOf
    <3>. QED  BY <3>2, <1>2 DEF LoopOf, Round
  <2>. QED  BY <2>1, <1>2 DEF LoopOf
<1>3. P(g)
  <2>. HIDE DEF P, job
  <2>. QED  BY <1>1, <1>2, LoopExists
<1>4. kept # Err => MemElems(kept, q, subs, outer, done) = g[n]
  BY DEF n, first, MemElems, MemElemRound
<1>. HIDE DEF g
<1>5. g[0] = first /\ \A i \in 1..n : g[i] = MemElemRound(kept, q, subs, outer, done, g[i - 1], i)
  BY <1>1, <1>3
<1>. QED  BY <1>4, <1>5 DEF n, first

\* What recurs into nested queries, as a function f of them, is told apart like the loops.
Body(rec, x, f) ==
  CASE rec = "resolve"    -> Resolution(x, [i \in SubQueries(x.decl) |-> f[x.decl[i].el.q]])
    [] rec = "altresolve" -> AltResolution(x, [i \in SubQueries(x.decl) |-> f[x.decl[i].el.q]])
    [] rec = "altquery"   ->
         [outer \in Seq(AllRows) |->
            [tabs \in Tables |-> AltRun(x, [i \in QueryTasks(x.sel) |-> f[x.sel[i].q]], outer, tabs)]]

\* It looks at what is of a lower rank only.
SameBelow(D, rank, x, f, g) == \A y \in D : rank[y] < rank[x] => f[y] = g[y]
Grounded(rec, D, rank) ==
  \A x \in D : \A f, g : SameBelow(D, rank, x, f, g) => Body(rec, x, f) = Body(rec, x, g)

\* Then there is a function that it describes.
LEMMA RecursionExists ==
  ASSUME NEW rec, NEW D, NEW rank \in [D -> Nat], Grounded(rec, D, rank)
  PROVE  \E f : f = [x \in D |-> Body(rec, x, f)]
<1>. DEFINE B(x, f) == Body(rec, x, f)
            Below(k) == {x \in D : rank[x] < k}
            P(k, f) == f = [x \in Below(k) |-> B(x, f)]
<1>0. \A x \in D : rank[x] \in Nat
  OBVIOUS
<1>1. ASSUME NEW x \in D, NEW f, NEW g, \A y \in D : rank[y] < rank[x] => f[y] = g[y]
      PROVE  B(x, f) = B(x, g)
  <2>1. SameBelow(D, rank, x, f, g)
    BY <1>1 DEF SameBelow
  <2>. QED  BY <2>1 DEF Grounded
<1>. HIDE DEF B
<1>2. ASSUME NEW k \in Nat, NEW j \in Nat, NEW f, NEW g, P(k, f), P(j, g)
      PROVE  \A x \in D : rank[x] < k /\ rank[x] < j => f[x] = g[x]
  <2>. DEFINE Off == {x \in D : rank[x] < k /\ rank[x] < j /\ f[x] # g[x]}
              N == {rank[x] : x \in Off}
  <2>. SUFFICES ASSUME Off # {}
                PROVE  FALSE
    OBVIOUS
  <2>1. PICK r \in N : \A p \in N : r <= p
    <3>1. N \in SUBSET Nat /\ N # {}
      BY <1>0
    <3>. HIDE DEF N
    <3>. QED  BY <3>1, LeastNat
  <2>2. PICK x \in Off : r = rank[x]
    OBVIOUS
  <2>3. ASSUME NEW y \in D, rank[y] < rank[x]
        PROVE  f[y] = g[y]
    <3>1. rank[y] \in Nat /\ rank[x] \in Nat /\ rank[x] < k /\ rank[x] < j
      BY <1>0
    <3>2. rank[y] < k /\ rank[y] < j
      BY <2>3, <3>1
    <3>3. y \in Off => rank[x] <= rank[y]
      BY <2>1, <2>2
    <3>. QED  BY <2>3, <3>1, <3>2, <3>3
  <2>4. B(x, f) = B(x, g)
    BY <1>1, <2>3
  <2>5. f[x] = B(x, f) /\ g[x] = B(x, g)
    BY <1>2
  <2>. QED  BY <2>4, <2>5
<1>3. ASSUME NEW k \in Nat
      PROVE  \E f : P(k, f)
  <2>. DEFINE T == {j \in 0..k : \E f : P(j, f)}
  <2>1. 0 \in T
    <3>1. Below(0) = {}
      BY <1>0
    <3>. DEFINE f == [x \in {} |-> 0]
    <3>2. P(0, f)
      BY <3>1
    <3>. HIDE DEF P, f
    <3>. QED  BY <3>2
  <2>2. ASSUME NEW j \in 1..k, j - 1 \in T
        PROVE  j \in T
    <3>1. PICK f : P(j - 1, f)
      BY <2>2
    <3>. DEFINE g == [x \in Below(j) |-> B(x, f)]
    <3>2. ASSUME NEW x \in Below(j)
          PROVE  g[x] = B(x, g)
      <4>1. ASSUME NEW y \in D, rank[y] < rank[x]
            PROVE  f[y] = g[y]
        <5>1. rank[y] \in Nat /\ rank[x] \in Nat /\ rank[x] < j
          BY <1>0
        <5>2. rank[y] < j - 1 /\ rank[y] < j
          BY <4>1, <5>1
        <5>3. f[y] = B(y, f) /\ g[y] = B(y, f)
          BY <3>1, <5>2
        <5>. QED  BY <5>3
      <4>2. B(x, f) = B(x, g)
        <5>. HIDE DEF g
        <5>. QED  BY <1>1, <4>1
      <4>. QED  BY <4>2
    <3>3. P(j, g)
      <4>1. g = [x \in Below(j) |-> g[x]]
        OBVIOUS
      <4>. HIDE DEF g, Below
      <4>. QED  BY <3>2, <4>1
    <3>. HIDE DEF P, g
    <3>. QED  BY <3>3
  <2>3. k \in T
    <3>. HIDE DEF T
    <3>. QED  BY <2>1, <2>2, Rounds
  <2>. QED  BY <2>3
<1>. DEFINE h(k) == CHOOSE f : P(k, f)
            F == [x \in D |-> h(rank[x] + 1)[x]]
<1>4. \A k \in Nat : P(k, h(k))
  <2>. HIDE DEF P
  <2>. QED  BY <1>3
<1>. HIDE DEF h
<1>5. ASSUME NEW x \in D
      PROVE  F[x] = B(x, F)
  <2>. DEFINE k == rank[x] + 1
  <2>0. k \in Nat /\ rank[x] < k
    BY <1>0
  <2>1. h(k)[x] = B(x, h(k))
    BY <1>4, <2>0
  <2>2. ASSUME NEW y \in D, rank[y] < rank[x]
        PROVE  F[y] = h(k)[y]
    <3>. DEFINE j == rank[y] + 1
    <3>1. j \in Nat /\ rank[y] < j /\ rank[y] < k
      BY <1>0, <2>2
    <3>2. P(j, h(j)) /\ P(k, h(k))
      BY <1>4, <2>0, <3>1
    <3>3. h(j)[y] = h(k)[y]
      <4>. HIDE DEF P, j, k
      <4>. QED  BY <1>2, <2>0, <3>1, <3>2
    <3>. QED  BY <3>3
  <2>3. B(x, F) = B(x, h(k))
    <3>. HIDE DEF F, k
    <3>. QED  BY <1>1, <2>2
  <2>. QED  BY <2>1, <2>3
<1>6. F = [x \in D |-> B(x, F)]
  <2>1. F = [x \in D |-> F[x]]
    OBVIOUS
  <2>. HIDE DEF F
  <2>. QED  BY <1>5, <2>1
<1>. QED  BY <1>6 DEF B
-----------------------------------------------------------------------------
(* Sources are resolved *)

\* The queries among declarations, as each form resolves them.
MemSubs(decl) == [i \in SubQueries(decl) |-> ResolveQuery[decl[i].el.q]]
AltSubs(decl) == [i \in SubQueries(decl) |-> AltResolve[decl[i].el.q]]

LEMMA SourceFacts ==
  ASSUME NEW src \in Sources
  PROVE  /\ Depth[src] \in Nat /\ Len(src.decl) \in Nat /\ DOMAIN src.decl = 1..Len(src.decl)
         /\ \A i \in DOMAIN src.decl : src.decl[i].mode \in {None, "+", "-", "_"}
         /\ \A i \in SubQueries(src.decl) :
              src.decl[i].el.q \in Sources /\ Depth[src.decl[i].el.q] < Depth[src]
<1>1. /\ Depth \in [Sources -> Nat] /\ src.decl \in Seq(ToSet(src.decl))
      /\ \A i \in DOMAIN src.decl : src.decl[i].mode \in {None, "+", "-", "_"}
      /\ \A i \in SubQueries(src.decl) :
              src.decl[i].el.q \in Sources /\ Depth[src.decl[i].el.q] < Depth[src]
  BY SourcesAssumption DEF WellNested
<1>2. Len(src.decl) \in Nat /\ DOMAIN src.decl = 1..Len(src.decl)
  BY <1>1, LenProperties
<1>. QED  BY <1>1, <1>2

LEMMA ResolveIs ==
  /\ \A src \in Sources : ResolveQuery[src] = Resolution(src, MemSubs(src.decl))
  /\ \A src \in Sources : AltResolve[src] = AltResolution(src, AltSubs(src.decl))
<1>0. Depth \in [Sources -> Nat]
  BY SourcesAssumption DEF WellNested
<1>1. ASSUME NEW src \in Sources, NEW f, NEW g, SameBelow(Sources, Depth, src, f, g)
      PROVE  [i \in SubQueries(src.decl) |-> f[src.decl[i].el.q]]
               = [i \in SubQueries(src.decl) |-> g[src.decl[i].el.q]]
  BY <1>1, SourceFacts DEF SameBelow
<1>2. Grounded("resolve", Sources, Depth) /\ Grounded("altresolve", Sources, Depth)
  BY <1>1 DEF Grounded, Body
<1>. DEFINE P(f) == f = [src \in Sources |->
                            Resolution(src, [i \in SubQueries(src.decl) |-> f[src.decl[i].el.q]])]
            Q(f) == f = [src \in Sources |->
                            AltResolution(src, [i \in SubQueries(src.decl) |-> f[src.decl[i].el.q]])]
<1>3. \E f : P(f)
  <2>1. PICK f : f = [src \in Sources |-> Body("resolve", src, f)]
    BY <1>0, <1>2, RecursionExists
  <2>2. \A src \in Sources : f[src] = Resolution(src, [i \in SubQueries(src.decl) |-> f[src.decl[i].el.q]])
    BY <2>1 DEF Body
  <2>3. f = [src \in Sources |-> f[src]]
    BY <2>1
  <2>4. P(f)
    BY <2>2, <2>3
  <2>. HIDE DEF P
  <2>. QED  BY <2>4
<1>4. \E f : Q(f)
  <2>1. PICK f : f = [src \in Sources |-> Body("altresolve", src, f)]
    BY <1>0, <1>2, RecursionExists
  <2>2. \A src \in Sources : f[src] = AltResolution(src, [i \in SubQueries(src.decl) |-> f[src.decl[i].el.q]])
    BY <2>1 DEF Body
  <2>3. f = [src \in Sources |-> f[src]]
    BY <2>1
  <2>4. Q(f)
    BY <2>2, <2>3
  <2>. HIDE DEF Q
  <2>. QED  BY <2>4
<1>5. P(ResolveQuery)
  <2>1. ResolveQuery = CHOOSE f : P(f)
    BY DEF ResolveQuery
  <2>. HIDE DEF P
  <2>. QED  BY <1>3, <2>1
<1>6. Q(AltResolve)
  <2>1. AltResolve = CHOOSE f : Q(f)
    BY DEF AltResolve
  <2>. HIDE DEF Q
  <2>. QED  BY <1>4, <2>1
<1>. QED  BY <1>5, <1>6 DEF MemSubs, AltSubs
-----------------------------------------------------------------------------
(* The names of a selection *)

LEMMA AppendNames ==
  ASSUME NEW n, NEW s, IsList(s, n), NEW t
  PROVE  /\ NamesOf(Append(s, t)) = NamesOf(s) \cup {t.name}
         /\ Unique(s) /\ t.name \notin NamesOf(s) => Unique(Append(s, t))
<1>. DEFINE r == Append(s, t)
<1>1. /\ n \in Nat /\ DOMAIN s = 1..n /\ DOMAIN r = 1..(n + 1)
      /\ r[n + 1] = t /\ \A i \in 1..n : r[i] = s[i]
  BY AppendIs DEF IsList
<1>. HIDE DEF r
<1>2. DOMAIN r = DOMAIN s \cup {n + 1} /\ n + 1 \notin DOMAIN s
  BY <1>1
<1>3. NamesOf(r) = NamesOf(s) \cup {t.name}
  <2>1. ASSUME NEW x \in NamesOf(r)
        PROVE  x \in NamesOf(s) \cup {t.name}
    BY <1>1, <1>2 DEF NamesOf
  <2>2. ASSUME NEW x \in NamesOf(s)
        PROVE  x \in NamesOf(r)
    BY <1>1, <1>2 DEF NamesOf
  <2>3. t.name \in NamesOf(r)
    BY <1>1, <1>2 DEF NamesOf
  <2>. QED  BY <2>1, <2>2, <2>3
<1>4. ASSUME Unique(s), t.name \notin NamesOf(s)
      PROVE  Unique(r)
  <2>1. \A i \in DOMAIN s : r[i].name # t.name
    BY <1>1, <1>4 DEF NamesOf
  <2>. QED  BY <1>1, <1>2, <1>4, <2>1 DEF Unique
<1>. QED  BY <1>3, <1>4 DEF r

LEMMA FirstNamedIs ==
  ASSUME NEW n, NEW s, IsList(s, n), NEW name \in NamesOf(s)
  PROVE  FirstNamed(s, name) \in 1..n /\ s[FirstNamed(s, name)].name = name
<1>. DEFINE S == {i \in DOMAIN s : s[i].name = name}
<1>1. n \in Nat /\ DOMAIN s = 1..n
  BY DEF IsList
<1>2. S \in SUBSET Nat /\ S # {}
  BY <1>1 DEF NamesOf
<1>3. Min(S) \in S
  <2>. HIDE DEF S
  <2>. QED  BY <1>2, MinIs
<1>. QED  BY <1>1, <1>3 DEF FirstNamed

\* What is left after one was removed, and where it was.
LEMMA RemoveNames ==
  ASSUME NEW n, NEW s, IsList(s, n), NEW name \in NamesOf(s)
  PROVE  LET r == RemoveAt(s, FirstNamed(s, name))
         IN /\ IsList(r, n - 1)
            /\ \A i \in 1..(n - 1) : \E k \in 1..n : r[i] = s[k]
            /\ Unique(s) => NamesOf(r) = NamesOf(s) \ {name} /\ Unique(r)
<1>. DEFINE k == FirstNamed(s, name)
            r == RemoveAt(s, k)
            old(i) == IF i < k THEN i ELSE i + 1
<1>1. k \in 1..n /\ s[k].name = name
  BY FirstNamedIs
<1>. HIDE DEF k
<1>2. IsList(r, n - 1) /\ \A i \in 1..(n - 1) : r[i] = IF i < k THEN s[i] ELSE s[i + 1]
  BY <1>1, RemoveAtIs
<1>. HIDE DEF r
<1>3. n \in Nat /\ DOMAIN s = 1..n /\ DOMAIN r = 1..(n - 1)
  BY <1>2 DEF IsList
<1>4. \A i \in 1..(n - 1) : old(i) \in 1..n /\ old(i) # k /\ r[i] = s[old(i)]
  BY <1>1, <1>2, <1>3
<1>5. \A j \in 1..n : j # k => \E i \in 1..(n - 1) : old(i) = j
  <2>1. ASSUME NEW j \in 1..n, j < k
        PROVE  j \in 1..(n - 1) /\ old(j) = j
    BY <1>1, <1>3, <2>1
  <2>2. ASSUME NEW j \in 1..n, j > k
        PROVE  j - 1 \in 1..(n - 1) /\ old(j - 1) = j
    BY <1>1, <1>3, <2>2
  <2>. HIDE DEF old
  <2>3. ASSUME NEW j \in 1..n, j # k
        PROVE  \E i \in 1..(n - 1) : old(i) = j
    <3>1. j < k \/ j > k
      BY <1>1, <1>3, <2>3
    <3>. QED  BY <2>1, <2>2, <3>1
  <2>. QED  BY <2>3
<1>6. \A i, j \in 1..(n - 1) : old(i) = old(j) => i = j
  BY <1>1, <1>3
<1>. HIDE DEF old
<1>7. ASSUME Unique(s)
      PROVE  NamesOf(r) = NamesOf(s) \ {name} /\ Unique(r)
  <2>1. \A i, j \in 1..n : s[i].name = s[j].name => i = j
    BY <1>3, <1>7 DEF Unique
  <2>2. ASSUME NEW x \in NamesOf(r)
        PROVE  x \in NamesOf(s) \ {name}
    <3>1. PICK i \in 1..(n - 1) : x = r[i].name
      BY <1>3 DEF NamesOf
    <3>2. x = s[old(i)].name /\ old(i) \in 1..n /\ old(i) # k
      BY <3>1, <1>4
    <3>. QED  BY <3>2, <2>1, <1>1, <1>3 DEF NamesOf
  <2>3. ASSUME NEW x \in NamesOf(s), x # name
        PROVE  x \in NamesOf(r)
    <3>1. PICK j \in 1..n : x = s[j].name
      BY <1>3 DEF NamesOf
    <3>2. PICK i \in 1..(n - 1) : old(i) = j
      BY <1>1, <1>5, <2>3, <3>1
    <3>. QED  BY <3>1, <3>2, <1>3, <1>4 DEF NamesOf
  <2>4. Unique(r)
    BY <1>3, <1>4, <1>6, <2>1 DEF Unique
  <2>. QED  BY <2>2, <2>3, <2>4
<1>8. \A i \in 1..(n - 1) : \E j \in 1..n : r[i] = s[j]
  BY <1>4
<1>. QED  BY <1>2, <1>7, <1>8 DEF k, r

\* A field that takes the place of one with its name.
LEMMA WithNames ==
  ASSUME NEW n, NEW s, IsList(s, n), NEW t
  PROVE  LET r == With(s, t)
         IN /\ IsList(r, Len(r))
            /\ \A i \in 1..Len(r) : r[i] = t \/ \E k \in 1..n : r[i] = s[k]
            /\ NamesOf(r) = NamesOf(s) \cup {t.name}
            /\ Unique(s) => Unique(r)
<1>. DEFINE r == With(s, t)
<1>0. n \in Nat /\ DOMAIN s = 1..n
  BY DEF IsList
<1>1. CASE t.name \notin NamesOf(s)
  <2>1. r = Append(s, t)
    BY <1>1 DEF With
  <2>. HIDE DEF r
  <2>2. IsList(r, n + 1) /\ r[n + 1] = t /\ \A i \in 1..n : r[i] = s[i]
    <3>1. IsList(Append(s, t), n + 1) /\ Append(s, t)[n + 1] = t /\ \A i \in 1..n : Append(s, t)[i] = s[i]
      BY AppendIs DEF IsList
    <3>. QED  BY <2>1, <3>1
  <2>3. Len(r) = n + 1 /\ IsList(r, Len(r))
    BY <2>2 DEF IsList
  <2>4. \A i \in 1..Len(r) : r[i] = t \/ \E k \in 1..n : r[i] = s[k]
    BY <1>0, <2>2, <2>3
  <2>5. NamesOf(r) = NamesOf(s) \cup {t.name} /\ (Unique(s) => Unique(r))
    BY <1>1, <2>1, AppendNames
  <2>. QED  BY <2>3, <2>4, <2>5 DEF r
<1>2. CASE t.name \in NamesOf(s)
  <2>1. r = [i \in 1..n |-> IF s[i].name = t.name THEN t ELSE s[i]]
    BY <1>0, <1>2 DEF With
  <2>. HIDE DEF r
  <2>2. /\ DOMAIN r = 1..n /\ r = [i \in 1..n |-> r[i]]
        /\ \A i \in 1..n : r[i] = IF s[i].name = t.name THEN t ELSE s[i]
    BY <2>1
  <2>3. IsList(r, n) /\ Len(r) = n
    BY <1>0, <2>2, ListOf DEF IsList
  <2>4. \A i \in 1..n : r[i].name = s[i].name
    BY <2>2
  <2>5. NamesOf(r) = NamesOf(s)
    BY <1>0, <2>2, <2>4 DEF NamesOf
  <2>6. Unique(s) => Unique(r)
    BY <1>0, <2>2, <2>4 DEF Unique
  <2>7. NamesOf(s) = NamesOf(s) \cup {t.name}
    BY <1>2
  <2>. QED  BY <2>2, <2>3, <2>5, <2>6, <2>7 DEF r
<1>. QED  BY <1>1, <1>2
-----------------------------------------------------------------------------
(* What declarations say, one after the other *)

Modes(decl, n) == n \in Nat /\ \A k \in 1..n : decl[k].mode \in {None, "+", "-", "_"}

\* Before the first declaration.
LEMMA NothingSaid ==
  ASSUME NEW src
  PROVE  ModeAt(src.decl, 0) = None /\ SelectedBy(src, 0) = ModelFields(src.model) \ {None}
<1>1. 1..0 = {}
  OBVIOUS
<1>2. ModeAt(src.decl, 0) = None
  BY <1>1 DEF ModeAt
<1>3. Start(src.decl, 0) = 0
  <2>1. Start(src.decl, 0) = Max({0})
    BY <1>1 DEF Start
  <2>2. Max({0}) = 0
    BY MaxIs, {0} \in SUBSET (0..0)
  <2>. QED  BY <2>1, <2>2
<1>4. \A name : Says(src.decl, 0, name) = {}
  BY <1>1 DEF Says
<1>. QED  BY <1>1, <1>2, <1>3, <1>4 DEF SelectedBy

\* The mode, and the last _, after one more declaration.
LEMMA ModeStep ==
  ASSUME NEW decl, NEW n \in Nat, NEW i \in 1..n, Modes(decl, n)
  PROVE  ModeAt(decl, i) = IF decl[i].mode = None THEN ModeAt(decl, i - 1)
                           ELSE IF decl[i].mode = "_" THEN "+" ELSE decl[i].mode
<1>. DEFINE S(j) == {k \in 1..j : decl[k].mode # None}
<1>1. CASE decl[i].mode = None
  <2>1. S(i) = S(i - 1)
    <3>1. \A k \in 1..i : k = i \/ k \in 1..(i - 1)
      OBVIOUS
    <3>2. \A k \in 1..(i - 1) : k \in 1..i
      OBVIOUS
    <3>. QED  BY <1>1, <3>1, <3>2
  <2>. QED  BY <1>1, <2>1 DEF ModeAt
<1>2. CASE decl[i].mode # None
  <2>1. i \in S(i) /\ S(i) \in SUBSET (0..i) /\ i \in Nat
    BY <1>2
  <2>2. Max(S(i)) \in S(i) /\ i <= Max(S(i))
    <3>. HIDE DEF S
    <3>. QED  BY <2>1, MaxIs
  <2>3. Max(S(i)) = i
    BY <2>2
  <2>. QED  BY <1>2, <2>1, <2>3 DEF ModeAt
<1>. QED  BY <1>1, <1>2

LEMMA ModeType ==
  ASSUME NEW decl, NEW n \in Nat, Modes(decl, n)
  PROVE  \A i \in 0..n : ModeAt(decl, i) \in {None, "+", "-"}
<1>. DEFINE T == {i \in 0..n : ModeAt(decl, i) \in {None, "+", "-"}}
<1>1. 0 \in T
  <2>1. 1..0 = {} /\ 0 \in 0..n
    OBVIOUS
  <2>2. ModeAt(decl, 0) = None
    BY <2>1 DEF ModeAt
  <2>. QED  BY <2>1, <2>2
<1>2. ASSUME NEW i \in 1..n, i - 1 \in T
      PROVE  i \in T
  <2>1. decl[i].mode \in {None, "+", "-", "_"}
    BY DEF Modes
  <2>2. ModeAt(decl, i) = IF decl[i].mode = None THEN ModeAt(decl, i - 1)
                          ELSE IF decl[i].mode = "_" THEN "+" ELSE decl[i].mode
    BY ModeStep
  <2>3. ModeAt(decl, i) \in {None, "+", "-"}
    BY <1>2, <2>1, <2>2
  <2>. QED  BY <2>3
<1>3. \A i \in 0..n : i \in T
  <2>. HIDE DEF T
  <2>. QED  BY <1>1, <1>2, Rounds
<1>. QED  BY <1>3

LEMMA StartStep ==
  ASSUME NEW decl, NEW i \in Nat \ {0}
  PROVE  /\ decl[i].mode = "_" => Start(decl, i) = i
         /\ decl[i].mode # "_" => Start(decl, i) = Start(decl, i - 1)
         /\ Start(decl, i - 1) \in 0..(i - 1)
<1>. DEFINE S(j) == {0} \cup {k \in 1..j : decl[k].mode = "_"}
<1>1. i \in Nat /\ i - 1 \in Nat /\ S(i) \in SUBSET (0..i) /\ S(i - 1) \in SUBSET (0..(i - 1))
       /\ 0 \in S(i) /\ 0 \in S(i - 1)
  <2>1. i \in Nat /\ i - 1 \in Nat
    OBVIOUS
  <2>2. ASSUME NEW j \in Nat
        PROVE  S(j) \in SUBSET (0..j)
    <3>1. 0 \in 0..j /\ \A k \in 1..j : k \in 0..j
      OBVIOUS
    <3>. QED  BY <3>1
  <2>. QED  BY <2>1, <2>2
<1>2. Max(S(i - 1)) \in 0..(i - 1)
  <2>. HIDE DEF S
  <2>1. Max(S(i - 1)) \in S(i - 1)
    BY <1>1, MaxIs
  <2>. QED  BY <1>1, <2>1
<1>3. ASSUME decl[i].mode = "_"
      PROVE  Max(S(i)) = i
  <2>1. i \in S(i)
    <3>1. i \in 1..i
      OBVIOUS
    <3>. QED  BY <1>3, <3>1
  <2>2. Max(S(i)) \in S(i) /\ i <= Max(S(i))
    <3>. HIDE DEF S
    <3>. QED  BY <1>1, <2>1, MaxIs
  <2>3. Max(S(i)) \in 0..i
    BY <1>1, <2>2
  <2>. HIDE DEF S
  <2>. QED  BY <1>1, <2>2, <2>3
<1>4. ASSUME decl[i].mode # "_"
      PROVE  S(i) = S(i - 1)
  <2>1. \A k \in 1..i : k = i \/ k \in 1..(i - 1)
    OBVIOUS
  <2>2. \A k \in 1..(i - 1) : k \in 1..i
    OBVIOUS
  <2>. QED  BY <1>4, <2>1, <2>2
<1>. QED  BY <1>2, <1>3, <1>4 DEF Start

\* The declarations that count for a name, after one more.
LEMMA SaysStep ==
  ASSUME NEW decl, NEW i \in Nat \ {0}, NEW name
  PROVE  /\ decl[i].mode = "_" => Says(decl, i, name) = {}
         /\ decl[i].mode # "_" =>
              Says(decl, i, name) = Says(decl, i - 1, name)
                 \cup (IF decl[i].name = name /\ ModeAt(decl, i) # None THEN {i} ELSE {})
         /\ Says(decl, i - 1, name) \in SUBSET (1..(i - 1))
<1>1. CASE decl[i].mode = "_"
  <2>1. Start(decl, i) = i
    BY <1>1, StartStep
  <2>2. \A k \in 1..i : ~ (k > i)
    OBVIOUS
  <2>. QED  BY <1>1, <2>1, <2>2 DEF Says
<1>2. CASE decl[i].mode # "_"
  <2>. DEFINE b == Start(decl, i - 1)
  <2>1. Start(decl, i) = b /\ b \in 0..(i - 1)
    BY <1>2, StartStep
  <2>. HIDE DEF b
  <2>2. \A k : k \in 1..i <=> k = i \/ k \in 1..(i - 1)
    OBVIOUS
  <2>3. i > b /\ i \notin 1..(i - 1)
    BY <2>1
  <2>4. Says(decl, i, name) =
          {k \in 1..i : k > b /\ decl[k].name = name /\ ModeAt(decl, k) # None}
    BY <2>1 DEF Says
  <2>5. Says(decl, i - 1, name) =
          {k \in 1..(i - 1) : k > b /\ decl[k].name = name /\ ModeAt(decl, k) # None}
    BY DEF Says, b
  <2>. QED  BY <1>2, <2>2, <2>3, <2>4, <2>5
<1>. QED  BY <1>1, <1>2 DEF Says

\* Whether a name is selected.
Picks(src, n, name) ==
  IF Says(src.decl, n, name) = {} THEN Start(src.decl, n) = 0 /\ name \in ModelFields(src.model)
  ELSE ModeAt(src.decl, Max(Says(src.decl, n, name))) = "+"

Declares(src, n, name) == name \in ModelFields(src.model) \/ \E k \in 1..n : name = src.decl[k].name

LEMMA SelectedIs ==
  ASSUME NEW src, NEW n, NEW name
  PROVE  name \in SelectedBy(src, n) <=> name # None /\ Declares(src, n, name) /\ Picks(src, n, name)
BY DEF SelectedBy, Picks, Declares

\* A name that was not declared picks itself only as a field.
LEMMA Undeclared ==
  ASSUME NEW src, NEW n, NEW name, Picks(src, n, name)
  PROVE  Declares(src, n, name)
<1>1. CASE Says(src.decl, n, name) = {}
  BY <1>1 DEF Picks, Declares
<1>2. CASE Says(src.decl, n, name) # {}
  BY <1>2 DEF Says, Declares
<1>. QED  BY <1>1, <1>2

\* What is selected after a _, after a declaration that does not count, and after one that
\* counts for its name.
LEMMA SelectedStep ==
  ASSUME NEW src, NEW n \in Nat, Modes(src.decl, n), NEW i \in 1..n
  PROVE  LET d == src.decl[i]
         IN /\ d.mode = "_" => SelectedBy(src, i) = {}
            /\ d.mode # "_" /\ (d.name = None \/ ModeAt(src.decl, i) = None) =>
                 SelectedBy(src, i) = SelectedBy(src, i - 1)
            /\ d.mode # "_" /\ d.name # None /\ ModeAt(src.decl, i) = "+" =>
                 SelectedBy(src, i) = SelectedBy(src, i - 1) \cup {d.name}
            /\ d.mode # "_" /\ d.name # None /\ ModeAt(src.decl, i) = "-" =>
                 SelectedBy(src, i) = SelectedBy(src, i - 1) \ {d.name}
<1>. DEFINE d == src.decl[i]
            decl == src.decl
<1>0. i \in Nat \ {0} /\ i \in 1..i
  OBVIOUS
<1>1. ASSUME d.mode = "_", NEW name
      PROVE  ~ Picks(src, i, name)
  <2>1. Says(decl, i, name) = {} /\ Start(decl, i) = i
    BY <1>0, <1>1, SaysStep, StartStep
  <2>. QED  BY <1>0, <2>1 DEF Picks
<1>2. ASSUME d.mode # "_", NEW name, name # d.name \/ ModeAt(decl, i) = None
      PROVE  Picks(src, i, name) <=> Picks(src, i - 1, name)
  <2>1. Says(decl, i, name) = Says(decl, i - 1, name)
    <3>1. ~ (d.name = name /\ ModeAt(decl, i) # None)
      BY <1>2
    <3>2. Says(decl, i, name) = Says(decl, i - 1, name)
                 \cup (IF d.name = name /\ ModeAt(decl, i) # None THEN {i} ELSE {})
      BY <1>0, <1>2, SaysStep
    <3>. HIDE DEF d, decl
    <3>. QED  BY <3>1, <3>2
  <2>2. Start(decl, i) = Start(decl, i - 1)
    BY <1>0, <1>2, StartStep
  <2>. QED  BY <2>1, <2>2 DEF Picks
<1>3. ASSUME d.mode # "_", d.name # None, ModeAt(decl, i) # None
      PROVE  Picks(src, i, d.name) <=> ModeAt(decl, i) = "+"
  <2>. DEFINE S == Says(decl, i, d.name)
  <2>1. i \in S /\ S \in SUBSET (0..i)
    <3>1. S = Says(decl, i - 1, d.name) \cup {i} /\ Says(decl, i - 1, d.name) \in SUBSET (1..(i - 1))
      BY <1>0, <1>3, SaysStep
    <3>. HIDE DEF S
    <3>. QED  BY <3>1
  <2>2. Max(S) = i
    <3>. HIDE DEF S
    <3>1. Max(S) \in S /\ i <= Max(S)
      BY <1>0, <2>1, MaxIs
    <3>2. Max(S) \in 0..i
      BY <2>1, <3>1
    <3>. QED  BY <1>0, <3>1, <3>2
  <2>. QED  BY <2>1, <2>2 DEF Picks
<1>4. d.mode = "_" => SelectedBy(src, i) = {}
  BY <1>1, SelectedIs
<1>5. ASSUME d.mode # "_", d.name = None \/ ModeAt(decl, i) = None
      PROVE  SelectedBy(src, i) = SelectedBy(src, i - 1)
  <2>1. ASSUME NEW name, name # None
        PROVE  Picks(src, i, name) <=> Picks(src, i - 1, name)
    BY <1>2, <1>5, <2>1
  <2>2. \A name : name \in SelectedBy(src, i) <=> name \in SelectedBy(src, i - 1)
    BY <2>1, SelectedIs, Undeclared
  <2>3. SelectedBy(src, i) \subseteq SelectedBy(src, i - 1) /\ SelectedBy(src, i - 1) \subseteq SelectedBy(src, i)
    BY <2>2
  <2>. QED  BY <2>3
<1>6. ASSUME d.mode # "_", d.name # None, ModeAt(decl, i) # None
      PROVE  \A name : name \in SelectedBy(src, i) <=>
                IF name = d.name THEN ModeAt(decl, i) = "+" ELSE name \in SelectedBy(src, i - 1)
  <2>1. ASSUME NEW name, name # d.name
        PROVE  Picks(src, i, name) <=> Picks(src, i - 1, name)
    BY <1>2, <1>6, <2>1
  <2>2. Picks(src, i, d.name) <=> ModeAt(decl, i) = "+"
    BY <1>3, <1>6
  <2>. QED  BY <1>6, <2>1, <2>2, SelectedIs, Undeclared
<1>7. ASSUME d.mode # "_", d.name # None, ModeAt(decl, i) = "+"
      PROVE  SelectedBy(src, i) = SelectedBy(src, i - 1) \cup {d.name}
  BY <1>6, <1>7, SentinelsAssumption
<1>8. ASSUME d.mode # "_", d.name # None, ModeAt(decl, i) = "-"
      PROVE  SelectedBy(src, i) = SelectedBy(src, i - 1) \ {d.name}
  BY <1>6, <1>8, SentinelsAssumption
<1>. QED  BY <1>4, <1>5, <1>7, <1>8
-----------------------------------------------------------------------------
(* The tasks of a selection *)

\* A task is a field, or comes from a declaration with an expression or a query.
IsField(model, t) == t.el = None /\ t.q = None /\ t.name \in ModelFields(model)
IsDecl(decl, subs, k, t) ==
  /\ decl[k].el # None
  /\ decl[k].mode # "_" => t.name = decl[k].name
  /\ IF decl[k].el.op = "qry" THEN t.el = None /\ t.q = subs[k] /\ ~ Bad(subs[k])
                              ELSE t.el = decl[k].el /\ t.q = None
Came(model, decl, subs, n, t) == IsField(model, t) \/ \E k \in 1..n : IsDecl(decl, subs, k, t)
AllCame(model, decl, subs, n, res) == \A k \in 1..Len(res) : Came(model, decl, subs, n, res[k])

\* What the loop over the declarations keeps true.
SelInv(model, decl, subs, n, s) ==
  /\ s = [mode |-> s.mode, res |-> s.res, end |-> s.end]
  /\ s.mode \in {None, "+", "-"} /\ s.end \in {None, Err, Panic, "scalar"}
  /\ IsList(s.res, Len(s.res)) /\ AllCame(model, decl, subs, n, s.res)
  /\ s.end = "scalar" => Len(s.res) = 1

LEMMA SelInvIs ==
  ASSUME NEW model, NEW decl, NEW subs, NEW n,
         NEW m \in {None, "+", "-"}, NEW e \in {None, Err, Panic, "scalar"}, NEW r,
         IsList(r, Len(r)), AllCame(model, decl, subs, n, r), e = "scalar" => Len(r) = 1
  PROVE  SelInv(model, decl, subs, n, [mode |-> m, res |-> r, end |-> e])
BY DEF SelInv

LEMMA CameMore ==
  ASSUME NEW model, NEW decl, NEW subs, NEW i \in Nat \ {0}, NEW t, Came(model, decl, subs, i - 1, t)
  PROVE  Came(model, decl, subs, i, t)
BY \A k \in 1..(i - 1) : k \in 1..i DEF Came

LEMMA AllCameMore ==
  ASSUME NEW model, NEW decl, NEW subs, NEW i \in Nat \ {0}, NEW r, AllCame(model, decl, subs, i - 1, r)
  PROVE  AllCame(model, decl, subs, i, r)
BY CameMore DEF AllCame

LEMMA AppendCame ==
  ASSUME NEW model, NEW decl, NEW subs, NEW n, NEW r, IsList(r, Len(r)), AllCame(model, decl, subs, n, r),
         NEW t, Came(model, decl, subs, n, t)
  PROVE  IsList(Append(r, t), Len(Append(r, t))) /\ AllCame(model, decl, subs, n, Append(r, t))
<1>. DEFINE l == Len(r)
            a == Append(r, t)
<1>1. IsList(a, l + 1) /\ a[l + 1] = t
  BY AppendIs
<1>6. \A i \in 1..l : a[i] = r[i]
  BY AppendIs
<1>2. l \in Nat
  BY DEF IsList
<1>3. Len(a) = l + 1
  BY <1>1 DEF IsList
<1>. HIDE DEF a
<1>4. \A i \in 1..(l + 1) : i = l + 1 \/ i \in 1..l
  BY <1>2
<1>5. AllCame(model, decl, subs, n, a)
  BY <1>1, <1>3, <1>4, <1>6 DEF AllCame
<1>. QED  BY <1>1, <1>3, <1>5 DEF a

LEMMA RemoveCame ==
  ASSUME NEW model, NEW decl, NEW subs, NEW n, NEW r, IsList(r, Len(r)), AllCame(model, decl, subs, n, r),
         NEW name \in NamesOf(r)
  PROVE  LET a == RemoveAt(r, FirstNamed(r, name))
         IN IsList(a, Len(a)) /\ AllCame(model, decl, subs, n, a)
<1>. DEFINE l == Len(r)
            a == RemoveAt(r, FirstNamed(r, name))
<1>1. IsList(a, l - 1) /\ \A i \in 1..(l - 1) : \E k \in 1..l : a[i] = r[k]
  BY RemoveNames
<1>3. Len(a) = l - 1
  BY <1>1 DEF IsList
<1>. HIDE DEF a
<1>5. AllCame(model, decl, subs, n, a)
  BY <1>1, <1>3 DEF AllCame
<1>. QED  BY <1>1, <1>3, <1>5 DEF a

LEMMA WithCame ==
  ASSUME NEW model, NEW decl, NEW subs, NEW n, NEW r, IsList(r, Len(r)), AllCame(model, decl, subs, n, r),
         NEW t, Came(model, decl, subs, n, t)
  PROVE  IsList(With(r, t), Len(With(r, t))) /\ AllCame(model, decl, subs, n, With(r, t))
<1>. DEFINE a == With(r, t)
<1>1. IsList(a, Len(a)) /\ \A i \in 1..Len(a) : a[i] = t \/ \E k \in 1..Len(r) : a[i] = r[k]
  BY WithNames
<1>. HIDE DEF a
<1>2. AllCame(model, decl, subs, n, a)
  BY <1>1 DEF AllCame
<1>. QED  BY <1>1, <1>2 DEF a

LEMMA OneCame ==
  ASSUME NEW model, NEW decl, NEW subs, NEW n, NEW t, Came(model, decl, subs, n, t)
  PROVE  IsList(<<t>>, 1) /\ Len(<<t>>) = 1 /\ AllCame(model, decl, subs, n, <<t>>)
<1>1. Len(<<t>>) = 1 /\ <<t>>[1] = t /\ <<t>> \in Seq({t})
  OBVIOUS
<1>2. IsList(<<t>>, 1)
  BY <1>1, ListIs
<1>3. \A k \in 1..1 : k = 1
  OBVIOUS
<1>. QED  BY <1>1, <1>2, <1>3 DEF AllCame

LEMMA NoneCame ==
  ASSUME NEW model, NEW decl, NEW subs, NEW n
  PROVE  IsList(<<>>, Len(<<>>)) /\ AllCame(model, decl, subs, n, <<>>)
<1>1. IsList(<<>>, 0)
  BY EmptyList
<1>2. Len(<<>>) = 0 /\ 1..0 = {}
  OBVIOUS
<1>. QED  BY <1>1, <1>2 DEF AllCame

\* The task of a declaration comes from it, and the task of a field is a field.
LEMMA TaskDecl ==
  ASSUME NEW model, NEW decl, NEW subs, NEW i, decl[i].el # None
  PROVE  /\ ~ Bad(SelTask(model, decl, subs, i)) => IsDecl(decl, subs, i, SelTask(model, decl, subs, i))
         /\ ~ Bad(AltSelTask(decl, subs, i)) => IsDecl(decl, subs, i, AltSelTask(decl, subs, i))
<1>. DEFINE d == decl[i]
<1>2. ASSUME NEW t, t = SelTask(model, decl, subs, i), ~ Bad(t)
      PROVE  IsDecl(decl, subs, i, t)
  <2>1. t = ResolveTask(DeclName(d), d.el, subs[i], ModelFields(model))
    BY <1>2 DEF SelTask
  <2>2. d.mode # "_" => DeclName(d) = d.name
    BY DEF DeclName
  <2>3. CASE d.el.op = "qry"
    <3>1. ~ Bad(subs[i]) /\ t = Task(DeclName(d), None, subs[i])
      BY <1>2, <2>1, <2>3 DEF ResolveTask
    <3>. QED  BY <2>2, <2>3, <3>1 DEF IsDecl, Task
  <2>4. CASE d.el.op # "qry"
    <3>1. t = Task(DeclName(d), d.el, None)
      BY <1>2, <2>1, <2>4 DEF ResolveTask, Bad
    <3>. QED  BY <2>2, <2>4, <3>1 DEF IsDecl, Task
  <2>. QED  BY <2>3, <2>4
<1>3. ASSUME NEW t, t = AltSelTask(decl, subs, i), ~ Bad(t)
      PROVE  IsDecl(decl, subs, i, t)
  <2>1. t = AltResolveTask(d.name, d.el, subs[i])
    BY <1>3 DEF AltSelTask
  <2>3. CASE d.el.op = "qry"
    <3>1. ~ Bad(subs[i]) /\ t = Task(d.name, None, subs[i])
      BY <1>3, <2>1, <2>3 DEF AltResolveTask, Bad
    <3>. QED  BY <2>3, <3>1 DEF IsDecl, Task
  <2>4. CASE d.el.op # "qry"
    <3>1. t = Task(d.name, d.el, None)
      BY <2>1, <2>4 DEF AltResolveTask
    <3>. QED  BY <2>4, <3>1 DEF IsDecl, Task
  <2>. QED  BY <2>3, <2>4
<1>. QED  BY <1>2, <1>3

LEMMA TaskCame ==
  ASSUME NEW model, NEW decl, NEW subs, NEW i \in Nat \ {0}, decl[i].el # None
  PROVE  /\ ~ Bad(SelTask(model, decl, subs, i)) => Came(model, decl, subs, i, SelTask(model, decl, subs, i))
         /\ ~ Bad(AltSelTask(decl, subs, i)) => Came(model, decl, subs, i, AltSelTask(decl, subs, i))
BY TaskDecl, i \in 1..i DEF Came

LEMMA FieldCame ==
  ASSUME NEW model, NEW decl, NEW subs, NEW n, NEW f \in ModelFields(model)
  PROVE  Came(model, decl, subs, n, FieldTask(f)) /\ FieldTask(f).name = f
BY DEF Came, IsField, FieldTask, Task
\* A round of the loop, in both forms.
LEMMA SelInvStep ==
  ASSUME NEW model, NEW decl, NEW subs, NEW n \in Nat, Modes(decl, n), NEW i \in 1..n,
         NEW s, SelInv(model, decl, subs, i - 1, s)
  PROVE  /\ SelInv(model, decl, subs, i, SelRound(model, decl, subs, s, i))
         /\ SelInv(model, decl, subs, i, AltSelRound(model, decl, subs, s, i))
<1>. DEFINE d == decl[i]
            t == SelTask(model, decl, subs, i)
            u == AltSelTask(decl, subs, i)
            I(x) == SelInv(model, decl, subs, i, x)
            S(m, r, e) == [mode |-> m, res |-> r, end |-> e]
            F == ModelFields(model)
<1>0. i \in Nat \ {0} /\ d.mode \in {None, "+", "-", "_"}
  <2>1. i \in Nat \ {0}
    OBVIOUS
  <2>2. decl[i].mode \in {None, "+", "-", "_"}
    BY DEF Modes
  <2>. QED  BY <2>1, <2>2
<1>1. s = S(s.mode, s.res, s.end)
  BY DEF SelInv
<1>2. /\ s.mode \in {None, "+", "-"} /\ s.end \in {None, Err, Panic, "scalar"}
      /\ IsList(s.res, Len(s.res)) /\ AllCame(model, decl, subs, i, s.res)
      /\ s.end = "scalar" => Len(s.res) = 1
  BY <1>0, AllCameMore DEF SelInv
<1>3. ASSUME NEW m \in {None, "+", "-"}, NEW e \in {None, Err, Panic, "scalar"}, NEW r,
             IsList(r, Len(r)), AllCame(model, decl, subs, i, r), e = "scalar" => Len(r) = 1
      PROVE  I(S(m, r, e))
  BY <1>3, SelInvIs
<1>4. /\ d.el # None /\ ~ Bad(t) => Came(model, decl, subs, i, t)
      /\ d.el # None /\ ~ Bad(u) => Came(model, decl, subs, i, u)
  BY <1>0, TaskCame
<1>. HIDE DEF I, S, t, u
<1>5. I(s)
  BY <1>1, <1>2, <1>3
<1>6. ASSUME s.end = None, NEW m \in {None, "+", "-"}, NEW why \in {None, Err, Panic}
      PROVE  I(S(m, s.res, why))
  BY <1>2, <1>3, <1>6, SentinelsAssumption
<1>7. ASSUME s.end = None
      PROVE  /\ I(Reset(s))
             /\ d.mode \in {"+", "-"} => I(Bare(s, d))
             /\ I(Ended(s, Err)) /\ I(Ended(s, Panic))
  <2>1. Reset(s) = S("+", <<>>, None)
    BY <1>7 DEF Reset, S
  <2>2. I(Reset(s))
    BY <2>1, <1>3, NoneCame, SentinelsAssumption
  <2>3. Ended(s, Err) = S(s.mode, s.res, Err) /\ Ended(s, Panic) = S(s.mode, s.res, Panic)
    BY <1>1 DEF Ended, S
  <2>4. I(Ended(s, Err)) /\ I(Ended(s, Panic))
    BY <2>3, <1>2, <1>6, <1>7
  <2>5. [s EXCEPT !.mode = d.mode] = S(d.mode, s.res, None)
    BY <1>1, <1>7 DEF S
  <2>6. d.mode \in {"+", "-"} => I([s EXCEPT !.mode = d.mode])
    BY <2>5, <1>6, <1>7
  <2>7. d.mode \in {"+", "-"} => I(Bare(s, d))
    BY <2>4, <2>6 DEF Bare
  <2>. QED  BY <2>2, <2>4, <2>7, <1>0
<1>8. ASSUME NEW v, ~ Bad(v), Came(model, decl, subs, i, v)
      PROVE  I(S("+", <<v>>, "scalar"))
  <2>1. IsList(<<v>>, 1) /\ Len(<<v>>) = 1 /\ AllCame(model, decl, subs, i, <<v>>)
    BY <1>8, OneCame
  <2>. QED  BY <1>3, <2>1
<1>9. ASSUME s.end = None, d.el # None
      PROVE  I(Scalar(s, i, d, t)) /\ \A last : I(AltScalar(s, last, u))
  <2>1. ASSUME NEW v, Bad(v)
        PROVE  I(Ended(s, v))
    BY <2>1, <1>7, <1>9 DEF Bad
  <2>2. (~ Bad(t) => I(S("+", <<t>>, "scalar"))) /\ (~ Bad(u) => I(S("+", <<u>>, "scalar")))
    BY <1>4, <1>8, <1>9
  <2>3. I(Scalar(s, i, d, t))
    BY <2>1, <2>2, <1>7, <1>9 DEF Scalar, S
  <2>4. ASSUME NEW last
        PROVE  I(AltScalar(s, last, u))
    BY <2>1, <2>2, <1>7, <1>9 DEF AltScalar, S
  <2>. QED  BY <2>3, <2>4
<1>10. ASSUME s.end = None, NEW m \in {None, "+", "-"}
       PROVE  /\ I(Exclude(S(m, s.res, None), d)) /\ I(Include(S(m, s.res, None), d, F, t))
              /\ I(AltExclude(S(m, s.res, None), d)) /\ I(AltInclude(S(m, s.res, None), d, F, u))
  <2>. DEFINE s1 == S(m, s.res, None)
  <2>1. s1.res = s.res /\ I(s1) /\ \A e : Ended(s1, e) = S(m, s.res, e)
    BY <1>6, <1>10 DEF S, Ended
  <2>2. \A e \in {Err, Panic} : I(Ended(s1, e))
    BY <2>1, <1>6, <1>10
  <2>3. \A r : [s1 EXCEPT !.res = r] = S(m, r, None)
    BY DEF S
  <2>. HIDE DEF s1
  <2>4. ASSUME NEW r, IsList(r, Len(r)), AllCame(model, decl, subs, i, r)
        PROVE  I([s1 EXCEPT !.res = r])
    <3>1. None # "scalar"
      BY SentinelsAssumption
    <3>2. I(S(m, r, None))
      BY <2>4, <3>1, <1>3, <1>10
    <3>. QED  BY <2>3, <3>2
  <2>5. ASSUME d.name \in NamesOf(s.res)
        PROVE  I([s1 EXCEPT !.res = RemoveAt(s.res, FirstNamed(s.res, d.name))])
    BY <2>4, <2>5, <1>2, RemoveCame
  <2>6. ASSUME NEW v, Came(model, decl, subs, i, v)
        PROVE  I([s1 EXCEPT !.res = Append(s.res, v)]) /\ I([s1 EXCEPT !.res = With(s.res, v)])
    BY <2>4, <2>6, <1>2, AppendCame, WithCame
  <2>7. d.name \in F => Came(model, decl, subs, i, FieldTask(d.name))
    BY FieldCame
  <2>8. I(Exclude(s1, d)) /\ I(AltExclude(s1, d))
    BY <2>1, <2>2, <2>5 DEF Exclude, AltExclude
  <2>9. I(Include(s1, d, F, t))
    BY <2>1, <2>2, <2>6, <2>7, <1>4 DEF Include, Bad
  <2>10. I(AltInclude(s1, d, F, u))
    BY <2>1, <2>2, <2>6, <2>7, <1>4 DEF AltInclude, Bad
  <2>. QED  BY <2>8, <2>9, <2>10 DEF s1
<1>11. ASSUME s.end = None, d.mode # "_"
       PROVE  I(Named(s, d, F, t)) /\ I(AltNamed(s, d, F, u))
  <2>. DEFINE m == IF d.mode = None THEN s.mode ELSE d.mode
              s1 == IF d.mode = None THEN s ELSE [s EXCEPT !.mode = d.mode]
  <2>1. m \in {None, "+", "-"}
    BY <1>0, <1>2, <1>11
  <2>2. s1 = S(m, s.res, None) /\ s1.mode = m
    BY <1>1, <1>11 DEF S
  <2>3. I(s1)
    BY <2>1, <2>2, <1>6, <1>11
  <2>4. /\ I(Exclude(s1, d)) /\ I(Include(s1, d, F, t))
        /\ I(AltExclude(s1, d)) /\ I(AltInclude(s1, d, F, u))
    <3>. HIDE DEF m, s1
    <3>. QED  BY <1>10, <1>11, <2>1, <2>2
  <2>5. /\ Named(s, d, F, t) \in {Exclude(s1, d), Include(s1, d, F, t), s1}
        /\ AltNamed(s, d, F, u) \in {AltExclude(s1, d), AltInclude(s1, d, F, u), s1}
    BY DEF Named, AltNamed
  <2>. HIDE DEF s1
  <2>. QED  BY <2>3, <2>4, <2>5
<1>12. I(Declared(s, i, d, F, t))
  <2>1. s.end = None /\ d.mode # "_" /\ d.mode # None => I(Bare(s, d))
    BY <1>0, <1>7
  <2>2. CASE s.end # None
    BY <2>2, <1>5 DEF Declared
  <2>3. CASE s.end = None /\ d.mode = "_"
    <3>1. d.el = None => I(Reset(s))
      BY <2>3, <1>7
    <3>2. d.el # None => I(Scalar(s, i, d, t))
      BY <2>3, <1>9
    <3>. QED  BY <2>3, <3>1, <3>2 DEF Declared
  <2>4. CASE s.end = None /\ d.mode # "_"
    BY <2>1, <2>4, <1>7, <1>11 DEF Declared
  <2>. QED  BY <2>2, <2>3, <2>4
<1>13. I(AltDeclared(s, i = Len(decl), d, F, u))
  <2>1. s.end = None /\ d.mode # "_" /\ d.mode # None => I(Bare(s, d))
    BY <1>0, <1>7
  <2>2. CASE s.end # None
    BY <2>2, <1>5 DEF AltDeclared
  <2>3. CASE s.end = None /\ d.mode = "_"
    <3>1. d.el = None => I(Reset(s))
      BY <2>3, <1>7
    <3>2. d.el # None => I(AltScalar(s, i = Len(decl), u))
      BY <2>3, <1>9
    <3>. QED  BY <2>3, <3>1, <3>2 DEF AltDeclared
  <2>4. CASE s.end = None /\ d.mode # "_"
    BY <2>1, <2>4, <1>7, <1>11 DEF AltDeclared
  <2>. QED  BY <2>2, <2>3, <2>4
<1>. QED  BY <1>12, <1>13 DEF SelRound, AltSelRound, I, t, u
\* As long as the loop goes on, it has selected what the declarations so far say.
NameInv(src, n, s) ==
  s.end = None =>
    /\ s.mode = ModeAt(src.decl, n) /\ NamesOf(s.res) = SelectedBy(src, n) /\ Unique(s.res)
    /\ \A name \in NamesOf(s.res) : name \in ModelFields(src.model)
          \/ \E k \in 1..n : src.decl[k].el # None /\ name = src.decl[k].name

LEMMA NameStep ==
  ASSUME NEW src, NEW subs, NEW n \in Nat, Modes(src.decl, n), DOMAIN src.decl = 1..n, NEW i \in 1..n,
         NEW s, SelInv(src.model, src.decl, subs, i - 1, s), NameInv(src, i - 1, s)
  PROVE  /\ NewNames(src) => NameInv(src, i, SelRound(src.model, src.decl, subs, s, i))
         /\ NameInv(src, i, AltSelRound(src.model, src.decl, subs, s, i))
<1>. DEFINE decl == src.decl
            d == decl[i]
            t == SelTask(src.model, decl, subs, i)
            u == AltSelTask(decl, subs, i)
            N(x) == NameInv(src, i, x)
            S(m, r, e) == [mode |-> m, res |-> r, end |-> e]
            F == ModelFields(src.model)
            Known(j, name) == name \in F \/ \E k \in 1..j : decl[k].el # None /\ name = decl[k].name
<1>0. i \in Nat \ {0} /\ d.mode \in {None, "+", "-", "_"} /\ i \in 1..i
  <2>1. i \in Nat \ {0} /\ i \in 1..i
    OBVIOUS
  <2>2. decl[i].mode \in {None, "+", "-", "_"}
    BY DEF Modes
  <2>. QED  BY <2>1, <2>2
<1>1. s = S(s.mode, s.res, s.end) /\ IsList(s.res, Len(s.res)) 
  BY DEF SelInv
<1>2. None \notin {Err, Panic, "+", "-", "_", "scalar"}
  BY SentinelsAssumption
<1>3. \A name : Known(i - 1, name) => Known(i, name)
  <2>1. \A k \in 1..(i - 1) : k \in 1..i
    OBVIOUS
  <2>. QED  BY <2>1
<1>. SUFFICES ASSUME s.end = None
              PROVE  (NewNames(src) => N(SelRound(src.model, decl, subs, s, i)))
                     /\ N(AltSelRound(src.model, decl, subs, s, i))
  BY DEF SelRound, AltSelRound, Declared, AltDeclared, NameInv
<1>4. /\ s.mode = ModeAt(decl, i - 1) /\ NamesOf(s.res) = SelectedBy(src, i - 1) /\ Unique(s.res)
      /\ \A name \in NamesOf(s.res) : Known(i - 1, name)
  BY DEF NameInv
<1>. DEFINE m == ModeAt(decl, i)
<1>5. m = IF d.mode = None THEN s.mode ELSE IF d.mode = "_" THEN "+" ELSE d.mode
  BY <1>4, ModeStep
<1>6. m \in {None, "+", "-"}
  <2>1. i \in 0..n
    OBVIOUS
  <2>. QED  BY <2>1, ModeType
<1>7. ASSUME NEW x, x.end # None
      PROVE  N(x)
  BY <1>7 DEF NameInv
<1>8. ASSUME NEW r, NamesOf(r) = SelectedBy(src, i), Unique(r), \A name \in NamesOf(r) : Known(i, name)
      PROVE  N(S(m, r, None))
  BY <1>8 DEF NameInv
<1>9. /\ d.mode = "_" => SelectedBy(src, i) = {}
      /\ d.mode # "_" /\ (d.name = None \/ m = None) => SelectedBy(src, i) = SelectedBy(src, i - 1)
      /\ d.mode # "_" /\ d.name # None /\ m = "+" => SelectedBy(src, i) = SelectedBy(src, i - 1) \cup {d.name}
      /\ d.mode # "_" /\ d.name # None /\ m = "-" => SelectedBy(src, i) = SelectedBy(src, i - 1) \ {d.name}
  BY SelectedStep
<1>10. d.el # None /\ d.mode # "_" =>
          /\ ~ Bad(t) => t.name = d.name
          /\ ~ Bad(u) => u.name = d.name
  <2>1. d.el # None => /\ ~ Bad(t) => IsDecl(decl, subs, i, t)
                       /\ ~ Bad(u) => IsDecl(decl, subs, i, u)
    BY TaskDecl
  <2>. HIDE DEF t, u
  <2>. QED  BY <2>1 DEF IsDecl
<1>11. ASSUME NEW x, x.end = None, NEW e, e # None
       PROVE  N(Ended(S(m, s.res, None), e)) /\ N(Ended(s, e))
  <2>1. Ended(S(m, s.res, None), e).end = e /\ Ended(s, e) = S(s.mode, s.res, e)
    BY <1>1 DEF Ended
  <2>2. Ended(s, e).end = e
    BY <2>1
  <2>. QED  BY <2>1, <2>2, <1>7, <1>11
<1>12. \A e \in {Err, Panic, "scalar"} : N(Ended(S(m, s.res, None), e)) /\ N(Ended(s, e))
  <2>. HIDE DEF N, S
  <2>. QED  BY <1>2, <1>11
<1>. HIDE DEF N, m, t, u, Known
\* A _.
<1>13. ASSUME d.mode = "_"
       PROVE  N(SelRound(src.model, decl, subs, s, i)) /\ N(AltSelRound(src.model, decl, subs, s, i))
  <2>1. d.el = None => N(Reset(s))
    <3>1. NamesOf(<<>>) = {} /\ Unique(<<>>)
      BY DEF NamesOf, Unique
    <3>2. m = "+"
      BY <1>2, <1>5, <1>13
    <3>3. Reset(s) = S(m, <<>>, None)
      BY <3>2 DEF Reset
    <3>. HIDE DEF S
    <3>. QED  BY <3>1, <3>3, <1>8, <1>9, <1>13
  <2>2. N(Scalar(s, i, d, t)) /\ N(AltScalar(s, i = Len(decl), u))
    <3>1. \A v : N([mode |-> "+", res |-> <<v>>, end |-> "scalar"])
      BY <1>2, <1>7
    <3>2. \A v : Bad(v) => N(Ended(s, v))
      BY <1>12 DEF Bad
    <3>3. N(Scalar(s, i, d, t))
      BY <3>1, <3>2, <1>12 DEF Scalar
    <3>4. N(AltScalar(s, i = Len(decl), u))
      BY <3>1, <3>2, <1>12 DEF AltScalar
    <3>. QED  BY <3>3, <3>4
  <2>. QED  BY <2>1, <2>2, <1>13 DEF SelRound, AltSelRound, Declared, AltDeclared, t, u
\* A bare + or -.
<1>14. ASSUME d.mode # "_", d.name = None
       PROVE  N(SelRound(src.model, decl, subs, s, i)) /\ N(AltSelRound(src.model, decl, subs, s, i))
  <2>1. ASSUME d.mode # None
        PROVE  N(Bare(s, d))
    <3>1. [s EXCEPT !.mode = d.mode] = S(d.mode, s.res, None)
      BY <1>1
    <3>2. d.mode = m
      BY <1>5, <1>14, <2>1
    <3>3. N([s EXCEPT !.mode = d.mode])
      <4>. HIDE DEF S
      <4>. QED  BY <3>1, <3>2, <1>3, <1>4, <1>8, <1>9, <1>14
    <3>. QED  BY <3>3, <1>12 DEF Bare
  <2>. QED  BY <2>1, <1>12, <1>14 DEF SelRound, AltSelRound, Declared, AltDeclared
\* A name.
<1>15. ASSUME d.mode # "_", d.name # None
       PROVE  (NewNames(src) => N(SelRound(src.model, decl, subs, s, i)))
              /\ N(AltSelRound(src.model, decl, subs, s, i))
  <2>. DEFINE s1 == S(m, s.res, None)
  <2>1. (IF d.mode = None THEN s ELSE [s EXCEPT !.mode = d.mode]) = s1
    BY <1>1, <1>5, <1>15
  <2>2. s1.res = s.res /\ s1.mode = m /\ \A r : [s1 EXCEPT !.res = r] = S(m, r, None)
    OBVIOUS
  <2>3. \A e : Bad(e) \/ e = Err => N(Ended(s1, e))
    BY <1>12 DEF Bad
  <2>. HIDE DEF S, s1
  <2>4. m = None => N(s1)
    BY <1>3, <1>4, <1>8, <1>9, <1>15 DEF s1
  <2>5. ASSUME m = "-"
        PROVE  N(Exclude(s1, d)) /\ N(AltExclude(s1, d))
    <3>1. ASSUME d.name \in NamesOf(s.res)
          PROVE  N([s1 EXCEPT !.res = RemoveAt(s.res, FirstNamed(s.res, d.name))])
      <4>. DEFINE r == RemoveAt(s.res, FirstNamed(s.res, d.name))
      <4>1. NamesOf(r) = NamesOf(s.res) \ {d.name} /\ Unique(r)
        BY <3>1, <1>1, <1>4, RemoveNames
      <4>. HIDE DEF r
      <4>2. NamesOf(r) = SelectedBy(src, i)
        BY <4>1, <1>4, <1>9, <1>15, <2>5
      <4>3. N(S(m, r, None))
        BY <4>1, <4>2, <1>3, <1>4, <1>8
      <4>. QED  BY <4>3, <2>2 DEF r
    <3>2. ASSUME d.name \notin NamesOf(s.res)
          PROVE  N(s1)
      <4>1. NamesOf(s.res) = SelectedBy(src, i)
        BY <3>2, <1>4, <1>9, <1>15, <2>5
      <4>. QED  BY <4>1, <1>3, <1>4, <1>8 DEF s1
    <3>. QED  BY <3>1, <3>2, <2>2, <2>3 DEF Exclude, AltExclude
  <2>6. ASSUME m = "+", NEW v, v.name = d.name, Known(i, d.name)
        PROVE  /\ d.name \notin NamesOf(s.res) => N([s1 EXCEPT !.res = Append(s.res, v)])
               /\ N([s1 EXCEPT !.res = With(s.res, v)])
    <3>. DEFINE a == Append(s.res, v)
                w == With(s.res, v)
    <3>1. /\ NamesOf(a) = NamesOf(s.res) \cup {d.name}
          /\ d.name \notin NamesOf(s.res) => Unique(a)
      BY <2>6, <1>1, <1>4, AppendNames
    <3>2. NamesOf(w) = NamesOf(s.res) \cup {d.name} /\ Unique(w)
      <4>1. NamesOf(w) = NamesOf(s.res) \cup {v.name}
        BY <1>1, WithNames
      <4>2. Unique(w)
        BY <1>1, <1>4, WithNames
      <4>. QED  BY <2>6, <4>1, <4>2
    <3>. HIDE DEF a, w
    <3>3. SelectedBy(src, i) = NamesOf(s.res) \cup {d.name}
      BY <1>4, <1>9, <1>15, <2>6
    <3>4. \A name \in NamesOf(s.res) \cup {d.name} : Known(i, name)
      BY <1>3, <1>4, <2>6
    <3>5. d.name \notin NamesOf(s.res) => N(S(m, a, None))
      BY <3>1, <3>3, <3>4, <1>8
    <3>6. N(S(m, w, None))
      BY <3>2, <3>3, <3>4, <1>8
    <3>. QED  BY <3>5, <3>6, <2>2 DEF a, w
  <2>7. (d.name \in F => Known(i, d.name)) /\ (d.el # None => Known(i, d.name))
    BY <1>0 DEF Known
  <2>8. FieldTask(d.name).name = d.name
    BY DEF FieldTask, Task
  <2>9. ASSUME m = "+", NewNames(src)
        PROVE  N(Include(s1, d, F, t))
    <3>1. ASSUME d.el # None
          PROVE  d.name \notin NamesOf(s.res)
      <4>. SUFFICES ASSUME d.name \in NamesOf(s.res)
                    PROVE  FALSE
        OBVIOUS
      <4>1. i \in DOMAIN decl /\ d.name \notin F
        BY <2>9, <3>1 DEF NewNames
      <4>2. PICK k \in 1..(i - 1) : decl[k].el # None /\ d.name = decl[k].name
        BY <1>4, <4>1 DEF Known
      <4>3. k \in DOMAIN decl /\ k # i
        OBVIOUS
      <4>. QED  BY <2>9, <3>1, <4>1, <4>2, <4>3 DEF NewNames
    <3>2. d.el # None /\ ~ Bad(t) => N([s1 EXCEPT !.res = Append(s.res, t)])
      BY <2>6, <2>7, <2>9, <3>1, <1>10, <1>15
    <3>3. d.name \in F /\ d.name \notin NamesOf(s.res) =>
             N([s1 EXCEPT !.res = Append(s.res, FieldTask(d.name))])
      BY <2>6, <2>7, <2>8, <2>9
    <3>. QED  BY <3>2, <3>3, <2>2, <2>3 DEF Include
  <2>10. ASSUME m = "+"
         PROVE  N(AltInclude(s1, d, F, u))
    <3>2. d.el # None /\ ~ Bad(u) => N([s1 EXCEPT !.res = With(s.res, u)])
      BY <2>6, <2>7, <2>10, <1>10, <1>15
    <3>3. d.name \in F => N([s1 EXCEPT !.res = With(s.res, FieldTask(d.name))])
      BY <2>6, <2>7, <2>8, <2>10
    <3>. QED  BY <3>2, <3>3, <2>2, <2>3 DEF AltInclude
  <2>11. SelRound(src.model, decl, subs, s, i) =
           CASE m = "-" -> Exclude(s1, d) [] m = "+" -> Include(s1, d, F, t) [] OTHER -> s1
    BY <2>1, <2>2, <1>15 DEF SelRound, Declared, Named, t
  <2>12. AltSelRound(src.model, decl, subs, s, i) =
           CASE m = "-" -> AltExclude(s1, d) [] m = "+" -> AltInclude(s1, d, F, u) [] OTHER -> s1
    BY <2>1, <2>2, <1>15 DEF AltSelRound, AltDeclared, AltNamed, u
  <2>13. CASE m = "-"
    BY <2>5, <2>11, <2>12, <2>13
  <2>14. CASE m = "+"
    BY <2>9, <2>10, <2>11, <2>12, <2>14
  <2>15. CASE m = None
    BY <2>4, <2>11, <2>12, <2>15, <1>2
  <2>. QED  BY <2>13, <2>14, <2>15, <1>6
<1>. QED  BY <1>0, <1>13, <1>14, <1>15
\* Before the first round every field is selected.
LEMMA FieldTasksAre ==
  ASSUME NEW model \in DOMAIN Fields
  PROVE  /\ IsList(FieldTasks(model), Len(FieldTasks(model)))
         /\ \A decl, subs : AllCame(model, decl, subs, 0, FieldTasks(model))
         /\ NamesOf(FieldTasks(model)) = ModelFields(model) /\ Unique(FieldTasks(model))
         /\ None \notin ModelFields(model)
<1>. DEFINE fs == Fields[model]
            n == Len(fs)
            r == FieldTasks(model)
<1>1. /\ fs \in Seq(ModelFields(model)) /\ None \notin ModelFields(model)
      /\ \A i, k \in DOMAIN fs : fs[i] = fs[k] => i = k
  BY FieldsAssumption
<1>2. n \in Nat /\ DOMAIN fs = 1..n
  BY <1>1, LenProperties
<1>3. ModelFields(model) = {fs[i] : i \in 1..n}
  BY <1>2 DEF ModelFields, ToSet
<1>4. r = [i \in 1..n |-> FieldTask(fs[i])]
  BY <1>2 DEF FieldTasks
<1>. HIDE DEF r, n, fs
<1>5. DOMAIN r = 1..n /\ r = [i \in 1..n |-> r[i]] /\ \A i \in 1..n : r[i] = FieldTask(fs[i])
  BY <1>4
<1>6. IsList(r, n) /\ Len(r) = n
  BY <1>2, <1>5, ListOf DEF IsList
<1>7. ASSUME NEW decl, NEW subs
      PROVE  AllCame(model, decl, subs, 0, r)
  <2>1. ASSUME NEW i \in 1..n
        PROVE  Came(model, decl, subs, 0, r[i])
    BY <1>3, <1>5, FieldCame
  <2>. QED  BY <2>1, <1>6 DEF AllCame
<1>8. \A i \in 1..n : r[i].name = fs[i]
  BY <1>5 DEF FieldTask, Task
<1>9. NamesOf(r) = ModelFields(model) /\ Unique(r)
  BY <1>1, <1>2, <1>3, <1>5, <1>8 DEF NamesOf, Unique
<1>. QED  BY <1>1, <1>6, <1>7, <1>9 DEF r

LEMMA SelIs ==
  ASSUME NEW src \in Sources, NEW subs, src.model \in DOMAIN Fields
  PROVE  LET n == Len(src.decl)
             s == ResolveSel(src.model, src.decl, subs)
             u == AltSel(src.model, src.decl, subs)
         IN /\ SelInv(src.model, src.decl, subs, n, s) /\ (NewNames(src) => NameInv(src, n, s))
            /\ SelInv(src.model, src.decl, subs, n, u) /\ NameInv(src, n, u)
<1>. DEFINE n == Len(src.decl)
            first == [mode |-> None, res |-> FieldTasks(src.model), end |-> None]
            I(i, s) == SelInv(src.model, src.decl, subs, i, s)
<1>1. n \in Nat /\ DOMAIN src.decl = 1..n /\ Modes(src.decl, n)
  BY SourceFacts DEF Modes
<1>. HIDE DEF n
<1>2. I(0, first)
  <2>1. IsList(FieldTasks(src.model), Len(FieldTasks(src.model)))
         /\ AllCame(src.model, src.decl, subs, 0, FieldTasks(src.model))
    BY FieldTasksAre
  <2>2. None # "scalar"
    BY SentinelsAssumption
  <2>. QED  BY <2>1, <2>2, SelInvIs
<1>3. NameInv(src, 0, first)
  <2>1. ModeAt(src.decl, 0) = None /\ SelectedBy(src, 0) = ModelFields(src.model) \ {None}
    BY NothingSaid
  <2>2. /\ NamesOf(FieldTasks(src.model)) = ModelFields(src.model) /\ Unique(FieldTasks(src.model))
        /\ None \notin ModelFields(src.model)
    BY FieldTasksAre
  <2>3. first.mode = None /\ first.res = FieldTasks(src.model)
    OBVIOUS
  <2>. HIDE DEF first
  <2>. QED  BY <2>1, <2>2, <2>3 DEF NameInv
<1>. HIDE DEF I, first
<1>4. ASSUME NEW i \in 1..n, NEW s, I(i - 1, s)
      PROVE  /\ I(i, SelRound(src.model, src.decl, subs, s, i))
             /\ I(i, AltSelRound(src.model, src.decl, subs, s, i))
             /\ NameInv(src, i - 1, s) => NameInv(src, i, AltSelRound(src.model, src.decl, subs, s, i))
             /\ NameInv(src, i - 1, s) /\ NewNames(src) => NameInv(src, i, SelRound(src.model, src.decl, subs, s, i))
  <2>1. /\ I(i, SelRound(src.model, src.decl, subs, s, i))
        /\ I(i, AltSelRound(src.model, src.decl, subs, s, i))
    BY <1>1, <1>4, SelInvStep DEF I
  <2>2. ASSUME NameInv(src, i - 1, s)
        PROVE  /\ NameInv(src, i, AltSelRound(src.model, src.decl, subs, s, i))
               /\ NewNames(src) => NameInv(src, i, SelRound(src.model, src.decl, subs, s, i))
    BY <1>1, <1>4, <2>2, NameStep DEF I
  <2>. QED  BY <2>1, <2>2
<1>5. I(n, ResolveSel(src.model, src.decl, subs))
       /\ (NewNames(src) => NameInv(src, n, ResolveSel(src.model, src.decl, subs)))
  <2>1. PICK loop :
           /\ loop[0] = first
           /\ \A i \in 1..n : loop[i] = SelRound(src.model, src.decl, subs, loop[i - 1], i)
           /\ ResolveSel(src.model, src.decl, subs) = loop[n]
    BY <1>1, SelLoop DEF n, first
  <2>. DEFINE T == {i \in 0..n : I(i, loop[i]) /\ (NewNames(src) => NameInv(src, i, loop[i]))}
  <2>2. 0 \in T
    BY <1>1, <1>2, <1>3, <2>1
  <2>3. ASSUME NEW i \in 1..n, i - 1 \in T
        PROVE  i \in T
    <3>1. loop[i] = SelRound(src.model, src.decl, subs, loop[i - 1], i)
      BY <2>1
    <3>2. I(i, loop[i]) /\ (NewNames(src) => NameInv(src, i, loop[i]))
      BY <1>4, <2>3, <3>1
    <3>. QED  BY <3>2
  <2>4. n \in T
    <3>. HIDE DEF T
    <3>1. n \in 0..n
      BY <1>1
    <3>. QED  BY <1>1, <2>2, <2>3, <3>1, Rounds
  <2>. QED  BY <2>1, <2>4
<1>6. I(n, AltSel(src.model, src.decl, subs)) /\ NameInv(src, n, AltSel(src.model, src.decl, subs))
  <2>1. PICK loop :
           /\ loop[0] = first
           /\ \A i \in 1..n : loop[i] = AltSelRound(src.model, src.decl, subs, loop[i - 1], i)
           /\ AltSel(src.model, src.decl, subs) = loop[n]
    BY <1>1, AltSelLoop DEF n, first
  <2>. DEFINE T == {i \in 0..n : I(i, loop[i]) /\ NameInv(src, i, loop[i])}
  <2>2. 0 \in T
    BY <1>1, <1>2, <1>3, <2>1
  <2>3. ASSUME NEW i \in 1..n, i - 1 \in T
        PROVE  i \in T
    <3>1. loop[i] = AltSelRound(src.model, src.decl, subs, loop[i - 1], i)
      BY <2>1
    <3>2. I(i, loop[i]) /\ NameInv(src, i, loop[i])
      BY <1>4, <2>3, <3>1
    <3>. QED  BY <3>2
  <2>4. n \in T
    <3>. HIDE DEF T
    <3>1. n \in 0..n
      BY <1>1
    <3>. QED  BY <1>1, <2>2, <2>3, <3>1, Rounds
  <2>. QED  BY <2>1, <2>4
<1>. QED  BY <1>5, <1>6 DEF n, I

\* What a source is resolved to, if it is not refused.
Resolves(src, subs, q) ==
  /\ src.model \in DOMAIN Fields /\ q.model = src.model
  /\ IsList(q.sel, Len(q.sel)) /\ AllCame(src.model, src.decl, subs, Len(src.decl), q.sel)
  /\ q.sca => Len(q.sel) = 1

SelectsNames(src, q) == ~ q.sca => NamesOf(q.sel) = Selected(src) /\ Unique(q.sel)

LEMMA ResolvedIs ==
  ASSUME NEW src \in Sources, NEW q
  PROVE  /\ q = ResolveQuery[src] /\ ~ Bad(q) =>
              /\ Resolves(src, MemSubs(src.decl), q)
              /\ q.kind = "?" => q.lim = 1
              /\ NewNames(src) => SelectsNames(src, q)
         /\ q = AltResolve[src] /\ ~ Bad(q) =>
              Resolves(src, AltSubs(src.decl), q) /\ SelectsNames(src, q)
<1>. DEFINE n == Len(src.decl)
<1>1. ASSUME NEW subs, NEW s, SelInv(src.model, src.decl, subs, n, s), ~ Bad(s.end),
             src.model \in DOMAIN Fields, q.model = src.model,
             q.sel = s.res, q.sca = (s.end = "scalar")
      PROVE  Resolves(src, subs, q) /\ (NameInv(src, n, s) => SelectsNames(src, q))
  <2>1. s.end \in {None, "scalar"} /\ (~ q.sca => s.end = None)
    BY <1>1 DEF SelInv, Bad
  <2>2. Resolves(src, subs, q)
    BY <1>1, <2>1 DEF SelInv, Resolves
  <2>3. NameInv(src, n, s) => SelectsNames(src, q)
    BY <1>1, <2>1 DEF NameInv, SelectsNames, Selected
  <2>. QED  BY <2>2, <2>3
<1>2. ASSUME q = ResolveQuery[src], ~ Bad(q)
      PROVE  /\ Resolves(src, MemSubs(src.decl), q)
             /\ q.kind = "?" => q.lim = 1
             /\ NewNames(src) => SelectsNames(src, q)
  <2>. DEFINE subs == MemSubs(src.decl)
              s == ResolveSel(src.model, src.decl, subs)
              o == Tags(src.tags)
  <2>1. q = Resolution(src, subs)
    BY <1>2, ResolveIs
  <2>. HIDE DEF subs
  <2>2. src.model \in DOMAIN Fields
    BY <1>2, <2>1 DEF Resolution, Bad
  <2>3. SelInv(src.model, src.decl, subs, n, s) /\ (NewNames(src) => NameInv(src, n, s))
    BY <2>2, SelIs
  <2>. HIDE DEF s, o
  <2>4. /\ ~ Bad(s.end)
        /\ q = [kind |-> src.kind, model |-> src.model, whr |-> src.whr, ord |-> o.ord,
                off |-> o.off, lim |-> LimOf(src.kind, o.lim), sel |-> s.res, sca |-> s.end = "scalar"]
    BY <1>2, <2>1, <2>2 DEF Resolution, Bad, s, o
  <2>5. q.model = src.model /\ q.sel = s.res /\ q.sca = (s.end = "scalar")
    BY <2>4
  <2>6. q.kind = "?" => q.lim = 1
    BY <2>4 DEF LimOf
  <2>. QED  BY <1>1, <2>2, <2>3, <2>4, <2>5, <2>6 DEF subs
<1>3. ASSUME q = AltResolve[src], ~ Bad(q)
      PROVE  Resolves(src, AltSubs(src.decl), q) /\ SelectsNames(src, q)
  <2>. DEFINE subs == AltSubs(src.decl)
              s == AltSel(src.model, src.decl, subs)
              o == Tags(src.tags)
              keys == IF s.end = "scalar" THEN {} ELSE NamesOf(s.res)
  <2>1. q = AltResolution(src, subs)
    BY <1>3, ResolveIs
  <2>. HIDE DEF subs
  <2>2. src.model \in DOMAIN Fields
    BY <1>3, <2>1 DEF AltResolution, Bad
  <2>3. SelInv(src.model, src.decl, subs, n, s) /\ NameInv(src, n, s)
    BY <2>2, SelIs
  <2>. HIDE DEF s, o
  <2>4. /\ ~ Bad(s.end)
        /\ q = [kind |-> src.kind, model |-> src.model, whr |-> src.whr,
                ord |-> [i \in DOMAIN o.ord |-> AltOrd(o.ord[i], keys)],
                off |-> o.off, lim |-> o.lim, sel |-> s.res, sca |-> s.end = "scalar"]
    BY <1>3, <2>1, <2>2 DEF AltResolution, Bad, s, o
  <2>5. q.model = src.model /\ q.sel = s.res /\ q.sca = (s.end = "scalar")
    BY <2>4
  <2>. QED  BY <1>1, <2>2, <2>3, <2>4, <2>5 DEF subs
<1>. QED  BY <1>2, <1>3
-----------------------------------------------------------------------------
(* Queries within queries *)

\* A task with a query comes from a declaration, and so does the query; one with neither
\* expression nor query is a field.
LEMMA MemTaskIs ==
  ASSUME NEW src \in Sources, NEW t, Came(src.model, src.decl, MemSubs(src.decl), Len(src.decl), t)
  PROVE  /\ t.q # None => t.q \in Queries
         /\ t.el = None /\ t.q = None => t.name \in ModelFields(src.model)
<1>1. CASE IsField(src.model, t)
  BY <1>1 DEF IsField
<1>2. ASSUME NEW k \in 1..Len(src.decl), IsDecl(src.decl, MemSubs(src.decl), k, t)
      PROVE  /\ t.q # None => t.q \in Queries
             /\ t.el = None /\ t.q = None => t.name \in ModelFields(src.model)
  <2>1. CASE src.decl[k].el.op = "qry"
    <3>1. k \in SubQueries(src.decl)
      BY <1>2, <2>1, SourceFacts DEF IsDecl, SubQueries
    <3>2. t.q = ResolveQuery[src.decl[k].el.q] /\ ~ Bad(t.q)
      BY <1>2, <2>1, <3>1 DEF IsDecl, MemSubs
    <3>3. src.decl[k].el.q \in Sources
      BY <3>1, SourceFacts
    <3>4. t.q \in Queries
      BY <3>2, <3>3 DEF Queries, Bad
    <3>. QED  BY <3>4, QueriesAssumption
  <2>2. CASE src.decl[k].el.op # "qry"
    BY <1>2, <2>2 DEF IsDecl
  <2>. QED  BY <2>1, <2>2
<1>. QED  BY <1>1, <1>2 DEF Came

LEMMA AltTaskIs ==
  ASSUME NEW src \in Sources, NEW t, Came(src.model, src.decl, AltSubs(src.decl), Len(src.decl), t),
         t.q # None
  PROVE  \E sub \in Sources : Depth[sub] < Depth[src] /\ t.q = AltResolve[sub] /\ t.q \in AltPlans
<1>1. PICK k \in 1..Len(src.decl) : IsDecl(src.decl, AltSubs(src.decl), k, t)
  BY DEF Came, IsField
<1>2. k \in SubQueries(src.decl)
  BY <1>1, SourceFacts DEF IsDecl, SubQueries
<1>3. t.q = AltResolve[src.decl[k].el.q] /\ ~ Bad(t.q)
  BY <1>1, <1>2 DEF IsDecl, AltSubs, SubQueries
<1>4. src.decl[k].el.q \in Sources /\ Depth[src.decl[k].el.q] < Depth[src]
  BY <1>2, SourceFacts
<1>5. t.q \in AltPlans
  BY <1>3, <1>4 DEF AltPlans, Bad
<1>. QED  BY <1>3, <1>4, <1>5

\* Queries in the selection of a query are queries themselves, a query for one result is
\* limited to one, and the rest of a selection is fields of the model.
LEMMA QueriesAreTyped == QueriesTyped
<1>. SUFFICES ASSUME NEW q \in Queries
              PROVE  /\ \A i \in QueryTasks(q.sel) : q.sel[i].q \in Queries
                     /\ q.kind = "?" => q.lim = 1
                     /\ q.sca => Len(q.sel) = 1
                     /\ \A i \in DOMAIN q.sel : q.sel[i].el = None /\ q.sel[i].q = None
                                 => q.sel[i].name \in ModelFields(q.model)
  BY DEF QueriesTyped
<1>1. PICK src \in Sources : q = ResolveQuery[src] /\ ~ Bad(q)
  BY DEF Queries, Bad
<1>2. Resolves(src, MemSubs(src.decl), q) /\ (q.kind = "?" => q.lim = 1)
  BY <1>1, ResolvedIs
<1>3. \A i \in DOMAIN q.sel : Came(src.model, src.decl, MemSubs(src.decl), Len(src.decl), q.sel[i])
  BY <1>2 DEF Resolves, AllCame, IsList
<1>4. \A i \in DOMAIN q.sel : /\ q.sel[i].q # None => q.sel[i].q \in Queries
                              /\ q.sel[i].el = None /\ q.sel[i].q = None
                                   => q.sel[i].name \in ModelFields(q.model)
  <2>1. q.model = src.model
    BY <1>2 DEF Resolves
  <2>. QED  BY <1>3, <2>1, MemTaskIs
<1>. QED  BY <1>2, <1>4 DEF QueryTasks, Resolves

\* How deep plans are nested: as deep as the source that is nested the least.
PlanRank == [q \in AltPlans |-> Min({Depth[src] : src \in {x \in Sources : AltResolve[x] = q}})]

LEMMA PlanRankIs ==
  /\ PlanRank \in [AltPlans -> Nat]
  /\ \A q \in AltPlans : \E src \in Sources : q = AltResolve[src] /\ PlanRank[q] = Depth[src]
  /\ \A q \in AltPlans : \A src \in Sources : q = AltResolve[src] => PlanRank[q] <= Depth[src]
<1>1. ASSUME NEW q \in AltPlans
      PROVE  /\ PlanRank[q] \in Nat
             /\ \E src \in Sources : q = AltResolve[src] /\ PlanRank[q] = Depth[src]
             /\ \A src \in Sources : q = AltResolve[src] => PlanRank[q] <= Depth[src]
  <2>. DEFINE S == {Depth[src] : src \in {x \in Sources : AltResolve[x] = q}}
  <2>1. S \in SUBSET Nat /\ S # {}
    BY SourceFacts DEF AltPlans
  <2>2. Min(S) \in S /\ \A y \in S : Min(S) <= y
    <3>. HIDE DEF S
    <3>. QED  BY <2>1, MinIs
  <2>3. PlanRank[q] = Min(S)
    BY DEF PlanRank
  <2>4. PlanRank[q] \in S /\ \A y \in S : PlanRank[q] <= y
    BY <2>2, <2>3
  <2>5. PICK src \in Sources : q = AltResolve[src] /\ PlanRank[q] = Depth[src]
    BY <2>4
  <2>6. \A x \in Sources : q = AltResolve[x] => PlanRank[q] <= Depth[x]
    BY <2>4
  <2>. QED  BY <2>1, <2>4, <2>5, <2>6
<1>2. PlanRank = [q \in AltPlans |-> PlanRank[q]]
  BY DEF PlanRank
<1>. QED  BY <1>1, <1>2

LEMMA PlansAre ==
  ASSUME NEW q \in AltPlans
  PROVE  /\ q.model \in DOMAIN Fields
         /\ IsList(q.sel, Len(q.sel)) /\ (q.sca => Len(q.sel) = 1)
         /\ \A i \in QueryTasks(q.sel) : q.sel[i].q \in AltPlans /\ PlanRank[q.sel[i].q] < PlanRank[q]
<1>1. PICK src \in Sources : q = AltResolve[src] /\ PlanRank[q] = Depth[src]
  BY PlanRankIs
<1>2. ~ Bad(q)
  BY DEF AltPlans, Bad
<1>3. Resolves(src, AltSubs(src.decl), q)
  BY <1>1, <1>2, ResolvedIs
<1>4. ASSUME NEW i \in QueryTasks(q.sel)
      PROVE  q.sel[i].q \in AltPlans /\ PlanRank[q.sel[i].q] < PlanRank[q]
  <2>1. Came(src.model, src.decl, AltSubs(src.decl), Len(src.decl), q.sel[i]) /\ q.sel[i].q # None
    BY <1>3 DEF Resolves, AllCame, IsList, QueryTasks
  <2>2. PICK sub \in Sources : /\ Depth[sub] < Depth[src] /\ q.sel[i].q = AltResolve[sub]
                               /\ q.sel[i].q \in AltPlans
    BY <2>1, AltTaskIs
  <2>3. PlanRank[q.sel[i].q] <= Depth[sub] /\ PlanRank[q.sel[i].q] \in Nat
    BY <2>2, PlanRankIs
  <2>4. Depth[sub] \in Nat /\ Depth[src] \in Nat
    BY SourceFacts
  <2>. QED  BY <1>1, <2>2, <2>3, <2>4
<1>. QED  BY <1>3, <1>4 DEF Resolves
-----------------------------------------------------------------------------
(* Documents and programs *)

LEMMA DocFacts ==
  ASSUME NEW d \in Docs
  PROVE  /\ Len(d) \in Nat /\ DOMAIN d = 1..Len(d)
         /\ \A i \in DOMAIN d : d[i].el.op = "qry" => d[i].el.q \in Sources
<1>1. d \in Seq(ToSet(d))
  BY DocsAssumption
<1>2. Len(d) \in Nat /\ DOMAIN d = 1..Len(d)
  BY <1>1, LenProperties
<1>3. ASSUME NEW i \in DOMAIN d, d[i].el.op = "qry"
      PROVE  d[i].el.q \in Sources
  <2>. DEFINE Of(x) == {x[j].el.q : j \in {k \in DOMAIN x : x[k].el.op = "qry"}}
  <2>1. d[i].el.q \in Of(d)
    BY <1>3
  <2>2. UNION {Of(x) : x \in Docs} \subseteq Sources
    BY DocsAssumption
  <2>. HIDE DEF Of
  <2>. QED  BY <2>1, <2>2
<1>. QED  BY <1>2, <1>3

\* The tasks of a document that is not refused are those of its declarations.
LEMMA DocIs ==
  ASSUME NEW d \in Docs, NEW ts, ts = ResolveDoc(d), ~ Bad(ts)
  PROVE  IsList(ts, Len(d)) /\ \A i \in 1..Len(d) : ts[i] = RootTask(d[i]) /\ ~ Bad(ts[i])
<1>. DEFINE n == Len(d)
            All(l, i) == IsList(l, i) /\ \A k \in 1..i : l[k] = RootTask(d[k]) /\ ~ Bad(l[k])
<1>1. n \in Nat
  BY DocFacts
<1>2. PICK loop : /\ loop[0] = <<>>
                  /\ \A i \in 1..n : loop[i] = DocRound(d, loop[i - 1], i)
                  /\ ResolveDoc(d) = loop[n]
  BY <1>1, DocLoop
<1>. HIDE DEF n
<1>. DEFINE T == {i \in 0..n : Bad(loop[i]) \/ All(loop[i], i)}
<1>3. 0 \in T
  BY <1>1, <1>2, EmptyList
<1>4. ASSUME NEW i \in 1..n, i - 1 \in T
      PROVE  i \in T
  <2>. DEFINE p == loop[i - 1]
              t == RootTask(d[i])
              a == Append(p, t)
  <2>1. loop[i] = IF Bad(p) THEN p ELSE IF Bad(t) THEN t ELSE a
    BY <1>2 DEF DocRound
  <2>2. Bad(p) \/ All(p, i - 1)
    BY <1>4
  <2>. HIDE DEF p, t
  <2>3. ASSUME All(p, i - 1), ~ Bad(t)
        PROVE  All(a, i)
    <3>0. IsList(p, i - 1)
      BY <2>3
    <3>1. Grown(p, i, t, a)
      <4>1. i \in Nat \ {0}
        BY <1>1
      <4>. HIDE DEF All
      <4>. QED  BY <3>0, <4>1, GrownIs
    <3>2. \A k \in 1..i : k = i \/ k \in 1..(i - 1)
      BY <1>1
    <3>. HIDE DEF a
    <3>. QED  BY <2>3, <3>1, <3>2 DEF t, Grown
  <2>. HIDE DEF a, All
  <2>. QED  BY <2>1, <2>2, <2>3
<1>5. n \in T
  <2>. HIDE DEF T
  <2>1. n \in 0..n
    BY <1>1
  <2>. QED  BY <1>1, <1>3, <1>4, <2>1, Rounds
<1>. QED  BY <1>2, <1>5 DEF n

LEMMA ProgramIs ==
  ASSUME NEW d \in Docs, NEW ts, ts = AltProgram(d), ~ Bad(ts)
  PROVE  IsList(ts, Len(d)) /\ \A i \in 1..Len(d) : ts[i] = ProgramTask(d[i]) /\ ~ Bad(ProgramQuery(d[i]))
<1>. DEFINE n == Len(d)
            All(l, i) == IsList(l, i) /\ \A k \in 1..i : l[k] = ProgramTask(d[k]) /\ ~ Bad(ProgramQuery(d[k]))
<1>1. n \in Nat
  BY DocFacts
<1>2. PICK loop : /\ loop[0] = <<>>
                  /\ \A i \in 1..n : loop[i] = ProgramRound(d, loop[i - 1], i)
                  /\ AltProgram(d) = loop[n]
  BY <1>1, ProgramLoop
<1>. HIDE DEF n
<1>. DEFINE T == {i \in 0..n : Bad(loop[i]) \/ All(loop[i], i)}
<1>3. 0 \in T
  BY <1>1, <1>2, EmptyList
<1>4. ASSUME NEW i \in 1..n, i - 1 \in T
      PROVE  i \in T
  <2>. DEFINE p == loop[i - 1]
              q == ProgramQuery(d[i])
              t == ProgramTask(d[i])
              a == Append(p, t)
  <2>1. loop[i] = IF Bad(p) THEN p ELSE IF Bad(q) THEN q ELSE a
    BY <1>2 DEF ProgramRound
  <2>2. Bad(p) \/ All(p, i - 1)
    BY <1>4
  <2>. HIDE DEF p, t, q
  <2>3. ASSUME All(p, i - 1), ~ Bad(q)
        PROVE  All(a, i)
    <3>0. IsList(p, i - 1)
      BY <2>3
    <3>1. Grown(p, i, t, a)
      <4>1. i \in Nat \ {0}
        BY <1>1
      <4>. HIDE DEF All
      <4>. QED  BY <3>0, <4>1, GrownIs
    <3>2. \A k \in 1..i : k = i \/ k \in 1..(i - 1)
      BY <1>1
    <3>. HIDE DEF a
    <3>. QED  BY <2>3, <3>1, <3>2 DEF t, q, Grown
  <2>. HIDE DEF a, All
  <2>. QED  BY <2>1, <2>2, <2>3
<1>5. n \in T
  <2>. HIDE DEF T
  <2>1. n \in 0..n
    BY <1>1
  <2>. QED  BY <1>1, <1>3, <1>4, <2>1, Rounds
<1>. QED  BY <1>2, <1>5 DEF n

\* A task with a query has what the source of the query is resolved to.
LEMMA RootTaskIs ==
  ASSUME NEW d \in Docs, NEW i \in DOMAIN d, NEW t, t = RootTask(d[i]), ~ Bad(t), t.q # None
  PROVE  /\ t.q \in Queries
         /\ ~ t.q.sca /\ NewNames(d[i].el.q) => NamesOf(t.q.sel) = Selected(d[i].el.q) /\ Unique(t.q.sel)
<1>. DEFINE src == d[i].el.q
            q == ResolveQuery[src]
<1>1. d[i].el.op = "qry" /\ ~ Bad(q) /\ t.q = q
  <2>1. CASE d[i].el.op = "qry"
    BY <2>1 DEF RootTask, ResolveTask, Task
  <2>2. CASE d[i].el.op # "qry"
    <3>1. t = Err \/ t = Task(d[i].name, d[i].el, None)
      BY <2>2 DEF RootTask, ResolveTask
    <3>2. t.q = None
      BY <3>1 DEF Task, Bad
    <3>. QED  BY <3>2
  <2>. QED  BY <2>1, <2>2
<1>2. src \in Sources
  BY <1>1, DocFacts
<1>3. q \in Queries
  BY <1>1, <1>2 DEF Queries, Bad
<1>4. NewNames(src) => SelectsNames(src, q)
  BY <1>1, <1>2, ResolvedIs
<1>. QED  BY <1>1, <1>3, <1>4 DEF SelectsNames

LEMMA ProgramTaskIs ==
  ASSUME NEW d \in Docs, NEW i \in DOMAIN d, ~ Bad(ProgramQuery(d[i])),
         NEW t, t = ProgramTask(d[i]), t.q # None
  PROVE  /\ t.q \in AltPlans
         /\ ~ t.q.sca => NamesOf(t.q.sel) = Selected(d[i].el.q) /\ Unique(t.q.sel)
<1>. DEFINE src == d[i].el.q
            q == AltResolve[src]
<1>1. d[i].el.op = "qry" /\ ~ Bad(q) /\ t.q = q
  BY DEF ProgramTask, ProgramQuery, Task
<1>2. src \in Sources
  BY <1>1, DocFacts
<1>3. q \in AltPlans
  BY <1>1, <1>2 DEF AltPlans, Bad
<1>4. SelectsNames(src, q)
  BY <1>1, <1>2, ResolvedIs
<1>. QED  BY <1>1, <1>3, <1>4 DEF SelectsNames

-----------------------------------------------------------------------------
(* One evaluation *)

\* The tasks and the program are those of the document, and an execution is behind the end
\* of its list as long as it goes on.
Ahead(results, all) == results # Err /\ Len(results) < Len(all)
Behind(results, all) == results # Err => IsList(results, Len(results)) /\ Len(results) <= Len(all)

QueryInv ==
  /\ doc \in Docs /\ db \in Databases
  /\ stage \in {"program", "alt", "source", "mem", "end", "refused"}
  /\ tasks = <<>> \/ (tasks = ResolveDoc(doc) /\ ~ Bad(tasks))
  /\ prog = <<>> \/ prog = AltProgram(doc)
  /\ stage \in {"program", "alt", "source"} => tasks = <<>> /\ mem = <<>>
  /\ stage = "program" => alt = <<>>
  /\ stage = "alt" => ~ Bad(prog) /\ Ahead(alt, prog)
  /\ stage = "mem" => Ahead(mem, tasks)
  /\ Bad(prog) \/ Behind(alt, prog)
  /\ Behind(mem, tasks)

\* A list that is a document's, or still empty.
LEMMA ListsAre ==
  ASSUME QueryInv
  PROVE  /\ Len(doc) \in Nat /\ DOMAIN doc = 1..Len(doc)
         /\ IsList(tasks, Len(tasks))
         /\ \A i \in DOMAIN tasks : i \in DOMAIN doc /\ tasks[i] = RootTask(doc[i]) /\ ~ Bad(tasks[i])
         /\ ~ Bad(prog) => /\ IsList(prog, Len(prog))
                           /\ \A i \in DOMAIN prog : /\ i \in DOMAIN doc /\ prog[i] = ProgramTask(doc[i])
                                                     /\ ~ Bad(ProgramQuery(doc[i]))
<1>0. /\ doc \in Docs /\ (tasks = <<>> \/ (tasks = ResolveDoc(doc) /\ ~ Bad(tasks)))
      /\ prog = <<>> \/ prog = AltProgram(doc)
  BY DEF QueryInv
<1>1. Len(doc) \in Nat /\ DOMAIN doc = 1..Len(doc)
  BY <1>0, DocFacts
<1>2. Len(<<>>) = 0 /\ DOMAIN <<>> = {} /\ IsList(<<>>, 0)
  BY EmptyList DEF IsList
<1>3. /\ IsList(tasks, Len(tasks))
      /\ \A i \in DOMAIN tasks : i \in DOMAIN doc /\ tasks[i] = RootTask(doc[i]) /\ ~ Bad(tasks[i])
  <2>1. CASE tasks = <<>>
    BY <1>2, <2>1
  <2>2. CASE tasks = ResolveDoc(doc) /\ ~ Bad(tasks)
    <3>1. IsList(tasks, Len(doc)) /\ \A i \in 1..Len(doc) : tasks[i] = RootTask(doc[i]) /\ ~ Bad(tasks[i])
      BY <1>0, <2>2, DocIs
    <3>. QED  BY <1>1, <3>1 DEF IsList
  <2>. QED  BY <1>0, <2>1, <2>2
<1>4. ASSUME ~ Bad(prog)
      PROVE  /\ IsList(prog, Len(prog))
             /\ \A i \in DOMAIN prog : /\ i \in DOMAIN doc /\ prog[i] = ProgramTask(doc[i])
                                       /\ ~ Bad(ProgramQuery(doc[i]))
  <2>1. CASE prog = <<>>
    BY <1>2, <2>1
  <2>2. CASE prog = AltProgram(doc)
    <3>1. /\ IsList(prog, Len(doc))
          /\ \A i \in 1..Len(doc) : prog[i] = ProgramTask(doc[i]) /\ ~ Bad(ProgramQuery(doc[i]))
      BY <1>0, <1>4, <2>2, ProgramIs
    <3>. QED  BY <1>1, <3>1 DEF IsList
  <2>. QED  BY <1>0, <2>1, <2>2
<1>. QED  BY <1>1, <1>3, <1>4

LEMMA SelectionMeaningIs ==
  ASSUME QueryInv
  PROVE  SelectionMeaning
<1>0. doc \in Docs
  BY DEF QueryInv
<1>1. ASSUME NEW i \in DOMAIN tasks, tasks[i].q # None
      PROVE  /\ tasks[i].q \in Queries
             /\ ~ tasks[i].q.sca /\ NewNames(doc[i].el.q) =>
                   NamesOf(tasks[i].q.sel) = Selected(doc[i].el.q) /\ Unique(tasks[i].q.sel)
  BY <1>0, <1>1, ListsAre, RootTaskIs
<1>2. ASSUME ~ Bad(prog), NEW i \in DOMAIN prog, prog[i].q # None
      PROVE  /\ prog[i].q \in AltPlans
             /\ ~ prog[i].q.sca =>
                   NamesOf(prog[i].q.sel) = Selected(doc[i].el.q) /\ Unique(prog[i].q.sel)
  BY <1>0, <1>2, ListsAre, ProgramTaskIs
<1>3. RootQueries \subseteq Queries
  BY <1>1 DEF RootQueries
<1>4. Bad(prog) \/ AltQueries \subseteq AltPlans
  BY <1>2 DEF AltQueries
<1>5. TypeOK
  BY <1>3, <1>4, QueriesAreTyped DEF TypeOK, QueryInv, Behind
<1>. QED  BY <1>1, <1>2, <1>5 DEF SelectionMeaning
\* An execution goes on to the next of its tasks, or ends.
LEMMA ContinuedIs ==
  ASSUME NEW results, NEW all, NEW n, IsList(all, n), Behind(results, all), Ahead(results, all),
         NEW r, NEW next, NEW now, now # next
  PROVE  LET s == Continued(results, r)
         IN /\ Behind(s, all)
            /\ NextStage(now, s, all, next) \in {now, next}
            /\ NextStage(now, s, all, next) = now => Ahead(s, all)
<1>. DEFINE a == Append(results, r)
<1>1. IsList(results, Len(results)) /\ Len(results) < n /\ Len(all) = n /\ n \in Nat
  BY DEF Ahead, Behind, IsList
<1>2. IsList(a, Len(results) + 1)
  BY <1>1, AppendIs
<1>. HIDE DEF a
<1>3. Len(a) = Len(results) + 1 /\ IsList(a, Len(a)) /\ Len(a) <= n /\ (Len(a) # n => Len(a) < n)
  <2>1. Len(a) = Len(results) + 1 /\ IsList(a, Len(a))
    BY <1>2 DEF IsList
  <2>2. Len(results) \in Nat
    BY <1>1 DEF IsList
  <2>. QED  BY <1>1, <2>1, <2>2
<1>4. Continued(results, r) = IF r = Err THEN Err ELSE a
  BY DEF Continued, a
<1>. QED  BY <1>1, <1>3, <1>4 DEF Behind, Ahead, NextStage

\* The first of a list.
LEMMA StartIs ==
  ASSUME NEW all, NEW n, IsList(all, n), NEW next, NEW now, now # next
  PROVE  /\ Behind(<<>>, all)
         /\ NextStage(now, <<>>, all, next) \in {now, next}
         /\ NextStage(now, <<>>, all, next) = now => Ahead(<<>>, all)
<1>1. IsList(<<>>, 0) /\ Len(<<>>) = 0 /\ Len(all) = n /\ n \in Nat
  BY EmptyList DEF IsList
<1>2. Len(<<>>) <= Len(all) /\ (Len(<<>>) # Len(all) => Len(<<>>) < Len(all))
  BY <1>1
<1>. QED  BY <1>1, <1>2 DEF Behind, Ahead, NextStage

LEMMA InitQueryInv ==
  ASSUME Init
  PROVE  QueryInv
<1>1. IsList(<<>>, 0) /\ Len(<<>>) = 0
  BY EmptyList DEF IsList
<1>2. Behind(mem, tasks) /\ Behind(alt, prog)
  BY <1>1 DEF Init, Behind
<1>. QED  BY <1>2 DEF Init, QueryInv

LEMMA PlanStep ==
  ASSUME QueryInv, Plan
  PROVE  QueryInv'
<1>. DEFINE ps == AltProgram(doc)
<1>1. /\ prog' = ps /\ alt = <<>> /\ tasks = <<>> /\ mem = <<>>
      /\ stage' = IF Bad(ps) THEN "source" ELSE NextStage("alt", <<>>, ps, "source")
      /\ UNCHANGED <<doc, db, alt, tasks, mem>>
  BY DEF Plan, Planned, QueryInv, docVars
<1>2. doc \in Docs /\ db \in Databases /\ Behind(mem, tasks)
  BY DEF QueryInv
<1>. HIDE DEF ps
<1>3. ASSUME ~ Bad(ps)
      PROVE  /\ Behind(alt', prog') /\ stage' \in {"alt", "source"}
             /\ stage' = "alt" => ~ Bad(prog') /\ Ahead(alt', prog')
  <2>1. IsList(ps, Len(doc))
    BY <1>2, <1>3, ProgramIs DEF ps
  <2>2. /\ Behind(<<>>, ps)
        /\ NextStage("alt", <<>>, ps, "source") \in {"alt", "source"}
        /\ NextStage("alt", <<>>, ps, "source") = "alt" => Ahead(<<>>, ps)
    BY <2>1, StartIs
  <2>. QED  BY <1>1, <1>3, <2>2
<1>4. Bad(ps) => stage' = "source"
  BY <1>1
<1>5. Behind(mem, tasks)' /\ Bad(prog)' = Bad(ps)
  BY <1>1, <1>2 DEF Behind
<1>. QED  BY <1>1, <1>2, <1>3, <1>4, <1>5 DEF QueryInv, ps

LEMMA ExecPlannedStep ==
  ASSUME QueryInv, ExecPlanned
  PROVE  QueryInv'
<1>. DEFINE out == AltTask(prog[Len(alt) + 1], data)
<1>1. /\ alt' = Continued(alt, out.val) /\ stage = "alt"
      /\ stage' = NextStage("alt", alt', prog, "source")
      /\ UNCHANGED <<doc, db, prog, tasks, mem>>
  BY DEF ExecPlanned, Executed, docVars
<1>. HIDE DEF out
<1>2. ~ Bad(prog) /\ Ahead(alt, prog) /\ Behind(alt, prog)
  BY <1>1 DEF QueryInv
<1>3. IsList(prog, Len(prog))
  BY <1>2, ListsAre
<1>4. /\ Behind(alt', prog) /\ stage' \in {"alt", "source"}
      /\ stage' = "alt" => Ahead(alt', prog)
  <2>. DEFINE v == out.val
              s == Continued(alt, v)
  <2>. HIDE DEF v
  <2>1. /\ Behind(s, prog)
        /\ NextStage("alt", s, prog, "source") \in {"alt", "source"}
        /\ NextStage("alt", s, prog, "source") = "alt" => Ahead(s, prog)
    BY <1>2, <1>3, ContinuedIs
  <2>. QED  BY <1>1, <2>1 DEF v
<1>5. Behind(mem, tasks)' /\ Bad(prog') = Bad(prog)
  BY <1>1 DEF Behind, QueryInv
<1>. QED  BY <1>1, <1>2, <1>4, <1>5 DEF QueryInv

LEMMA ResolveStep ==
  ASSUME QueryInv, Resolve
  PROVE  QueryInv'
<1>. DEFINE ts == ResolveDoc(doc)
<1>1. /\ stage = "source" /\ tasks = <<>> /\ mem = <<>> /\ UNCHANGED <<doc, db, prog, alt, mem>>
      /\ IF Bad(ts) THEN stage' = "refused" /\ UNCHANGED tasks
                    ELSE stage' = NextStage("mem", <<>>, ts, "end") /\ tasks' = ts
  BY DEF Resolve, Resolved, QueryInv, altVars
<1>2. doc \in Docs /\ db \in Databases /\ Behind(mem, tasks) /\ (Bad(prog) \/ Behind(alt, prog))
  BY DEF QueryInv
<1>. HIDE DEF ts
<1>3. ASSUME ~ Bad(ts)
      PROVE  /\ Behind(mem', tasks') /\ stage' \in {"mem", "end"}
             /\ stage' = "mem" => Ahead(mem', tasks')
  <2>1. IsList(ts, Len(doc))
    BY <1>2, <1>3, DocIs DEF ts
  <2>2. /\ Behind(<<>>, ts)
        /\ NextStage("mem", <<>>, ts, "end") \in {"mem", "end"}
        /\ NextStage("mem", <<>>, ts, "end") = "mem" => Ahead(<<>>, ts)
    BY <2>1, StartIs
  <2>. QED  BY <1>1, <1>3, <2>2
<1>4. Bad(ts) => stage' = "refused" /\ tasks' = <<>> /\ Behind(mem', tasks')
  BY <1>1, <1>2
<1>5. ts = ResolveDoc(doc')
  BY <1>1 DEF ts
<1>6. /\ Bad(prog)' \/ Behind(alt', prog')
      /\ prog' = <<>> \/ prog' = AltProgram(doc')
  BY <1>1, <1>2 DEF Bad, QueryInv
<1>7. tasks' = <<>> \/ (tasks' = ResolveDoc(doc') /\ ~ Bad(tasks'))
  BY <1>1, <1>4, <1>5
<1>8. stage' \in {"mem", "end", "refused"} /\ Behind(mem', tasks') /\ (stage' = "mem" => Ahead(mem', tasks'))
  BY <1>3, <1>4
<1>. QED  BY <1>1, <1>2, <1>6, <1>7, <1>8 DEF QueryInv

LEMMA ExecTaskStep ==
  ASSUME QueryInv, ExecTask
  PROVE  QueryInv'
<1>. DEFINE v == MemTask(tasks[Len(mem) + 1], DoneIn(mem, MemMarks), db)
<1>1. /\ mem' = Continued(mem, v) /\ stage = "mem"
      /\ stage' = NextStage("mem", mem', tasks, "end")
      /\ UNCHANGED <<doc, db, tasks, prog, alt>>
  BY DEF ExecTask, altVars
<1>. HIDE DEF v
<1>2. Ahead(mem, tasks) /\ Behind(mem, tasks) /\ IsList(tasks, Len(tasks))
  BY <1>1, ListsAre DEF QueryInv
<1>4. /\ Behind(mem', tasks) /\ stage' \in {"mem", "end"}
      /\ stage' = "mem" => Ahead(mem', tasks)
  <2>. DEFINE s == Continued(mem, v)
  <2>1. /\ Behind(s, tasks)
        /\ NextStage("mem", s, tasks, "end") \in {"mem", "end"}
        /\ NextStage("mem", s, tasks, "end") = "mem" => Ahead(s, tasks)
    BY <1>2, ContinuedIs
  <2>. QED  BY <1>1, <2>1
<1>. QED  BY <1>1, <1>2, <1>4 DEF QueryInv

LEMMA QueryInvStep ==
  ASSUME QueryInv, [Next]_vars
  PROVE  QueryInv'
<1>1. CASE Plan
  BY <1>1, PlanStep
<1>2. CASE ExecPlanned
  BY <1>2, ExecPlannedStep
<1>3. CASE Resolve
  BY <1>3, ResolveStep
<1>4. CASE ExecTask
  BY <1>4, ExecTaskStep
<1>5. CASE UNCHANGED vars
  BY <1>5 DEF QueryInv, vars, docVars, altVars
<1>. QED  BY <1>1, <1>2, <1>3, <1>4, <1>5 DEF Next, Finished

\* In every evaluation, the tasks of the document and of the program are those of its
\* declarations, and no execution is ever behind the end of its list.
THEOREM QueryInvAlways == Spec => []QueryInv
<1>1. Init => QueryInv
  BY InitQueryInv
<1>2. QueryInv /\ [Next]_vars => QueryInv'
  BY QueryInvStep
<1>. QED  BY <1>1, <1>2, PTL DEF Spec

\* A selection is what the last word on every name makes it, in both forms, however many
\* declarations there are and however deep queries are nested (resolver.go:313 and
\* qalt/sel.go:134).
THEOREM SelectionMeaningAlways == Spec => []SelectionMeaning
<1>1. QueryInv => SelectionMeaning
  BY SelectionMeaningIs
<1>. QED  BY <1>1, QueryInvAlways, PTL
-----------------------------------------------------------------------------
(* Rows that move *)

\* The same values at other places: t has those of s, each as often.
Moved(s, t) == \E p \in Bijection(DOMAIN s, DOMAIN s) : t = [i \in DOMAIN s |-> s[p[i]]]

LEMMA BijectionIs ==
  ASSUME NEW D, NEW p
  PROVE  p \in Bijection(D, D) <=> /\ p \in [D -> D]
                                   /\ \A v, w \in D : p[v] = p[w] => v = w
                                   /\ \A w \in D : \E v \in D : p[v] = w
BY DEF Bijection, Injection, Surjection, IsInjective

LEMMA MovedSame ==
  ASSUME NEW n, NEW s, IsList(s, n)
  PROVE  Moved(s, s)
<1>. DEFINE D == 1..n
            p == [i \in D |-> i]
<1>1. DOMAIN s = D /\ s = [i \in D |-> s[i]]
  BY DEF IsList
<1>. HIDE DEF D
<1>2. p \in Bijection(D, D)
  BY BijectionIs
<1>3. s = [i \in D |-> s[p[i]]]
  BY <1>1
<1>. HIDE DEF p
<1>. QED  BY <1>1, <1>2, <1>3 DEF Moved

LEMMA MovedTwice ==
  ASSUME NEW s, NEW t, NEW u, Moved(s, t), Moved(t, u)
  PROVE  Moved(s, u)
<1>. DEFINE D == DOMAIN s
<1>1. PICK p \in Bijection(D, D) : t = [i \in D |-> s[p[i]]]
  BY DEF Moved
<1>2. DOMAIN t = D
  BY <1>1
<1>3. PICK r \in Bijection(D, D) : u = [i \in D |-> t[r[i]]]
  BY <1>2 DEF Moved
<1>. HIDE DEF D
<1>4. /\ p \in [D -> D] /\ r \in [D -> D]
      /\ \A w \in D : \E v \in D : p[v] = w
      /\ \A w \in D : \E v \in D : r[v] = w
      /\ \A v, w \in D : p[v] = p[w] => v = w
      /\ \A v, w \in D : r[v] = r[w] => v = w
  BY BijectionIs
<1>. DEFINE x == [i \in D |-> p[r[i]]]
<1>5. x \in Bijection(D, D)
  <2>1. x \in [D -> D]
    BY <1>4
  <2>2. ASSUME NEW w \in D
        PROVE  \E v \in D : x[v] = w
    <3>1. PICK j \in D : p[j] = w
      BY <1>4
    <3>2. PICK v \in D : r[v] = j
      BY <1>4
    <3>. QED  BY <3>1, <3>2
  <2>3. \A v, w \in D : x[v] = x[w] => v = w
    BY <1>4
  <2>. HIDE DEF x
  <2>. QED  BY <2>1, <2>2, <2>3, BijectionIs
<1>6. u = [i \in D |-> s[x[i]]]
  <2>1. \A i \in D : t[r[i]] = s[p[r[i]]]
    BY <1>1, <1>4
  <2>. QED  BY <1>3, <2>1
<1>. HIDE DEF x
<1>. QED  BY <1>5, <1>6 DEF Moved, D

\* Both have the same places.
LEMMA MovedDomain ==
  ASSUME NEW s, NEW t, Moved(s, t)
  PROVE  DOMAIN t = DOMAIN s /\ \A i \in DOMAIN s : \E k \in DOMAIN s : t[i] = s[k]
<1>1. PICK p \in Bijection(DOMAIN s, DOMAIN s) : t = [i \in DOMAIN s |-> s[p[i]]]
  BY DEF Moved
<1>2. p \in [DOMAIN s -> DOMAIN s]
  BY BijectionIs
<1>. QED  BY <1>1, <1>2

LEMMA MovedList ==
  ASSUME NEW S, NEW s \in Seq(S), NEW t, Moved(s, t)
  PROVE  t \in Seq(S) /\ Len(t) = Len(s)
<1>. DEFINE n == Len(s)
<1>1. n \in Nat /\ DOMAIN s = 1..n /\ \A i \in 1..n : s[i] \in S
  BY LenProperties, ElementOfSeq
<1>. HIDE DEF n
<1>2. DOMAIN t = 1..n /\ \A i \in 1..n : t[i] \in S
  BY <1>1, MovedDomain
<1>3. t = [i \in 1..n |-> t[i]]
  BY <1>1 DEF Moved
<1>4. IsList(t, n)
  BY <1>1, <1>2, <1>3, ListOf
<1>5. t \in Seq(S)
  BY <1>2, <1>4, ListSeq
<1>. QED  BY <1>4, <1>5 DEF IsList, n

\* The first i values of a list, at other places.
Shuffled(list, s, i) ==
  /\ IsList(s, i)
  /\ \E p \in Bijection(1..i, 1..i) : \A k \in 1..i : s[k] = list[p[k]]

\* Wherever the next value is inserted.
LEMMA ShuffledMore ==
  ASSUME NEW list, NEW i \in Nat \ {0}, NEW s, Shuffled(list, s, i - 1), NEW at \in 1..i
  PROVE  Shuffled(list, InsertAt(s, at, list[i]), i)
<1>. DEFINE t == InsertAt(s, at, list[i])
            j == i - 1
<1>1. j \in Nat /\ i = j + 1 /\ at \in 1..(j + 1)
  OBVIOUS
<1>2. IsList(s, j)
  BY DEF Shuffled
<1>. HIDE DEF j
<1>3. PICK p \in Bijection(1..j, 1..j) : \A k \in 1..j : s[k] = list[p[k]]
  BY DEF Shuffled, j
<1>4. /\ p \in [1..j -> 1..j] 
      /\ \A v, w \in 1..j : p[v] = p[w] => v = w
      /\ \A w \in 1..j : \E v \in 1..j : p[v] = w
  <2>. DEFINE D == 1..j
  <2>1. p \in Bijection(D, D)
    OBVIOUS
  <2>. HIDE DEF D
  <2>2. /\ p \in [D -> D]
        /\ \A v, w \in D : p[v] = p[w] => v = w
        /\ \A w \in D : \E v \in D : p[v] = w
    BY <2>1, BijectionIs
  <2>. QED  BY <2>2 DEF D
<1>5. /\ IsList(t, i)
      /\ \A k \in 1..i : t[k] = IF k < at THEN s[k] ELSE IF k = at THEN list[i] ELSE s[k - 1]
  <2>. DEFINE x == list[i]
              u == InsertAt(s, at, x)
  <2>. HIDE DEF x
  <2>1. /\ IsList(u, j + 1)
        /\ \A k \in 1..(j + 1) : u[k] = IF k < at THEN s[k] ELSE IF k = at THEN x ELSE s[k - 1]
    BY <1>1, <1>2, InsertAtIs
  <2>. QED  BY <1>1, <2>1 DEF x
<1>. HIDE DEF t
<1>. DEFINE r == [k \in 1..i |-> IF k < at THEN p[k] ELSE IF k = at THEN i ELSE p[k - 1]]
<1>6. \A k \in 1..i : k < at => k \in 1..j
  BY <1>1
<1>7. \A k \in 1..i : k > at => k - 1 \in 1..j
  BY <1>1
<1>8. \A k \in 1..j : k \in 1..i /\ k + 1 \in 1..i
  BY <1>1
<1>9. r \in Bijection(1..i, 1..i)
  <2>1. \A k \in 1..i : k < at => r[k] = p[k]
    OBVIOUS
  <2>2. r[at] = i /\ at \in 1..i
    BY <1>1
  <2>3. \A k \in 1..i : k > at => r[k] = p[k - 1]
    BY <1>1
  <2>4. \A k \in 1..i : k < at \/ k = at \/ k > at
    BY <1>1
  <2>5. r = [k \in 1..i |-> r[k]]
    OBVIOUS
  <2>. HIDE DEF r
  <2>6. \A k \in 1..j : p[k] \in 1..i /\ p[k] # i
    <3>1. \A k \in 1..j : p[k] \in 1..j
      BY <1>4
    <3>2. \A x \in 1..j : x \in 1..i /\ x # i
      BY <1>1
    <3>. QED  BY <3>1, <3>2
  <2>7. ASSUME NEW k \in 1..i
        PROVE  r[k] \in 1..i
    <3>1. CASE k < at
      BY <3>1, <1>6, <2>1, <2>6
    <3>2. CASE k = at
      BY <3>2, <1>1, <2>2
    <3>3. CASE k > at
      BY <3>3, <1>7, <2>3, <2>6
    <3>. QED  BY <3>1, <3>2, <3>3, <2>4
  <2>8. ASSUME NEW w \in 1..i
        PROVE  \E v \in 1..i : r[v] = w
    <3>1. CASE w = i
      BY <3>1, <2>2
    <3>2. CASE w # i
      <4>1. w \in 1..j
        BY <1>1, <3>2
      <4>2. PICK v \in 1..j : p[v] = w
        BY <1>4, <4>1
      <4>3. CASE v < at
        <5>1. v \in 1..i /\ r[v] = w
          BY <4>2, <4>3, <1>8, <2>1
        <5>. QED  BY <5>1
      <4>4. CASE ~ (v < at)
        <5>1. v + 1 \in 1..i /\ v + 1 > at /\ (v + 1) - 1 = v
          BY <4>4, <1>1, <1>8
        <5>2. r[v + 1] = p[v]
          BY <5>1, <2>3
        <5>. QED  BY <5>1, <5>2, <4>2
      <4>. QED  BY <4>3, <4>4
    <3>. QED  BY <3>1, <3>2
  <2>9. ASSUME NEW v \in 1..i, NEW w \in 1..i, r[v] = r[w], v < w
        PROVE  FALSE
    <3>0. v \in Int /\ w \in Int /\ at \in Int
      BY <1>1
    <3>1. CASE w < at
      <4>1. v < at
        BY <3>0, <2>9, <3>1
      <4>2. p[v] = p[w] /\ v \in 1..j /\ w \in 1..j
        BY <3>1, <4>1, <1>6, <2>1, <2>9
      <4>3. v = w
        BY <4>2, <1>4
      <4>. QED  BY <4>3, <3>0, <2>9
    <3>2. CASE w = at
      <4>1. v < at
        BY <3>0, <2>9, <3>2
      <4>2. r[v] = p[v] /\ v \in 1..j
        BY <4>1, <1>6, <2>1
      <4>. QED  BY <3>2, <4>2, <2>2, <2>6, <2>9
    <3>3. CASE w > at /\ v < at
      <4>1. r[v] = p[v] /\ v \in 1..j
        BY <3>3, <1>6, <2>1
      <4>2. r[w] = p[w - 1] /\ w - 1 \in 1..j
        BY <3>3, <1>7, <2>3
      <4>3. v = w - 1
        BY <4>1, <4>2, <1>4, <2>9
      <4>. QED  BY <4>3, <3>3, <3>0
    <3>4. CASE w > at /\ v = at
      <4>2. r[w] = p[w - 1] /\ w - 1 \in 1..j
        BY <3>4, <1>7, <2>3
      <4>. QED  BY <4>2, <3>4, <2>2, <2>6, <2>9
    <3>5. CASE w > at /\ v > at
      <4>1. r[v] = p[v - 1] /\ v - 1 \in 1..j
        BY <3>5, <1>7, <2>3
      <4>2. r[w] = p[w - 1] /\ w - 1 \in 1..j
        BY <3>5, <1>7, <2>3
      <4>3. v - 1 = w - 1
        BY <4>1, <4>2, <1>4, <2>9
      <4>. QED  BY <4>3, <3>0, <2>9
    <3>. QED  BY <3>1, <3>2, <3>3, <3>4, <3>5, <3>0
  <2>10. ASSUME NEW v \in 1..i, NEW w \in 1..i, r[v] = r[w]
         PROVE  v = w
    <3>1. v < w \/ w < v \/ v = w
      BY <1>1
    <3>. QED  BY <2>9, <2>10, <3>1
  <2>11. r \in [1..i -> 1..i]
    BY <2>5, <2>7
  <2>. DEFINE D == 1..i
  <2>12. /\ r \in [D -> D]
         /\ \A v, w \in D : r[v] = r[w] => v = w
         /\ \A w \in D : \E v \in D : r[v] = w
    BY <2>8, <2>10, <2>11
  <2>13. r \in Bijection(D, D)
    <3>. HIDE DEF D
    <3>. QED  BY <2>12, BijectionIs
  <2>. QED  BY <2>13
<1>10. ASSUME NEW k \in 1..i
       PROVE  t[k] = list[r[k]]
  <2>1. k < at \/ k = at \/ k > at
    BY <1>1
  <2>2. CASE k < at
    BY <2>2, <1>3, <1>5, <1>6
  <2>3. CASE k = at
    BY <2>3, <1>1, <1>5
  <2>4. CASE k > at
    <3>1. ~ (k < at) /\ k # at /\ k - 1 \in 1..j
      BY <2>4, <1>1, <1>7
    <3>2. t[k] = s[k - 1] /\ s[k - 1] = list[p[k - 1]]
      BY <3>1, <1>3, <1>5
    <3>3. r[k] = p[k - 1]
      BY <3>1
    <3>. QED  BY <3>2, <3>3
  <2>. QED  BY <2>1, <2>2, <2>3, <2>4
<1>. HIDE DEF r
<1>11. \E y \in Bijection(1..i, 1..i) : \A k \in 1..i : t[k] = list[y[k]]
  BY <1>9, <1>10
<1>. QED  BY <1>5, <1>11 DEF Shuffled, t

LEMMA ShuffledNone ==
  ASSUME NEW list
  PROVE  Shuffled(list, <<>>, 0)
<1>. DEFINE p == [k \in {} |-> 0]
<1>1. 1..0 = {}
  OBVIOUS
<1>2. p \in Bijection(1..0, 1..0)
  BY <1>1, BijectionIs
<1>3. \A k \in 1..0 : <<>>[k] = list[p[k]]
  BY <1>1
<1>. QED  BY <1>2, <1>3, EmptyList DEF Shuffled

\* The place that insertion finds.
LEMMA PlaceIs ==
  ASSUME NEW j \in Nat, NEW S \in SUBSET (1..j)
  PROVE  Max({0} \cup S) + 1 \in 1..(j + 1)
<1>1. {0} \cup S \in SUBSET (0..j) /\ {0} \cup S # {}
  OBVIOUS
<1>2. Max({0} \cup S) \in 0..j
  BY <1>1, MaxIs
<1>. QED  BY <1>2

LEMMA ShuffledMoved ==
  ASSUME NEW n, NEW list, IsList(list, n), NEW s, Shuffled(list, s, n)
  PROVE  Moved(list, s)
<1>1. DOMAIN list = 1..n /\ s = [k \in 1..n |-> s[k]]
  BY DEF IsList, Shuffled
<1>2. PICK p \in Bijection(1..n, 1..n) : \A k \in 1..n : s[k] = list[p[k]]
  BY DEF Shuffled
<1>3. s = [k \in 1..n |-> list[p[k]]]
  BY <1>1, <1>2
<1>. QED  BY <1>1, <1>3 DEF Moved

\* What the backend by literal sorts.
LEMMA AltSortedMoves ==
  ASSUME NEW n, NEW pairs, IsList(pairs, n), NEW ord
  PROVE  Moved(pairs, AltSorted(pairs, ord))
<1>1. n \in Nat /\ Len(pairs) = n
  BY DEF IsList
<1>2. PICK loop : /\ loop[0] = <<>>
                  /\ \A i \in 1..n : loop[i] = AltInsert(loop[i - 1], pairs[i], ord)
                  /\ AltSorted(pairs, ord) = loop[n]
  BY <1>1, AltSortedLoop
<1>. DEFINE T == {i \in 0..n : Shuffled(pairs, loop[i], i)}
<1>3. 0 \in T
  BY <1>1, <1>2, ShuffledNone
<1>4. ASSUME NEW i \in 1..n, i - 1 \in T
      PROVE  i \in T
  <2>. DEFINE s == loop[i - 1]
              at == Max({0} \cup {j \in DOMAIN s : ~ AltLess(pairs[i], s[j], ord)}) + 1
  <2>1. Shuffled(pairs, s, i - 1) /\ DOMAIN s = 1..(i - 1)
    BY <1>4 DEF Shuffled, IsList
  <2>2. at \in 1..i
    <3>. DEFINE S == {j \in DOMAIN s : ~ AltLess(pairs[i], s[j], ord)}
    <3>1. S \in SUBSET (1..(i - 1)) /\ i - 1 \in Nat /\ i - 1 + 1 = i
      BY <1>1, <2>1
    <3>. HIDE DEF S
    <3>2. Max({0} \cup S) + 1 \in 1..(i - 1 + 1)
      BY <3>1, PlaceIs
    <3>. QED  BY <3>1, <3>2 DEF S
  <2>3. loop[i] = InsertAt(s, at, pairs[i])
    BY <1>2 DEF AltInsert
  <2>. HIDE DEF s, at
  <2>4. i \in Nat \ {0}
    BY <1>1
  <2>5. Shuffled(pairs, loop[i], i)
    BY <2>1, <2>2, <2>3, <2>4, ShuffledMore
  <2>. QED  BY <2>5
<1>5. n \in T
  <2>. HIDE DEF T
  <2>1. n \in 0..n
    BY <1>1
  <2>. QED  BY <1>1, <1>3, <1>4, <2>1, Rounds
<1>. QED  BY <1>2, <1>5, ShuffledMoved
-----------------------------------------------------------------------------
(* The backend by literal *)

\* The executions of the queries in a selection.
AltSubRuns(q) == [i \in QueryTasks(q.sel) |-> AltQuery[q.sel[i].q]]

LEMMA AltQueryIs ==
  ASSUME NEW q \in AltPlans, NEW outer \in Seq(AllRows), NEW tabs \in Tables
  PROVE  AltQuery[q][outer][tabs] = AltRun(q, AltSubRuns(q), outer, tabs)
<1>1. ASSUME NEW x \in AltPlans, NEW f, NEW g, SameBelow(AltPlans, PlanRank, x, f, g)
      PROVE  [i \in QueryTasks(x.sel) |-> f[x.sel[i].q]] = [i \in QueryTasks(x.sel) |-> g[x.sel[i].q]]
  BY <1>1, PlansAre DEF SameBelow
<1>2. Grounded("altquery", AltPlans, PlanRank)
  BY <1>1 DEF Grounded, Body
<1>. DEFINE Runs(x, f) ==
              [o \in Seq(AllRows) |->
                 [d \in Tables |-> AltRun(x, [i \in QueryTasks(x.sel) |-> f[x.sel[i].q]], o, d)]]
            P(f) == f = [x \in AltPlans |-> Runs(x, f)]
<1>3. \E f : P(f)
  <2>1. PICK f : f = [x \in AltPlans |-> Body("altquery", x, f)]
    BY <1>2, PlanRankIs, RecursionExists
  <2>2. \A x \in AltPlans : f[x] = Runs(x, f)
    BY <2>1 DEF Body
  <2>3. f = [x \in AltPlans |-> f[x]]
    BY <2>1
  <2>. HIDE DEF Runs
  <2>4. P(f)
    BY <2>2, <2>3
  <2>. HIDE DEF P
  <2>. QED  BY <2>4
<1>4. P(AltQuery)
  <2>1. AltQuery = CHOOSE f : P(f)
    BY DEF AltQuery
  <2>. HIDE DEF P
  <2>. QED  BY <1>3, <2>1
<1>5. AltQuery[q] = Runs(q, AltQuery)
  <2>. HIDE DEF Runs
  <2>. QED  BY <1>4
<1>. QED  BY <1>5 DEF AltSubRuns

\* The tables d have the rows that tabs have.
Keeps(tabs, d) == d \in Tables /\ \A m \in DOMAIN Fields : Moved(tabs[m], d[m])

LEMMA KeepsSame ==
  ASSUME NEW tabs \in Tables
  PROVE  Keeps(tabs, tabs)
<1>1. ASSUME NEW m \in DOMAIN Fields
      PROVE  Moved(tabs[m], tabs[m])
  <2>1. tabs[m] \in Seq(AllRows)
    BY DEF Tables
  <2>2. IsList(tabs[m], Len(tabs[m]))
    BY <2>1, ListIs
  <2>. QED  BY <2>2, MovedSame
<1>. QED  BY <1>1 DEF Keeps

LEMMA KeepsTwice ==
  ASSUME NEW c, NEW d, NEW e, Keeps(c, d), Keeps(d, e)
  PROVE  Keeps(c, e)
BY MovedTwice DEF Keeps

LEMMA KeepsOne ==
  ASSUME NEW tabs \in Tables, NEW m \in DOMAIN Fields, NEW rows, Moved(tabs[m], rows)
  PROVE  Keeps(tabs, [tabs EXCEPT ![m] = rows])
<1>. DEFINE d == [tabs EXCEPT ![m] = rows]
<1>1. tabs[m] \in Seq(AllRows)
  BY DEF Tables
<1>2. rows \in Seq(AllRows)
  BY <1>1, MovedList
<1>3. d \in Tables /\ d[m] = rows /\ \A k \in DOMAIN Fields : k # m => d[k] = tabs[k]
  BY <1>2 DEF Tables
<1>4. \A k \in DOMAIN Fields : Moved(tabs[k], tabs[k])
  BY KeepsSame DEF Keeps
<1>. HIDE DEF d
<1>5. \A k \in DOMAIN Fields : Moved(tabs[k], d[k])
  BY <1>3, <1>4
<1>. QED  BY <1>3, <1>5 DEF Keeps, d

\* The queries in a selection move rows at most.
SubsKeep(q, subs) ==
  \A i \in QueryTasks(q.sel) : \A rows \in Seq(AllRows) : \A tabs \in Tables :
     Keeps(tabs, subs[i][rows][tabs].data)

\* So does the value of a task,
LEMMA ValueKeeps ==
  ASSUME NEW q, NEW subs, SubsKeep(q, subs), NEW i \in DOMAIN q.sel,
         NEW rows \in Seq(AllRows), NEW tabs \in Tables
  PROVE  Keeps(tabs, AltValue(q, i, subs, rows, tabs).data)
<1>1. CASE q.sel[i].q # None
  <2>1. i \in QueryTasks(q.sel)
    BY <1>1 DEF QueryTasks
  <2>2. AltValue(q, i, subs, rows, tabs) = subs[i][rows][tabs]
    BY <1>1 DEF AltValue
  <2>. QED  BY <2>1, <2>2 DEF SubsKeep
<1>2. CASE q.sel[i].q = None
  <2>1. \A v : Out(v, tabs).data = tabs
    BY DEF Out
  <2>2. \/ AltValue(q, i, subs, rows, tabs) = Out(Value(q.sel[i].el, rows, <<>>), tabs)
        \/ AltValue(q, i, subs, rows, tabs) = Out(rows[1][q.sel[i].name], tabs)
    BY <1>2 DEF AltValue
  <2>3. AltValue(q, i, subs, rows, tabs).data = tabs
    BY <2>1, <2>2
  <2>. QED  BY <2>3, KeepsSame
<1>. QED  BY <1>1, <1>2

\* and an element of the result.
LEMMA ElemKeeps ==
  ASSUME NEW q \in AltPlans, NEW subs, SubsKeep(q, subs), NEW rows \in Seq(AllRows), NEW tabs \in Tables
  PROVE  Keeps(tabs, AltElem(q, subs, rows, tabs).data)
<1>. DEFINE n == Len(q.sel)
            out == AltElem(q, subs, rows, tabs)
<1>1. n \in Nat /\ DOMAIN q.sel = 1..n /\ (q.sca => n = 1)
  BY PlansAre DEF IsList
<1>2. PICK loop : /\ loop[0] = Out(<<>>, tabs)
                  /\ \A i \in 1..n : loop[i] = ElemRound(q, subs, rows, loop[i - 1], i)
                  /\ out = IF q.sel = <<>> THEN Out(rows[1], tabs)
                           ELSE IF q.sca THEN AltValue(q, 1, subs, rows, tabs)
                           ELSE loop[n]
  BY <1>1, ElemLoop
<1>. HIDE DEF n, out
<1>3. \A v, d : Out(v, d).data = d
  BY DEF Out
<1>. DEFINE T == {i \in 0..n : Keeps(tabs, loop[i].data)}
<1>4. 0 \in T
  BY <1>1, <1>2, <1>3, KeepsSame
<1>5. ASSUME NEW i \in 1..n, i - 1 \in T
      PROVE  i \in T
  <2>. DEFINE p == loop[i - 1]
              v == AltValue(q, i, subs, rows, p.data)
  <2>1. loop[i] = p \/ loop[i].data = v.data
    BY <1>2, <1>3 DEF ElemRound
  <2>2. Keeps(tabs, p.data)
    BY <1>5
  <2>3. p.data \in Tables
    BY <2>2 DEF Keeps
  <2>4. Keeps(p.data, v.data)
    <3>. DEFINE d == p.data
    <3>1. d \in Tables /\ i \in DOMAIN q.sel
      BY <1>1, <2>3
    <3>. HIDE DEF d, p
    <3>2. Keeps(d, AltValue(q, i, subs, rows, d).data)
      BY <3>1, ValueKeeps
    <3>. QED  BY <3>2 DEF d
  <2>. HIDE DEF p, v
  <2>5. Keeps(tabs, v.data)
    <3>. DEFINE c == p.data
                d == v.data
    <3>1. Keeps(tabs, c) /\ Keeps(c, d)
      BY <2>2, <2>4
    <3>. HIDE DEF c, d
    <3>2. Keeps(tabs, d)
      BY <3>1, KeepsTwice
    <3>. QED  BY <3>2 DEF d
  <2>6. Keeps(tabs, loop[i].data)
    BY <2>1, <2>2, <2>5
  <2>. QED  BY <2>6
<1>6. n \in T
  <2>. HIDE DEF T
  <2>1. n \in 0..n
    BY <1>1
  <2>. QED  BY <1>1, <1>4, <1>5, <2>1, Rounds
<1>7. CASE q.sel = <<>>
  <2>1. out.data = tabs
    BY <1>2, <1>3, <1>7
  <2>. QED  BY <2>1, KeepsSame DEF out
<1>8. CASE q.sel # <<>> /\ q.sca
  <2>1. 1 \in DOMAIN q.sel
    BY <1>1, <1>8
  <2>2. Keeps(tabs, AltValue(q, 1, subs, rows, tabs).data)
    BY <2>1, ValueKeeps
  <2>. QED  BY <1>2, <1>8, <2>2 DEF out
<1>9. CASE q.sel # <<>> /\ ~ q.sca
  BY <1>2, <1>6, <1>9 DEF out
<1>. QED  BY <1>7, <1>8, <1>9
\* No conditions accept every row.
LEMMA NoConditions ==
  ASSUME NEW rows, NEW done
  PROVE  Accepted(<<>>, rows, done) = TRUE
<1>. DEFINE next(acc, c) == IF acc = TRUE THEN Holds(c, rows, done) ELSE acc
            P(f) == f = [i \in 0..Len(<<>>) |-> IF i = 0 THEN TRUE ELSE next(f[i - 1], <<>>[i])]
            g == CHOOSE f : P(f)
<1>1. Len(<<>>) = 0 /\ 0..0 = {0}
  BY EmptyList DEF IsList
<1>2. \E f : P(f)
  <2>. DEFINE h == [i \in {0} |-> TRUE]
  <2>1. P(h)
    BY <1>1
  <2>. HIDE DEF h, P
  <2>. QED  BY <2>1
<1>3. P(g)
  <2>. HIDE DEF P
  <2>. QED  BY <1>2
<1>4. Accepted(<<>>, rows, done) = g[Len(<<>>)]
  BY DEF Accepted
<1>. HIDE DEF g
<1>5. g[0] = TRUE
  <2>. HIDE DEF next
  <2>. QED  BY <1>1, <1>3
<1>. QED  BY <1>1, <1>4, <1>5

\* What the loop over the rows keeps true after n of them: without conditions there is an
\* element for every row.
CollectInv(q, tabs, n, st) ==
  /\ st = [rows |-> st.rows, elems |-> st.elems, data |-> st.data]
  /\ Keeps(tabs, st.data)
  /\ st.elems = Err \/ /\ IsList(st.elems, Len(st.elems))
                       /\ q.whr = <<>> => Len(st.elems) = n

LEMMA CollectInvIs ==
  ASSUME NEW q, NEW tabs, NEW n, NEW r, NEW e, NEW d, Keeps(tabs, d),
         e = Err \/ (IsList(e, Len(e)) /\ (q.whr = <<>> => Len(e) = n))
  PROVE  CollectInv(q, tabs, n, [rows |-> r, elems |-> e, data |-> d])
BY DEF CollectInv

LEMMA CollectStep ==
  ASSUME NEW q \in AltPlans, NEW subs, SubsKeep(q, subs), NEW outer \in Seq(AllRows),
         NEW tabs \in Tables, NEW i \in 1..Len(tabs[q.model]), NEW st, CollectInv(q, tabs, i - 1, st)
  PROVE  CollectInv(q, tabs, i, CollectRound(q, subs, outer, st, i))
<1>. DEFINE d == st.data
            row == d[q.model][i]
            rows == <<row>> \o outer
            accepted == Accepted(q.whr, rows, <<>>)
            e == AltElem(q, subs, rows, d)
            I(x) == CollectInv(q, tabs, i, x)
<1>1. /\ st = [rows |-> st.rows, elems |-> st.elems, data |-> d] /\ Keeps(tabs, d) /\ d \in Tables
      /\ st.elems = Err \/ (IsList(st.elems, Len(st.elems)) /\ (q.whr = <<>> => Len(st.elems) = i - 1))
  BY DEF CollectInv, Keeps
<1>2. tabs[q.model] \in Seq(AllRows) /\ Moved(tabs[q.model], d[q.model]) /\ d[q.model] \in Seq(AllRows)
  BY <1>1, PlansAre DEF Keeps, Tables
<1>3. row \in AllRows
  <2>1. Len(d[q.model]) = Len(tabs[q.model])
    BY <1>2, MovedList
  <2>. QED  BY <1>2, <2>1, ElementOfSeq
<1>. HIDE DEF row
<1>4. rows \in Seq(AllRows)
  <2>1. <<row>> \in Seq(AllRows)
    BY <1>3
  <2>. QED  BY <2>1, ConcatProperties
<1>. HIDE DEF d, rows
<1>5. Keeps(d, e.data)
  BY <1>1, <1>4, ElemKeeps
<1>6. q.whr = <<>> => accepted = TRUE
  BY NoConditions
<1>7. CollectRound(q, subs, outer, st, i) =
        IF st.elems = Err \/ accepted = FALSE THEN st
        ELSE IF accepted = Err THEN [st EXCEPT !.elems = Err]
        ELSE [rows |-> Append(st.rows, row), elems |-> Listed(st.elems, e.val), data |-> e.data]
  BY DEF CollectRound, AltRow, d, row, rows
<1>. HIDE DEF accepted, e
<1>8. ASSUME st.elems = Err \/ accepted = FALSE
      PROVE  I(st)
  <2>1. q.whr = <<>> => st.elems = Err
    BY <1>6, <1>8
  <2>. QED  BY <1>1, <2>1 DEF CollectInv, d
<1>9. I([st EXCEPT !.elems = Err])
  <2>1. [st EXCEPT !.elems = Err] = [rows |-> st.rows, elems |-> Err, data |-> d]
    BY <1>1
  <2>. QED  BY <1>1, <2>1, CollectInvIs
<1>10. ASSUME st.elems # Err
       PROVE  I([rows |-> Append(st.rows, row), elems |-> Listed(st.elems, e.val), data |-> e.data])
  <2>. DEFINE l == st.elems
              v == e.val
              b == e.data
              a == Listed(l, v)
              r == Append(st.rows, row)
  <2>1. IsList(l, Len(l)) /\ (q.whr = <<>> => Len(l) = i - 1)
    BY <1>1, <1>10
  <2>. HIDE DEF l, v
  <2>2. a = Err \/ a = Append(l, v)
    BY DEF Listed
  <2>3. IsList(Append(l, v), Len(l) + 1)
    BY <2>1, AppendIs
  <2>. HIDE DEF a
  <2>4. a = Err \/ (IsList(a, Len(a)) /\ (q.whr = <<>> => Len(a) = i))
    <3>1. a # Err => IsList(a, Len(a)) /\ Len(a) = Len(l) + 1
      BY <2>2, <2>3 DEF IsList
    <3>2. i - 1 + 1 = i
      OBVIOUS
    <3>. QED  BY <2>1, <3>1, <3>2
  <2>5. Keeps(tabs, b)
    <3>1. Keeps(tabs, d) /\ Keeps(d, b)
      BY <1>1, <1>5
    <3>. HIDE DEF b
    <3>. QED  BY <3>1, KeepsTwice
  <2>. HIDE DEF b, r
  <2>6. I([rows |-> r, elems |-> a, data |-> b])
    BY <2>4, <2>5, CollectInvIs
  <2>. QED  BY <2>6 DEF a, b, r, l, v
<1>. HIDE DEF I
<1>11. I(CollectRound(q, subs, outer, st, i))
  BY <1>7, <1>8, <1>9, <1>10
<1>. QED  BY <1>11 DEF I

LEMMA CollectKeeps ==
  ASSUME NEW q \in AltPlans, NEW subs, SubsKeep(q, subs), NEW outer \in Seq(AllRows), NEW tabs \in Tables
  PROVE  CollectInv(q, tabs, Len(tabs[q.model]), AltCollect(q, subs, outer, tabs))
<1>. DEFINE n == Len(tabs[q.model])
            first == [rows |-> <<>>, elems |-> <<>>, data |-> tabs]
<1>1. n \in Nat
  <2>1. tabs[q.model] \in Seq(AllRows)
    BY PlansAre DEF Tables
  <2>. QED  BY <2>1, LenProperties
<1>. HIDE DEF first, n
<1>2. PICK loop : /\ loop[0] = first
                  /\ \A i \in 1..n : loop[i] = CollectRound(q, subs, outer, loop[i - 1], i)
                  /\ AltCollect(q, subs, outer, tabs) = loop[n]
  <2>1. Len(tabs[q.model]) \in Nat
    BY <1>1 DEF n
  <2>2. Collects(q, subs, outer, tabs)
    BY <2>1, CollectLoop
  <2>. QED  BY <2>2 DEF Collects, first, n
<1>3. CollectInv(q, tabs, 0, first)
  <2>1. Keeps(tabs, tabs)
    BY KeepsSame
  <2>2. IsList(<<>>, Len(<<>>)) /\ Len(<<>>) = 0
    BY EmptyList DEF IsList
  <2>. QED  BY <2>1, <2>2, CollectInvIs DEF first
<1>. DEFINE T == {i \in 0..n : CollectInv(q, tabs, i, loop[i])}
<1>4. 0 \in T
  BY <1>1, <1>2, <1>3
<1>5. ASSUME NEW i \in 1..n, i - 1 \in T
      PROVE  i \in T
  <2>1. CollectInv(q, tabs, i - 1, loop[i - 1])
    BY <1>5
  <2>2. CollectInv(q, tabs, i, CollectRound(q, subs, outer, loop[i - 1], i))
    BY <2>1, CollectStep DEF n
  <2>3. CollectInv(q, tabs, i, loop[i])
    BY <1>2, <2>2
  <2>. QED  BY <2>3
<1>6. n \in T
  <2>. HIDE DEF T
  <2>1. n \in 0..n
    BY <1>1
  <2>. QED  BY <1>1, <1>4, <1>5, <2>1, Rounds
<1>. QED  BY <1>2, <1>6 DEF n

\* The rows of ordered pairs are the rows of the pairs.
LEMMA OrderMoves ==
  ASSUME NEW q, NEW n \in Nat, NEW rows, NEW elems, DOMAIN rows = 1..n, rows = [i \in 1..n |-> rows[i]],
         DOMAIN elems = 1..n,
         NEW pairs, pairs = AltOrder(q, [i \in DOMAIN elems |-> Pair(rows[i], elems[i])]), pairs # Err
  PROVE  Moved(rows, [i \in DOMAIN pairs |-> pairs[i].row])
<1>. DEFINE all == [i \in 1..n |-> Pair(rows[i], elems[i])]
<1>1. DOMAIN all = 1..n /\ all = [i \in 1..n |-> all[i]] /\ \A i \in 1..n : all[i].row = rows[i]
  BY DEF Pair
<1>2. pairs = AltOrder(q, all)
  OBVIOUS
<1>. HIDE DEF all
<1>3. IsList(all, n)
  BY <1>1, ListOf
<1>4. pairs = all \/ pairs = AltSorted(all, q.ord)
  BY <1>2 DEF AltOrder
<1>5. Moved(all, pairs)
  BY <1>3, <1>4, MovedSame, AltSortedMoves
<1>6. PICK p \in Bijection(1..n, 1..n) : pairs = [i \in 1..n |-> all[p[i]]]
  BY <1>1, <1>5 DEF Moved
<1>7. p \in [1..n -> 1..n]
  <2>. DEFINE D == 1..n
  <2>1. p \in Bijection(D, D)
    OBVIOUS
  <2>. HIDE DEF D
  <2>2. p \in [D -> D]
    BY <2>1, BijectionIs
  <2>. QED  BY <2>2 DEF D
<1>8. \A i \in 1..n : pairs[i].row = rows[p[i]]
  BY <1>1, <1>6, <1>7
<1>9. [i \in DOMAIN pairs |-> pairs[i].row] = [i \in 1..n |-> rows[p[i]]]
  BY <1>6, <1>8
<1>. QED  BY <1>9 DEF Moved

\* What is left to do when all rows were looked at.
LEMMA CollectedKeeps ==
  ASSUME NEW q \in AltPlans, NEW tabs \in Tables, NEW st, CollectInv(q, tabs, Len(tabs[q.model]), st)
  PROVE  Keeps(tabs, AltCollected(q, st).data)
<1>. DEFINE d == st.data
            rows == AltRows(q, st.rows, d)
            pairs == AltOrder(q, [i \in DOMAIN st.elems |-> Pair(rows[i], st.elems[i])])
            left == [i \in DOMAIN pairs |-> pairs[i].row]
<1>1. /\ Keeps(tabs, d) /\ d \in Tables
      /\ st.elems = Err \/ (IsList(st.elems, Len(st.elems)) /\ (q.whr = <<>> => Len(st.elems) = Len(tabs[q.model])))
  BY DEF CollectInv, Keeps
<1>2. \A v, x : Out(v, x).data = x
  BY DEF Out
<1>. HIDE DEF left, pairs
<1>3. /\ AltFinish(q, pairs, d).data = d \/ (pairs # Err /\ AltFinish(q, pairs, d).data = AltLeaves(q, left, d))
      /\ st.elems = Err => AltCollected(q, st).data = d
      /\ st.elems # Err => AltCollected(q, st) = AltFinish(q, pairs, d)
  <2>1. AltFinish(q, pairs, d).data = d \/ (pairs # Err /\ AltFinish(q, pairs, d).data = AltLeaves(q, left, d))
    BY <1>2 DEF AltFinish, left
  <2>2. st.elems = Err => AltCollected(q, st).data = d
    BY <1>2 DEF AltCollected
  <2>3. st.elems # Err => AltCollected(q, st) = AltFinish(q, pairs, d)
    BY DEF AltCollected, pairs
  <2>. QED  BY <2>1, <2>2, <2>3
<1>4. ASSUME st.elems # Err, pairs # Err, q.whr = <<>>
      PROVE  Keeps(tabs, AltLeaves(q, left, d))
  <2>. DEFINE m == q.model
              n == Len(d[m])
  <2>1. m \in DOMAIN Fields
    BY PlansAre
  <2>2. tabs[m] \in Seq(AllRows) /\ d[m] \in Seq(AllRows) /\ Moved(tabs[m], d[m])
    BY <1>1, <2>1 DEF Keeps, Tables
  <2>3. IsList(d[m], n) /\ n = Len(tabs[m])
    BY <2>2, ListIs, MovedList
  <2>4. DOMAIN st.elems = 1..n
    BY <1>1, <1>4, <2>3 DEF IsList
  <2>5. rows = d[m]
    BY <1>4 DEF AltRows
  <2>6. n \in Nat /\ DOMAIN rows = 1..n /\ rows = [i \in 1..n |-> rows[i]]
    BY <2>3, <2>5 DEF IsList
  <2>. HIDE DEF n, rows
  <2>7. Moved(rows, left)
    <3>. DEFINE e == st.elems
    <3>1. DOMAIN e = 1..n /\ pairs = AltOrder(q, [i \in DOMAIN e |-> Pair(rows[i], e[i])])
      BY <2>4 DEF pairs, rows
    <3>. HIDE DEF e
    <3>2. Moved(rows, [i \in DOMAIN pairs |-> pairs[i].row])
      BY <1>4, <2>6, <3>1, OrderMoves
    <3>. QED  BY <3>2 DEF left
  <2>. HIDE DEF m, d
  <2>8. Keeps(d, [d EXCEPT ![m] = left])
    BY <1>1, <2>1, <2>5, <2>7, KeepsOne
  <2>9. AltLeaves(q, left, d) = [d EXCEPT ![m] = left]
    BY <1>4 DEF AltLeaves, m
  <2>. QED  BY <1>1, <2>8, <2>9, KeepsTwice
<1>5. q.whr # <<>> => AltLeaves(q, left, d) = d
  BY DEF AltLeaves
<1>6. st.elems # Err => Keeps(tabs, AltFinish(q, pairs, d).data)
  BY <1>1, <1>3, <1>4, <1>5
<1>. QED  BY <1>1, <1>3, <1>6
\* The query that is executed, over the queries that are nested in it.
LEMMA RunKeeps ==
  ASSUME NEW q \in AltPlans, NEW subs, SubsKeep(q, subs), NEW outer \in Seq(AllRows), NEW tabs \in Tables
  PROVE  Keeps(tabs, AltRun(q, subs, outer, tabs).data)
<1>1. CASE q.kind = "#"
  <2>1. AltRun(q, subs, outer, tabs).data = tabs
    BY <1>1 DEF AltRun, AltCount, Out
  <2>. QED  BY <2>1, KeepsSame
<1>2. CASE q.kind # "#"
  <2>. DEFINE st == AltCollect(q, subs, outer, tabs)
  <2>1. CollectInv(q, tabs, Len(tabs[q.model]), st)
    BY CollectKeeps
  <2>2. AltRun(q, subs, outer, tabs) = AltCollected(q, st)
    BY <1>2 DEF AltRun
  <2>. HIDE DEF st
  <2>. QED  BY <2>1, <2>2, CollectedKeeps
<1>. QED  BY <1>1, <1>2

PlanKeeps(q) ==
  \A outer \in Seq(AllRows) : \A tabs \in Tables : Keeps(tabs, AltQuery[q][outer][tabs].data)

\* However deep queries are nested.
LEMMA PlansKeep ==
  ASSUME NEW q \in AltPlans
  PROVE  PlanKeeps(q)
<1>. DEFINE Off == {x \in AltPlans : ~ PlanKeeps(x)}
            N == {PlanRank[x] : x \in Off}
<1>. SUFFICES ASSUME Off # {}
              PROVE  FALSE
  OBVIOUS
<1>1. PICK r \in N : \A y \in N : r <= y
  <2>1. N \in SUBSET Nat /\ N # {}
    BY PlanRankIs
  <2>. HIDE DEF N
  <2>. QED  BY <2>1, LeastNat
<1>2. PICK x \in Off : r = PlanRank[x]
  OBVIOUS
<1>3. ASSUME NEW y \in AltPlans, PlanRank[y] < PlanRank[x]
      PROVE  PlanKeeps(y)
  <2>1. PlanRank[y] \in Nat /\ PlanRank[x] \in Nat
    BY PlanRankIs
  <2>2. y \in Off => PlanRank[x] <= PlanRank[y]
    BY <1>1, <1>2
  <2>. QED  BY <1>3, <2>1, <2>2
<1>4. SubsKeep(x, AltSubRuns(x))
  <2>1. ASSUME NEW i \in QueryTasks(x.sel)
        PROVE  AltSubRuns(x)[i] = AltQuery[x.sel[i].q] /\ PlanKeeps(x.sel[i].q)
    <3>1. x.sel[i].q \in AltPlans /\ PlanRank[x.sel[i].q] < PlanRank[x]
      BY PlansAre
    <3>. QED  BY <1>3, <3>1 DEF AltSubRuns
  <2>2. ASSUME NEW i \in QueryTasks(x.sel), NEW rows \in Seq(AllRows), NEW tabs \in Tables
        PROVE  Keeps(tabs, AltSubRuns(x)[i][rows][tabs].data)
    BY <2>1 DEF PlanKeeps
  <2>. QED  BY <2>2 DEF SubsKeep
<1>5. ASSUME NEW outer \in Seq(AllRows), NEW tabs \in Tables
      PROVE  Keeps(tabs, AltQuery[x][outer][tabs].data)
  <2>. DEFINE subs == AltSubRuns(x)
  <2>1. AltQuery[x][outer][tabs] = AltRun(x, subs, outer, tabs) /\ SubsKeep(x, subs)
    BY <1>4, AltQueryIs
  <2>. HIDE DEF subs
  <2>2. Keeps(tabs, AltRun(x, subs, outer, tabs).data)
    BY <2>1, RunKeeps
  <2>. QED  BY <2>1, <2>2
<1>. QED  BY <1>5 DEF PlanKeeps

LEMMA DataFacts ==
  ASSUME NEW d \in Databases
  PROVE  d \in Tables /\ DOMAIN d = DOMAIN Fields
BY DataAssumption DEF Tables

\* The backend by literal has the rows that there were.
LEMMA RowsStep ==
  ASSUME QueryInv, Keeps(db, data), [Next]_vars
  PROVE  Keeps(db, data)'
<1>1. CASE ExecPlanned
  <2>. DEFINE k == Len(alt) + 1
              t == prog[k]
  <2>1. data' = AltTask(t, data).data /\ db' = db /\ stage = "alt"
    BY <1>1 DEF ExecPlanned, Executed
  <2>2. ~ Bad(prog) /\ Ahead(alt, prog) /\ Behind(alt, prog) /\ doc \in Docs
    BY <2>1 DEF QueryInv
  <2>3. k \in DOMAIN prog
    <3>1. IsList(alt, Len(alt)) /\ Len(alt) < Len(prog)
      BY <2>2 DEF Ahead, Behind
    <3>2. Len(alt) \in Nat /\ Len(prog) \in Nat /\ DOMAIN prog = 1..Len(prog)
      BY <2>2, <3>1, ListsAre DEF IsList
    <3>. QED  BY <3>1, <3>2
  <2>4. t.q # None => t.q \in AltPlans
    <3>1. k \in DOMAIN doc /\ t = ProgramTask(doc[k]) /\ ~ Bad(ProgramQuery(doc[k]))
      BY <2>2, <2>3, ListsAre
    <3>. QED  BY <2>2, <3>1, ProgramTaskIs
  <2>. HIDE DEF t
  <2>5. data \in Tables /\ <<>> \in Seq(AllRows)
    BY EmptySeq DEF Keeps
  <2>6. Keeps(data, AltTask(t, data).data)
    <3>1. CASE t.q # None
      <4>1. AltTask(t, data) = AltQuery[t.q][<<>>][data]
        BY <3>1 DEF AltTask
      <4>2. PlanKeeps(t.q)
        BY <2>4, <3>1, PlansKeep
      <4>. QED  BY <2>5, <4>1, <4>2 DEF PlanKeeps
    <3>2. CASE t.q = None
      <4>1. AltTask(t, data).data = data
        BY <3>2 DEF AltTask, Out
      <4>. QED  BY <2>5, <4>1, KeepsSame
    <3>. QED  BY <3>1, <3>2
  <2>7. Keeps(db, data')
    BY <2>1, <2>6, KeepsTwice
  <2>. QED  BY <2>1, <2>7
<1>2. CASE UNCHANGED <<db, data>>
  BY <1>2 DEF Keeps
<1>3. Plan \/ Resolve \/ ExecTask \/ Finished \/ UNCHANGED vars => UNCHANGED <<db, data>>
  BY DEF Plan, Resolve, ExecTask, Finished, vars, altVars
<1>. QED  BY <1>1, <1>2, <1>3 DEF Next

\* Whatever queries the backend by literal executes, however many and however deep they are
\* nested, every table has the rows that it had, each as often (qalt/qry.go:113).
THEOREM RowsKeptAlways == Spec => []RowsKept
<1>. DEFINE K == db \in Databases /\ Keeps(db, data)
<1>1. Init => K
  <2>. SUFFICES ASSUME Init
                PROVE  K
    OBVIOUS
  <2>1. db \in Databases /\ data = db
    BY DEF Init
  <2>2. db \in Tables
    BY <2>1, DataFacts
  <2>3. Keeps(db, db)
    BY <2>2, KeepsSame
  <2>. QED  BY <2>1, <2>3
<1>2. QueryInv /\ QueryInv' /\ K /\ [Next]_vars => K'
  BY RowsStep DEF QueryInv
<1>3. K => RowsKept
  <2>. SUFFICES ASSUME K
                PROVE  RowsKept
    OBVIOUS
  <2>1. DOMAIN db = DOMAIN Fields
    BY DataFacts
  <2>2. \A m \in DOMAIN db : Moved(db[m], data[m])
    BY <2>1 DEF Keeps
  <2>. QED  BY <2>2 DEF RowsKept, Moved
<1>. HIDE DEF K
<1>. QED  BY <1>1, <1>2, <1>3, QueryInvAlways, PTL DEF Spec

-----------------------------------------------------------------------------
(* Results in memory *)

\* What the conditions keep of a table is a list, or an error.
LEMMA KeptIs ==
  ASSUME NEW q, NEW outer, NEW done, NEW d, Len(d[q.model]) \in Nat,
         MemFilter(q, outer, done, d) # Err
  PROVE  IsList(MemFilter(q, outer, done, d), Len(MemFilter(q, outer, done, d)))
<1>. DEFINE n == Len(d[q.model])
<1>1. PICK loop : /\ loop[0] = <<>>
                  /\ \A i \in 1..n : loop[i] = KeptRound(q.whr, d[q.model], outer, done, loop[i - 1], i)
                  /\ MemFilter(q, outer, done, d) = loop[n]
  BY KeptLoop
<1>2. n \in Nat
  OBVIOUS
<1>. HIDE DEF n
<1>. DEFINE T == {i \in 0..n : loop[i] = Err \/ IsList(loop[i], Len(loop[i]))}
<1>3. 0 \in T
  BY <1>1, <1>2, EmptyList DEF IsList
<1>4. ASSUME NEW i \in 1..n, i - 1 \in T
      PROVE  i \in T
  <2>. DEFINE s == loop[i - 1]
  <2>1. \/ loop[i] = Err
        \/ s # Err /\ (loop[i] = s \/ loop[i] = Append(s, d[q.model][i]))
    BY <1>1 DEF KeptRound
  <2>2. s = Err \/ IsList(s, Len(s))
    BY <1>4
  <2>. HIDE DEF s
  <2>3. IsList(s, Len(s)) => LET t == Append(s, d[q.model][i]) IN IsList(t, Len(t))
    <3>. SUFFICES ASSUME IsList(s, Len(s)) PROVE LET t == Append(s, d[q.model][i]) IN IsList(t, Len(t))
      OBVIOUS
    <3>1. IsList(Append(s, d[q.model][i]), Len(s) + 1)
      BY AppendIs
    <3>. QED  BY <3>1 DEF IsList
  <2>4. loop[i] = Err \/ IsList(loop[i], Len(loop[i]))
    BY <2>1, <2>2, <2>3
  <2>. QED  BY <2>4
<1>5. n \in T
  <2>. HIDE DEF T
  <2>1. n \in 0..n
    BY <1>2
  <2>. QED  BY <1>2, <1>3, <1>4, <2>1, Rounds
<1>. QED  BY <1>1, <1>5

\* There is one element for each row that is kept.
LEMMA ElemsAre ==
  ASSUME NEW n, NEW kept, IsList(kept, n), kept # Err, NEW q, NEW subs, NEW outer, NEW done,
         MemElems(kept, q, subs, outer, done) # Err
  PROVE  IsList(MemElems(kept, q, subs, outer, done), n)
<1>1. n \in Nat /\ Len(kept) = n
  BY DEF IsList
<1>2. PICK loop : /\ loop[0] = <<>>
                  /\ \A i \in 1..n : loop[i] = MemElemRound(kept, q, subs, outer, done, loop[i - 1], i)
                  /\ MemElems(kept, q, subs, outer, done) = loop[n]
  BY <1>1, MemElemLoop
<1>. DEFINE T == {i \in 0..n : loop[i] = Err \/ IsList(loop[i], i)}
<1>3. 0 \in T
  BY <1>1, <1>2, EmptyList
<1>4. ASSUME NEW i \in 1..n, i - 1 \in T
      PROVE  i \in T
  <2>. DEFINE s == loop[i - 1]
              v == MemRow(q, subs, <<kept[i]>> \o outer, done)
  <2>1. loop[i] = Err \/ (s # Err /\ loop[i] = Append(s, v))
    BY <1>2 DEF MemElemRound, Listed
  <2>2. s = Err \/ IsList(s, i - 1)
    BY <1>4
  <2>. HIDE DEF s, v
  <2>3. IsList(s, i - 1) => IsList(Append(s, v), i - 1 + 1)
    BY AppendIs
  <2>4. i - 1 + 1 = i
    BY <1>1
  <2>5. loop[i] = Err \/ IsList(loop[i], i)
    BY <2>1, <2>2, <2>3, <2>4
  <2>. QED  BY <2>5
<1>5. n \in T
  <2>. HIDE DEF T
  <2>1. n \in 0..n
    BY <1>1
  <2>. QED  BY <1>1, <1>3, <1>4, <2>1, Rounds
<1>. QED  BY <1>2, <1>5

\* Every two elements are in the order that their keys ask for.
InOrder(s, ord) ==
  \A i, k \in DOMAIN s : i < k =>
     IF ord.desc THEN s[i][ord.key] >= s[k][ord.key] ELSE s[i][ord.key] <= s[k][ord.key]

Keys(s, ord) == \A i \in DOMAIN s : s[i][ord.key] \in Int

\* The elements before the place of insertion, and those from it on.
LEMMA PlaceInOrder ==
  ASSUME NEW ord, NEW j, NEW s, IsList(s, j), Keys(s, ord), InOrder(s, ord), NEW x, x[ord.key] \in Int,
         NEW at, at = Max({0} \cup {i \in DOMAIN s : ~ Less(x, s[i], ord)}) + 1
  PROVE  /\ at \in 1..(j + 1)
         /\ \A i \in 1..j :
              IF ord.desc THEN IF i < at THEN s[i][ord.key] > x[ord.key] ELSE x[ord.key] >= s[i][ord.key]
                          ELSE IF i < at THEN s[i][ord.key] <= x[ord.key] ELSE x[ord.key] < s[i][ord.key]
<1>. DEFINE S == {i \in DOMAIN s : ~ Less(x, s[i], ord)}
            key(i) == s[i][ord.key]
            v == x[ord.key]
<1>1. j \in Nat /\ DOMAIN s = 1..j /\ S \in SUBSET (1..j)
  BY DEF IsList
<1>2. at - 1 = Max({0} \cup S) /\ at \in 1..(j + 1)
  <2>1. Max({0} \cup S) + 1 \in 1..(j + 1)
    <3>. HIDE DEF S
    <3>. QED  BY <1>1, PlaceIs
  <2>2. at = Max({0} \cup S) + 1
    OBVIOUS
  <2>3. {0} \cup S \in SUBSET (0..j) /\ {0} \cup S # {}
    BY <1>1
  <2>. HIDE DEF S
  <2>4. Max({0} \cup S) \in 0..j
    BY <1>1, <2>3, MaxIs
  <2>. QED  BY <2>1, <2>2, <2>4
<1>3. at - 1 \in {0} \cup S /\ \A i \in {0} \cup S : i <= at - 1
  <2>1. {0} \cup S \in SUBSET (0..j) /\ {0} \cup S # {}
    BY <1>1
  <2>. HIDE DEF S
  <2>. QED  BY <1>1, <1>2, <2>1, MaxIs
<1>4. /\ v \in Int /\ \A i \in 1..j : key(i) \in Int
      /\ \A i \in 1..j : i \in S <=> IF ord.desc THEN v < key(i) ELSE ~ (v < key(i))
      /\ \A i, k \in 1..j : i < k => IF ord.desc THEN key(i) >= key(k) ELSE key(i) <= key(k)
  BY <1>1 DEF Keys, InOrder, Less
<1>. HIDE DEF S, key, v
<1>5. ASSUME NEW i \in 1..j
      PROVE  IF ord.desc THEN IF i < at THEN key(i) > v ELSE v >= key(i)
                         ELSE IF i < at THEN key(i) <= v ELSE v < key(i)
  <2>1. CASE i < at
    <3>1. at - 1 \in S /\ (i = at - 1 \/ i < at - 1) /\ at - 1 \in 1..j
      BY <2>1, <1>1, <1>2, <1>3
    <3>2. IF ord.desc THEN v < key(at - 1) ELSE ~ (v < key(at - 1))
      BY <3>1, <1>4
    <3>3. i = at - 1 \/ (IF ord.desc THEN key(i) >= key(at - 1) ELSE key(i) <= key(at - 1))
      BY <3>1, <1>4
    <3>4. key(i) \in Int /\ key(at - 1) \in Int /\ v \in Int
      BY <3>1, <1>4
    <3>. QED  BY <2>1, <3>2, <3>3, <3>4
  <2>2. CASE ~ (i < at)
    <3>1. i \notin S
      BY <2>2, <1>1, <1>2, <1>3
    <3>2. key(i) \in Int /\ v \in Int
      BY <1>4
    <3>. QED  BY <2>2, <3>1, <3>2, <1>4
  <2>. QED  BY <2>1, <2>2
<1>. QED  BY <1>2, <1>5 DEF key, v

\* Insertion keeps the order.
LEMMA InsertInOrder ==
  ASSUME NEW ord, NEW j, NEW s, IsList(s, j), Keys(s, ord), InOrder(s, ord), NEW x, x[ord.key] \in Int
  PROVE  /\ \E at \in 1..(j + 1) : Insert(s, x, ord) = InsertAt(s, at, x)
         /\ Keys(Insert(s, x, ord), ord) /\ InOrder(Insert(s, x, ord), ord)
<1>. DEFINE at == Max({0} \cup {i \in DOMAIN s : ~ Less(x, s[i], ord)}) + 1
            t == InsertAt(s, at, x)
<1>1. Insert(s, x, ord) = t
  BY DEF Insert
<1>2. /\ at \in 1..(j + 1)
      /\ \A i \in 1..j :
           IF ord.desc THEN IF i < at THEN s[i][ord.key] > x[ord.key] ELSE x[ord.key] >= s[i][ord.key]
                       ELSE IF i < at THEN s[i][ord.key] <= x[ord.key] ELSE x[ord.key] < s[i][ord.key]
  BY PlaceInOrder
<1>. HIDE DEF at
<1>3. /\ IsList(t, j + 1)
      /\ \A i \in 1..(j + 1) : t[i] = IF i < at THEN s[i] ELSE IF i = at THEN x ELSE s[i - 1]
  BY <1>2, InsertAtIs
<1>. HIDE DEF t
<1>4. j \in Nat /\ DOMAIN s = 1..j /\ DOMAIN t = 1..(j + 1)
  BY <1>3 DEF IsList
<1>. DEFINE key(i) == s[i][ord.key]
            v == x[ord.key]
            new(i) == t[i][ord.key]
<1>5. /\ v \in Int /\ \A i \in 1..j : key(i) \in Int
      /\ \A i, k \in 1..j : i < k => IF ord.desc THEN key(i) >= key(k) ELSE key(i) <= key(k)
      /\ \A i \in 1..j : IF ord.desc THEN IF i < at THEN key(i) > v ELSE v >= key(i)
                                     ELSE IF i < at THEN key(i) <= v ELSE v < key(i)
      /\ \A i \in 1..(j + 1) : new(i) = IF i < at THEN key(i) ELSE IF i = at THEN v ELSE key(i - 1)
  BY <1>2, <1>3, <1>4 DEF Keys, InOrder
<1>. HIDE DEF key, v, new
<1>6. \A i \in 1..(j + 1) : new(i) \in Int
  <2>1. \A i \in 1..(j + 1) : (i < at => i \in 1..j) /\ (~ (i < at) /\ i # at => i - 1 \in 1..j)
    BY <1>2, <1>4
  <2>. QED  BY <2>1, <1>5
<1>7. ASSUME NEW i \in 1..(j + 1), NEW k \in 1..(j + 1), i < k
      PROVE  IF ord.desc THEN new(i) >= new(k) ELSE new(i) <= new(k)
  <2>1. CASE k < at
    <3>1. i < at /\ i \in 1..j /\ k \in 1..j
      BY <2>1, <1>2, <1>4, <1>7
    <3>. QED  BY <2>1, <3>1, <1>5, <1>7
  <2>2. CASE k = at
    <3>1. i < at /\ i \in 1..j /\ ~ (k < at)
      BY <2>2, <1>2, <1>4, <1>7
    <3>2. new(i) = key(i) /\ new(k) = v /\ key(i) \in Int /\ v \in Int
      BY <2>2, <3>1, <1>5
    <3>3. IF ord.desc THEN key(i) > v ELSE key(i) <= v
      BY <3>1, <1>5
    <3>. QED  BY <3>2, <3>3
  <2>3. CASE k > at /\ i < at
    <3>1. i \in 1..j /\ k - 1 \in 1..j /\ ~ (k < at) /\ k # at /\ ~ (k - 1 < at)
      BY <2>3, <1>2, <1>4
    <3>2. new(i) = key(i) /\ new(k) = key(k - 1) /\ key(i) \in Int /\ key(k - 1) \in Int /\ v \in Int
      BY <2>3, <3>1, <1>5
    <3>3. /\ IF ord.desc THEN key(i) > v ELSE key(i) <= v
          /\ IF ord.desc THEN v >= key(k - 1) ELSE v < key(k - 1)
      BY <2>3, <3>1, <1>5
    <3>. QED  BY <3>2, <3>3
  <2>4. CASE k > at /\ i = at
    <3>1. k - 1 \in 1..j /\ ~ (k < at) /\ k # at /\ ~ (k - 1 < at) /\ ~ (i < at)
      BY <2>4, <1>2, <1>4
    <3>2. new(i) = v /\ new(k) = key(k - 1) /\ key(k - 1) \in Int /\ v \in Int
      BY <2>4, <3>1, <1>5
    <3>3. IF ord.desc THEN v >= key(k - 1) ELSE v < key(k - 1)
      BY <3>1, <1>5
    <3>. QED  BY <3>2, <3>3
  <2>5. CASE k > at /\ i > at
    <3>1. k - 1 \in 1..j /\ i - 1 \in 1..j /\ ~ (k < at) /\ k # at /\ ~ (i < at) /\ i # at /\ i - 1 < k - 1
      BY <2>5, <1>2, <1>4, <1>7
    <3>2. new(i) = key(i - 1) /\ new(k) = key(k - 1)
      BY <3>1, <1>5
    <3>3. IF ord.desc THEN key(i - 1) >= key(k - 1) ELSE key(i - 1) <= key(k - 1)
      BY <3>1, <1>5
    <3>. QED  BY <3>2, <3>3
  <2>6. (k < at \/ k = at \/ k > at) /\ (i < at \/ i = at \/ i > at)
    BY <1>2, <1>4
  <2>. QED  BY <2>1, <2>2, <2>3, <2>4, <2>5, <2>6
<1>8. Keys(t, ord) /\ InOrder(t, ord)
  BY <1>4, <1>6, <1>7 DEF Keys, InOrder, new
<1>. QED  BY <1>1, <1>2, <1>8 DEF t

\* Sorting leaves the same elements, in their order.
LEMMA SortedIs ==
  ASSUME NEW n, NEW list, IsList(list, n), NEW ord, Keys(list, ord)
  PROVE  /\ Moved(list, Sorted(list, ord)) /\ IsList(Sorted(list, ord), n)
         /\ InOrder(Sorted(list, ord), ord)
<1>1. n \in Nat /\ Len(list) = n /\ DOMAIN list = 1..n
  BY DEF IsList
<1>2. PICK loop : /\ loop[0] = <<>>
                  /\ \A i \in 1..n : loop[i] = Insert(loop[i - 1], list[i], ord)
                  /\ Sorted(list, ord) = loop[n]
  BY <1>1, SortedLoop
<1>. DEFINE R(s, i) == Shuffled(list, s, i) /\ Keys(s, ord) /\ InOrder(s, ord)
            T == {i \in 0..n : R(loop[i], i)}
<1>3. 0 \in T
  <2>1. IsList(<<>>, 0) /\ 1..0 = {}
    BY EmptyList
  <2>2. Keys(<<>>, ord) /\ InOrder(<<>>, ord)
    BY <2>1 DEF Keys, InOrder, IsList
  <2>. QED  BY <1>1, <1>2, <2>2, ShuffledNone
<1>4. ASSUME NEW i \in 1..n, i - 1 \in T
      PROVE  i \in T
  <2>. DEFINE s == loop[i - 1]
  <2>1. R(s, i - 1) /\ loop[i] = Insert(s, list[i], ord)
    BY <1>2, <1>4
  <2>. HIDE DEF s
  <2>2. IsList(s, i - 1)
    BY <2>1 DEF Shuffled
  <2>3. list[i][ord.key] \in Int
    BY <1>1 DEF Keys
  <2>4. /\ \E at \in 1..(i - 1 + 1) : Insert(s, list[i], ord) = InsertAt(s, at, list[i])
        /\ Keys(loop[i], ord) /\ InOrder(loop[i], ord)
    <3>. HIDE DEF T
    <3>1. Keys(s, ord) /\ InOrder(s, ord)
      BY <2>1
    <3>. DEFINE j == i - 1
    <3>2. IsList(s, j)
      BY <2>2
    <3>. HIDE DEF j
    <3>3. /\ \E at \in 1..(j + 1) : Insert(s, list[i], ord) = InsertAt(s, at, list[i])
          /\ Keys(Insert(s, list[i], ord), ord) /\ InOrder(Insert(s, list[i], ord), ord)
      BY <2>3, <3>1, <3>2, InsertInOrder
    <3>. QED  BY <2>1, <3>3 DEF j
  <2>5. i \in Nat \ {0} /\ i - 1 + 1 = i
    BY <1>1
  <2>6. Shuffled(list, loop[i], i)
    <3>1. PICK at \in 1..i : Insert(s, list[i], ord) = InsertAt(s, at, list[i])
      BY <2>4, <2>5
    <3>. QED  BY <2>1, <2>5, <3>1, ShuffledMore
  <2>. QED  BY <2>4, <2>6
<1>5. R(loop[n], n)
  <2>. HIDE DEF R
  <2>1. n \in T
    <3>. HIDE DEF T
    <3>1. n \in 0..n
      BY <1>1
    <3>. QED  BY <1>1, <1>3, <1>4, <3>1, Rounds
  <2>. QED  BY <2>1
<1>. QED  BY <1>2, <1>5, ShuffledMoved DEF Shuffled

\* The part of a list from the offset to the limit.
LEMMA SliceIs ==
  ASSUME NEW n, NEW s, IsList(s, n), s # Err, NEW off \in Nat, NEW lim \in Nat
  PROVE  LET part == Slice(s, off, lim)
         IN /\ IsList(part, Count(n, off, lim))
            /\ off + Count(n, off, lim) <= n \/ part = <<>>
            /\ \A i \in DOMAIN part : off + i \in DOMAIN s /\ part[i] = s[off + i]
<1>. DEFINE last == IF lim > 0 THEN Min({off + lim, n}) ELSE n
            part == Slice(s, off, lim)
            left == Max({n - off, 0})
            size == Count(n, off, lim)
            S == {s[i] : i \in 1..n}
<1>1. n \in Nat /\ Len(s) = n /\ DOMAIN s = 1..n
  BY DEF IsList
<1>2. last \in Nat /\ last <= n /\ (lim > 0 => last = IF off + lim <= n THEN off + lim ELSE n)
      /\ (~ (lim > 0) => last = n)
  <2>1. {off + lim, n} \in SUBSET Nat
    BY <1>1
  <2>2. Min({off + lim, n}) \in {off + lim, n} /\ \A y \in {off + lim, n} : Min({off + lim, n}) <= y
    BY <2>1, MinIs
  <2>3. off + lim \in Nat
    OBVIOUS
  <2>. QED  BY <2>2, <2>3, <1>1
<1>3. left = IF off <= n THEN n - off ELSE 0
  <2>. DEFINE R == {n - off, 0}
              k == IF off <= n THEN n - off ELSE 0
  <2>1. k \in R /\ \A y \in R : k >= y
    BY <1>1
  <2>2. \A x, y \in R : x >= y /\ y >= x => x = y
    BY <1>1
  <2>3. left \in R /\ \A y \in R : left >= y
    <3>. HIDE DEF R, k
    <3>. QED  BY <2>1 DEF Max, R
  <2>. HIDE DEF R, k, left
  <2>4. left = k
    BY <2>1, <2>2, <2>3
  <2>. QED  BY <2>4 DEF k
<1>4. size = IF lim > 0 THEN (IF left <= lim THEN left ELSE lim) ELSE left
  <2>1. left \in Nat
    BY <1>1, <1>3
  <2>. HIDE DEF left
  <2>2. {left, lim} \in SUBSET Nat
    BY <2>1
  <2>3. Min({left, lim}) \in {left, lim} /\ \A y \in {left, lim} : Min({left, lim}) <= y
    BY <2>2, MinIs
  <2>4. Min({left, lim}) = IF left <= lim THEN left ELSE lim
    BY <2>1, <2>3
  <2>5. size = IF lim > 0 THEN Min({left, lim}) ELSE left
    BY DEF Count, left
  <2>. QED  BY <2>4, <2>5
<1>5. part = SubSeq(s, off + 1, last)
  BY <1>1 DEF Slice
<1>. HIDE DEF part, last, left, size
<1>6. size \in Nat /\ (size > 0 => last = off + size) /\ (size = 0 => last < off + 1)
  BY <1>1, <1>2, <1>3, <1>4
<1>7. /\ part \in Seq(S) /\ Len(part) = size
      /\ \A i \in 1..size : part[i] = s[off + i] /\ off + i \in 1..n
  <2>1. \A i \in (off + 1)..last : s[i] \in S
    BY <1>1, <1>2
  <2>. HIDE DEF S
  <2>. DEFINE m == off + 1
  <2>2. m \in Int /\ last \in Int
    BY <1>2
  <2>3. /\ part \in Seq(S) /\ Len(part) = IF m <= last THEN last - m + 1 ELSE 0
        /\ \A i \in 1..(last - m + 1) : part[i] = s[m + i - 1]
    <3>. HIDE DEF m
    <3>1. \A i \in m..last : s[i] \in S
      BY <2>1 DEF m
    <3>. QED  BY <1>5, <2>2, <3>1, SubSeqProperties DEF m
  <2>4. Len(part) = size /\ (size > 0 => last - m + 1 = size)
    BY <1>2, <1>6, <2>3
  <2>5. \A i \in 1..size : size > 0 /\ m + i - 1 = off + i /\ off + i \in 1..n
    BY <1>1, <1>2, <1>6
  <2>. QED  BY <2>3, <2>4, <2>5
<1>8. IsList(part, size)
  BY <1>7, ListIs
<1>9. off + size <= n \/ part = <<>>
  <2>1. size = 0 => part = <<>>
    BY <1>7, EmptySeq, LenProperties
  <2>. QED  BY <1>1, <1>2, <1>6, <2>1
<1>10. DOMAIN part = 1..size
  BY <1>8 DEF IsList
<1>. QED  BY <1>1, <1>7, <1>8, <1>9, <1>10 DEF part, size

\* Ordering leaves the same number of elements, or is an error.
LEMMA OrderedSize ==
  ASSUME NEW n, NEW list, IsList(list, n), NEW q, OrderResult(list, q) # Err
  PROVE  IsList(OrderResult(list, q), n)
<1>1. n \in Nat /\ Len(list) = n
  BY DEF IsList
<1>2. OrderResult(list, q) \in {list, Sorted(list, q.ord[1])}
  BY DEF OrderResult
<1>. DEFINE ord == q.ord[1]
<1>. HIDE DEF ord
<1>3. IsList(Sorted(list, ord), n)
  <2>1. PICK loop : /\ loop[0] = <<>>
                    /\ \A i \in 1..n : loop[i] = Insert(loop[i - 1], list[i], ord)
                    /\ Sorted(list, ord) = loop[n]
    BY <1>1, SortedLoop
  <2>. DEFINE T == {i \in 0..n : IsList(loop[i], i)}
  <2>2. 0 \in T
    BY <1>1, <2>1, EmptyList
  <2>3. ASSUME NEW i \in 1..n, i - 1 \in T
        PROVE  i \in T
    <3>. DEFINE s == loop[i - 1]
                j == i - 1
                stays == {k \in DOMAIN s : ~ Less(list[i], s[k], ord)}
    <3>1. IsList(s, j) /\ j \in Nat /\ j + 1 = i
      BY <1>1, <2>3
    <3>2. stays \in SUBSET (1..j)
      BY <3>1 DEF IsList
    <3>3. loop[i] = InsertAt(s, Max({0} \cup stays) + 1, list[i])
      BY <2>1 DEF Insert
    <3>. HIDE DEF s, j, stays
    <3>4. Max({0} \cup stays) + 1 \in 1..(j + 1)
      BY <3>1, <3>2, PlaceIs
    <3>5. IsList(loop[i], j + 1)
      BY <3>1, <3>3, <3>4, InsertAtIs
    <3>. QED  BY <3>1, <3>5
  <2>4. n \in T
    <3>. HIDE DEF T
    <3>1. n \in 0..n
      BY <1>1
    <3>. QED  BY <1>1, <2>2, <2>3, <3>1, Rounds
  <2>. QED  BY <2>1, <2>4
<1>. QED  BY <1>2, <1>3 DEF ord

\* What a list query made of its rows when it returns a list.
LEMMA MemRunIs ==
  ASSUME NEW d \in Databases, NEW q, q.kind = "*", NEW subs, NEW outer, NEW done,
         MemRun(q, subs, outer, done, d) # Err
  PROVE  LET kept    == MemFilter(q, outer, done, d)
             elems   == MemElems(kept, q, subs, outer, done)
             ordered == OrderResult(elems, q)
         IN /\ q.model \in DOMAIN d
            /\ kept # Err /\ IsList(kept, Len(kept))
            /\ elems # Err /\ IsList(elems, Len(kept))
            /\ ordered # Err /\ IsList(ordered, Len(kept))
            /\ MemRun(q, subs, outer, done, d) = Slice(ordered, q.off, q.lim)
<1>. DEFINE kept    == MemFilter(q, outer, done, d)
            elems   == MemElems(kept, q, subs, outer, done)
            ordered == OrderResult(elems, q)
            part    == Slice(ordered, q.off, q.lim)
<1>1. q.model \in DOMAIN d /\ MemRun(q, subs, outer, done, d) = Single(q.kind, part)
  BY DEF MemRun
<1>2. Single(q.kind, part) = part
  BY DEF Single
<1>3. part # Err
  BY <1>1, <1>2
<1>4. ordered # Err
  BY <1>3 DEF Slice
<1>5. elems # Err
  BY <1>4 DEF OrderResult
<1>6. kept # Err
  BY <1>5 DEF MemElems
<1>7. Len(d[q.model]) \in Nat
  <2>1. d \in Tables /\ DOMAIN d = DOMAIN Fields
    BY DataFacts
  <2>2. d[q.model] \in Seq(AllRows)
    BY <1>1, <2>1 DEF Tables
  <2>. QED  BY <2>2, LenProperties
<1>8. IsList(kept, Len(kept))
  BY <1>6, <1>7, KeptIs
<1>. HIDE DEF kept
<1>9. IsList(elems, Len(kept))
  BY <1>5, <1>6, <1>8, ElemsAre
<1>. HIDE DEF elems
<1>10. IsList(ordered, Len(kept))
  BY <1>4, <1>9, OrderedSize
<1>. QED  BY <1>1, <1>2, <1>4, <1>5, <1>6, <1>8, <1>9, <1>10 DEF kept, elems

\* A count is the length of the list that the same query returns, whatever is selected and in
\* whatever order (exec.go:155), for all rows around it.
THEOREM CountsAgreeWithLists ==
  ASSUME NEW d \in Databases, NEW q, q.kind = "*", q.off \in Nat, q.lim \in Nat,
         NEW c, c.kind = "#", c.model = q.model, c.whr = q.whr, c.off = q.off, c.lim = q.lim,
         NEW subs, NEW others, NEW outer, NEW done, MemRun(q, subs, outer, done, d) # Err
  PROVE  MemRun(c, others, outer, done, d) = Len(MemRun(q, subs, outer, done, d))
<1>. DEFINE kept    == MemFilter(q, outer, done, d)
            elems   == MemElems(kept, q, subs, outer, done)
            ordered == OrderResult(elems, q)
            list    == MemRun(q, subs, outer, done, d)
<1>1. /\ q.model \in DOMAIN d /\ kept # Err
      /\ ordered # Err /\ IsList(ordered, Len(kept))
      /\ list = Slice(ordered, q.off, q.lim)
  BY MemRunIs
<1>2. MemFilter(c, outer, done, d) = kept
  BY DEF MemFilter
<1>3. MemRun(c, others, outer, done, d) = Count(Len(kept), q.off, q.lim)
  <2>. HIDE DEF kept
  <2>. QED  BY <1>1, <1>2 DEF MemRun, MemCount
<1>. HIDE DEF ordered, kept, list
<1>4. IsList(list, Count(Len(kept), q.off, q.lim))
  BY <1>1, SliceIs
<1>. QED  BY <1>3, <1>4 DEF IsList, list

\* A list query with an order puts all its elements in the order of their keys, each as often
\* as it was there, before the offset and the limit take their part of them (misc.go:31,
\* exec.go:136).
THEOREM ListsAreOrdered ==
  ASSUME NEW d \in Databases, NEW q, q.kind = "*", q.ord # <<>>, q.off \in Nat, q.lim \in Nat,
         NEW subs, NEW outer, NEW done, MemRun(q, subs, outer, done, d) # Err,
         Keys(MemElems(MemFilter(q, outer, done, d), q, subs, outer, done), q.ord[1])
  PROVE  LET elems == MemElems(MemFilter(q, outer, done, d), q, subs, outer, done)
             list  == MemRun(q, subs, outer, done, d)
         IN \E s : /\ Moved(elems, s) /\ InOrder(s, q.ord[1])
                   /\ Len(list) = Count(Len(s), q.off, q.lim)
                   /\ \A i \in DOMAIN list : q.off + i \in DOMAIN s /\ list[i] = s[q.off + i]
<1>. DEFINE kept  == MemFilter(q, outer, done, d)
            elems == MemElems(kept, q, subs, outer, done)
            s     == OrderResult(elems, q)
            list  == MemRun(q, subs, outer, done, d)
            n     == Len(kept)
            ord   == q.ord[1]
<1>1. /\ IsList(elems, n) /\ elems # Err
      /\ s # Err /\ IsList(s, n)
      /\ list = Slice(s, q.off, q.lim)
  BY MemRunIs
<1>2. Keys(elems, ord)
  OBVIOUS
<1>. HIDE DEF elems, n, list, ord
<1>3. Moved(elems, s) /\ InOrder(s, ord)
  <2>1. n \in Nat /\ Len(elems) = n /\ DOMAIN elems = 1..n
    BY <1>1 DEF IsList
  <2>2. CASE n < 2
    <3>1. s = elems
      BY <2>1, <2>2 DEF OrderResult
    <3>2. ~ \E i, k \in 1..n : i < k
      BY <2>1, <2>2
    <3>. QED  BY <1>1, <2>1, <3>1, <3>2, MovedSame DEF InOrder
  <2>3. CASE ~ (n < 2)
    <3>1. s = Sorted(elems, ord)
      BY <1>1, <2>1, <2>3 DEF OrderResult, ord
    <3>. QED  BY <1>1, <1>2, <3>1, SortedIs
  <2>. QED  BY <2>2, <2>3
<1>. HIDE DEF s
<1>4. /\ IsList(list, Count(n, q.off, q.lim)) /\ Len(s) = n
      /\ \A i \in DOMAIN list : q.off + i \in DOMAIN s /\ list[i] = s[q.off + i]
  <2>1. Len(s) = n
    BY <1>1 DEF IsList
  <2>. QED  BY <1>1, <2>1, SliceIs
<1>5. Len(list) = Count(Len(s), q.off, q.lim)
  BY <1>4 DEF IsList
<1>. QED  BY <1>3, <1>4, <1>5 DEF elems, list, ord
=============================================================================
