-------------------------- MODULE SubsSlicesProofs --------------------------
(***************************************************************************)
(* Proofs about the subscriptions as the code has them: what the loops of  *)
(* Sub, Unsub, Show and filter compute, for lists of any length; that each *)
(* step is a step of Subs or none, so that what is proved about Subs holds *)
(* here; and the order and the atomicity of what is sent.                  *)
(*                                                                         *)
(* Loops are recursive functions of the round. Facts about them are proved *)
(* by induction over the rounds, which rests on the least element of a set *)
(* of natural numbers (WFMin).                                             *)
(***************************************************************************)
EXTENDS SubsSlices, TLAPS, FiniteSetTheorems, FunctionTheorems, SequenceTheorems,
        WellFoundedInduction

-----------------------------------------------------------------------------
(* Induction over the rounds of a loop *)

\* Every set of natural numbers has a least element.
LEMMA LeastNat ==
  ASSUME NEW T \in SUBSET Nat, T # {}
  PROVE  \E x \in T : \A y \in T : x <= y
<1>. DEFINE R == {p \in Nat \X Nat : p[1] < p[2]}
<1>1. IsWellFoundedOn(R, Nat)
  BY NatLessThanWellFounded DEF OpToRel
<1>2. PICK x \in T : \A y \in T : ~ (<<y, x>> \in R)
  <2>. HIDE DEF R
  <2>. QED  BY <1>1, WFMin
<1>3. ASSUME NEW y \in T
      PROVE  x <= y
  <2>1. x \in Nat /\ y \in Nat
    OBVIOUS
  <2>2. ~ (y < x)
    BY <1>2, <2>1, <<y, x>> \in Nat \X Nat
  <2>. QED  BY <2>1, <2>2
<1>. QED  BY <1>3

\* What holds before the first round, and after a round if it held before, holds after all.
LEMMA Rounds ==
  ASSUME NEW n \in Nat, NEW T, 0 \in T, \A i \in 1..n : i - 1 \in T => i \in T
  PROVE  \A i \in 0..n : i \in T
<1>. DEFINE N == {i \in 0..n : i \notin T}
<1>. SUFFICES ASSUME N # {}
              PROVE  FALSE
  OBVIOUS
<1>1. PICK k \in N : \A y \in N : k <= y
  <2>1. N \in SUBSET Nat
    OBVIOUS
  <2>. HIDE DEF N
  <2>. QED  BY <2>1, LeastNat
<1>2. k \in 1..n /\ k \notin T
  OBVIOUS
<1>3. k - 1 \notin N
  BY <1>1, <1>2
<1>. QED  BY <1>2, <1>3

\* The states of a loop of n rounds, from before the first to after the last.
Run(S, a, n, F) ==
  {st \in [0..n -> S] : st[0] = a /\ \A i \in 1..n : st[i] = F[i][st[i - 1]]}

\* Every loop has them.
LEMMA LoopRuns ==
  ASSUME NEW S, NEW a \in S, NEW n \in Nat, NEW F \in [1..n -> [S -> S]]
  PROVE  Run(S, a, n, F) # {}
<1>. DEFINE T == {k \in 0..n : Run(S, a, k, F) # {}}
<1>1. 0 \in T
  <2>1. [i \in 0..0 |-> a] \in Run(S, a, 0, F)
    BY DEF Run
  <2>. QED  BY <2>1
<1>2. ASSUME NEW k \in 1..n, k - 1 \in T
      PROVE  k \in T
  <2>1. PICK st \in Run(S, a, k - 1, F) : TRUE
    BY <1>2
  <2>. DEFINE e == F[k][st[k - 1]]
              su == [i \in 0..k |-> IF i = k THEN e ELSE st[i]]
  <2>2. st \in [0..(k - 1) -> S] /\ st[0] = a /\ \A i \in 1..(k - 1) : st[i] = F[i][st[i - 1]]
    BY <2>1 DEF Run
  <2>3. e \in S
    <3>1. st[k - 1] \in S
      BY <2>2
    <3>. QED  BY <3>1
  <2>. HIDE DEF e
  <2>4. su \in [0..k -> S]
    BY <2>2, <2>3
  <2>5. su[0] = a
    BY <2>2
  <2>6. ASSUME NEW i \in 1..k
        PROVE  su[i] = F[i][su[i - 1]]
    <3>1. i - 1 \in 0..k /\ i - 1 # k /\ su[i - 1] = st[i - 1]
      OBVIOUS
    <3>2. CASE i = k
      BY <3>1, <3>2 DEF e
    <3>3. CASE i # k
      <4>1. i \in 1..(k - 1) /\ su[i] = st[i]
        BY <3>3
      <4>. QED  BY <2>2, <3>1, <4>1
    <3>. QED  BY <3>2, <3>3
  <2>. HIDE DEF su
  <2>7. su \in Run(S, a, k, F)
    BY <2>4, <2>5, <2>6 DEF Run
  <2>8. k \in 0..n
    OBVIOUS
  <2>. QED  BY <2>7, <2>8
<1>3. \A i \in 1..n : i - 1 \in T => i \in T
  BY <1>2
<1>4. n \in T
  <2>. HIDE DEF T
  <2>1. \A i \in 0..n : i \in T
    BY <1>1, <1>3, Rounds
  <2>. QED  BY <2>1
<1>. QED  BY <1>4

-----------------------------------------------------------------------------
(* How often a sequence holds an element *)

Places(x, s) == {i \in DOMAIN s : s[i] = x}

LEMMA TimesType ==
  ASSUME NEW S, NEW s \in Seq(S), NEW x
  PROVE  /\ Len(s) \in Nat /\ DOMAIN s = 1..Len(s)
         /\ IsFiniteSet(Places(x, s)) /\ Times(x, s) = Cardinality(Places(x, s))
         /\ Times(x, s) \in Nat
         /\ Times(x, s) > 0 <=> \E i \in DOMAIN s : s[i] = x
<1>1. Len(s) \in Nat /\ DOMAIN s = 1..Len(s)
  BY LenProperties
<1>2. IsFiniteSet(DOMAIN s)
  BY <1>1, FS_Interval
<1>3. Places(x, s) \in SUBSET DOMAIN s
  BY DEF Places
<1>4. IsFiniteSet(Places(x, s)) /\ Cardinality(Places(x, s)) \in Nat
  BY <1>2, <1>3, FS_Subset, FS_CardinalityType
<1>5. Cardinality(Places(x, s)) = 0 <=> Places(x, s) = {}
  BY <1>4, FS_EmptySet
<1>6. Times(x, s) = Cardinality(Places(x, s))
  BY DEF Times, Places
<1>7. Places(x, s) # {} <=> \E i \in DOMAIN s : s[i] = x
  BY DEF Places
<1>. QED  BY <1>1, <1>4, <1>5, <1>6, <1>7

LEMMA TimesEmpty == \A x : Times(x, <<>>) = 0
BY FS_EmptySet DEF Times

\* What Append leaves.
LEMMA AppendIs ==
  ASSUME NEW S, NEW s \in Seq(S), NEW e \in S
  PROVE  /\ Len(s) \in Nat /\ DOMAIN s = 1..Len(s)
         /\ Append(s, e) \in Seq(S)
         /\ Len(Append(s, e)) = Len(s) + 1 /\ DOMAIN Append(s, e) = 1..(Len(s) + 1)
         /\ Append(s, e)[Len(s) + 1] = e
         /\ \A i \in DOMAIN s : Append(s, e)[i] = s[i]
<1>. DEFINE t == Append(s, e)
<1>1. /\ Len(s) \in Nat /\ DOMAIN s = 1..Len(s)
      /\ t \in Seq(S) /\ Len(t) = Len(s) + 1 /\ t[Len(s) + 1] = e
      /\ \A i \in 1..Len(s) : t[i] = s[i]
  BY AppendProperties, LenProperties
<1>2. DOMAIN t = 1..(Len(s) + 1)
  BY <1>1, LenProperties
<1>. HIDE DEF t
<1>. QED  BY <1>1, <1>2 DEF t

LEMMA TimesAppend ==
  ASSUME NEW S, NEW s \in Seq(S), NEW e \in S, NEW x
  PROVE  Times(x, Append(s, e)) = Times(x, s) + (IF e = x THEN 1 ELSE 0)
<1>. DEFINE t == Append(s, e)
<1>1. /\ Len(s) \in Nat /\ DOMAIN s = 1..Len(s) /\ t \in Seq(S)
      /\ DOMAIN t = 1..(Len(s) + 1)
      /\ t[Len(s) + 1] = e /\ \A i \in DOMAIN s : t[i] = s[i]
  BY AppendIs
<1>. HIDE DEF t
<1>2. IsFiniteSet(Places(x, s)) /\ Times(x, s) = Cardinality(Places(x, s))
      /\ Times(x, t) = Cardinality(Places(x, t)) /\ Times(x, s) \in Nat
  BY <1>1, TimesType
<1>3. DOMAIN t = DOMAIN s \cup {Len(s) + 1} /\ Len(s) + 1 \notin DOMAIN s
  BY <1>1
<1>4. Len(s) + 1 \notin Places(x, s)
  BY <1>3 DEF Places
<1>5. CASE e = x
  <2>1. Places(x, t) = Places(x, s) \cup {Len(s) + 1}
    BY <1>1, <1>3, <1>5 DEF Places
  <2>2. Cardinality(Places(x, t)) = Cardinality(Places(x, s)) + 1
    BY <1>2, <1>4, <2>1, FS_AddElement
  <2>. QED  BY <1>2, <1>5, <2>2 DEF t
<1>6. CASE e # x
  <2>1. Places(x, t) = Places(x, s)
    BY <1>1, <1>3, <1>6 DEF Places
  <2>. QED  BY <1>2, <1>6, <2>1 DEF t
<1>. QED  BY <1>5, <1>6

\* The places in the second part move up by the length of the first.
LEMMA TimesConcat ==
  ASSUME NEW S, NEW s \in Seq(S), NEW t \in Seq(S), NEW x
  PROVE  Times(x, s \o t) = Times(x, s) + Times(x, t)
<1>. DEFINE u == s \o t
            n == Len(s)
            A == Places(x, t)
            B == {i \in Places(x, u) : i > n}
            f == [i \in A |-> i + n]
<1>1. /\ n \in Nat /\ DOMAIN s = 1..n /\ Len(t) \in Nat /\ DOMAIN t = 1..Len(t)
      /\ u \in Seq(S) /\ Len(u) = n + Len(t) /\ DOMAIN u = 1..(n + Len(t))
      /\ \A i \in 1..(n + Len(t)) : u[i] = IF i <= n THEN s[i] ELSE t[i - n]
  <2>1. n \in Nat /\ DOMAIN s = 1..n /\ Len(t) \in Nat /\ DOMAIN t = 1..Len(t)
    BY LenProperties
  <2>2. /\ u \in Seq(S) /\ Len(u) = n + Len(t)
        /\ \A i \in 1..(n + Len(t)) : u[i] = IF i <= n THEN s[i] ELSE t[i - n]
    BY ConcatProperties
  <2>3. DOMAIN u = 1..Len(u)
    <3>. HIDE DEF u
    <3>. QED  BY <2>2, LenProperties
  <2>. HIDE DEF u, n
  <2>. QED  BY <2>1, <2>2, <2>3
<1>. HIDE DEF u, n
<1>2. /\ IsFiniteSet(Places(x, s)) /\ Times(x, s) = Cardinality(Places(x, s))
      /\ IsFiniteSet(A) /\ Times(x, t) = Cardinality(A)
      /\ IsFiniteSet(Places(x, u)) /\ Times(x, u) = Cardinality(Places(x, u))
      /\ Times(x, s) \in Nat /\ Times(x, t) \in Nat
  BY <1>1, TimesType
<1>3. ASSUME NEW i \in A
      PROVE  i \in Nat /\ i + n \in B
  BY <1>1 DEF Places
<1>4. ASSUME NEW j \in B
      PROVE  j \in Nat /\ j - n \in A
  BY <1>1 DEF Places
<1>5. f \in Bijection(A, B)
  <2>1. f \in [A -> B]
    BY <1>3
  <2>2. \A i, j \in A : f[i] = f[j] => i = j
    BY <1>1, <1>3
  <2>3. \A j \in B : \E i \in A : f[i] = j
    <3>1. ASSUME NEW j \in B
          PROVE  j - n \in A /\ f[j - n] = j
      BY <1>1, <1>4
    <3>. QED  BY <3>1
  <2>. HIDE DEF f, A, B
  <2>. QED  BY <2>1, <2>2, <2>3, Fun_IsBij
<1>6. IsFiniteSet(B) /\ Cardinality(B) = Cardinality(A)
  <2>1. ExistsBijection(A, B)
    <3>. HIDE DEF f, A, B
    <3>. QED  BY <1>5 DEF ExistsBijection
  <2>. HIDE DEF A, B
  <2>. QED  BY <1>2, <2>1, FS_Bijection
<1>7. Places(x, u) = Places(x, s) \cup B /\ Places(x, s) \cap B = {}
  BY <1>1 DEF Places
<1>8. Cardinality(Places(x, s) \cap B) = 0
  BY <1>7, FS_EmptySet
<1>9. Cardinality(Places(x, u)) = Cardinality(Places(x, s)) + Cardinality(B)
                                  - Cardinality(Places(x, s) \cap B)
  <2>. HIDE DEF B
  <2>. QED  BY <1>2, <1>6, <1>7, FS_Union
<1>. HIDE DEF A, B
<1>. QED  BY <1>2, <1>6, <1>8, <1>9 DEF u

\* RemoveFirst takes the first one out, if there is one.
LEMMA TimesRemoved ==
  ASSUME NEW S, NEW s \in Seq(S), NEW e \in S, NEW x
  PROVE  /\ RemoveFirst(s, e) \in Seq(S)
         /\ Times(x, RemoveFirst(s, e)) =
              IF x = e /\ Times(e, s) > 0 THEN Times(x, s) - 1 ELSE Times(x, s)
<1>1. Len(s) \in Nat /\ DOMAIN s = 1..Len(s)
  BY LenProperties
<1>2. CASE \E i \in 1..Len(s) : s[i] = e
  <2>. DEFINE T == {i \in 1..Len(s) : s[i] = e}
              k == Min(T)
              a == SubSeq(s, 1, k - 1)
              b == SubSeq(s, k + 1, Len(s))
  <2>1. k \in T
    <3>1. T \in SUBSET Nat /\ T # {}
      BY <1>1, <1>2
    <3>. HIDE DEF T
    <3>2. \E y \in T : \A z \in T : y <= z
      BY <3>1, LeastNat
    <3>. QED  BY <3>2 DEF Min
  <2>2. RemoveFirst(s, e) = a \o b
    BY <1>2 DEF RemoveFirst, RemoveAt, SelectInSeq
  <2>3. k \in 1..Len(s) /\ s[k] = e
    BY <2>1
  <2>. HIDE DEF k
  <2>4. /\ a \in Seq(S) /\ Len(a) = k - 1 /\ \A i \in 1..(k - 1) : a[i] = s[i]
    <3>1. \A i \in 1..(k - 1) : s[i] \in S
      BY <1>1, <2>3, ElementOfSeq
    <3>2. /\ a \in Seq(S) /\ Len(a) = (IF 1 <= k - 1 THEN k - 1 - 1 + 1 ELSE 0)
          /\ \A i \in 1..(k - 1 - 1 + 1) : a[i] = s[1 + i - 1]
      BY <1>1, <2>3, <3>1, SubSeqProperties
    <3>. HIDE DEF a
    <3>. QED  BY <2>3, <3>2
  <2>5. /\ b \in Seq(S) /\ Len(b) = Len(s) - k
        /\ \A i \in 1..(Len(s) - k) : b[i] = s[k + i]
    <3>1. \A i \in (k + 1)..Len(s) : s[i] \in S
      BY <1>1, <2>3, ElementOfSeq
    <3>2. /\ b \in Seq(S)
          /\ Len(b) = (IF k + 1 <= Len(s) THEN Len(s) - (k + 1) + 1 ELSE 0)
          /\ \A i \in 1..(Len(s) - (k + 1) + 1) : b[i] = s[(k + 1) + i - 1]
      BY <1>1, <2>3, <3>1, SubSeqProperties
    <3>. HIDE DEF b
    <3>3. Len(b) = Len(s) - k
      <4>1. \A n \in Nat : \A j \in 1..n : (IF j + 1 <= n THEN n - (j + 1) + 1 ELSE 0) = n - j
        OBVIOUS
      <4>. QED  BY <1>1, <2>3, <3>2, <4>1
    <3>4. ASSUME NEW i \in 1..(Len(s) - k)
          PROVE  b[i] = s[k + i]
      <4>1. i \in 1..(Len(s) - (k + 1) + 1) /\ (k + 1) + i - 1 = k + i
        BY <1>1, <2>3
      <4>. QED  BY <3>2, <4>1
    <3>. QED  BY <3>2, <3>3, <3>4
  <2>. HIDE DEF a, b
  <2>. DEFINE c == Append(a, e)
  <2>6. c \in Seq(S) /\ Len(c) = k /\ c[k] = e /\ \A i \in 1..(k - 1) : c[i] = s[i]
    <3>1. /\ c \in Seq(S) /\ Len(c) = Len(a) + 1 /\ c[Len(a) + 1] = e
          /\ DOMAIN a = 1..Len(a) /\ \A i \in DOMAIN a : c[i] = a[i]
      BY <2>4, AppendIs
    <3>. HIDE DEF c
    <3>. QED  BY <2>3, <2>4, <3>1
  <2>7. Times(x, c) = Times(x, a) + (IF e = x THEN 1 ELSE 0)
    BY <2>4, TimesAppend
  <2>. HIDE DEF c
  <2>8. s = c \o b
    <3>1. /\ c \o b \in Seq(S) /\ Len(c \o b) = Len(c) + Len(b)
          /\ \A i \in 1..(Len(c) + Len(b)) : (c \o b)[i] = IF i <= Len(c) THEN c[i] ELSE b[i - Len(c)]
      BY <2>5, <2>6, ConcatProperties
    <3>2. Len(c \o b) = Len(s)
      BY <1>1, <2>3, <2>5, <2>6, <3>1
    <3>3. ASSUME NEW i \in 1..Len(s)
          PROVE  s[i] = (c \o b)[i]
      <4>1. (c \o b)[i] = IF i <= k THEN c[i] ELSE b[i - k]
        BY <2>6, <3>1, <3>2
      <4>2. CASE i < k
        <5>1. i \in 1..(k - 1) /\ i <= k
          BY <2>3, <4>2
        <5>. QED  BY <2>6, <4>1, <5>1
      <4>3. CASE i = k
        BY <2>3, <2>6, <4>1, <4>3
      <4>4. CASE i > k
        <5>1. i - k \in 1..(Len(s) - k) /\ ~(i <= k) /\ k + (i - k) = i
          BY <1>1, <2>3, <4>4
        <5>. QED  BY <2>5, <4>1, <5>1
      <4>5. i < k \/ i = k \/ i > k
        BY <1>1, <2>3
      <4>. QED  BY <4>2, <4>3, <4>4, <4>5
    <3>. QED  BY <3>1, <3>2, <3>3, SeqEqual
  <2>9. Times(x, s) = Times(x, c) + Times(x, b) /\ Times(x, a \o b) = Times(x, a) + Times(x, b)
    BY <2>4, <2>5, <2>6, <2>8, TimesConcat
  <2>10. Times(e, s) > 0
    BY <1>1, <1>2, TimesType
  <2>11. a \o b \in Seq(S)
    BY <2>4, <2>5, ConcatProperties
  <2>12. Times(x, a) \in Nat /\ Times(x, b) \in Nat
    BY <2>4, <2>5, TimesType
  <2>. QED  BY <2>2, <2>7, <2>9, <2>10, <2>11, <2>12
<1>3. CASE ~ \E i \in 1..Len(s) : s[i] = e
  <2>1. RemoveFirst(s, e) = s
    BY <1>3 DEF RemoveFirst
  <2>2. ~ (Times(e, s) > 0)
    BY <1>1, <1>3, TimesType
  <2>. QED  BY <2>1, <2>2
<1>. QED  BY <1>2, <1>3

-----------------------------------------------------------------------------
(* The loops of Sub and Unsub *)

\* The watches of a subscriber and the lists of all topics, between two rounds.
LoopState == [watch : [Topics -> Abs!Watch \cup {NoWatch}], list : [Topics -> Seq(SubIds)]]

LEMMA SubEntryType ==
  ASSUME NEW st \in LoopState, NEW s \in SubIds, NEW w \in Abs!Watch, NEW v \in Abs!Watch
  PROVE  SubEntry(st, s, w, v) \in LoopState
<1>1. w.top \in Topics
  BY DEF Abs!Watch
<1>2. st.list[w.top] \in Seq(SubIds)
  BY <1>1 DEF LoopState
<1>3. Append(st.list[w.top], s) \in Seq(SubIds)
  BY <1>2, AppendIs
<1>. QED  BY <1>1, <1>3 DEF LoopState, SubEntry

LEMMA UnsubEntryType ==
  ASSUME NEW st \in LoopState, NEW s \in SubIds, NEW w \in Abs!Watch
  PROVE  UnsubEntry(st, s, w) \in LoopState
<1>1. w.top \in Topics
  BY DEF Abs!Watch
<1>2. st.list[w.top] \in Seq(SubIds)
  BY <1>1 DEF LoopState
<1>3. RemoveFirst(st.list[w.top], s) \in Seq(SubIds)
  BY <1>2, TimesRemoved
<1>. QED  BY <1>1, <1>3 DEF LoopState, UnsubEntry

\* What is stored for an entry.
LEMMA StoredType ==
  ASSUME NEW ws \in Seq(Abs!Watch), NEW i \in 1..Len(ws)
  PROVE  /\ ws[i] \in Abs!Watch /\ ws[i].top \in Topics
         /\ Abs!Stored(ws, i) \in Abs!Watch
         /\ Abs!Stored(ws, i) = IF SharedLoopVar THEN Last(ws) ELSE ws[i]
<1>1. Len(ws) \in Nat /\ Len(ws) \in 1..Len(ws)
  BY LenProperties
<1>2. ws[i] \in Abs!Watch /\ ws[Len(ws)] \in Abs!Watch
  BY <1>1, ElementOfSeq
<1>3. Abs!Stored(ws, i) = IF SharedLoopVar THEN ws[Len(ws)] ELSE ws[i]
  BY DEF Abs!Stored
<1>4. ws[i].top \in Topics
  BY <1>2 DEF Abs!Watch
<1>. QED  BY <1>2, <1>3, <1>4, SubsAssumption DEF Last

\* Sub's loop goes through these states.
LEMMA SubLoopRounds ==
  ASSUME TypeOK, NEW s \in SubIds, NEW ws \in Seq(Abs!Watch)
  PROVE  \E st \in [0..Len(ws) -> LoopState] :
           /\ SubLoop(s, ws) = st[Len(ws)]
           /\ st[0] = [watch |-> watch[s], list |-> list]
           /\ \A i \in 1..Len(ws) : st[i] = SubEntry(st[i - 1], s, ws[i], Abs!Stored(ws, i))
<1>. DEFINE n == Len(ws)
            a == [watch |-> watch[s], list |-> list]
            v(i) == IF SharedLoopVar THEN Last(ws) ELSE ws[i]
            F == [i \in 1..n |-> [st \in LoopState |-> SubEntry(st, s, ws[i], v(i))]]
            P(st) == st = [i \in 0..n |-> IF i = 0 THEN a ELSE SubEntry(st[i - 1], s, ws[i], v(i))]
            o == CHOOSE st : P(st)
<1>1. SubLoop(s, ws) = o[n]
  BY DEF SubLoop
<1>2. n \in Nat /\ a \in LoopState
  BY LenProperties DEF TypeOK, LoopState
<1>3. \A i \in 1..n : v(i) = Abs!Stored(ws, i) /\ v(i) \in Abs!Watch /\ ws[i] \in Abs!Watch
  BY StoredType
<1>. HIDE DEF n, a, v
<1>4. \A st \in LoopState, i \in 1..n : SubEntry(st, s, ws[i], v(i)) \in LoopState
  BY <1>3, SubEntryType
<1>5. F \in [1..n -> [LoopState -> LoopState]]
  BY <1>4
<1>6. \A st \in LoopState, i \in 1..n : F[i][st] = SubEntry(st, s, ws[i], v(i))
  OBVIOUS
<1>. HIDE DEF F
<1>7. PICK st \in [0..n -> LoopState] : st[0] = a /\ \A i \in 1..n : st[i] = F[i][st[i - 1]]
  <2>1. Run(LoopState, a, n, F) # {}
    BY <1>2, <1>5, LoopRuns
  <2>. QED  BY <2>1 DEF Run
<1>8. P(st)
  <2>1. ASSUME NEW i \in 1..n
        PROVE  st[i] = SubEntry(st[i - 1], s, ws[i], v(i))
    <3>1. st[i - 1] \in LoopState
      BY <1>2, <1>7
    <3>. QED  BY <1>6, <1>7, <3>1
  <2>2. \A i \in 0..n : st[i] = IF i = 0 THEN a ELSE SubEntry(st[i - 1], s, ws[i], v(i))
    BY <1>2, <1>7, <2>1
  <2>3. st = [i \in 0..n |-> st[i]]
    BY <1>7
  <2>. QED  BY <2>2, <2>3
<1>9. P(o)
  <2>. HIDE DEF P
  <2>. QED  BY <1>8
<1>. HIDE DEF o
<1>10. DOMAIN o = 0..n /\ o[0] = a
       /\ \A i \in 1..n : o[i] = SubEntry(o[i - 1], s, ws[i], v(i))
  BY <1>2, <1>9
<1>11. o \in [0..n -> LoopState]
  <2>. DEFINE T == {i \in 0..n : o[i] \in LoopState}
  <2>1. 0 \in T
    BY <1>2, <1>10
  <2>2. \A i \in 1..n : i - 1 \in T => i \in T
    BY <1>2, <1>4, <1>10
  <2>3. \A i \in 0..n : i \in T
    <3>. HIDE DEF T
    <3>. QED  BY <1>2, <2>1, <2>2, Rounds
  <2>4. o = [i \in 0..n |-> o[i]]
    BY <1>9
  <2>. QED  BY <2>3, <2>4
<1>12. o[0] = [watch |-> watch[s], list |-> list]
  BY <1>10 DEF a
<1>13. \A i \in 1..n : o[i] = SubEntry(o[i - 1], s, ws[i], Abs!Stored(ws, i))
  BY <1>3, <1>10
<1>. QED  BY <1>1, <1>11, <1>12, <1>13 DEF n

\* Sub stores the last entry for each topic it is asked for, and lists the subscriber of the
\* topics that it did not watch, once.
LEMMA SubLoopIs ==
  ASSUME TypeOK, NEW s \in SubIds, NEW ws \in Seq(Abs!Watch)
  PROVE  /\ SubLoop(s, ws) \in LoopState
         /\ \A t \in Topics \ Abs!Tops(ws) : SubLoop(s, ws).watch[t] = watch[s][t]
         /\ \A i \in DOMAIN ws : Abs!LastAsk(ws, ws[i].top, i) =>
              SubLoop(s, ws).watch[ws[i].top] = Abs!Stored(ws, i)
         /\ \A t \in Topics, r \in SubIds :
              Times(r, SubLoop(s, ws).list[t]) =
                Times(r, list[t]) + (IF r = s /\ t \in Abs!Tops(ws) /\ watch[s][t] = NoWatch
                                       THEN 1 ELSE 0)
<1>1. PICK st \in [0..Len(ws) -> LoopState] :
         /\ SubLoop(s, ws) = st[Len(ws)]
         /\ st[0] = [watch |-> watch[s], list |-> list]
         /\ \A i \in 1..Len(ws) : st[i] = SubEntry(st[i - 1], s, ws[i], Abs!Stored(ws, i))
  BY SubLoopRounds
<1>2. Len(ws) \in Nat /\ DOMAIN ws = 1..Len(ws)
  BY LenProperties
<1>3. \A i \in 1..Len(ws) : /\ ws[i].top \in Topics
                            /\ Abs!Stored(ws, i) # NoWatch
  BY StoredType, SubsAssumption
<1>. DEFINE n == Len(ws)
            Asked(t, k) == \E j \in 1..k : ws[j].top = t
            Kept(k) == \A t \in Topics : ~Asked(t, k) => st[k].watch[t] = watch[s][t]
            LastStored(k) == \A i \in 1..k : (\A j \in 1..k : ws[j].top = ws[i].top => j <= i)
                          => st[k].watch[ws[i].top] = Abs!Stored(ws, i)
            Watched(k) == \A t \in Topics : Asked(t, k) => st[k].watch[t] # NoWatch
            Listed(k) == \A t \in Topics, r \in SubIds :
                          Times(r, st[k].list[t]) =
                            Times(r, list[t]) + (IF r = s /\ Asked(t, k) /\ watch[s][t] = NoWatch
                                                   THEN 1 ELSE 0)
            T == {k \in 0..n : Kept(k) /\ LastStored(k) /\ Watched(k) /\ Listed(k)}
<1>4. 0 \in T
  <2>1. Kept(0) /\ LastStored(0) /\ Watched(0)
    BY <1>1
  <2>2. \A t \in Topics, r \in SubIds : Times(r, list[t]) \in Nat
    BY TimesType DEF TypeOK
  <2>3. Listed(0)
    BY <1>1, <2>2
  <2>. QED  BY <1>2, <2>1, <2>3
<1>5. ASSUME NEW k \in 1..n, k - 1 \in T
      PROVE  k \in T
  <2>. DEFINE p == st[k - 1]
              q == st[k]
              u == ws[k].top
  <2>1. /\ u \in Topics /\ p \in LoopState /\ q \in LoopState
        /\ q = SubEntry(p, s, ws[k], Abs!Stored(ws, k))
    BY <1>1, <1>2, <1>3
  <2>2. /\ q.watch = [p.watch EXCEPT ![u] = Abs!Stored(ws, k)]
        /\ q.list = IF p.watch[u] = NoWatch THEN [p.list EXCEPT ![u] = Append(@, s)] ELSE p.list
    BY <2>1 DEF SubEntry
  <2>3. /\ q.watch[u] = Abs!Stored(ws, k)
        /\ \A t \in Topics : t # u => q.watch[t] = p.watch[t] /\ q.list[t] = p.list[t]
    BY <2>1, <2>2 DEF LoopState
  <2>4. Kept(k - 1) /\ LastStored(k - 1) /\ Watched(k - 1) /\ Listed(k - 1)
    BY <1>5
  <2>5. \A t \in Topics : Asked(t, k) <=> Asked(t, k - 1) \/ t = u
    OBVIOUS
  <2>6. Kept(k)
    BY <2>3, <2>4, <2>5
  <2>7. Watched(k)
    BY <1>3, <2>3, <2>4, <2>5
  <2>8. LastStored(k)
    <3>. SUFFICES ASSUME NEW i \in 1..k, \A j \in 1..k : ws[j].top = ws[i].top => j <= i
                  PROVE  q.watch[ws[i].top] = Abs!Stored(ws, i)
      OBVIOUS
    <3>1. CASE i = k
      BY <2>3, <3>1
    <3>2. CASE i # k
      <4>1. i \in 1..(k - 1) /\ ws[i].top # u
        BY <3>2
      <4>2. p.watch[ws[i].top] = Abs!Stored(ws, i)
        BY <2>4, <4>1
      <4>3. ws[i].top \in Topics
        BY <1>2, <1>3, <4>1
      <4>. QED  BY <2>3, <4>1, <4>2, <4>3
    <3>. QED  BY <3>1, <3>2
  <2>9. Listed(k)
    <3>. SUFFICES ASSUME NEW t \in Topics, NEW r \in SubIds
                  PROVE  Times(r, q.list[t]) =
                           Times(r, list[t]) + (IF r = s /\ Asked(t, k) /\ watch[s][t] = NoWatch
                                                  THEN 1 ELSE 0)
      OBVIOUS
    <3>1. Times(r, p.list[t]) =
            Times(r, list[t]) + (IF r = s /\ Asked(t, k - 1) /\ watch[s][t] = NoWatch THEN 1 ELSE 0)
      BY <2>4
    <3>2. CASE t # u
      BY <2>3, <2>5, <3>1, <3>2
    <3>3. CASE t = u /\ p.watch[u] # NoWatch
      <4>1. q.list[t] = p.list[t]
        BY <2>2, <3>3
      <4>2. Asked(t, k)
        BY <2>5, <3>3
      <4>3. Asked(t, k - 1) \/ watch[s][t] # NoWatch
        BY <2>4, <3>3
      <4>. HIDE DEF p, q, u, Asked
      <4>. QED  BY <3>1, <4>1, <4>2, <4>3
    <3>4. CASE t = u /\ p.watch[u] = NoWatch
      <4>1. p.list[t] \in Seq(SubIds)
        BY <2>1 DEF LoopState
      <4>2. q.list[t] = Append(p.list[t], s)
        BY <2>1, <2>2, <3>4 DEF LoopState
      <4>3. Times(r, q.list[t]) = Times(r, p.list[t]) + (IF s = r THEN 1 ELSE 0)
        BY <4>1, <4>2, TimesAppend
      <4>4. Asked(t, k) /\ ~Asked(t, k - 1)
        BY <2>4, <2>5, <3>4
      <4>5. watch[s][t] = NoWatch
        BY <2>4, <3>4, <4>4
      <4>6. Times(r, list[t]) \in Nat
        BY TimesType DEF TypeOK
      <4>. HIDE DEF p, q, u, Asked
      <4>. QED  BY <3>1, <4>3, <4>4, <4>5, <4>6
    <3>. QED  BY <3>2, <3>3, <3>4
  <2>. QED  BY <1>2, <2>6, <2>7, <2>8, <2>9
<1>6. n \in T
  <2>1. \A k \in 1..n : k - 1 \in T => k \in T
    BY <1>5
  <2>. HIDE DEF T
  <2>2. \A k \in 0..n : k \in T
    BY <1>2, <1>4, <2>1, Rounds
  <2>. QED  BY <1>2, <2>2
<1>7. Kept(n) /\ LastStored(n) /\ Listed(n)
  BY <1>6
<1>8. \A t \in Topics : t \in Abs!Tops(ws) <=> Asked(t, n)
  BY <1>2 DEF Abs!Tops
<1>9. ASSUME NEW i \in DOMAIN ws, Abs!LastAsk(ws, ws[i].top, i)
      PROVE  SubLoop(s, ws).watch[ws[i].top] = Abs!Stored(ws, i)
  BY <1>1, <1>2, <1>7, <1>9 DEF Abs!LastAsk
<1>10. SubLoop(s, ws) \in LoopState
  BY <1>1, <1>2
<1>11. \A t \in Topics \ Abs!Tops(ws) : SubLoop(s, ws).watch[t] = watch[s][t]
  BY <1>1, <1>7, <1>8
<1>12. \A t \in Topics, r \in SubIds :
          Times(r, SubLoop(s, ws).list[t]) =
            Times(r, list[t]) + (IF r = s /\ t \in Abs!Tops(ws) /\ watch[s][t] = NoWatch
                                   THEN 1 ELSE 0)
  BY <1>1, <1>7, <1>8
<1>. QED  BY <1>9, <1>10, <1>11, <1>12

\* Unsub's loop goes through these states.
LEMMA UnsubLoopRounds ==
  ASSUME TypeOK, NEW s \in SubIds, NEW ws \in Seq(Abs!Watch)
  PROVE  \E st \in [0..Len(ws) -> LoopState] :
           /\ UnsubLoop(s, ws) = st[Len(ws)]
           /\ st[0] = [watch |-> watch[s], list |-> list]
           /\ \A i \in 1..Len(ws) : st[i] = UnsubEntry(st[i - 1], s, ws[i])
<1>. DEFINE n == Len(ws)
            a == [watch |-> watch[s], list |-> list]
            F == [i \in 1..n |-> [st \in LoopState |-> UnsubEntry(st, s, ws[i])]]
            P(st) == st = [i \in 0..n |-> IF i = 0 THEN a ELSE UnsubEntry(st[i - 1], s, ws[i])]
            o == CHOOSE st : P(st)
<1>1. UnsubLoop(s, ws) = o[n]
  BY DEF UnsubLoop
<1>2. n \in Nat /\ a \in LoopState
  BY LenProperties DEF TypeOK, LoopState
<1>3. \A i \in 1..n : ws[i] \in Abs!Watch
  BY StoredType
<1>. HIDE DEF n, a
<1>4. \A st \in LoopState, i \in 1..n : UnsubEntry(st, s, ws[i]) \in LoopState
  BY <1>3, UnsubEntryType
<1>5. F \in [1..n -> [LoopState -> LoopState]]
  BY <1>4
<1>6. \A st \in LoopState, i \in 1..n : F[i][st] = UnsubEntry(st, s, ws[i])
  OBVIOUS
<1>. HIDE DEF F
<1>7. PICK st \in [0..n -> LoopState] : st[0] = a /\ \A i \in 1..n : st[i] = F[i][st[i - 1]]
  <2>1. Run(LoopState, a, n, F) # {}
    BY <1>2, <1>5, LoopRuns
  <2>. QED  BY <2>1 DEF Run
<1>8. P(st)
  <2>1. ASSUME NEW i \in 1..n
        PROVE  st[i] = UnsubEntry(st[i - 1], s, ws[i])
    <3>1. st[i - 1] \in LoopState
      BY <1>2, <1>7
    <3>. QED  BY <1>6, <1>7, <3>1
  <2>2. \A i \in 0..n : st[i] = IF i = 0 THEN a ELSE UnsubEntry(st[i - 1], s, ws[i])
    BY <1>2, <1>7, <2>1
  <2>3. st = [i \in 0..n |-> st[i]]
    BY <1>7
  <2>. QED  BY <2>2, <2>3
<1>9. P(o)
  <2>. HIDE DEF P
  <2>. QED  BY <1>8
<1>. HIDE DEF o
<1>10. DOMAIN o = 0..n /\ o[0] = a
       /\ \A i \in 1..n : o[i] = UnsubEntry(o[i - 1], s, ws[i])
  BY <1>2, <1>9
<1>11. o \in [0..n -> LoopState]
  <2>. DEFINE T == {i \in 0..n : o[i] \in LoopState}
  <2>1. 0 \in T
    BY <1>2, <1>10
  <2>2. \A i \in 1..n : i - 1 \in T => i \in T
    BY <1>2, <1>4, <1>10
  <2>3. \A i \in 0..n : i \in T
    <3>. HIDE DEF T
    <3>. QED  BY <1>2, <2>1, <2>2, Rounds
  <2>4. o = [i \in 0..n |-> o[i]]
    BY <1>9
  <2>. QED  BY <2>3, <2>4
<1>12. o[0] = [watch |-> watch[s], list |-> list]
  BY <1>10 DEF a
<1>13. \A i \in 1..n : o[i] = UnsubEntry(o[i - 1], s, ws[i])
  BY <1>3, <1>10
<1>. QED  BY <1>1, <1>11, <1>12, <1>13 DEF n

\* Unsub drops the watches of the topics it is asked for, and an entry of the subscriber in
\* a topic's list for every time the topic is named.
LEMMA UnsubLoopIs ==
  ASSUME TypeOK, NEW s \in SubIds, NEW ws \in Seq(Abs!Watch)
  PROVE  /\ UnsubLoop(s, ws) \in LoopState
         /\ \A t \in Topics : UnsubLoop(s, ws).watch[t] =
              IF t \in Abs!Tops(ws) THEN NoWatch ELSE watch[s][t]
         /\ \A t \in Topics, r \in SubIds :
              Times(r, UnsubLoop(s, ws).list[t]) =
                IF r # s THEN Times(r, list[t])
                ELSE IF Times(r, list[t]) > Abs!Count(ws, t)
                       THEN Times(r, list[t]) - Abs!Count(ws, t) ELSE 0
<1>1. PICK st \in [0..Len(ws) -> LoopState] :
         /\ UnsubLoop(s, ws) = st[Len(ws)]
         /\ st[0] = [watch |-> watch[s], list |-> list]
         /\ \A i \in 1..Len(ws) : st[i] = UnsubEntry(st[i - 1], s, ws[i])
  BY UnsubLoopRounds
<1>2. Len(ws) \in Nat /\ DOMAIN ws = 1..Len(ws)
  BY LenProperties
<1>3. \A i \in 1..Len(ws) : ws[i].top \in Topics
  BY StoredType
<1>. DEFINE n == Len(ws)
            Named(t, k) == {j \in 1..k : ws[j].top = t}
            Dropped(k) == \A t \in Topics :
                            st[k].watch[t] = IF Named(t, k) # {} THEN NoWatch ELSE watch[s][t]
            Left(m, c) == IF m > c THEN m - c ELSE 0
            Unlisted(k) == \A t \in Topics, r \in SubIds :
                             Times(r, st[k].list[t]) =
                               IF r # s THEN Times(r, list[t])
                                        ELSE Left(Times(r, list[t]), Cardinality(Named(t, k)))
            T == {k \in 0..n : Dropped(k) /\ Unlisted(k)}
<1>4. ASSUME NEW t, NEW k \in Nat
      PROVE  IsFiniteSet(Named(t, k)) /\ Cardinality(Named(t, k)) \in Nat
  <2>1. IsFiniteSet(1..k)
    BY FS_Interval
  <2>2. Named(t, k) \in SUBSET (1..k)
    OBVIOUS
  <2>. HIDE DEF Named
  <2>. QED  BY <2>1, <2>2, FS_Subset, FS_CardinalityType
<1>5. \A t \in Topics, r \in SubIds : Times(r, list[t]) \in Nat
  BY TimesType DEF TypeOK
<1>6. 0 \in T
  <2>1. \A t : Named(t, 0) = {}
    OBVIOUS
  <2>2. \A t : Cardinality(Named(t, 0)) = 0
    BY <2>1, FS_EmptySet
  <2>3. Dropped(0)
    BY <1>1, <2>1
  <2>4. Unlisted(0)
    <3>. HIDE DEF Named
    <3>. QED  BY <1>1, <1>5, <2>2
  <2>. QED  BY <1>2, <2>3, <2>4
<1>7. ASSUME NEW k \in 1..n, k - 1 \in T
      PROVE  k \in T
  <2>. DEFINE p == st[k - 1]
              q == st[k]
              u == ws[k].top
  <2>1. u \in Topics /\ p \in LoopState /\ q \in LoopState /\ q = UnsubEntry(p, s, ws[k])
    BY <1>1, <1>2, <1>3
  <2>2. /\ q.watch[u] = NoWatch /\ q.list[u] = RemoveFirst(p.list[u], s)
        /\ \A t \in Topics : t # u => q.watch[t] = p.watch[t] /\ q.list[t] = p.list[t]
    BY <2>1 DEF UnsubEntry, LoopState
  <2>3. Dropped(k - 1) /\ Unlisted(k - 1)
    BY <1>7
  <2>4. \A t \in Topics : Named(t, k) = IF t = u THEN Named(t, k - 1) \cup {k} ELSE Named(t, k - 1)
    OBVIOUS
  <2>5. k - 1 \in Nat /\ k \in Nat /\ k \notin Named(u, k - 1)
    BY <1>2
  <2>6. Cardinality(Named(u, k)) = Cardinality(Named(u, k - 1)) + 1
    <3>1. Named(u, k) = Named(u, k - 1) \cup {k}
      BY <2>1, <2>4
    <3>2. IsFiniteSet(Named(u, k - 1))
      BY <1>4, <2>5
    <3>. HIDE DEF Named
    <3>. QED  BY <2>5, <3>1, <3>2, FS_AddElement
  <2>7. Dropped(k)
    <3>1. Named(u, k) # {}
      BY <2>1, <2>4
    <3>. HIDE DEF Named
    <3>. QED  BY <2>2, <2>3, <2>4, <3>1
  <2>8. Unlisted(k)
    <3>. SUFFICES ASSUME NEW t \in Topics, NEW r \in SubIds
                  PROVE  Times(r, q.list[t]) =
                           IF r # s THEN Times(r, list[t])
                                    ELSE Left(Times(r, list[t]), Cardinality(Named(t, k)))
      OBVIOUS
    <3>1. Times(r, p.list[t]) =
            IF r # s THEN Times(r, list[t])
                     ELSE Left(Times(r, list[t]), Cardinality(Named(t, k - 1)))
      BY <2>3
    <3>2. CASE t # u
      <4>1. Named(t, k) = Named(t, k - 1) /\ q.list[t] = p.list[t]
        BY <2>2, <2>4, <3>2
      <4>. QED  BY <3>1, <4>1
    <3>3. CASE t = u
      <4>1. p.list[u] \in Seq(SubIds)
        BY <2>1 DEF LoopState
      <4>2. Times(r, q.list[u]) = IF r = s /\ Times(s, p.list[u]) > 0
                                    THEN Times(r, p.list[u]) - 1 ELSE Times(r, p.list[u])
        BY <2>2, <4>1, TimesRemoved
      <4>3. Times(r, list[u]) \in Nat /\ Cardinality(Named(u, k - 1)) \in Nat
        BY <1>4, <1>5, <2>1, <2>5
      <4>4. CASE r # s
        BY <3>1, <3>3, <4>2, <4>4
      <4>5. CASE r = s
        <5>. DEFINE m == Times(r, list[u])
                    c == Cardinality(Named(u, k - 1))
        <5>1. Times(r, p.list[u]) = Left(m, c)
          BY <3>1, <3>3, <4>5
        <5>2. Times(r, q.list[u]) = IF Left(m, c) > 0 THEN Left(m, c) - 1 ELSE Left(m, c)
          BY <4>2, <4>5, <5>1
        <5>3. m \in Nat /\ c \in Nat /\ Cardinality(Named(u, k)) = c + 1
          BY <2>6, <4>3
        <5>. HIDE DEF m, c
        <5>4. (IF Left(m, c) > 0 THEN Left(m, c) - 1 ELSE Left(m, c)) = Left(m, c + 1)
          BY <5>3
        <5>. QED  BY <3>3, <4>5, <5>2, <5>3, <5>4 DEF m
      <4>. QED  BY <4>4, <4>5
    <3>. QED  BY <3>2, <3>3
  <2>9. k \in 0..n
    BY <1>2
  <2>. HIDE DEF Named, Left
  <2>. QED  BY <2>7, <2>8, <2>9
<1>8. n \in T
  <2>1. \A k \in 1..n : k - 1 \in T => k \in T
    BY <1>7
  <2>. HIDE DEF T
  <2>2. \A k \in 0..n : k \in T
    BY <1>2, <1>6, <2>1, Rounds
  <2>. QED  BY <1>2, <2>2
<1>9. Dropped(n) /\ Unlisted(n)
  BY <1>8
<1>10. \A t \in Topics : (t \in Abs!Tops(ws) <=> Named(t, n) # {})
                         /\ Abs!Count(ws, t) = Cardinality(Named(t, n))
  BY <1>2 DEF Abs!Tops, Abs!Count
<1>11. UnsubLoop(s, ws) \in LoopState
  BY <1>1, <1>2
<1>. HIDE DEF Named
<1>. QED  BY <1>1, <1>9, <1>10, <1>11

-----------------------------------------------------------------------------
(* The loop of filter *)

\* A sequence of positions that does not go back.
InOrder(s) == \A i, j \in DOMAIN s : i < j => s[i] <= s[j]

\* One more at the end keeps the order if it is not before any other.
LEMMA InOrderAppend ==
  ASSUME NEW s \in Seq(Nat), NEW e \in Nat, InOrder(s), \A i \in DOMAIN s : s[i] <= e
  PROVE  InOrder(Append(s, e))
<1>. DEFINE t == Append(s, e)
<1>1. /\ Len(s) \in Nat /\ DOMAIN s = 1..Len(s) /\ DOMAIN t = 1..(Len(s) + 1)
      /\ t[Len(s) + 1] = e /\ \A i \in DOMAIN s : t[i] = s[i]
  BY AppendIs
<1>. HIDE DEF t
<1>2. ASSUME NEW i \in DOMAIN t, NEW j \in DOMAIN t, i < j
      PROVE  t[i] <= t[j]
  <2>1. i \in DOMAIN s /\ t[i] = s[i]
    BY <1>1, <1>2
  <2>2. CASE j = Len(s) + 1
    BY <1>1, <2>1, <2>2
  <2>3. CASE j # Len(s) + 1
    <3>1. j \in DOMAIN s /\ t[j] = s[j]
      BY <1>1, <2>3
    <3>. QED  BY <1>2, <2>1, <3>1 DEF InOrder
  <2>. QED  BY <2>2, <2>3
<1>. QED  BY <1>2 DEF t, InOrder

\* The positions of events.
LEMMA PositionsType ==
  ASSUME TypeOK
  PROVE  /\ Len(ledger) \in Nat /\ DOMAIN ledger = 1..Len(ledger)
         /\ DOMAIN ledger \subseteq Nat /\ DOMAIN ledger \subseteq 1..MaxEv
         /\ \A e \in DOMAIN ledger : /\ ledger[e] \in Abs!Event /\ ledger[e].rev \in Int
                                     /\ ledger[e].top \in Topics
         /\ Seq(DOMAIN ledger) \subseteq Seq(Nat)
<1>1. Len(ledger) \in Nat /\ DOMAIN ledger = 1..Len(ledger) /\ Len(ledger) <= MaxEv
  BY LenProperties DEF TypeOK
<1>2. \A e \in DOMAIN ledger : ledger[e] \in Abs!Event
  BY <1>1, ElementOfSeq DEF TypeOK
<1>3. \A ev \in Abs!Event : ev.rev \in Int /\ ev.top \in Topics
  BY DEF Abs!Event
<1>4. DOMAIN ledger \subseteq Nat /\ DOMAIN ledger \subseteq 1..MaxEv
  BY <1>1, SubsAssumption
<1>5. Seq(DOMAIN ledger) \subseteq Seq(Nat)
  BY <1>4, SeqMonotonic
<1>. QED  BY <1>1, <1>2, <1>3, <1>4, <1>5

LEMMA FilterRounds ==
  ASSUME TypeOK, NEW b \in Seq(DOMAIN ledger), NEW ws
  PROVE  \E out \in [0..Len(b) -> Seq(DOMAIN ledger)] :
           /\ Filter(b, ws) = out[Len(b)]
           /\ out[0] = <<>>
           /\ \A i \in 1..Len(b) : out[i] = IF ledger[b[i]].top \in Abs!Tops(ws) THEN out[i - 1]
                                            ELSE Append(out[i - 1], b[i])
<1>. DEFINE n == Len(b)
            S == Seq(DOMAIN ledger)
            Round(s, i) == IF ledger[b[i]].top \in Abs!Tops(ws) THEN s ELSE Append(s, b[i])
            F == [i \in 1..n |-> [s \in S |-> Round(s, i)]]
            P(out) == out = [i \in 0..n |-> IF i = 0 THEN <<>> ELSE Round(out[i - 1], i)]
            o == CHOOSE out : P(out)
<1>1. Filter(b, ws) = o[n]
  BY DEF Filter
<1>2. n \in Nat /\ <<>> \in S
  BY LenProperties, EmptySeq
<1>3. \A i \in 1..n : b[i] \in DOMAIN ledger
  BY ElementOfSeq
<1>4. \A s \in S, i \in 1..n : Round(s, i) \in S
  BY <1>3, AppendProperties
<1>5. F \in [1..n -> [S -> S]]
  <2>. HIDE DEF Round, n, S
  <2>. QED  BY <1>4
<1>6. \A s \in S, i \in 1..n : F[i][s] = Round(s, i)
  <2>. HIDE DEF Round, n, S
  <2>. QED  OBVIOUS
<1>. HIDE DEF F, n, S
<1>7. PICK st \in [0..n -> S] : st[0] = <<>> /\ \A i \in 1..n : st[i] = F[i][st[i - 1]]
  <2>1. Run(S, <<>>, n, F) # {}
    BY <1>2, <1>5, LoopRuns
  <2>. QED  BY <2>1 DEF Run
<1>8. P(st)
  <2>1. ASSUME NEW i \in 1..n
        PROVE  st[i] = Round(st[i - 1], i)
    <3>1. st[i - 1] \in S
      BY <1>2, <1>7
    <3>. HIDE DEF Round
    <3>. QED  BY <1>6, <1>7, <3>1
  <2>2. \A i \in 0..n : st[i] = IF i = 0 THEN <<>> ELSE Round(st[i - 1], i)
    <3>. HIDE DEF Round
    <3>. QED  BY <1>2, <1>7, <2>1
  <2>3. st = [i \in 0..n |-> st[i]]
    BY <1>7
  <2>. QED  BY <2>2, <2>3
<1>9. P(o)
  <2>. HIDE DEF P
  <2>. QED  BY <1>8
<1>. HIDE DEF o
<1>10. DOMAIN o = 0..n /\ o[0] = <<>> /\ \A i \in 1..n : o[i] = Round(o[i - 1], i)
  <2>. HIDE DEF Round
  <2>. QED  BY <1>2, <1>9
<1>11. o \in [0..n -> S]
  <2>. DEFINE T == {i \in 0..n : o[i] \in S}
  <2>1. 0 \in T
    BY <1>2, <1>10
  <2>2. \A i \in 1..n : i - 1 \in T => i \in T
    <3>. HIDE DEF Round
    <3>. QED  BY <1>2, <1>4, <1>10
  <2>3. \A i \in 0..n : i \in T
    <3>. HIDE DEF T
    <3>. QED  BY <1>2, <2>1, <2>2, Rounds
  <2>4. o = [i \in 0..n |-> o[i]]
    BY <1>9
  <2>. QED  BY <2>3, <2>4
<1>. QED  BY <1>1, <1>10, <1>11 DEF n, S

\* filter drops the events of the topics, and keeps the others in their order.
LEMMA FilterIs ==
  ASSUME TypeOK, NEW b \in Seq(DOMAIN ledger), NEW ws
  PROVE  /\ Filter(b, ws) \in Seq(DOMAIN ledger)
         /\ \A e \in DOMAIN ledger :
              Times(e, Filter(b, ws)) = IF ledger[e].top \in Abs!Tops(ws) THEN 0 ELSE Times(e, b)
         /\ InOrder(b) => InOrder(Filter(b, ws))
<1>1. PICK out \in [0..Len(b) -> Seq(DOMAIN ledger)] :
         /\ Filter(b, ws) = out[Len(b)]
         /\ out[0] = <<>>
         /\ \A i \in 1..Len(b) : out[i] = IF ledger[b[i]].top \in Abs!Tops(ws) THEN out[i - 1]
                                          ELSE Append(out[i - 1], b[i])
  BY FilterRounds
<1>2. Len(b) \in Nat /\ DOMAIN b = 1..Len(b)
  BY LenProperties
<1>3. \A i \in 1..Len(b) : b[i] \in DOMAIN ledger /\ b[i] \in Nat
  BY ElementOfSeq, PositionsType
<1>. DEFINE n == Len(b)
            Seen(e, k) == {j \in 1..k : b[j] = e}
            Kept(k) == \A e \in DOMAIN ledger : Times(e, out[k]) =
                         IF ledger[e].top \in Abs!Tops(ws) THEN 0 ELSE Cardinality(Seen(e, k))
            Sorted(k) == InOrder(b) =>
                           /\ InOrder(out[k])
                           /\ \A i \in DOMAIN out[k], j \in (k + 1)..n : out[k][i] <= b[j]
            T == {k \in 0..n : Kept(k) /\ Sorted(k)}
<1>4. ASSUME NEW e, NEW k \in Nat
      PROVE  IsFiniteSet(Seen(e, k)) /\ Cardinality(Seen(e, k)) \in Nat
  <2>1. IsFiniteSet(1..k)
    BY FS_Interval
  <2>2. Seen(e, k) \in SUBSET (1..k)
    OBVIOUS
  <2>. HIDE DEF Seen
  <2>. QED  BY <2>1, <2>2, FS_Subset, FS_CardinalityType
<1>5. 0 \in T
  <2>1. \A e : Cardinality(Seen(e, 0)) = 0
    BY FS_EmptySet
  <2>2. Kept(0)
    <3>. HIDE DEF Seen
    <3>. QED  BY <1>1, <2>1, TimesEmpty
  <2>3. Sorted(0)
    BY <1>1 DEF InOrder
  <2>. QED  BY <1>2, <2>2, <2>3
<1>6. ASSUME NEW k \in 1..n, k - 1 \in T
      PROVE  k \in T
  <2>. DEFINE p == out[k - 1]
              q == out[k]
  <2>1. /\ p \in Seq(DOMAIN ledger) /\ q \in Seq(DOMAIN ledger) /\ p \in Seq(Nat)
        /\ k - 1 \in Nat /\ k \in Nat /\ k \in 0..n
    BY <1>1, <1>2, PositionsType
  <2>2. q = IF ledger[b[k]].top \in Abs!Tops(ws) THEN p ELSE Append(p, b[k])
    BY <1>1
  <2>3. Kept(k - 1) /\ Sorted(k - 1)
    BY <1>6
  <2>4. ASSUME NEW e \in DOMAIN ledger
        PROVE  Cardinality(Seen(e, k)) = Cardinality(Seen(e, k - 1)) + (IF b[k] = e THEN 1 ELSE 0)
    <3>1. CASE b[k] = e
      <4>1. Seen(e, k) = Seen(e, k - 1) \cup {k} /\ k \notin Seen(e, k - 1)
        BY <2>1, <3>1
      <4>2. IsFiniteSet(Seen(e, k - 1)) /\ Cardinality(Seen(e, k - 1)) \in Nat
        BY <1>4, <2>1
      <4>. HIDE DEF Seen
      <4>. QED  BY <3>1, <4>1, <4>2, FS_AddElement
    <3>2. CASE b[k] # e
      <4>1. Seen(e, k) = Seen(e, k - 1)
        BY <2>1, <3>2
      <4>2. Cardinality(Seen(e, k - 1)) \in Nat
        BY <1>4, <2>1
      <4>. HIDE DEF Seen
      <4>. QED  BY <3>2, <4>1, <4>2
    <3>. QED  BY <3>1, <3>2
  <2>5. CASE ledger[b[k]].top \in Abs!Tops(ws)
    <3>1. q = p
      BY <2>2, <2>5
    <3>2. Kept(k)
      <4>. SUFFICES ASSUME NEW e \in DOMAIN ledger
                    PROVE  Times(e, q) = IF ledger[e].top \in Abs!Tops(ws) THEN 0
                                         ELSE Cardinality(Seen(e, k))
        OBVIOUS
      <4>1. Times(e, p) = IF ledger[e].top \in Abs!Tops(ws) THEN 0 ELSE Cardinality(Seen(e, k - 1))
        BY <2>3
      <4>2. Cardinality(Seen(e, k - 1)) \in Nat
        BY <1>4, <2>1
      <4>. HIDE DEF Seen, p, q
      <4>. QED  BY <2>4, <2>5, <3>1, <4>1, <4>2
    <3>3. Sorted(k)
      BY <2>1, <2>3, <3>1
    <3>. QED  BY <2>1, <3>2, <3>3
  <2>6. CASE ledger[b[k]].top \notin Abs!Tops(ws)
    <3>1. q = Append(p, b[k])
      BY <2>2, <2>6
    <3>2. Kept(k)
      <4>. SUFFICES ASSUME NEW e \in DOMAIN ledger
                    PROVE  Times(e, q) = IF ledger[e].top \in Abs!Tops(ws) THEN 0
                                         ELSE Cardinality(Seen(e, k))
        OBVIOUS
      <4>1. Times(e, q) = Times(e, p) + (IF b[k] = e THEN 1 ELSE 0)
        BY <1>3, <2>1, <3>1, TimesAppend
      <4>2. Times(e, p) = IF ledger[e].top \in Abs!Tops(ws) THEN 0 ELSE Cardinality(Seen(e, k - 1))
        BY <2>3
      <4>3. Cardinality(Seen(e, k - 1)) \in Nat
        BY <1>4, <2>1
      <4>. HIDE DEF Seen, p, q
      <4>. QED  BY <2>4, <2>6, <4>1, <4>2, <4>3
    <3>3. Sorted(k)
      <4>. SUFFICES ASSUME InOrder(b)
                    PROVE  /\ InOrder(q)
                           /\ \A i \in DOMAIN q, j \in (k + 1)..n : q[i] <= b[j]
        OBVIOUS
      <4>1. InOrder(p) /\ \A i \in DOMAIN p, j \in k..n : p[i] <= b[j]
        BY <2>1, <2>3
      <4>2. \A i \in DOMAIN p : p[i] <= b[k]
        BY <1>2, <2>1, <4>1
      <4>3. InOrder(q)
        BY <1>3, <2>1, <3>1, <4>1, <4>2, InOrderAppend
      <4>4. /\ DOMAIN p = 1..Len(p) /\ Len(p) \in Nat /\ DOMAIN q = 1..(Len(p) + 1)
            /\ q[Len(p) + 1] = b[k] /\ \A i \in DOMAIN p : q[i] = p[i]
        BY <1>3, <2>1, <3>1, AppendIs
      <4>5. ASSUME NEW i \in DOMAIN q, NEW j \in (k + 1)..n
            PROVE  q[i] <= b[j]
        <5>1. CASE i = Len(p) + 1
          <6>1. j \in DOMAIN b /\ k \in DOMAIN b /\ k < j
            BY <1>2, <2>1
          <6>. QED  BY <4>4, <5>1, <6>1 DEF InOrder
        <5>2. CASE i # Len(p) + 1
          <6>. HIDE DEF p, q
          <6>1. i \in DOMAIN p /\ j \in k..n
            BY <1>2, <2>1, <4>4, <5>2
          <6>. QED  BY <4>1, <4>4, <6>1
        <5>. QED  BY <5>1, <5>2
      <4>. QED  BY <4>3, <4>5
    <3>. QED  BY <2>1, <3>2, <3>3
  <2>. QED  BY <2>5, <2>6
<1>7. n \in T
  <2>1. \A k \in 1..n : k - 1 \in T => k \in T
    BY <1>6
  <2>. HIDE DEF T
  <2>2. \A k \in 0..n : k \in T
    BY <1>2, <1>5, <2>1, Rounds
  <2>. QED  BY <1>2, <2>2
<1>8. Kept(n) /\ Sorted(n)
  BY <1>7
<1>9. \A e : Cardinality(Seen(e, n)) = Times(e, b)
  BY <1>2 DEF Times
<1>10. Filter(b, ws) \in Seq(DOMAIN ledger)
  BY <1>1, <1>2
<1>. HIDE DEF Seen
<1>. QED  BY <1>1, <1>8, <1>9, <1>10

-----------------------------------------------------------------------------
(* The loops of Show *)

\* The event is not the subscriber's own, and its watch accepts it.
Wants(s, ev) == owner[s] # ev.by /\ Abs!Accept(s, ev)

\* All buffers, of positions in D.
Bufs(D) == [SubIds -> Seq(D)]

LEMMA ShowToIs ==
  ASSUME NEW D, NEW b \in Bufs(D), NEW ev, NEW e \in D, NEW s \in SubIds
  PROVE  /\ ShowTo(b, ev, e, s) \in Bufs(D)
         /\ \A r \in SubIds : ShowTo(b, ev, e, s)[r] =
              IF r = s /\ Wants(s, ev) THEN Append(b[r], e) ELSE b[r]
<1>1. Append(b[s], e) \in Seq(D)
  BY AppendProperties DEF Bufs
<1>2. ShowTo(b, ev, e, s) = IF Wants(s, ev) THEN [b EXCEPT ![s] = Append(b[s], e)] ELSE b
  BY DEF ShowTo, Wants
<1>. QED  BY <1>1, <1>2 DEF Bufs

\* Show's inner loop goes through these states.
LEMMA ShowEventRounds ==
  ASSUME TypeOK, NEW D, NEW b \in Bufs(D), NEW ev, ev.top \in Topics, NEW e \in D
  PROVE  \E st \in [0..Len(list[ev.top]) -> Bufs(D)] :
           /\ ShowEvent(b, ev, e) = st[Len(list[ev.top])]
           /\ st[0] = b
           /\ \A i \in 1..Len(list[ev.top]) : st[i] = ShowTo(st[i - 1], ev, e, list[ev.top][i])
<1>. DEFINE n == Len(list[ev.top])
            S == Bufs(D)
            Round(x, i) == ShowTo(x, ev, e, list[ev.top][i])
            F == [i \in 1..n |-> [x \in S |-> Round(x, i)]]
            P(st) == st = [i \in 0..n |-> IF i = 0 THEN b ELSE Round(st[i - 1], i)]
            o == CHOOSE st : P(st)
<1>1. ShowEvent(b, ev, e) = o[n]
  BY DEF ShowEvent
<1>2. n \in Nat /\ b \in S
  BY LenProperties DEF TypeOK
<1>3. \A x \in S, i \in 1..n : Round(x, i) \in S
  BY ElementOfSeq, ShowToIs DEF TypeOK
<1>. HIDE DEF n, S, Round
<1>4. F \in [1..n -> [S -> S]]
  BY <1>3
<1>5. \A x \in S, i \in 1..n : F[i][x] = Round(x, i)
  OBVIOUS
<1>. HIDE DEF F
<1>6. PICK st \in [0..n -> S] : st[0] = b /\ \A i \in 1..n : st[i] = F[i][st[i - 1]]
  <2>1. Run(S, b, n, F) # {}
    BY <1>2, <1>4, LoopRuns
  <2>. QED  BY <2>1 DEF Run
<1>7. P(st)
  <2>1. ASSUME NEW i \in 1..n
        PROVE  st[i] = Round(st[i - 1], i)
    <3>1. st[i - 1] \in S
      BY <1>2, <1>6
    <3>. QED  BY <1>5, <1>6, <3>1
  <2>2. \A i \in 0..n : st[i] = IF i = 0 THEN b ELSE Round(st[i - 1], i)
    BY <1>2, <1>6, <2>1
  <2>3. st = [i \in 0..n |-> st[i]]
    BY <1>6
  <2>. QED  BY <2>2, <2>3
<1>8. P(o)
  <2>. HIDE DEF P
  <2>. QED  BY <1>7
<1>. HIDE DEF o
<1>9. DOMAIN o = 0..n /\ o[0] = b /\ \A i \in 1..n : o[i] = Round(o[i - 1], i)
  BY <1>2, <1>8
<1>10. o \in [0..n -> S]
  <2>. DEFINE T == {i \in 0..n : o[i] \in S}
  <2>1. 0 \in T
    BY <1>2, <1>9
  <2>2. \A i \in 1..n : i - 1 \in T => i \in T
    BY <1>2, <1>3, <1>9
  <2>3. \A i \in 0..n : i \in T
    <3>. HIDE DEF T
    <3>. QED  BY <1>2, <2>1, <2>2, Rounds
  <2>4. o = [i \in 0..n |-> o[i]]
    BY <1>8
  <2>. QED  BY <2>3, <2>4
<1>. QED  BY <1>1, <1>9, <1>10 DEF n, S, Round

\* How often an element is among the first k of a sequence.
Upto(x, l, k) == Cardinality({j \in 1..k : l[j] = x})

LEMMA UptoIs ==
  ASSUME NEW l, NEW x, NEW k \in Nat
  PROVE  /\ Upto(x, l, k) \in Nat
         /\ k = 0 => Upto(x, l, k) = 0
         /\ k > 0 => Upto(x, l, k) = Upto(x, l, k - 1) + (IF l[k] = x THEN 1 ELSE 0)
<1>. DEFINE Seen(i) == {j \in 1..i : l[j] = x}
<1>1. ASSUME NEW i \in Nat
      PROVE  IsFiniteSet(Seen(i)) /\ Cardinality(Seen(i)) \in Nat
  <2>1. IsFiniteSet(1..i)
    BY FS_Interval
  <2>2. Seen(i) \in SUBSET (1..i)
    OBVIOUS
  <2>. HIDE DEF Seen
  <2>. QED  BY <2>1, <2>2, FS_Subset, FS_CardinalityType
<1>2. Cardinality(Seen(0)) = 0
  <2>1. Seen(0) = {}
    OBVIOUS
  <2>. HIDE DEF Seen
  <2>. QED  BY <2>1, FS_EmptySet
<1>3. ASSUME k > 0
      PROVE  Cardinality(Seen(k)) = Cardinality(Seen(k - 1)) + (IF l[k] = x THEN 1 ELSE 0)
  <2>1. k - 1 \in Nat /\ k \notin Seen(k - 1)
    BY <1>3
  <2>2. IsFiniteSet(Seen(k - 1)) /\ Cardinality(Seen(k - 1)) \in Nat
    BY <1>1, <2>1
  <2>3. CASE l[k] = x
    <3>1. Seen(k) = Seen(k - 1) \cup {k}
      BY <1>3, <2>3
    <3>. HIDE DEF Seen
    <3>. QED  BY <2>1, <2>2, <2>3, <3>1, FS_AddElement
  <2>4. CASE l[k] # x
    <3>1. Seen(k) = Seen(k - 1)
      BY <1>3, <2>4
    <3>. HIDE DEF Seen
    <3>. QED  BY <2>2, <2>4, <3>1
  <2>. QED  BY <2>3, <2>4
<1>4. Cardinality(Seen(k)) \in Nat
  BY <1>1
<1>5. k = 0 => Cardinality(Seen(k)) = 0
  <2>. HIDE DEF Seen
  <2>. QED  BY <1>2
<1>. QED  BY <1>3, <1>4, <1>5 DEF Upto

\* Event e is appended to the buffers of the subscribers that want it, once for every time
\* they are listed.
LEMMA ShowEventIs ==
  ASSUME TypeOK, NEW D \in SUBSET Nat, NEW b \in Bufs(D), NEW ev, ev.top \in Topics,
         NEW e \in D
  PROVE  /\ ShowEvent(b, ev, e) \in Bufs(D)
         /\ \A s \in SubIds, x \in D :
              Times(x, ShowEvent(b, ev, e)[s]) =
                Times(x, b[s]) + (IF x = e /\ Wants(s, ev) THEN Times(s, list[ev.top]) ELSE 0)
         /\ \A s \in SubIds : InOrder(b[s]) /\ (\A i \in DOMAIN b[s] : b[s][i] <= e) =>
              /\ InOrder(ShowEvent(b, ev, e)[s])
              /\ \A i \in DOMAIN ShowEvent(b, ev, e)[s] : ShowEvent(b, ev, e)[s][i] <= e
<1>. DEFINE l == list[ev.top]
            n == Len(l)
            Seen(s, k) == Upto(s, l, k)
<1>1. PICK st \in [0..n -> Bufs(D)] :
         /\ ShowEvent(b, ev, e) = st[n]
         /\ st[0] = b
         /\ \A i \in 1..n : st[i] = ShowTo(st[i - 1], ev, e, l[i])
  BY ShowEventRounds
<1>2. n \in Nat /\ DOMAIN l = 1..n /\ l \in Seq(SubIds) /\ \A i \in 1..n : l[i] \in SubIds
  <2>1. l \in Seq(SubIds)
    BY DEF TypeOK
  <2>. HIDE DEF l
  <2>. QED  BY <2>1, LenProperties, ElementOfSeq
<1>3. \A s : Seen(s, n) = Times(s, l)
  BY <1>2 DEF Times, Upto
<1>4. \A s : Seen(s, 0) = 0
  BY UptoIs
<1>5. \A k \in 1..n, s \in SubIds :
        Seen(s, k - 1) \in Nat /\ Seen(s, k) = Seen(s, k - 1) + (IF l[k] = s THEN 1 ELSE 0)
  <2>. SUFFICES ASSUME NEW k \in 1..n, NEW s \in SubIds
                PROVE  Seen(s, k - 1) \in Nat
                       /\ Seen(s, k) = Seen(s, k - 1) + (IF l[k] = s THEN 1 ELSE 0)
    OBVIOUS
  <2>1. k \in Nat /\ k > 0 /\ k - 1 \in Nat
    BY <1>2
  <2>. HIDE DEF l
  <2>. QED  BY <2>1, UptoIs
<1>. HIDE DEF l, n, Seen
<1>. DEFINE Shown(k) == \A s \in SubIds, x \in D :
              Times(x, st[k][s]) = Times(x, b[s]) + (IF x = e /\ Wants(s, ev) THEN Seen(s, k) ELSE 0)
            Sorted(k) == \A s \in SubIds : InOrder(b[s]) /\ (\A i \in DOMAIN b[s] : b[s][i] <= e) =>
              InOrder(st[k][s]) /\ \A i \in DOMAIN st[k][s] : st[k][s][i] <= e
            T == {k \in 0..n : Shown(k) /\ Sorted(k)}
<1>6. \A s \in SubIds, x \in D : Times(x, b[s]) \in Nat
  BY TimesType DEF Bufs
<1>7. 0 \in T
  <2>1. Shown(0)
    BY <1>1, <1>4, <1>6
  <2>2. Sorted(0)
    BY <1>1
  <2>. QED  BY <1>2, <2>1, <2>2
<1>8. ASSUME NEW k \in 1..n, k - 1 \in T
      PROVE  k \in T
  <2>. DEFINE p == st[k - 1]
              q == st[k]
              r == l[k]
  <2>1. p \in Bufs(D) /\ q \in Bufs(D) /\ r \in SubIds /\ k \in 0..n
    BY <1>1, <1>2
  <2>2. q = ShowTo(p, ev, e, r)
    BY <1>1
  <2>3. Shown(k - 1) /\ Sorted(k - 1)
    BY <1>8
  <2>4. \A s \in SubIds, x \in D :
          Times(x, p[s]) = Times(x, b[s]) + (IF x = e /\ Wants(s, ev) THEN Seen(s, k - 1) ELSE 0)
    BY <2>3
  <2>5. \A s \in SubIds : InOrder(b[s]) /\ (\A i \in DOMAIN b[s] : b[s][i] <= e) =>
          InOrder(p[s]) /\ \A i \in DOMAIN p[s] : p[s][i] <= e
    BY <2>3
  <2>. HIDE DEF p, q
  <2>7. \A s \in SubIds : q[s] = IF s = r /\ Wants(r, ev) THEN Append(p[s], e) ELSE p[s]
    BY <2>1, <2>2, ShowToIs
  <2>8. ASSUME NEW s \in SubIds, NEW x \in D
        PROVE  Times(x, q[s]) = Times(x, b[s]) + (IF x = e /\ Wants(s, ev) THEN Seen(s, k) ELSE 0)
    <3>1. Times(x, p[s]) = Times(x, b[s]) + (IF x = e /\ Wants(s, ev) THEN Seen(s, k - 1) ELSE 0)
      BY <2>4
    <3>2. Times(x, b[s]) \in Nat /\ Seen(s, k - 1) \in Nat
      BY <1>5, <1>6
    <3>3. CASE s = r /\ Wants(r, ev)
      <4>1. Times(x, q[s]) = Times(x, p[s]) + (IF e = x THEN 1 ELSE 0)
        <5>1. q[s] = Append(p[s], e) /\ p[s] \in Seq(D)
          BY <2>1, <2>7, <3>3 DEF Bufs
        <5>. QED  BY <5>1, TimesAppend
      <4>2. Seen(s, k) = Seen(s, k - 1) + 1
        BY <1>5, <3>3
      <4>. QED  BY <3>1, <3>2, <3>3, <4>1, <4>2
    <3>4. CASE s # r
      <4>1. q[s] = p[s] /\ Seen(s, k) = Seen(s, k - 1)
        BY <1>5, <2>7, <3>2, <3>4
      <4>. QED  BY <3>1, <4>1
    <3>5. CASE s = r /\ ~Wants(r, ev)
      <4>1. q[s] = p[s]
        BY <2>7, <3>5
      <4>. QED  BY <3>1, <3>5, <4>1
    <3>. QED  BY <3>3, <3>4, <3>5
  <2>9. ASSUME NEW s \in SubIds, InOrder(b[s]), \A i \in DOMAIN b[s] : b[s][i] <= e
        PROVE  InOrder(q[s]) /\ \A i \in DOMAIN q[s] : q[s][i] <= e
    <3>1. InOrder(p[s]) /\ \A i \in DOMAIN p[s] : p[s][i] <= e
      BY <2>5, <2>9
    <3>2. CASE s = r /\ Wants(r, ev)
      <4>1. q[s] = Append(p[s], e)
        BY <2>7, <3>2
      <4>2. p[s] \in Seq(D) /\ p[s] \in Seq(Nat) /\ e \in Nat
        BY <2>1, SeqMonotonic DEF Bufs
      <4>3. InOrder(q[s])
        BY <3>1, <4>1, <4>2, InOrderAppend
      <4>4. /\ DOMAIN p[s] = 1..Len(p[s]) /\ Len(p[s]) \in Nat
            /\ DOMAIN q[s] = 1..(Len(p[s]) + 1)
            /\ q[s][Len(p[s]) + 1] = e /\ \A i \in DOMAIN p[s] : q[s][i] = p[s][i]
        BY <4>1, <4>2, AppendIs
      <4>5. ASSUME NEW i \in DOMAIN q[s]
            PROVE  q[s][i] <= e
        <5>1. i = Len(p[s]) + 1 \/ i \in DOMAIN p[s]
          BY <4>4
        <5>. QED  BY <3>1, <4>2, <4>4, <5>1
      <4>. QED  BY <4>3, <4>5
    <3>3. CASE ~(s = r /\ Wants(r, ev))
      BY <2>7, <3>1, <3>3
    <3>. QED  BY <3>2, <3>3
  <2>10. Shown(k) /\ Sorted(k)
    BY <2>8, <2>9 DEF q
  <2>. QED  BY <2>1, <2>10
<1>9. n \in T
  <2>1. \A k \in 1..n : k - 1 \in T => k \in T
    BY <1>8
  <2>. HIDE DEF T
  <2>2. \A k \in 0..n : k \in T
    BY <1>2, <1>7, <2>1, Rounds
  <2>. QED  BY <1>2, <2>2
<1>10. Shown(n) /\ Sorted(n)
  BY <1>9
<1>11. ShowEvent(b, ev, e) \in Bufs(D)
  BY <1>1, <1>2
<1>. QED  BY <1>1, <1>3, <1>10, <1>11 DEF l

\* Show's outer loop goes through these states.
LEMMA ShowRounds ==
  ASSUME TypeOK, NEW D \in SUBSET Nat, buf \in Bufs(D), NEW evs \in Seq(Abs!Event), NEW m \in Nat,
         \A i \in 1..Len(evs) : m + i \in D
  PROVE  \E st \in [0..Len(evs) -> Bufs(D)] :
           /\ Show(evs, m) = st[Len(evs)]
           /\ st[0] = buf
           /\ \A i \in 1..Len(evs) : st[i] = ShowEvent(st[i - 1], evs[i], m + i)
<1>. DEFINE n == Len(evs)
            S == Bufs(D)
            Round(x, i) == ShowEvent(x, evs[i], m + i)
            F == [i \in 1..n |-> [x \in S |-> Round(x, i)]]
            P(st) == st = [i \in 0..n |-> IF i = 0 THEN buf ELSE Round(st[i - 1], i)]
            o == CHOOSE st : P(st)
<1>1. Show(evs, m) = o[n]
  BY DEF Show
<1>2. n \in Nat /\ buf \in S
  BY LenProperties
<1>3. \A x \in S, i \in 1..n : Round(x, i) \in S
  <2>1. \A i \in 1..n : evs[i].top \in Topics /\ m + i \in D
    <3>1. \A i \in 1..Len(evs) : evs[i] \in Abs!Event
      BY ElementOfSeq
    <3>. QED  BY <3>1 DEF Abs!Event
  <2>. HIDE DEF n
  <2>. QED  BY <2>1, ShowEventIs
<1>. HIDE DEF n, S, Round
<1>4. F \in [1..n -> [S -> S]]
  BY <1>3
<1>5. \A x \in S, i \in 1..n : F[i][x] = Round(x, i)
  OBVIOUS
<1>. HIDE DEF F
<1>6. PICK st \in [0..n -> S] : st[0] = buf /\ \A i \in 1..n : st[i] = F[i][st[i - 1]]
  <2>1. Run(S, buf, n, F) # {}
    BY <1>2, <1>4, LoopRuns
  <2>. QED  BY <2>1 DEF Run
<1>7. P(st)
  <2>1. ASSUME NEW i \in 1..n
        PROVE  st[i] = Round(st[i - 1], i)
    <3>1. st[i - 1] \in S
      BY <1>2, <1>6
    <3>. QED  BY <1>5, <1>6, <3>1
  <2>2. \A i \in 0..n : st[i] = IF i = 0 THEN buf ELSE Round(st[i - 1], i)
    BY <1>2, <1>6, <2>1
  <2>3. st = [i \in 0..n |-> st[i]]
    BY <1>6
  <2>. QED  BY <2>2, <2>3
<1>8. P(o)
  <2>. HIDE DEF P
  <2>. QED  BY <1>7
<1>. HIDE DEF o
<1>9. DOMAIN o = 0..n /\ o[0] = buf /\ \A i \in 1..n : o[i] = Round(o[i - 1], i)
  BY <1>2, <1>8
<1>10. o \in [0..n -> S]
  <2>. DEFINE T == {i \in 0..n : o[i] \in S}
  <2>1. 0 \in T
    BY <1>2, <1>9
  <2>2. \A i \in 1..n : i - 1 \in T => i \in T
    BY <1>2, <1>3, <1>9
  <2>3. \A i \in 0..n : i \in T
    <3>. HIDE DEF T
    <3>. QED  BY <1>2, <2>1, <2>2, Rounds
  <2>4. o = [i \in 0..n |-> o[i]]
    BY <1>8
  <2>. QED  BY <2>3, <2>4
<1>. QED  BY <1>1, <1>9, <1>10 DEF n, S, Round

\* The events evs with the positions after m are appended to the buffers of the subscribers
\* that want them, in their order.
LEMMA ShowIs ==
  ASSUME TypeOK, NEW D \in SUBSET Nat, buf \in Bufs(D), NEW evs \in Seq(Abs!Event), NEW m \in Nat,
         \A i \in 1..Len(evs) : m + i \in D
  PROVE  /\ Show(evs, m) \in Bufs(D)
         /\ \A s \in SubIds, x \in D :
              Times(x, Show(evs, m)[s]) =
                Times(x, buf[s]) + (IF x - m \in 1..Len(evs) /\ Wants(s, evs[x - m])
                                      THEN Times(s, list[evs[x - m].top]) ELSE 0)
         /\ \A s \in SubIds : InOrder(buf[s]) /\ (\A i \in DOMAIN buf[s] : buf[s][i] <= m) =>
              InOrder(Show(evs, m)[s])
<1>1. PICK st \in [0..Len(evs) -> Bufs(D)] :
         /\ Show(evs, m) = st[Len(evs)]
         /\ st[0] = buf
         /\ \A i \in 1..Len(evs) : st[i] = ShowEvent(st[i - 1], evs[i], m + i)
  BY ShowRounds
<1>2. Len(evs) \in Nat
  BY LenProperties
<1>3. \A i \in 1..Len(evs) : evs[i].top \in Topics /\ m + i \in D
  <2>1. \A i \in 1..Len(evs) : evs[i] \in Abs!Event
    BY ElementOfSeq
  <2>. QED  BY <2>1 DEF Abs!Event
<1>. DEFINE n == Len(evs)
            Part(x, s, k) == IF x - m \in 1..k /\ Wants(s, evs[x - m])
                               THEN Times(s, list[evs[x - m].top]) ELSE 0
            Shown(k) == \A s \in SubIds, x \in D : Times(x, st[k][s]) = Times(x, buf[s]) + Part(x, s, k)
            Sorted(k) == \A s \in SubIds : InOrder(buf[s]) /\ (\A i \in DOMAIN buf[s] : buf[s][i] <= m) =>
              InOrder(st[k][s]) /\ \A i \in DOMAIN st[k][s] : st[k][s][i] <= m + k
            T == {k \in 0..n : Shown(k) /\ Sorted(k)}
<1>4. \A s \in SubIds, x \in D : Times(x, buf[s]) \in Nat
  BY TimesType DEF Bufs
<1>5. 0 \in T
  <2>1. Shown(0)
    BY <1>1, <1>4
  <2>2. Sorted(0)
    BY <1>1
  <2>. QED  BY <1>2, <2>1, <2>2
<1>6. ASSUME NEW k \in 1..n, k - 1 \in T
      PROVE  k \in T
  <2>. DEFINE p == st[k - 1]
              q == st[k]
              ev == evs[k]
  <2>1. /\ p \in Bufs(D) /\ q \in Bufs(D) /\ k \in 0..n /\ k \in Nat
        /\ ev.top \in Topics /\ m + k \in D /\ q = ShowEvent(p, ev, m + k)
    BY <1>1, <1>2, <1>3
  <2>2. Shown(k - 1) /\ Sorted(k - 1)
    BY <1>6
  <2>3. \A s \in SubIds, x \in D : Times(x, p[s]) = Times(x, buf[s]) + Part(x, s, k - 1)
    BY <2>2
  <2>4. \A s \in SubIds : InOrder(buf[s]) /\ (\A i \in DOMAIN buf[s] : buf[s][i] <= m) =>
          InOrder(p[s]) /\ \A i \in DOMAIN p[s] : p[s][i] <= m + (k - 1)
    BY <2>2
  <2>. HIDE DEF p, q
  <2>5. /\ \A s \in SubIds, x \in D :
              Times(x, q[s]) =
                Times(x, p[s]) + (IF x = m + k /\ Wants(s, ev) THEN Times(s, list[ev.top]) ELSE 0)
        /\ \A s \in SubIds : InOrder(p[s]) /\ (\A i \in DOMAIN p[s] : p[s][i] <= m + k) =>
              InOrder(q[s]) /\ \A i \in DOMAIN q[s] : q[s][i] <= m + k
    <3>. DEFINE e == m + k
    <3>. HIDE DEF ev, e
    <3>1. e \in D /\ q = ShowEvent(p, ev, e) /\ ev.top \in Topics /\ p \in Bufs(D)
      BY <2>1 DEF e
    <3>2. /\ \A s \in SubIds, x \in D :
                Times(x, q[s]) =
                  Times(x, p[s]) + (IF x = e /\ Wants(s, ev) THEN Times(s, list[ev.top]) ELSE 0)
          /\ \A s \in SubIds : InOrder(p[s]) /\ (\A i \in DOMAIN p[s] : p[s][i] <= e) =>
                InOrder(q[s]) /\ \A i \in DOMAIN q[s] : q[s][i] <= e
      <4>1. /\ ShowEvent(p, ev, e) \in Bufs(D)
            /\ \A s \in SubIds, x \in D :
                 Times(x, ShowEvent(p, ev, e)[s]) =
                   Times(x, p[s]) + (IF x = e /\ Wants(s, ev) THEN Times(s, list[ev.top]) ELSE 0)
            /\ \A s \in SubIds : InOrder(p[s]) /\ (\A i \in DOMAIN p[s] : p[s][i] <= e) =>
                 /\ InOrder(ShowEvent(p, ev, e)[s])
                 /\ \A i \in DOMAIN ShowEvent(p, ev, e)[s] : ShowEvent(p, ev, e)[s][i] <= e
        BY <3>1, ShowEventIs, Zenon
      <4>. QED  BY <3>1, <4>1
    <3>. QED  BY <3>2 DEF e
  <2>6. ASSUME NEW s \in SubIds, NEW x \in D
        PROVE  Times(x, q[s]) = Times(x, buf[s]) + Part(x, s, k)
    <3>1. Times(x, p[s]) = Times(x, buf[s]) + Part(x, s, k - 1) /\ Times(x, buf[s]) \in Nat
      BY <1>4, <2>3
    <3>2. Times(x, q[s]) =
            Times(x, p[s]) + (IF x = m + k /\ Wants(s, ev) THEN Times(s, list[ev.top]) ELSE 0)
      BY <2>5
    <3>3. x \in Nat
      OBVIOUS
    <3>4. CASE x = m + k
      <4>1. x - m = k /\ x - m \in 1..k /\ ~(x - m \in 1..(k - 1))
        BY <2>1, <3>4
      <4>2. Part(x, s, k - 1) = 0
        BY <4>1
      <4>3. Part(x, s, k) = IF Wants(s, ev) THEN Times(s, list[ev.top]) ELSE 0
        BY <4>1
      <4>. HIDE DEF Part, ev
      <4>. QED  BY <3>1, <3>2, <3>4, <4>2, <4>3
    <3>5. CASE x # m + k
      <4>1. x - m \in 1..k <=> x - m \in 1..(k - 1)
        BY <2>1, <3>3, <3>5
      <4>2. Part(x, s, k - 1) = Part(x, s, k)
        BY <4>1
      <4>3. Part(x, s, k) \in Nat
        <5>1. ASSUME x - m \in 1..k
              PROVE  Times(s, list[evs[x - m].top]) \in Nat
          <6>1. x - m \in 1..Len(evs)
            BY <1>2, <5>1
          <6>2. list[evs[x - m].top] \in Seq(SubIds)
            BY <1>3, <6>1 DEF TypeOK
          <6>. QED  BY <6>2, TimesType
        <5>. QED  BY <5>1
      <4>. HIDE DEF Part, ev
      <4>. QED  BY <3>1, <3>2, <3>5, <4>2, <4>3
    <3>. QED  BY <3>4, <3>5
  <2>7. ASSUME NEW s \in SubIds, InOrder(buf[s]), \A i \in DOMAIN buf[s] : buf[s][i] <= m
        PROVE  InOrder(q[s]) /\ \A i \in DOMAIN q[s] : q[s][i] <= m + k
    <3>1. InOrder(p[s]) /\ \A i \in DOMAIN p[s] : p[s][i] <= m + (k - 1)
      BY <2>4, <2>7
    <3>2. \A i \in DOMAIN p[s] : p[s][i] \in Nat
      <4>1. p[s] \in Seq(D)
        BY <2>1 DEF Bufs
      <4>. QED  BY <4>1, LenProperties, ElementOfSeq
    <3>3. \A i \in DOMAIN p[s] : p[s][i] <= m + k
      BY <2>1, <3>1, <3>2
    <3>. QED  BY <2>5, <3>1, <3>3
  <2>8. Shown(k) /\ Sorted(k)
    <3>. HIDE DEF Part
    <3>. QED  BY <2>6, <2>7 DEF q
  <2>. HIDE DEF Shown, Sorted
  <2>. QED  BY <2>1, <2>8
<1>7. n \in T
  <2>1. \A k \in 1..n : k - 1 \in T => k \in T
    BY <1>6
  <2>. HIDE DEF T
  <2>2. \A k \in 0..n : k \in T
    BY <1>2, <1>5, <2>1, Rounds
  <2>. QED  BY <1>2, <2>2
<1>8. Shown(n) /\ Sorted(n)
  BY <1>7
<1>9. Show(evs, m) \in Bufs(D)
  BY <1>1, <1>2
<1>. QED  BY <1>1, <1>8, <1>9

-----------------------------------------------------------------------------
(* What Subs sees *)

\* The counts of Subs, as the instance Abs has them.
TmapSeen == [t \in Topics |-> [s \in SubIds |-> Times(s, list[t])]]
BufrSeen == [s \in SubIds |-> [e \in 1..MaxEv |-> IF s \in todo THEN 0 ELSE Times(e, buf[s])]]
SrevSeen == [s \in SubIds |-> IF s \in todo THEN bcast ELSE srev[s]]
GotSeen  == [c \in Conns |-> [e \in 1..MaxEv |->
               Times(e, sent[c]) + (IF smap[c] \in todo THEN Times(e, buf[smap[c]]) ELSE 0)]]

LEMMA InitSeen == Init => SlicesInv /\ Abs!Init
<1>. SUFFICES ASSUME Init
              PROVE  SlicesInv /\ Abs!Init
  OBVIOUS
<1>. USE DEF Init
<1>1. (CHOOSE c \in Conns : TRUE) \in Conns
  BY SubsAssumption
<1>2. /\ ledger \in Seq(Abs!Event) /\ Len(ledger) = 0 /\ ledger = <<>> /\ DOMAIN ledger = {}
      /\ <<>> \in Seq(SubIds) /\ <<>> \in Seq(DOMAIN ledger)
      /\ <<>> \in Seq(Seq(DOMAIN ledger)) /\ Len(<<>>) = 0
  <2>1. ledger \in Seq(Abs!Event)
    BY EmptySeq
  <2>. QED  BY <2>1, EmptySeq
<1>3. TypeOK
  BY <1>1, <1>2, SubsAssumption, ChanAssumption DEF TypeOK, Abs!NoSub
<1>4. OwnersOK
  BY DEF OwnersOK
<1>5. Abs!Init
  BY TimesEmpty DEF Abs!Init, Abs!SubIds, Abs!EvIds, Abs!NoSub, SubIds
<1>. QED  BY <1>3, <1>4, <1>5 DEF SlicesInv

\* What Subs sees stays the same if what it is made of does.
LEMMA SeenUnchanged ==
  ASSUME UNCHANGED <<ledger, nsub, owner, watch, smap, bcast, since, list>>,
         BufrSeen' = BufrSeen, SrevSeen' = SrevSeen, GotSeen' = GotSeen
  PROVE  UNCHANGED Abs!vars
<1>1. TmapSeen' = TmapSeen
  BY DEF TmapSeen, SubIds
<1>. QED  BY <1>1 DEF Abs!vars, Abs!subVars, Abs!histVars, TmapSeen, BufrSeen, SrevSeen, GotSeen

\* A connection takes an update: nothing that Subs sees.
LEMMA TakeSeen ==
  ASSUME SlicesInv, NEW c \in Conns, Take(c)
  PROVE  SlicesInv' /\ UNCHANGED Abs!vars
<1>1. /\ UNCHANGED <<ledger, nsub, owner, watch, smap, srev, bcast, since, list, buf, todo, sent>>
      /\ chan' = [chan EXCEPT ![c] = Tail(@)] /\ chan[c] # <<>>
  BY DEF Take, objVars
<1>2. TypeOK'
  <2>1. /\ chan[c] \in Seq(Seq(DOMAIN ledger)) /\ Len(chan[c]) <= ChanCap
        /\ chan \in [Conns -> Seq(Seq(DOMAIN ledger))]
    BY DEF SlicesInv, TypeOK
  <2>2. Tail(chan[c]) \in Seq(Seq(DOMAIN ledger)) /\ Len(Tail(chan[c])) = Len(chan[c]) - 1
        /\ Len(chan[c]) \in Nat
    BY <1>1, <2>1, HeadTailProperties, LenProperties
  <2>3. chan' \in [Conns -> Seq(Seq(DOMAIN ledger))]
    BY <1>1, <2>1, <2>2
  <2>4. \A d \in Conns : Len(chan'[d]) <= ChanCap
    BY <1>1, <2>1, <2>2, ChanAssumption DEF SlicesInv, TypeOK
  <2>. QED  BY <1>1, <2>3, <2>4 DEF SlicesInv, TypeOK
<1>3. OwnersOK'
  BY <1>1 DEF SlicesInv, OwnersOK
<1>4. BufrSeen' = BufrSeen /\ SrevSeen' = SrevSeen /\ GotSeen' = GotSeen
  BY <1>1 DEF BufrSeen, SrevSeen, GotSeen
<1>. QED  BY <1>1, <1>2, <1>3, <1>4, SeenUnchanged DEF SlicesInv

\* A subscriber that a broadcast has yet to reach is that of its connection, and no other's.
LEMMA OwnersAre ==
  ASSUME SlicesInv
  PROVE  /\ \A c \in Conns : smap[c] # Abs!NoSub => smap[c] \in SubIds /\ owner[smap[c]] = c
         /\ \A s \in todo : s \in SubIds /\ owner[s] \in Conns /\ smap[owner[s]] = s
         /\ Abs!NoSub \notin SubIds
<1>1. Abs!NoSub \notin SubIds
  BY SubsAssumption DEF SubIds, Abs!NoSub
<1>2. /\ smap \in [Conns -> {Abs!NoSub} \cup SubIds] /\ owner \in [SubIds -> Conns]
      /\ todo \subseteq SubIds
  BY DEF SlicesInv, TypeOK
<1>3. /\ \A c \in Conns : smap[c] # Abs!NoSub => owner[smap[c]] = c
      /\ \A s \in todo : smap[owner[s]] = s
  BY DEF SlicesInv, OwnersOK
<1>. QED  BY <1>1, <1>2, <1>3

\* A broadcast reaches a subscriber: Subs has seen that when the broadcast began.
LEMMA UpdateSeen ==
  ASSUME SlicesInv, NEW s \in SubIds, Update(s)
  PROVE  SlicesInv' /\ UNCHANGED Abs!vars
<1>. DEFINE c == owner[s]
<1>1. /\ UNCHANGED <<ledger, nsub, owner, watch, smap, bcast, since, list>>
      /\ s \in todo /\ Len(chan[c]) < ChanCap
      /\ srev' = [srev EXCEPT ![s] = bcast]
      /\ chan' = [chan EXCEPT ![c] = Append(@, buf[s])]
      /\ sent' = [sent EXCEPT ![c] = @ \o buf[s]]
      /\ buf' = [buf EXCEPT ![s] = <<>>]
      /\ todo' = todo \ {s}
  BY DEF Update, objVars
<1>2. /\ c \in Conns /\ smap[c] = s /\ s # Abs!NoSub
      /\ \A d \in Conns : smap[d] = s => d = c
  BY <1>1, OwnersAre
<1>3. /\ srev \in [SubIds -> Int] /\ bcast \in Int
      /\ chan \in [Conns -> Seq(Seq(DOMAIN ledger))] /\ \A d \in Conns : Len(chan[d]) <= ChanCap
      /\ sent \in [Conns -> Seq(DOMAIN ledger)]
      /\ buf \in [SubIds -> Seq(DOMAIN ledger)] /\ todo \subseteq SubIds
  BY DEF SlicesInv, TypeOK
<1>. HIDE DEF c
<1>4. TypeOK'
  <2>1. /\ Append(chan[c], buf[s]) \in Seq(Seq(DOMAIN ledger))
        /\ Len(Append(chan[c], buf[s])) = Len(chan[c]) + 1
        /\ Len(chan[c]) \in Nat
    BY <1>2, <1>3, AppendIs
  <2>2. sent[c] \o buf[s] \in Seq(DOMAIN ledger)
    BY <1>2, <1>3, ConcatProperties
  <2>3. <<>> \in Seq(DOMAIN ledger)
    BY EmptySeq
  <2>4. /\ srev' \in [SubIds -> Int] /\ chan' \in [Conns -> Seq(Seq(DOMAIN ledger))]
        /\ sent' \in [Conns -> Seq(DOMAIN ledger)] /\ buf' \in [SubIds -> Seq(DOMAIN ledger)]
        /\ todo' \subseteq SubIds
    BY <1>1, <1>2, <1>3, <2>1, <2>2, <2>3
  <2>5. \A d \in Conns : Len(chan'[d]) <= ChanCap
    BY <1>1, <1>2, <1>3, <2>1, ChanAssumption
  <2>. QED  BY <1>1, <2>4, <2>5 DEF SlicesInv, TypeOK
<1>5. OwnersOK'
  BY <1>1 DEF SlicesInv, OwnersOK
<1>6. BufrSeen' = BufrSeen
  <2>1. \A r \in SubIds, e \in 1..MaxEv :
          (IF r \in todo' THEN 0 ELSE Times(e, buf'[r])) = IF r \in todo THEN 0 ELSE Times(e, buf[r])
    BY <1>1, <1>3, TimesEmpty
  <2>. QED  BY <2>1 DEF BufrSeen
<1>7. SrevSeen' = SrevSeen
  BY <1>1, <1>3 DEF SrevSeen
<1>8. GotSeen' = GotSeen
  <2>1. ASSUME NEW d \in Conns, NEW e \in 1..MaxEv
        PROVE  Times(e, sent'[d]) + (IF smap[d] \in todo' THEN Times(e, buf'[smap[d]]) ELSE 0) =
               Times(e, sent[d]) + (IF smap[d] \in todo THEN Times(e, buf[smap[d]]) ELSE 0)
    <3>1. CASE d = c
      <4>1. smap[d] \notin todo' /\ smap[d] \in todo /\ sent'[d] = sent[c] \o buf[s]
        BY <1>1, <1>2, <1>3, <3>1
      <4>2. Times(e, sent[c] \o buf[s]) = Times(e, sent[c]) + Times(e, buf[s])
        BY <1>2, <1>3, TimesConcat
      <4>3. Times(e, sent[c]) \in Nat /\ Times(e, buf[s]) \in Nat
        BY <1>2, <1>3, TimesType
      <4>. QED  BY <1>2, <3>1, <4>1, <4>2, <4>3
    <3>2. CASE d # c
      <4>1. smap[d] # s
        BY <1>2, <3>2
      <4>2. /\ smap[d] \in todo' <=> smap[d] \in todo
            /\ smap[d] \in todo => buf'[smap[d]] = buf[smap[d]]
            /\ sent'[d] = sent[d]
        BY <1>1, <1>3, <3>2, <4>1
      <4>. QED  BY <4>2
    <3>. QED  BY <3>1, <3>2
  <2>. QED  BY <1>1, <2>1 DEF GotSeen
<1>. QED  BY <1>1, <1>4, <1>5, <1>6, <1>7, <1>8, SeenUnchanged DEF SlicesInv

\* The revision of the ledger.
LEMMA LedgerRevInt ==
  ASSUME SlicesInv
  PROVE  Abs!LedgerRev \in Int
<1>1. CASE ledger = <<>>
  BY <1>1 DEF Abs!LedgerRev
<1>2. CASE ledger # <<>>
  <2>1. Len(ledger) \in DOMAIN ledger
    BY <1>2, PositionsType, EmptySeq DEF SlicesInv, TypeOK
  <2>. QED  BY <1>2, <2>1, PositionsType DEF Abs!LedgerRev, SlicesInv
<1>. QED  BY <1>1, <1>2

\* A broadcast begins: Subs sees the whole of it.
LEMMA BcastSeen ==
  ASSUME SlicesInv, Bcast
  PROVE  SlicesInv' /\ Abs!Bcast
<1>1. /\ UNCHANGED <<ledger, nsub, owner, watch, smap, srev, since, list, buf, chan, sent>>
      /\ todo = {} /\ Abs!LedgerRev > bcast /\ bcast' = Abs!LedgerRev
      /\ todo' = {smap[c] : c \in Conns} \ {Abs!NoSub}
  BY DEF Bcast, Idle, objVars
<1>2. /\ \A c \in Conns : smap[c] # Abs!NoSub => smap[c] \in SubIds /\ owner[smap[c]] = c
      /\ Abs!NoSub \notin SubIds
  BY OwnersAre
<1>3. Abs!LedgerRev \in Int
  BY LedgerRevInt
<1>4. TypeOK'
  BY <1>1, <1>2, <1>3 DEF SlicesInv, TypeOK
<1>5. OwnersOK'
  BY <1>1, <1>2 DEF SlicesInv, OwnersOK
<1>6. /\ \A s \in SubIds : s \in todo' <=> s \in {smap[c] : c \in Conns}
      /\ \A c \in Conns : smap[c] \in todo' <=> smap[c] # Abs!NoSub
  BY <1>1, <1>2
<1>7. SrevSeen' = [s \in SubIds |-> IF s \in {smap[c] : c \in Conns} THEN Abs!LedgerRev ELSE SrevSeen[s]]
  BY <1>1, <1>6 DEF SrevSeen
<1>8. GotSeen' = [c \in Conns |-> IF smap[c] = Abs!NoSub THEN GotSeen[c]
                                  ELSE [e \in 1..MaxEv |-> GotSeen[c][e] + BufrSeen[smap[c]][e]]]
  <2>1. ASSUME NEW c \in Conns
        PROVE  GotSeen'[c] = IF smap[c] = Abs!NoSub THEN GotSeen[c]
                             ELSE [e \in 1..MaxEv |-> GotSeen[c][e] + BufrSeen[smap[c]][e]]
    <3>1. \A e \in 1..MaxEv : Times(e, sent[c]) \in Nat
      BY TimesType DEF SlicesInv, TypeOK
    <3>2. GotSeen[c] = [e \in 1..MaxEv |-> Times(e, sent[c])]
      BY <1>1, <3>1 DEF GotSeen
    <3>3. CASE smap[c] = Abs!NoSub
      BY <1>1, <1>6, <3>1, <3>2, <3>3 DEF GotSeen
    <3>4. CASE smap[c] # Abs!NoSub
      <4>1. smap[c] \in SubIds /\ smap[c] \in todo'
        BY <1>2, <1>6, <3>4
      <4>2. \A e \in 1..MaxEv : BufrSeen[smap[c]][e] = Times(e, buf[smap[c]])
        BY <1>1, <4>1 DEF BufrSeen
      <4>. QED  BY <1>1, <3>2, <3>4, <4>1, <4>2 DEF GotSeen
    <3>. QED  BY <3>3, <3>4
  <2>. QED  BY <2>1 DEF GotSeen
<1>9. BufrSeen' = [s \in SubIds |-> IF s \in {smap[c] : c \in Conns} THEN [e \in 1..MaxEv |-> 0]
                                    ELSE BufrSeen[s]]
  BY <1>1, <1>6 DEF BufrSeen
<1>10. TmapSeen' = TmapSeen
  BY <1>1 DEF TmapSeen
<1>11. Abs!Bcast
  BY <1>1, <1>7, <1>8, <1>9, <1>10
     DEF Abs!Bcast, Abs!Left, Abs!SubIds, Abs!EvIds, SubIds, SrevSeen, GotSeen, BufrSeen, TmapSeen
<1>. QED  BY <1>4, <1>5, <1>11 DEF SlicesInv

\* Where a list asks for a topic for the last time.
LEMMA LastAsked ==
  ASSUME NEW ws \in Seq(Abs!Watch), NEW t \in Abs!Tops(ws)
  PROVE  \E i \in DOMAIN ws : Abs!LastAsk(ws, t, i)
<1>1. Len(ws) \in Nat /\ DOMAIN ws = 1..Len(ws)
  BY LenProperties
<1>. DEFINE n == Len(ws)
            T == {k \in 0..n : n - k \in DOMAIN ws /\ ws[n - k].top = t}
<1>2. PICK i \in DOMAIN ws : ws[i].top = t
  BY DEF Abs!Tops
<1>3. n - i \in T
  <2>1. n - i \in 0..n /\ n - (n - i) = i
    BY <1>1
  <2>. QED  BY <1>2, <2>1
<1>4. PICK k \in T : \A y \in T : k <= y
  <2>1. T \in SUBSET Nat
    OBVIOUS
  <2>. HIDE DEF T
  <2>. QED  BY <1>3, <2>1, LeastNat
<1>5. ASSUME NEW j \in DOMAIN ws, ws[j].top = t
      PROVE  j <= n - k
  <2>1. n - j \in 0..n /\ n - (n - j) = j /\ j \in Nat /\ n \in Nat
    BY <1>1
  <2>2. n - j \in T
    BY <1>5, <2>1
  <2>3. k <= n - j /\ k \in Nat
    BY <1>4, <2>2
  <2>. HIDE DEF n, T
  <2>. QED  BY <2>1, <2>3
<1>. QED  BY <1>4, <1>5 DEF Abs!LastAsk

\* A sequence does not hold what is not of its kind.
LEMMA TimesOutside ==
  ASSUME NEW S, NEW s \in Seq(S), NEW x, x \notin S
  PROVE  Times(x, s) = 0
<1>1. \A i \in DOMAIN s : s[i] # x
  BY LenProperties, ElementOfSeq
<1>. QED  BY <1>1, TimesType

\* The counts of a filtered buffer are what Subs leaves of the counts.
LEMMA FilterSeen ==
  ASSUME TypeOK, NEW b \in Seq(DOMAIN ledger), NEW ws
  PROVE  [e \in 1..MaxEv |-> Times(e, Filter(b, ws))] =
           Abs!Filter([e \in 1..MaxEv |-> Times(e, b)], ws)
<1>1. ASSUME NEW e \in 1..MaxEv
      PROVE  Times(e, Filter(b, ws)) =
               IF e <= Len(ledger) /\ ledger[e].top \in Abs!Tops(ws) THEN 0 ELSE Times(e, b)
  <2>1. CASE e \in DOMAIN ledger
    <3>1. e <= Len(ledger)
      BY <2>1, PositionsType
    <3>. QED  BY <2>1, <3>1, FilterIs
  <2>2. CASE e \notin DOMAIN ledger
    <3>1. ~(e <= Len(ledger))
      BY <2>2, PositionsType, SubsAssumption
    <3>2. Filter(b, ws) \in Seq(DOMAIN ledger)
      BY FilterIs
    <3>3. Times(e, Filter(b, ws)) = 0 /\ Times(e, b) = 0
      BY <2>2, <3>2, TimesOutside
    <3>. QED  BY <3>1, <3>3
  <2>. QED  BY <2>1, <2>2
<1>. QED  BY <1>1 DEF Abs!Filter, Abs!EvIds

\* s may become the subscriber of c: it is no other's, and it has been made.
MayBe(c, s) ==
  /\ nsub' \in 0..MaxSubs /\ nsub <= nsub' /\ s <= nsub'
  /\ \A d \in Conns : smap[d] = s => d = c

\* Sub, once the subscriber has been looked up or made.
LEMMA SubWithSeen ==
  ASSUME SlicesInv, Idle, NEW c \in Conns, NEW s \in SubIds, NEW ws \in Seq(Abs!Watch),
         MayBe(c, s), SubWith(c, s, ws)
  PROVE  SlicesInv' /\ Abs!SubWith(c, s, ws)
<1>. DEFINE st == SubLoop(s, ws)
<1>1. /\ todo = {} /\ todo' = {}
      /\ UNCHANGED <<ledger, srev, bcast, todo, chan, sent>>
      /\ watch' = [watch EXCEPT ![s] = st.watch] /\ list' = st.list
      /\ smap' = [smap EXCEPT ![c] = s] /\ owner' = [owner EXCEPT ![s] = c]
      /\ buf' = [buf EXCEPT ![s] = Filter(@, ws)]
      /\ since' = [since EXCEPT ![s] = [t \in Topics |->
           IF t \in Abs!Tops(ws) THEN Len(ledger) ELSE @[t]]]
  BY DEF SubWith, Idle, Abs!Tops
<1>2. /\ TypeOK
      /\ watch \in [SubIds -> [Topics -> Abs!Watch \cup {NoWatch}]]
      /\ buf \in [SubIds -> Seq(DOMAIN ledger)] /\ list \in [Topics -> Seq(SubIds)]
      /\ smap \in [Conns -> {Abs!NoSub} \cup SubIds] /\ owner \in [SubIds -> Conns]
      /\ since \in [SubIds -> [Topics -> Nat]]
      /\ sent \in [Conns -> Seq(DOMAIN ledger)] /\ nsub \in 0..MaxSubs
      /\ nsub' \in 0..MaxSubs /\ nsub <= nsub' /\ s <= nsub'
      /\ \A d \in Conns : smap[d] = s => d = c
  BY DEF SlicesInv, TypeOK, MayBe
<1>3. /\ st \in LoopState
      /\ \A t \in Topics \ Abs!Tops(ws) : st.watch[t] = watch[s][t]
      /\ \A i \in DOMAIN ws : Abs!LastAsk(ws, ws[i].top, i) => st.watch[ws[i].top] = Abs!Stored(ws, i)
      /\ \A t \in Topics, r \in SubIds :
           Times(r, st.list[t]) =
             Times(r, list[t]) + (IF r = s /\ t \in Abs!Tops(ws) /\ watch[s][t] = NoWatch
                                    THEN 1 ELSE 0)
  BY <1>2, SubLoopIs
<1>. HIDE DEF st
<1>4. st.watch \in [Topics -> Abs!Watch \cup {NoWatch}] /\ st.list \in [Topics -> Seq(SubIds)]
  BY <1>3 DEF LoopState
<1>5. Filter(buf[s], ws) \in Seq(DOMAIN ledger)
  BY <1>2, FilterIs
<1>6. TypeOK'
  <2>1. Len(ledger) \in Nat
    BY <1>2, PositionsType
  <2>2. /\ watch' \in [SubIds -> [Topics -> Abs!Watch \cup {NoWatch}]]
        /\ list' \in [Topics -> Seq(SubIds)]
    BY <1>1, <1>2, <1>4
  <2>3. /\ smap' \in [Conns -> {Abs!NoSub} \cup SubIds] /\ owner' \in [SubIds -> Conns]
        /\ buf' \in [SubIds -> Seq(DOMAIN ledger)]
    BY <1>1, <1>2, <1>5
  <2>4. since' \in [SubIds -> [Topics -> Nat]]
    BY <1>1, <1>2, <2>1
  <2>. QED  BY <1>1, <1>2, <2>2, <2>3, <2>4 DEF SlicesInv, TypeOK
<1>7. OwnersOK'
  <2>1. ASSUME NEW d \in Conns, smap'[d] # Abs!NoSub
        PROVE  smap'[d] <= nsub' /\ owner'[smap'[d]] = d
    <3>1. CASE d = c
      BY <1>1, <1>2, <3>1
    <3>2. CASE d # c
      <4>1. smap'[d] = smap[d] /\ smap[d] # s
        BY <1>1, <1>2, <3>2
      <4>2. smap[d] \in SubIds /\ smap[d] <= nsub /\ owner[smap[d]] = d
        BY <1>2, <2>1, <4>1 DEF SlicesInv, OwnersOK
      <4>3. smap[d] <= nsub'
        BY <1>2, <4>2 DEF SubIds
      <4>. QED  BY <1>1, <1>2, <4>1, <4>2, <4>3
    <3>. QED  BY <3>1, <3>2
  <2>. QED  BY <1>1, <2>1 DEF OwnersOK, Abs!NoSub
<1>8. PICK last \in [Abs!Tops(ws) -> DOMAIN ws] : \A t \in Abs!Tops(ws) : Abs!LastAsk(ws, t, last[t])
  <2>1. \A t \in Abs!Tops(ws) : \E i \in DOMAIN ws : Abs!LastAsk(ws, t, i)
    BY LastAsked
  <2>2. [t \in Abs!Tops(ws) |-> CHOOSE i \in DOMAIN ws : Abs!LastAsk(ws, t, i)]
          \in [Abs!Tops(ws) -> DOMAIN ws]
    BY <2>1
  <2>. QED  BY <2>1, <2>2
<1>9. watch' = [watch EXCEPT ![s] = [t \in Topics |->
        IF t \in Abs!Tops(ws) THEN Abs!Stored(ws, last[t]) ELSE @[t]]]
  <2>1. ASSUME NEW t \in Topics
        PROVE  st.watch[t] = IF t \in Abs!Tops(ws) THEN Abs!Stored(ws, last[t]) ELSE watch[s][t]
    <3>1. CASE t \in Abs!Tops(ws)
      <4>1. last[t] \in DOMAIN ws /\ ws[last[t]].top = t /\ Abs!LastAsk(ws, t, last[t])
        BY <1>8, <3>1 DEF Abs!LastAsk
      <4>. QED  BY <1>3, <3>1, <4>1
    <3>2. CASE t \notin Abs!Tops(ws)
      BY <1>3, <3>2
    <3>. QED  BY <3>1, <3>2
  <2>2. st.watch = [t \in Topics |-> IF t \in Abs!Tops(ws) THEN Abs!Stored(ws, last[t])
                                     ELSE watch[s][t]]
    BY <1>4, <2>1
  <2>. QED  BY <1>1, <1>2, <2>2
<1>10. TmapSeen' = [t \in Topics |-> [TmapSeen[t] EXCEPT ![s] =
          IF t \in Abs!Tops(ws) /\ watch[s][t] = NoWatch THEN @ + 1 ELSE @]]
  <2>1. ASSUME NEW t \in Topics, NEW r \in SubIds
        PROVE  Times(r, list'[t]) =
                 IF r = s /\ t \in Abs!Tops(ws) /\ watch[s][t] = NoWatch
                   THEN Times(r, list[t]) + 1 ELSE Times(r, list[t])
    <3>1. Times(r, list[t]) \in Nat
      BY <1>2, TimesType
    <3>. QED  BY <1>1, <1>3, <3>1
  <2>. QED  BY <2>1 DEF TmapSeen
<1>11. BufrSeen' = [BufrSeen EXCEPT ![s] = Abs!Filter(@, ws)]
  <2>1. \A r \in SubIds : BufrSeen[r] = [e \in 1..MaxEv |-> Times(e, buf[r])]
    BY <1>1 DEF BufrSeen
  <2>2. \A r \in SubIds : BufrSeen'[r] = [e \in 1..MaxEv |-> Times(e, buf'[r])]
    BY <1>1 DEF BufrSeen
  <2>3. BufrSeen'[s] = Abs!Filter(BufrSeen[s], ws)
    <3>. DEFINE b == buf[s]
    <3>1. b \in Seq(DOMAIN ledger) /\ buf'[s] = Filter(b, ws)
      BY <1>1, <1>2
    <3>. HIDE DEF b
    <3>2. [e \in 1..MaxEv |-> Times(e, Filter(b, ws))] =
            Abs!Filter([e \in 1..MaxEv |-> Times(e, b)], ws)
      BY <1>2, <3>1, FilterSeen
    <3>3. BufrSeen'[s] = [e \in 1..MaxEv |-> Times(e, Filter(b, ws))]
      BY <2>2, <3>1
    <3>4. BufrSeen[s] = [e \in 1..MaxEv |-> Times(e, b)]
      BY <2>1 DEF b
    <3>. QED  BY <3>2, <3>3, <3>4
  <2>4. \A r \in SubIds : r # s => BufrSeen'[r] = BufrSeen[r]
    BY <1>1, <1>2, <2>1, <2>2
  <2>. QED  BY <2>3, <2>4 DEF BufrSeen
<1>12. GotSeen' = GotSeen /\ SrevSeen' = SrevSeen
  BY <1>1 DEF GotSeen, SrevSeen
<1>13. Abs!SubWith(c, s, ws)
  BY <1>1, <1>8, <1>9, <1>10, <1>11, <1>12
     DEF Abs!SubWith, Abs!TmapAdded, TmapSeen, BufrSeen, GotSeen, SrevSeen
<1>. QED  BY <1>6, <1>7, <1>13 DEF SlicesInv

\* A call of Sub is one of Subs.
LEMMA SubSeen ==
  ASSUME SlicesInv, NEW c \in Conns, NEW ws \in WatchLists, Sub(c, ws)
  PROVE  SlicesInv' /\ (Abs!SubNew(c, ws) \/ Abs!SubMore(c, ws))
<1>1. /\ Idle /\ ws # <<>> /\ ws \in Seq(Abs!Watch) /\ nsub \in 0..MaxSubs /\ MaxSubs \in Nat
      /\ smap \in [Conns -> {Abs!NoSub} \cup SubIds]
  BY SubsAssumption DEF Sub, SlicesInv, TypeOK
<1>2. /\ \A d \in Conns : smap[d] # Abs!NoSub =>
           smap[d] \in SubIds /\ owner[smap[d]] = d /\ smap[d] <= nsub
      /\ Abs!NoSub \notin SubIds
  BY OwnersAre DEF SlicesInv, OwnersOK
<1>3. CASE smap[c] # Abs!NoSub /\ nsub' = nsub /\ SubWith(c, smap[c], ws)
  <2>. SUFFICES ASSUME NEW s \in SubIds, s = smap[c]
                PROVE  SlicesInv' /\ (Abs!SubNew(c, ws) \/ Abs!SubMore(c, ws))
    BY <1>2, <1>3
  <2>1. s \in SubIds /\ s <= nsub' /\ nsub' \in 0..MaxSubs /\ nsub <= nsub'
    BY <1>1, <1>2, <1>3
  <2>2. MayBe(c, s)
    BY <1>2, <1>3, <2>1 DEF MayBe
  <2>3. SubWith(c, s, ws)
    BY <1>3
  <2>4. SlicesInv' /\ Abs!SubWith(c, s, ws)
    BY <1>1, <2>1, <2>2, <2>3, SubWithSeen
  <2>. QED  BY <1>1, <1>3, <2>4 DEF Abs!SubMore, Abs!SubWith
<1>4. CASE smap[c] = Abs!NoSub /\ nsub < MaxSubs /\ nsub' = nsub + 1 /\ SubWith(c, nsub + 1, ws)
  <2>. SUFFICES ASSUME NEW s \in SubIds, s = nsub + 1
                PROVE  SlicesInv' /\ (Abs!SubNew(c, ws) \/ Abs!SubMore(c, ws))
    BY <1>1, <1>4 DEF SubIds
  <2>1. s \in SubIds /\ s <= nsub' /\ nsub' \in 0..MaxSubs /\ nsub <= nsub'
    BY <1>1, <1>4 DEF SubIds
  <2>2. \A d \in Conns : smap[d] # s
    <3>. SUFFICES ASSUME NEW d \in Conns, smap[d] = s
                  PROVE  FALSE
      OBVIOUS
    <3>1. smap[d] # Abs!NoSub
      BY <1>2, <2>1
    <3>. QED  BY <1>1, <1>2, <3>1
  <2>3. SubWith(c, s, ws) /\ MayBe(c, s)
    BY <1>4, <2>1, <2>2 DEF MayBe
  <2>4. SlicesInv' /\ Abs!SubWith(c, s, ws)
    BY <1>1, <2>1, <2>3, SubWithSeen
  <2>. QED  BY <1>1, <1>4, <2>4 DEF Abs!SubNew, Abs!SubWith
<1>. QED  BY <1>3, <1>4 DEF Sub

\* Unsub without a list is that of Subs.
LEMMA UnsubAllSeen ==
  ASSUME SlicesInv, NEW c \in Conns, Unsub(c, <<>>)
  PROVE  SlicesInv' /\ Abs!UnsubAll(c)
<1>1. /\ todo = {} /\ todo' = {} /\ smap[c] # Abs!NoSub
      /\ smap' = [smap EXCEPT ![c] = Abs!NoSub]
      /\ since' = [since EXCEPT ![smap[c]] = [t \in Topics |-> 0]]
      /\ UNCHANGED <<ledger, nsub, owner, watch, srev, bcast, list, buf, todo, chan, sent>>
  BY DEF Unsub, Idle
<1>2. /\ smap \in [Conns -> {Abs!NoSub} \cup SubIds] /\ since \in [SubIds -> [Topics -> Nat]]
      /\ smap[c] \in SubIds
  BY <1>1, OwnersAre DEF SlicesInv, TypeOK
<1>3. TypeOK'
  <2>1. smap' \in [Conns -> {Abs!NoSub} \cup SubIds] /\ since' \in [SubIds -> [Topics -> Nat]]
    BY <1>1, <1>2
  <2>. QED  BY <1>1, <2>1 DEF SlicesInv, TypeOK
<1>4. OwnersOK'
  BY <1>1, <1>2 DEF SlicesInv, OwnersOK
<1>5. BufrSeen' = BufrSeen /\ SrevSeen' = SrevSeen /\ GotSeen' = GotSeen /\ TmapSeen' = TmapSeen
  BY <1>1 DEF BufrSeen, SrevSeen, GotSeen, TmapSeen
<1>6. Abs!UnsubAll(c)
  BY <1>1, <1>5 DEF Abs!UnsubAll, TmapSeen, BufrSeen, GotSeen, SrevSeen
<1>. QED  BY <1>3, <1>4, <1>6 DEF SlicesInv

\* Unsub with a list is that of Subs.
LEMMA UnsubSomeSeen ==
  ASSUME SlicesInv, NEW c \in Conns, NEW ws \in WatchLists, ws # <<>>, Unsub(c, ws)
  PROVE  SlicesInv' /\ Abs!UnsubSome(c, ws)
<1>. DEFINE s == smap[c]
            st == UnsubLoop(s, ws)
<1>1. /\ todo = {} /\ todo' = {} /\ s # Abs!NoSub
      /\ UNCHANGED <<ledger, nsub, owner, srev, bcast, todo, chan, sent>>
      /\ watch' = [watch EXCEPT ![s] = st.watch] /\ list' = st.list
      /\ smap' = IF \A t \in Topics : st.watch[t] = NoWatch
                   THEN [smap EXCEPT ![c] = Abs!NoSub] ELSE smap
      /\ buf' = [buf EXCEPT ![s] = Filter(@, ws)]
      /\ since' = [since EXCEPT ![s] = [t \in Topics |-> IF t \in Abs!Tops(ws) THEN 0 ELSE @[t]]]
  BY DEF Unsub, Idle
<1>2. /\ TypeOK /\ ws \in Seq(Abs!Watch)
      /\ watch \in [SubIds -> [Topics -> Abs!Watch \cup {NoWatch}]]
      /\ buf \in [SubIds -> Seq(DOMAIN ledger)] /\ list \in [Topics -> Seq(SubIds)]
      /\ smap \in [Conns -> {Abs!NoSub} \cup SubIds] /\ owner \in [SubIds -> Conns]
      /\ since \in [SubIds -> [Topics -> Nat]] /\ s \in SubIds
  BY <1>1, OwnersAre, SubsAssumption DEF SlicesInv, TypeOK
<1>3. /\ st \in LoopState
      /\ \A t \in Topics : st.watch[t] = IF t \in Abs!Tops(ws) THEN NoWatch ELSE watch[s][t]
      /\ \A t \in Topics, r \in SubIds :
           Times(r, st.list[t]) =
             IF r # s THEN Times(r, list[t])
             ELSE IF Times(r, list[t]) > Abs!Count(ws, t)
                    THEN Times(r, list[t]) - Abs!Count(ws, t) ELSE 0
  <2>. HIDE DEF s
  <2>. QED  BY <1>2, UnsubLoopIs
<1>. HIDE DEF st
<1>4. st.watch \in [Topics -> Abs!Watch \cup {NoWatch}] /\ st.list \in [Topics -> Seq(SubIds)]
  BY <1>3 DEF LoopState
<1>5. Filter(buf[s], ws) \in Seq(DOMAIN ledger)
  <2>. HIDE DEF s
  <2>. QED  BY <1>2, FilterIs
<1>6. TypeOK'
  <2>1. /\ watch' \in [SubIds -> [Topics -> Abs!Watch \cup {NoWatch}]]
        /\ list' \in [Topics -> Seq(SubIds)]
    BY <1>1, <1>2, <1>4
  <2>2. smap' \in [Conns -> {Abs!NoSub} \cup SubIds] /\ buf' \in [SubIds -> Seq(DOMAIN ledger)]
    BY <1>1, <1>2, <1>5
  <2>3. since' \in [SubIds -> [Topics -> Nat]]
    BY <1>1, <1>2
  <2>. QED  BY <1>1, <2>1, <2>2, <2>3 DEF SlicesInv, TypeOK
<1>7. OwnersOK'
  BY <1>1, <1>2 DEF SlicesInv, OwnersOK
<1>8. watch' = [watch EXCEPT ![s] = [t \in Topics |->
        IF t \in Abs!Tops(ws) THEN NoWatch ELSE @[t]]]
  <2>1. st.watch = [t \in Topics |-> IF t \in Abs!Tops(ws) THEN NoWatch ELSE watch[s][t]]
    BY <1>3, <1>4
  <2>. QED  BY <1>1, <1>2, <2>1
<1>9. TmapSeen' = [t \in Topics |-> [TmapSeen[t] EXCEPT ![s] =
          IF @ > Abs!Count(ws, t) THEN @ - Abs!Count(ws, t) ELSE 0]]
  <2>1. ASSUME NEW t \in Topics, NEW r \in SubIds
        PROVE  Times(r, list'[t]) =
                 IF r # s THEN Times(r, list[t])
                 ELSE IF Times(r, list[t]) > Abs!Count(ws, t)
                        THEN Times(r, list[t]) - Abs!Count(ws, t) ELSE 0
    BY <1>1, <1>3
  <2>. HIDE DEF s
  <2>. QED  BY <2>1 DEF TmapSeen
<1>10. smap' = Abs!SmapLeft(c, s, ws)
  BY <1>1, <1>3 DEF Abs!SmapLeft
<1>11. BufrSeen' = [BufrSeen EXCEPT ![s] = Abs!Filter(@, ws)]
  <2>. HIDE DEF s
  <2>1. \A r \in SubIds : BufrSeen[r] = [e \in 1..MaxEv |-> Times(e, buf[r])]
    BY <1>1 DEF BufrSeen
  <2>2. \A r \in SubIds : BufrSeen'[r] = [e \in 1..MaxEv |-> Times(e, buf'[r])]
    BY <1>1 DEF BufrSeen
  <2>3. BufrSeen'[s] = Abs!Filter(BufrSeen[s], ws)
    <3>. DEFINE b == buf[s]
    <3>1. b \in Seq(DOMAIN ledger) /\ buf'[s] = Filter(b, ws)
      BY <1>1, <1>2
    <3>. HIDE DEF b
    <3>2. [e \in 1..MaxEv |-> Times(e, Filter(b, ws))] =
            Abs!Filter([e \in 1..MaxEv |-> Times(e, b)], ws)
      BY <1>2, <3>1, FilterSeen
    <3>3. BufrSeen'[s] = [e \in 1..MaxEv |-> Times(e, Filter(b, ws))]
      BY <1>2, <2>2, <3>1
    <3>4. BufrSeen[s] = [e \in 1..MaxEv |-> Times(e, b)]
      BY <1>2, <2>1 DEF b
    <3>. QED  BY <3>2, <3>3, <3>4
  <2>4. \A r \in SubIds : r # s => BufrSeen'[r] = BufrSeen[r]
    BY <1>1, <1>2, <2>1, <2>2
  <2>. QED  BY <2>3, <2>4 DEF BufrSeen
<1>12. GotSeen' = GotSeen /\ SrevSeen' = SrevSeen
  BY <1>1 DEF GotSeen, SrevSeen
<1>13. Abs!UnsubSome(c, ws)
  BY <1>1, <1>8, <1>9, <1>10, <1>11, <1>12
     DEF Abs!UnsubSome, Abs!TmapRemoved, TmapSeen, BufrSeen, GotSeen, SrevSeen
<1>. QED  BY <1>6, <1>7, <1>13 DEF SlicesInv

\* Publish is that of Subs.
LEMMA PublishSeen ==
  ASSUME SlicesInv, NEW c \in Conns, NEW acts \in ActLists, NEW now \in 1..MaxNow,
         Publish(c, acts, now)
  PROVE  SlicesInv' /\ Abs!Publish(c, acts, now)
<1>. DEFINE rev == Abs!NextRev(Abs!LedgerRev, now)
            evs == [i \in DOMAIN acts |->
                      [rev |-> rev, top |-> acts[i].top, key |-> acts[i].key, by |-> c]]
            m == Len(ledger)
            D == DOMAIN ledger'
<1>1. /\ todo = {} /\ todo' = {} /\ acts # <<>> /\ m + Len(acts) <= MaxEv
      /\ ledger' = ledger \o evs /\ buf' = Show(evs, m)
      /\ UNCHANGED <<nsub, owner, smap, watch, srev, bcast, since, list, todo, chan, sent>>
  BY DEF Publish, Idle, objVars
<1>2. /\ TypeOK /\ acts \in Seq(Abs!Act) /\ m \in Nat /\ DOMAIN ledger = 1..m
      /\ ledger \in Seq(Abs!Event) /\ Len(acts) \in Nat /\ DOMAIN acts = 1..Len(acts)
      /\ \A i \in 1..Len(acts) : acts[i] \in Abs!Act
  <2>1. acts \in Seq(Abs!Act)
    BY SubsAssumption
  <2>. QED  BY <2>1, LenProperties, ElementOfSeq, PositionsType DEF SlicesInv, TypeOK
<1>3. rev \in Int
  BY LedgerRevInt, SubsAssumption DEF Abs!NextRev, Abs!Truncate
<1>4. evs \in Seq(Abs!Event) /\ Len(evs) = Len(acts) /\ DOMAIN evs = 1..Len(acts)
  <2>. HIDE DEF rev
  <2>1. \A i \in 1..Len(acts) :
          [rev |-> rev, top |-> acts[i].top, key |-> acts[i].key, by |-> c] \in Abs!Event
    BY <1>2, <1>3 DEF Abs!Act, Abs!Event
  <2>2. evs \in [1..Len(acts) -> Abs!Event]
    BY <1>2, <2>1
  <2>. QED  BY <1>2, <2>2, SeqDef, LenProperties
<1>. HIDE DEF rev, evs
<1>5. /\ ledger' \in Seq(Abs!Event) /\ Len(ledger') = m + Len(acts) /\ D = 1..(m + Len(acts))
      /\ DOMAIN ledger \subseteq D /\ D \subseteq Nat /\ D \subseteq 1..MaxEv
  <2>1. ledger' \in Seq(Abs!Event) /\ Len(ledger') = m + Len(acts)
    <3>1. ledger \o evs \in Seq(Abs!Event) /\ Len(ledger \o evs) = Len(ledger) + Len(evs)
      BY <1>2, <1>4, ConcatProperties
    <3>. QED  BY <1>1, <1>4, <3>1
  <2>2. D = 1..(m + Len(acts))
    BY <2>1, LenProperties
  <2>. QED  BY <1>1, <1>2, <2>1, <2>2, SubsAssumption
<1>6. buf \in Bufs(D) /\ D \in SUBSET Nat /\ \A i \in 1..Len(evs) : m + i \in D
  <2>1. buf \in Bufs(DOMAIN ledger)
    BY <1>2 DEF TypeOK, Bufs
  <2>2. Seq(DOMAIN ledger) \subseteq Seq(D)
    BY <1>5, SeqMonotonic
  <2>3. buf \in Bufs(D)
    BY <2>1, <2>2 DEF Bufs
  <2>. QED  BY <1>2, <1>4, <1>5, <2>3
<1>. HIDE DEF m, D
<1>7. /\ buf' \in Bufs(D)
      /\ \A s \in SubIds, x \in D :
           Times(x, buf'[s]) =
             Times(x, buf[s]) + (IF x - m \in 1..Len(evs) /\ Wants(s, evs[x - m])
                                   THEN Times(s, list[evs[x - m].top]) ELSE 0)
  <2>1. Show(evs, m) \in Bufs(D) /\ \A s \in SubIds, x \in D :
           Times(x, Show(evs, m)[s]) =
             Times(x, buf[s]) + (IF x - m \in 1..Len(evs) /\ Wants(s, evs[x - m])
                                   THEN Times(s, list[evs[x - m].top]) ELSE 0)
    BY <1>2, <1>4, <1>6, ShowIs, Zenon
  <2>. QED  BY <1>1, <2>1
<1>8. TypeOK'
  <2>1. Seq(DOMAIN ledger) \subseteq Seq(D)
    BY <1>5, SeqMonotonic
  <2>2. Seq(Seq(DOMAIN ledger)) \subseteq Seq(Seq(D))
    BY <2>1, SeqMonotonic
  <2>3. chan' \in [Conns -> Seq(Seq(D))] /\ sent' \in [Conns -> Seq(D)] /\ buf' \in [SubIds -> Seq(D)]
    BY <1>1, <1>2, <1>7, <2>1, <2>2 DEF TypeOK, Bufs
  <2>. QED  BY <1>1, <1>2, <1>5, <2>3 DEF TypeOK, D
<1>9. OwnersOK'
  BY <1>1 DEF SlicesInv, OwnersOK
<1>10. BufrSeen' = [s \in SubIds |-> [e \in 1..MaxEv |->
         IF e - m \in DOMAIN acts THEN BufrSeen[s][e] + Abs!Shown(c, s, evs[e - m])
                                  ELSE BufrSeen[s][e]]]
  <2>1. ASSUME NEW s \in SubIds, NEW e \in 1..MaxEv
        PROVE  Times(e, buf'[s]) =
                 IF e - m \in DOMAIN acts THEN Times(e, buf[s]) + Abs!Shown(c, s, evs[e - m])
                                          ELSE Times(e, buf[s])
    <3>1. Times(e, buf[s]) \in Nat
      BY <1>6, TimesType DEF Bufs
    <3>2. CASE e - m \in DOMAIN acts
      <4>. DEFINE ev == evs[e - m]
      <4>1. e \in D /\ e - m \in 1..Len(evs)
        BY <1>2, <1>4, <1>5, <3>2 DEF m
      <4>2. ev.by = c /\ ev.top \in Topics
        BY <1>2, <1>4, <3>2 DEF evs, Abs!Act
      <4>3. Abs!Shown(c, s, ev) = IF Wants(s, ev) THEN Times(s, list[ev.top]) ELSE 0
        BY <4>2 DEF Abs!Shown, Wants
      <4>. HIDE DEF ev
      <4>. QED  BY <1>7, <3>2, <4>1, <4>3 DEF ev
    <3>3. CASE e - m \notin DOMAIN acts
      <4>1. CASE e \in D
        BY <1>2, <1>4, <1>7, <3>1, <3>3, <4>1
      <4>2. CASE e \notin D
        <5>1. Times(e, buf'[s]) = 0 /\ Times(e, buf[s]) = 0
          BY <1>6, <1>7, <4>2, TimesOutside DEF Bufs
        <5>. QED  BY <3>3, <5>1
      <4>. QED  BY <4>1, <4>2
    <3>. QED  BY <3>2, <3>3
  <2>. QED  BY <1>1, <2>1 DEF BufrSeen
<1>11. GotSeen' = GotSeen /\ SrevSeen' = SrevSeen /\ TmapSeen' = TmapSeen
  BY <1>1 DEF GotSeen, SrevSeen, TmapSeen
<1>12. Abs!Publish(c, acts, now)
  BY <1>1, <1>10, <1>11
     DEF Abs!Publish, Abs!subVars, Abs!histVars, Abs!SubIds, Abs!EvIds, SubIds,
         TmapSeen, BufrSeen, GotSeen, SrevSeen, evs, rev, m
<1>. QED  BY <1>8, <1>9, <1>12 DEF SlicesInv

-----------------------------------------------------------------------------
(* The theorems *)

\* Every step keeps the invariant and is one of Subs, or none.
LEMMA StepSeen ==
  ASSUME SlicesInv, [Next]_vars
  PROVE  SlicesInv' /\ [Abs!Next]_(Abs!vars)
<1>1. ASSUME NEW c \in Conns, NEW ws \in WatchLists, Sub(c, ws)
      PROVE  SlicesInv' /\ [Abs!Next]_(Abs!vars)
  <2>1. SlicesInv' /\ (Abs!SubNew(c, ws) \/ Abs!SubMore(c, ws))
    BY <1>1, SubSeen
  <2>. QED  BY <2>1 DEF Abs!Next
<1>2. ASSUME NEW c \in Conns, NEW ws \in WatchLists \cup {<<>>}, Unsub(c, ws)
      PROVE  SlicesInv' /\ [Abs!Next]_(Abs!vars)
  <2>1. CASE ws = <<>>
    <3>1. Unsub(c, <<>>)
      BY <1>2, <2>1
    <3>2. SlicesInv' /\ Abs!UnsubAll(c)
      BY <3>1, UnsubAllSeen
    <3>. QED  BY <3>2 DEF Abs!Next
  <2>2. CASE ws # <<>>
    <3>1. ws \in WatchLists
      BY <2>2
    <3>2. SlicesInv' /\ Abs!UnsubSome(c, ws)
      BY <1>2, <2>2, <3>1, UnsubSomeSeen
    <3>. QED  BY <3>1, <3>2 DEF Abs!Next
  <2>. QED  BY <2>1, <2>2
<1>3. ASSUME NEW c \in Conns, NEW acts \in ActLists, NEW now \in 1..MaxNow, Publish(c, acts, now)
      PROVE  SlicesInv' /\ [Abs!Next]_(Abs!vars)
  <2>1. SlicesInv' /\ Abs!Publish(c, acts, now)
    BY <1>3, PublishSeen
  <2>. QED  BY <2>1 DEF Abs!Next
<1>4. ASSUME Bcast
      PROVE  SlicesInv' /\ [Abs!Next]_(Abs!vars)
  BY <1>4, BcastSeen DEF Abs!Next
<1>5. ASSUME NEW s \in SubIds, Update(s)
      PROVE  SlicesInv' /\ [Abs!Next]_(Abs!vars)
  BY <1>5, UpdateSeen
<1>6. ASSUME NEW c \in Conns, Take(c)
      PROVE  SlicesInv' /\ [Abs!Next]_(Abs!vars)
  BY <1>6, TakeSeen
<1>7. ASSUME UNCHANGED vars
      PROVE  SlicesInv' /\ [Abs!Next]_(Abs!vars)
  <2>1. UNCHANGED <<ledger, nsub, owner, watch, smap, srev, bcast, since, list, buf, todo, chan, sent>>
    BY <1>7 DEF vars, objVars
  <2>2. SlicesInv'
    BY <2>1 DEF SlicesInv, TypeOK, OwnersOK
  <2>3. BufrSeen' = BufrSeen /\ SrevSeen' = SrevSeen /\ GotSeen' = GotSeen
    BY <2>1 DEF BufrSeen, SrevSeen, GotSeen
  <2>. QED  BY <2>1, <2>2, <2>3, SeenUnchanged
<1>. QED  BY <1>1, <1>2, <1>3, <1>4, <1>5, <1>6, <1>7 DEF Next

\* Buffers, updates and what was sent hold positions of the ledger only, channels stay within
\* their capacity, and an unfinished broadcast has subscribers of connections to go to
\* (subs.go:20-33, 136-164).
THEOREM SlicesInvariant == Spec => []SlicesInv
<1>1. Init => SlicesInv
  BY InitSeen
<1>2. SlicesInv /\ [Next]_vars => SlicesInv'
  BY StepSeen
<1>. QED  BY <1>1, <1>2, PTL DEF Spec

\* The slices and loops of the code do what Subs says: every step of Sub, Unsub, Show and
\* Bcast, entry by entry and channel by channel, is one of Subs or none (subs.go:9-164).
THEOREM SlicesImplementSubs == Spec => ImplementsSubs
<1>1. Init => Abs!Init
  BY InitSeen
<1>2. SlicesInv /\ [Next]_vars => [Abs!Next]_(Abs!vars)
  BY StepSeen
<1>. QED  BY <1>1, <1>2, SlicesInvariant, PTL DEF Spec, ImplementsSubs, Abs!Spec

-----------------------------------------------------------------------------
(* What is proved about Subs holds of the slices *)

\* Subs with what is proved about it, as the slices implement it.
P == INSTANCE SubsProofs WITH
  tmap <- [t \in Topics |-> [s \in SubIds |-> Times(s, list[t])]],
  bufr <- [s \in SubIds |-> [e \in 1..MaxEv |-> IF s \in todo THEN 0 ELSE Times(e, buf[s])]],
  srev <- [s \in SubIds |-> IF s \in todo THEN bcast ELSE srev[s]],
  got  <- [c \in Conns |-> [e \in 1..MaxEv |->
             Times(e, sent[c]) + (IF smap[c] \in todo THEN Times(e, buf[smap[c]]) ELSE 0)]]

\* What Subs assumes of its constants.
LEMMA SubsAssumptions ==
  P!BoundsAssumption /\ P!InputAssumption /\ P!NoWatchAssumption /\ P!ConnsAssumption
<1>1. Abs!Watch = P!Watch /\ Abs!Act = P!Act
  BY DEF Abs!Watch, P!Watch, Abs!Act, P!Act
<1>2. P!BoundsAssumption
  BY SubsAssumption
<1>3. P!ConnsAssumption
  BY SubsAssumption
<1>4. P!InputAssumption
  BY <1>1, SubsAssumption
<1>5. P!NoWatchAssumption
  BY <1>1, SubsAssumption
<1>. QED  BY <1>2, <1>3, <1>4, <1>5

\* Both instances are Subs.
LEMMA SameInit == Abs!Init => P!Init
BY DEF Abs!Init, P!Init, Abs!SubIds, P!SubIds, Abs!EvIds, P!EvIds, Abs!NoSub, P!NoSub

LEMMA SameNext == [Abs!Next]_(Abs!vars) => [P!Next]_(P!vars)
<1>1. Abs!vars = P!vars
  BY DEF Abs!vars, P!vars, Abs!subVars, P!subVars, Abs!histVars, P!histVars
<1>2. ASSUME UNCHANGED Abs!vars
      PROVE  UNCHANGED P!vars
  BY <1>2 DEF Abs!vars, P!vars, Abs!subVars, P!subVars, Abs!histVars, P!histVars
<1>3. ASSUME NEW c \in Conns, NEW ws \in WatchLists, Abs!UnsubSome(c, ws)
      PROVE  P!UnsubSome(c, ws)
  BY <1>3 DEF Abs!UnsubSome, P!UnsubSome, Abs!TmapRemoved, P!TmapRemoved, Abs!Count, P!Count,
       Abs!Cardinality, P!Cardinality, Abs!SmapLeft, P!SmapLeft, Abs!Filter, P!Filter,
       Abs!Tops, P!Tops, Abs!EvIds, P!EvIds, Abs!NoSub, P!NoSub
<1>4. ASSUME NEW c \in Conns, Abs!UnsubAll(c)
      PROVE  P!UnsubAll(c)
  BY <1>4 DEF Abs!UnsubAll, P!UnsubAll, Abs!NoSub, P!NoSub
<1>5. ASSUME NEW c \in Conns, NEW acts \in ActLists, NEW now \in 1..MaxNow, Abs!Publish(c, acts, now)
      PROVE  P!Publish(c, acts, now)
  BY <1>5 DEF Abs!Publish, P!Publish, Abs!NextRev, P!NextRev, Abs!Truncate, P!Truncate,
       Abs!LedgerRev, P!LedgerRev, Abs!Shown, P!Shown, Abs!Accept, P!Accept, Abs!SubIds, P!SubIds,
       Abs!EvIds, P!EvIds, Abs!subVars, P!subVars, Abs!histVars, P!histVars
<1>6. ASSUME Abs!Bcast
      PROVE  P!Bcast
  BY <1>6 DEF Abs!Bcast, P!Bcast, Abs!LedgerRev, P!LedgerRev, Abs!Left, P!Left, Abs!SubIds, P!SubIds,
       Abs!EvIds, P!EvIds, Abs!NoSub, P!NoSub
<1>7. ASSUME Abs!Next
      PROVE  P!Next
  <2>1. ASSUME NEW c \in Conns, NEW ws \in WatchLists, Abs!SubNew(c, ws)
        PROVE  P!SubNew(c, ws)
    BY <2>1 DEF Abs!SubNew, P!SubNew, Abs!SubWith, P!SubWith, Abs!Tops, P!Tops, Abs!LastAsk,
         P!LastAsk, Abs!Stored, P!Stored, Abs!TmapAdded, P!TmapAdded, Abs!Filter, P!Filter,
         Abs!EvIds, P!EvIds, Abs!NoSub, P!NoSub
  <2>2. ASSUME NEW c \in Conns, NEW ws \in WatchLists, Abs!SubMore(c, ws)
        PROVE  P!SubMore(c, ws)
    BY <2>2 DEF Abs!SubMore, P!SubMore, Abs!SubWith, P!SubWith, Abs!Tops, P!Tops, Abs!LastAsk,
         P!LastAsk, Abs!Stored, P!Stored, Abs!TmapAdded, P!TmapAdded, Abs!Filter, P!Filter,
         Abs!EvIds, P!EvIds, Abs!NoSub, P!NoSub
  <2>. QED  BY <1>3, <1>4, <1>5, <1>6, <1>7, <2>1, <2>2 DEF Abs!Next, P!Next
<1>. QED  BY <1>2, <1>7

\* The invariant of Subs.
LEMMA SubsInv == Spec => []P!Inv
<1>1. Init => P!Init
  BY InitSeen, SameInit
<1>2. SlicesInv /\ [Next]_vars => [P!Next]_(P!vars)
  BY StepSeen, SameNext
<1>3. P!Spec => []P!Inv
  BY P!SubsInvariant, SubsAssumptions, PTL
<1>. QED  BY <1>1, <1>2, <1>3, SlicesInvariant, PTL DEF Spec, P!Spec

-----------------------------------------------------------------------------
(* What waits for a connection *)

\* All events of u are of revisions before those of v, by the ledger l.
Apart(l, u, v) == \A x \in Range(u), y \in Range(v) : l[x].rev < l[y].rev

\* What a connection was sent, the updates in its channel and what its buffer holds are in
\* the order of the ledger l, and each begins with a later revision.
InLine(l, snt, ch, b) ==
  /\ InOrder(snt) /\ InOrder(b)
  /\ \A x \in Range(snt), y \in Range(b) : x <= y
  /\ \A i, j \in DOMAIN ch : i < j => Apart(l, ch[i], ch[j])
  /\ \A i \in DOMAIN ch : Apart(l, ch[i], b)

\* The buffer of a connection's subscriber.
Pending(c) == IF smap[c] = Abs!NoSub THEN <<>> ELSE buf[smap[c]]

WaitInv == \A c \in Conns : InLine(ledger, sent[c], chan[c], Pending(c))

\* A buffer with less in it.
LEMMA LineFewer ==
  ASSUME NEW l, NEW snt, NEW ch, NEW b, NEW d, InLine(l, snt, ch, b),
         InOrder(d), Range(d) \subseteq Range(b)
  PROVE  InLine(l, snt, ch, d)
<1>1. ASSUME NEW i \in DOMAIN ch
      PROVE  Apart(l, ch[i], d)
  BY DEF InLine, Apart
<1>. QED  BY <1>1 DEF InLine

\* Two sequences in order, one after the other.
LEMMA InOrderConcat ==
  ASSUME NEW s \in Seq(Nat), NEW t \in Seq(Nat), InOrder(s), InOrder(t),
         \A x \in Range(s), y \in Range(t) : x <= y
  PROVE  InOrder(s \o t)
<1>. DEFINE u == s \o t
            n == Len(s)
<1>1. /\ n \in Nat /\ DOMAIN s = 1..n /\ Len(t) \in Nat /\ DOMAIN t = 1..Len(t)
      /\ u \in Seq(Nat) /\ Len(u) = n + Len(t)
      /\ \A i \in 1..(n + Len(t)) : u[i] = IF i <= n THEN s[i] ELSE t[i - n]
  BY LenProperties, ConcatProperties
<1>. HIDE DEF u
<1>2. DOMAIN u = 1..(n + Len(t))
  BY <1>1, LenProperties
<1>. HIDE DEF n
<1>3. ASSUME NEW i \in DOMAIN u, NEW j \in DOMAIN u, i < j
      PROVE  u[i] <= u[j]
  <2>1. CASE j <= n
    <3>1. i \in DOMAIN s /\ j \in DOMAIN s /\ u[i] = s[i] /\ u[j] = s[j]
      BY <1>1, <1>2, <1>3, <2>1
    <3>. QED  BY <1>3, <3>1 DEF InOrder
  <2>2. CASE i <= n /\ ~(j <= n)
    <3>1. i \in DOMAIN s /\ j - n \in DOMAIN t /\ u[i] = s[i] /\ u[j] = t[j - n]
      BY <1>1, <1>2, <1>3, <2>2
    <3>2. s[i] \in Range(s) /\ t[j - n] \in Range(t)
      BY <3>1 DEF Range
    <3>. QED  BY <3>1, <3>2
  <2>3. CASE ~(i <= n)
    <3>1. i - n \in DOMAIN t /\ j - n \in DOMAIN t /\ i - n < j - n /\ u[i] = t[i - n] /\ u[j] = t[j - n]
      <4>1. /\ i \in 1..(n + Len(t)) /\ j \in 1..(n + Len(t)) /\ ~(j <= n)
            /\ i - n \in 1..Len(t) /\ j - n \in 1..Len(t) /\ i - n < j - n
        BY <1>1, <1>2, <1>3, <2>3
      <4>. QED  BY <1>1, <2>3, <4>1
    <3>. QED  BY <3>1 DEF InOrder
  <2>. QED  BY <1>1, <1>2, <2>1, <2>2, <2>3
<1>. QED  BY <1>3 DEF InOrder, u

\* The buffer goes into the channel, and is sent.
LEMMA LineSent ==
  ASSUME NEW l, NEW D \in SUBSET Nat, NEW snt \in Seq(D), NEW ch \in Seq(Seq(D)), NEW b \in Seq(D),
         InLine(l, snt, ch, b)
  PROVE  InLine(l, snt \o b, Append(ch, b), <<>>)
<1>1. InOrder(snt \o b)
  <2>1. snt \in Seq(Nat) /\ b \in Seq(Nat)
    BY SeqMonotonic
  <2>. QED  BY <2>1, InOrderConcat DEF InLine
<1>2. InOrder(<<>>) /\ Range(<<>>) = {}
  BY DEF InOrder, Range
<1>. DEFINE n == Len(ch)
            q == Append(ch, b)
<1>3. /\ n \in Nat /\ DOMAIN ch = 1..n /\ DOMAIN q = 1..(n + 1) /\ q[n + 1] = b
      /\ \A i \in DOMAIN ch : q[i] = ch[i]
  BY AppendIs
<1>. HIDE DEF n, q
<1>4. ASSUME NEW i \in DOMAIN q, NEW j \in DOMAIN q, i < j
      PROVE  Apart(l, q[i], q[j])
  <2>1. i \in DOMAIN ch /\ q[i] = ch[i]
    BY <1>3, <1>4
  <2>2. CASE j = n + 1
    BY <1>3, <2>1, <2>2 DEF InLine
  <2>3. CASE j # n + 1
    <3>1. j \in DOMAIN ch /\ q[j] = ch[j]
      BY <1>3, <2>3
    <3>. QED  BY <1>4, <2>1, <3>1 DEF InLine
  <2>. QED  BY <2>2, <2>3
<1>5. \A i \in DOMAIN q : Apart(l, q[i], <<>>)
  BY <1>2 DEF Apart
<1>. QED  BY <1>1, <1>2, <1>4, <1>5 DEF InLine, q

\* The connection takes the first update.
LEMMA LineTaken ==
  ASSUME NEW l, NEW snt, NEW S, NEW ch \in Seq(S), ch # <<>>, NEW b, InLine(l, snt, ch, b)
  PROVE  InLine(l, snt, Tail(ch), b)
<1>. DEFINE q == Tail(ch)
<1>1. /\ Len(ch) \in Nat /\ DOMAIN ch = 1..Len(ch) /\ q \in Seq(S) /\ Len(q) = Len(ch) - 1
      /\ \A i \in 1..Len(q) : q[i] = ch[i + 1]
  BY HeadTailProperties, LenProperties
<1>. HIDE DEF q
<1>2. DOMAIN q = 1..(Len(ch) - 1)
  BY <1>1, LenProperties
<1>3. \A i \in DOMAIN q : i + 1 \in DOMAIN ch /\ q[i] = ch[i + 1] /\ i \in Nat
  BY <1>1, <1>2
<1>4. ASSUME NEW i \in DOMAIN q, NEW j \in DOMAIN q, i < j
      PROVE  Apart(l, q[i], q[j])
  <2>1. i + 1 \in DOMAIN ch /\ j + 1 \in DOMAIN ch /\ i + 1 < j + 1
    BY <1>3, <1>4
  <2>. QED  BY <1>3, <2>1 DEF InLine
<1>5. \A i \in DOMAIN q : Apart(l, q[i], b)
  BY <1>3 DEF InLine
<1>. QED  BY <1>4, <1>5 DEF InLine, q

\* The ledger k has the events D of l at their places up to m, all before revision rev.
Extends(l, k, D, m, rev) ==
  \A x \in D : x <= m /\ k[x] = l[x] /\ l[x].rev \in Int /\ l[x].rev < rev

\* What d has more than b are events of k after m, of revision rev.
OldOrNew(k, m, rev, b, d) ==
  \A y \in Range(d) : y \in Range(b) \/ (y \in Nat /\ y > m /\ k[y].rev = rev)

\* The ledger grows, and the buffer by new events of one later revision.
LEMMA LineGrows ==
  ASSUME NEW l, NEW k, NEW D \in SUBSET Nat, NEW snt \in Seq(D), NEW ch \in Seq(Seq(D)),
         NEW b \in Seq(D), InLine(l, snt, ch, b),
         NEW m \in Nat, NEW rev \in Int, Extends(l, k, D, m, rev),
         NEW d, InOrder(d), OldOrNew(k, m, rev, b, d)
  PROVE  InLine(k, snt, ch, d)
<1>. USE DEF Extends, OldOrNew
<1>1. Range(snt) \subseteq D /\ Range(b) \subseteq D
  BY LenProperties, ElementOfSeq DEF Range
<1>2. \A i \in DOMAIN ch : Range(ch[i]) \subseteq D
  <2>. SUFFICES ASSUME NEW i \in DOMAIN ch
                PROVE  Range(ch[i]) \subseteq D
    OBVIOUS
  <2>1. ch[i] \in Seq(D)
    BY LenProperties, ElementOfSeq
  <2>. QED  BY <2>1, LenProperties, ElementOfSeq DEF Range
<1>3. \A x \in Range(snt), y \in Range(d) : x <= y
  <2>. SUFFICES ASSUME NEW x \in Range(snt), NEW y \in Range(d)
                PROVE  x <= y
    OBVIOUS
  <2>1. CASE y \in Range(b)
    BY <2>1 DEF InLine
  <2>2. CASE y \in Nat /\ y > m
    <3>1. x \in Nat /\ x <= m
      BY <1>1
    <3>. QED  BY <2>2, <3>1
  <2>. QED  BY <2>1, <2>2
<1>4. ASSUME NEW i \in DOMAIN ch, NEW j \in DOMAIN ch, i < j
      PROVE  Apart(k, ch[i], ch[j])
  BY <1>2, <1>4 DEF InLine, Apart
<1>5. ASSUME NEW i \in DOMAIN ch
      PROVE  Apart(k, ch[i], d)
  <2>. SUFFICES ASSUME NEW x \in Range(ch[i]), NEW y \in Range(d)
                PROVE  k[x].rev < k[y].rev
    BY DEF Apart
  <2>1. x \in D
    BY <1>2
  <2>2. CASE y \in Range(b)
    <3>1. y \in D /\ l[x].rev < l[y].rev
      BY <1>1, <2>2 DEF InLine, Apart
    <3>. QED  BY <2>1, <3>1
  <2>3. CASE k[y].rev = rev
    BY <2>1, <2>3
  <2>. QED  BY <2>2, <2>3
<1>. QED  BY <1>3, <1>4, <1>5 DEF InLine

\* What a filtered buffer holds was there before.
LEMMA FilterFewer ==
  ASSUME TypeOK, NEW b \in Seq(DOMAIN ledger), NEW ws
  PROVE  Range(Filter(b, ws)) \subseteq Range(b)
<1>1. Filter(b, ws) \in Seq(DOMAIN ledger)
  BY FilterIs
<1>2. ASSUME NEW x \in Range(Filter(b, ws))
      PROVE  x \in Range(b)
  <2>1. PICK i \in DOMAIN Filter(b, ws) : Filter(b, ws)[i] = x
    BY DEF Range
  <2>2. x \in DOMAIN ledger
    BY <1>1, <2>1, LenProperties, ElementOfSeq
  <2>3. Times(x, Filter(b, ws)) > 0
    BY <1>1, <2>1, TimesType
  <2>4. Times(x, b) > 0
    <3>1. Times(x, Filter(b, ws)) = IF ledger[x].top \in Abs!Tops(ws) THEN 0 ELSE Times(x, b)
      BY <2>2, FilterIs
    <3>. QED  BY <2>3, <3>1
  <2>. QED  BY <2>4, TimesType DEF Range
<1>. QED  BY <1>2

\* The buffer of a subscriber that is yet to be made is empty.
LEMMA UnmadeEmpty ==
  ASSUME SlicesInv, P!Inv, Idle, NEW s \in SubIds, s > nsub
  PROVE  InOrder(buf[s]) /\ Range(buf[s]) = {}
<1>1. buf[s] \in Seq(DOMAIN ledger) /\ DOMAIN ledger \subseteq 1..MaxEv /\ todo = {}
  BY PositionsType DEF SlicesInv, TypeOK, Idle
<1>2. \A e \in 1..MaxEv : BufrSeen[s][e] = 0
  BY DEF P!Inv, P!SubscribersOK, P!SubIds, P!EvIds, SubIds, BufrSeen
<1>3. \A e \in 1..MaxEv : Times(e, buf[s]) = 0
  BY <1>1, <1>2 DEF BufrSeen
<1>4. ASSUME NEW i \in DOMAIN buf[s]
      PROVE  FALSE
  <2>1. buf[s][i] \in 1..MaxEv
    BY <1>1, LenProperties, ElementOfSeq
  <2>2. Times(buf[s][i], buf[s]) > 0
    BY <1>1, TimesType
  <2>. QED  BY <1>3, <2>1, <2>2
<1>. QED  BY <1>4 DEF InOrder, Range

\* Sub leaves less in a buffer, or starts with an empty one.
LEMMA SubWaits ==
  ASSUME SlicesInv, P!Inv, WaitInv, NEW c \in Conns, NEW ws \in WatchLists, Sub(c, ws)
  PROVE  WaitInv'
<1>1. /\ Idle /\ TypeOK /\ smap \in [Conns -> {Abs!NoSub} \cup SubIds]
      /\ buf \in [SubIds -> Seq(DOMAIN ledger)] /\ nsub \in 0..MaxSubs /\ MaxSubs \in Nat
  BY SubsAssumption DEF Sub, SlicesInv, TypeOK
<1>2. /\ \A d \in Conns : smap[d] # Abs!NoSub =>
           smap[d] \in SubIds /\ owner[smap[d]] = d /\ smap[d] <= nsub
      /\ Abs!NoSub \notin SubIds
  BY OwnersAre DEF SlicesInv, OwnersOK
<1>3. PICK s \in SubIds : /\ SubWith(c, s, ws)
                          /\ \/ smap[c] = s
                             \/ smap[c] = Abs!NoSub /\ s = nsub + 1
  <2>1. CASE smap[c] # Abs!NoSub /\ SubWith(c, smap[c], ws)
    <3>. SUFFICES \A s \in SubIds : s = smap[c] => SubWith(c, s, ws)
      BY <1>2, <2>1
    <3>. QED  BY <2>1 DEF SubWith
  <2>2. CASE smap[c] = Abs!NoSub /\ nsub < MaxSubs /\ SubWith(c, nsub + 1, ws)
    <3>1. nsub + 1 \in SubIds
      BY <1>1, <2>2 DEF SubIds
    <3>. SUFFICES \A s \in SubIds : s = nsub + 1 => SubWith(c, s, ws)
      BY <2>2, <3>1
    <3>. QED  BY <2>2 DEF SubWith
  <2>. QED  BY <2>1, <2>2 DEF Sub
<1>4. /\ smap' = [smap EXCEPT ![c] = s] /\ buf' = [buf EXCEPT ![s] = Filter(@, ws)]
      /\ UNCHANGED <<ledger, chan, sent>>
  BY <1>3 DEF SubWith
<1>5. ASSUME NEW d \in Conns
      PROVE  InLine(ledger', sent'[d], chan'[d], Pending(d)')
  <2>1. InLine(ledger, sent[d], chan[d], Pending(d))
    BY DEF WaitInv
  <2>2. InOrder(Pending(d)') /\ Range(Pending(d)') \subseteq Range(Pending(d))
    <3>1. CASE d = c
      <4>1. Pending(d)' = Filter(buf[s], ws)
        BY <1>1, <1>2, <1>4, <3>1 DEF Pending, Abs!NoSub
      <4>2. /\ InOrder(buf[s]) => InOrder(Filter(buf[s], ws))
            /\ Range(Filter(buf[s], ws)) \subseteq Range(buf[s])
        BY <1>1, FilterIs, FilterFewer
      <4>3. CASE smap[c] = s
        <5>1. Pending(d) = buf[s]
          BY <1>2, <3>1, <4>3 DEF Pending
        <5>. QED  BY <2>1, <4>1, <4>2, <5>1 DEF InLine
      <4>4. CASE smap[c] = Abs!NoSub /\ s = nsub + 1
        <5>1. s > nsub
          BY <1>1, <4>4
        <5>2. InOrder(buf[s]) /\ Range(buf[s]) = {}
          BY <1>1, <5>1, UnmadeEmpty
        <5>. QED  BY <4>1, <4>2, <5>2
      <4>. QED  BY <1>3, <4>3, <4>4
    <3>2. CASE d # c
      <4>1. smap'[d] = smap[d] /\ smap[d] # s
        <5>1. smap'[d] = smap[d]
          BY <1>1, <1>4, <3>2
        <5>2. ASSUME smap[d] = s
              PROVE  FALSE
          <6>1. owner[s] = d /\ s <= nsub
            BY <1>2, <5>2
          <6>. QED  BY <1>1, <1>2, <1>3, <3>2, <6>1
        <5>. QED  BY <5>1, <5>2
      <4>2. Pending(d)' = Pending(d)
        BY <1>1, <1>4, <4>1 DEF Pending, Abs!NoSub
      <4>. QED  BY <2>1, <4>2 DEF InLine
    <3>. QED  BY <3>1, <3>2
  <2>3. ledger' = ledger /\ sent'[d] = sent[d] /\ chan'[d] = chan[d]
    BY <1>4
  <2>. QED  BY <2>1, <2>2, <2>3, LineFewer
<1>. QED  BY <1>5 DEF WaitInv

\* Unsub leaves less in a buffer, or forgets it.
LEMMA UnsubWaits ==
  ASSUME SlicesInv, WaitInv, NEW c \in Conns, NEW ws \in WatchLists \cup {<<>>}, Unsub(c, ws)
  PROVE  WaitInv'
<1>. DEFINE s == smap[c]
<1>1. /\ TypeOK /\ smap \in [Conns -> {Abs!NoSub} \cup SubIds]
      /\ buf \in [SubIds -> Seq(DOMAIN ledger)]
      /\ \A d \in Conns : smap[d] # Abs!NoSub => smap[d] \in SubIds /\ owner[smap[d]] = d
      /\ Abs!NoSub \notin SubIds /\ s # Abs!NoSub
  BY OwnersAre DEF SlicesInv, TypeOK, Unsub
<1>2. /\ smap' = [smap EXCEPT ![c] = Abs!NoSub] \/ smap' = smap
      /\ buf' = buf \/ buf' = [buf EXCEPT ![s] = Filter(@, ws)]
      /\ UNCHANGED <<ledger, chan, sent>>
  BY DEF Unsub
<1>. HIDE DEF s
<1>3. ASSUME NEW d \in Conns
      PROVE  InLine(ledger', sent'[d], chan'[d], Pending(d)')
  <2>1. InLine(ledger, sent[d], chan[d], Pending(d))
    BY DEF WaitInv
  <2>2. InOrder(Pending(d)') /\ Range(Pending(d)') \subseteq Range(Pending(d))
    <3>1. CASE smap'[d] = Abs!NoSub
      <4>1. Pending(d)' = <<>>
        BY <3>1 DEF Pending, Abs!NoSub
      <4>. QED  BY <4>1 DEF InOrder, Range
    <3>2. CASE smap'[d] # Abs!NoSub
      <4>1. smap'[d] = smap[d] /\ smap[d] \in SubIds
        BY <1>1, <1>2, <3>2
      <4>2. Pending(d) = buf[smap[d]] /\ Pending(d)' = buf'[smap[d]]
        BY <3>2, <4>1 DEF Pending, Abs!NoSub
      <4>3. CASE buf'[smap[d]] = buf[smap[d]]
        BY <2>1, <4>2, <4>3 DEF InLine
      <4>4. CASE buf'[smap[d]] = Filter(buf[smap[d]], ws)
        <5>1. buf[smap[d]] \in Seq(DOMAIN ledger)
          BY <1>1, <4>1
        <5>2. /\ InOrder(buf[smap[d]]) => InOrder(Filter(buf[smap[d]], ws))
              /\ Range(Filter(buf[smap[d]], ws)) \subseteq Range(buf[smap[d]])
          BY <1>1, <5>1, FilterIs, FilterFewer
        <5>. QED  BY <2>1, <4>2, <4>4, <5>2 DEF InLine
      <4>. QED  BY <1>1, <1>2, <4>1, <4>3, <4>4
    <3>. QED  BY <3>1, <3>2
  <2>3. ledger' = ledger /\ sent'[d] = sent[d] /\ chan'[d] = chan[d]
    BY <1>2
  <2>. QED  BY <2>1, <2>2, <2>3, LineFewer
<1>. QED  BY <1>3 DEF WaitInv

\* A broadcast reaches a subscriber.
LEMMA UpdateWaits ==
  ASSUME SlicesInv, WaitInv, NEW s \in SubIds, Update(s)
  PROVE  WaitInv'
<1>. DEFINE c == owner[s]
            D == DOMAIN ledger
<1>1. /\ UNCHANGED <<ledger, smap>> /\ s \in todo
      /\ chan' = [chan EXCEPT ![c] = Append(@, buf[s])]
      /\ sent' = [sent EXCEPT ![c] = @ \o buf[s]]
      /\ buf' = [buf EXCEPT ![s] = <<>>]
  BY DEF Update, objVars
<1>2. /\ c \in Conns /\ smap[c] = s /\ s # Abs!NoSub
      /\ \A d \in Conns : smap[d] = s => d = c
      /\ \A d \in Conns : smap[d] # Abs!NoSub => smap[d] \in SubIds
  BY <1>1, OwnersAre
<1>3. /\ chan \in [Conns -> Seq(Seq(D))] /\ sent \in [Conns -> Seq(D)]
      /\ buf \in [SubIds -> Seq(D)] /\ D \in SUBSET Nat
  BY PositionsType DEF SlicesInv, TypeOK
<1>. HIDE DEF c, D
<1>4. ASSUME NEW d \in Conns
      PROVE  InLine(ledger', sent'[d], chan'[d], Pending(d)')
  <2>1. InLine(ledger, sent[d], chan[d], Pending(d)) /\ ledger' = ledger
    BY <1>1 DEF WaitInv
  <2>2. CASE d = c
    <3>1. /\ Pending(d) = buf[s] /\ Pending(d)' = <<>>
          /\ sent'[d] = sent[d] \o buf[s] /\ chan'[d] = Append(chan[d], buf[s])
      BY <1>1, <1>2, <1>3, <2>2 DEF Pending, Abs!NoSub
    <3>2. sent[d] \in Seq(D) /\ chan[d] \in Seq(Seq(D)) /\ buf[s] \in Seq(D)
      BY <1>3
    <3>. QED  BY <1>3, <2>1, <3>1, <3>2, LineSent
  <2>3. CASE d # c
    <3>1. /\ smap[d] # s /\ sent'[d] = sent[d] /\ chan'[d] = chan[d]
      BY <1>1, <1>2, <1>3, <2>3
    <3>2. Pending(d)' = Pending(d)
      BY <1>1, <1>2, <1>3, <3>1 DEF Pending, Abs!NoSub
    <3>. QED  BY <2>1, <3>1, <3>2
  <2>. QED  BY <2>2, <2>3
<1>. QED  BY <1>4 DEF WaitInv

\* A connection takes an update.
LEMMA TakeWaits ==
  ASSUME SlicesInv, WaitInv, NEW c \in Conns, Take(c)
  PROVE  WaitInv'
<1>1. /\ UNCHANGED <<ledger, smap, buf, sent>>
      /\ chan' = [chan EXCEPT ![c] = Tail(@)] /\ chan[c] # <<>>
      /\ chan \in [Conns -> Seq(Seq(DOMAIN ledger))]
  BY DEF Take, objVars, SlicesInv, TypeOK
<1>2. ASSUME NEW d \in Conns
      PROVE  InLine(ledger', sent'[d], chan'[d], Pending(d)')
  <2>1. /\ InLine(ledger, sent[d], chan[d], Pending(d))
        /\ ledger' = ledger /\ sent'[d] = sent[d] /\ Pending(d)' = Pending(d)
    BY <1>1 DEF WaitInv, Pending, Abs!NoSub
  <2>2. CASE d = c
    <3>1. chan'[d] = Tail(chan[d]) /\ chan[d] \in Seq(Seq(DOMAIN ledger)) /\ chan[d] # <<>>
      BY <1>1, <2>2
    <3>. QED  BY <2>1, <3>1, LineTaken
  <2>3. CASE d # c
    BY <1>1, <2>1, <2>3
  <2>. QED  BY <2>2, <2>3
<1>. QED  BY <1>2 DEF WaitInv

\* Nothing that waits changes.
LEMMA SameWaits ==
  ASSUME WaitInv, UNCHANGED <<ledger, smap, buf, chan, sent>>
  PROVE  WaitInv'
<1>1. \A d \in Conns : /\ ledger' = ledger /\ sent'[d] = sent[d] /\ chan'[d] = chan[d]
                       /\ Pending(d)' = Pending(d)
  BY DEF Pending, Abs!NoSub
<1>. QED  BY <1>1 DEF WaitInv

\* Published events come after all others, and of a later revision.
LEMMA PublishWaits ==
  ASSUME SlicesInv, P!Inv, WaitInv,
         NEW c \in Conns, NEW acts \in ActLists, NEW now \in 1..MaxNow, Publish(c, acts, now)
  PROVE  WaitInv'
<1>. DEFINE rev == Abs!NextRev(Abs!LedgerRev, now)
            evs == [i \in DOMAIN acts |->
                      [rev |-> rev, top |-> acts[i].top, key |-> acts[i].key, by |-> c]]
            m == Len(ledger)
            n == Len(acts)
            D == DOMAIN ledger
<1>1. /\ ledger' = ledger \o evs /\ buf' = Show(evs, m)
      /\ UNCHANGED <<smap, chan, sent>>
  BY DEF Publish, objVars
<1>2. /\ TypeOK /\ acts \in Seq(Abs!Act) /\ m \in Nat /\ D = 1..m /\ D \in SUBSET Nat
      /\ ledger \in Seq(Abs!Event) /\ n \in Nat /\ DOMAIN acts = 1..n
      /\ \A i \in 1..n : acts[i] \in Abs!Act
      /\ \A x \in D : ledger[x].rev \in Int
  <2>1. acts \in Seq(Abs!Act)
    BY SubsAssumption
  <2>. QED  BY <2>1, LenProperties, ElementOfSeq, PositionsType DEF SlicesInv, TypeOK
<1>3. rev \in Int /\ \A x \in D : ledger[x].rev < rev
  <2>1. /\ P!LedgerRev \in Int /\ \A x \in D : ledger[x].rev <= P!LedgerRev
    BY P!LedgerRevLatest, SubsAssumptions DEF P!Inv
  <2>2. /\ P!NextRev(P!LedgerRev, now) \in Int /\ P!NextRev(P!LedgerRev, now) > P!LedgerRev
    <3>1. \A last \in Int : P!NextRev(last, now) \in Int /\ P!NextRev(last, now) > last
      BY P!NextRevAfter, SubsAssumptions
    <3>. QED  BY <2>1, <3>1
  <2>3. P!NextRev(P!LedgerRev, now) = rev
    BY DEF P!NextRev, Abs!NextRev, P!Truncate, Abs!Truncate, P!LedgerRev, Abs!LedgerRev
  <2>4. \A x \in D : ledger[x].rev \in Int
    BY <1>2
  <2>. HIDE DEF rev, D
  <2>. QED  BY <2>1, <2>2, <2>3, <2>4
<1>4. evs \in Seq(Abs!Event) /\ Len(evs) = n /\ \A i \in 1..n : evs[i].rev = rev
  <2>. HIDE DEF rev
  <2>1. \A i \in 1..n :
          [rev |-> rev, top |-> acts[i].top, key |-> acts[i].key, by |-> c] \in Abs!Event
    BY <1>2, <1>3 DEF Abs!Act, Abs!Event
  <2>2. evs \in [1..n -> Abs!Event]
    BY <1>2, <2>1
  <2>3. \A i \in 1..n : evs[i].rev = rev
    BY <1>2
  <2>. QED  BY <1>2, <2>2, <2>3, SeqDef, LenProperties
<1>. HIDE DEF rev, evs
<1>5. /\ ledger \o evs \in Seq(Abs!Event) /\ Len(ledger \o evs) = m + n
      /\ \A x \in 1..(m + n) : ledger'[x] = IF x <= m THEN ledger[x] ELSE evs[x - m]
  <2>1. /\ ledger \o evs \in Seq(Abs!Event) /\ Len(ledger \o evs) = m + Len(evs)
        /\ \A x \in 1..(m + Len(evs)) : (ledger \o evs)[x] = IF x <= m THEN ledger[x] ELSE evs[x - m]
    BY <1>2, <1>4, ConcatProperties
  <2>. QED  BY <1>1, <1>4, <2>1
<1>. DEFINE E == 1..(m + n)
<1>6. /\ \A x \in D : x \in E /\ x <= m /\ ledger'[x] = ledger[x]
      /\ \A x \in E : x - m \in 1..n => x > m /\ ledger'[x].rev = rev
      /\ E \in SUBSET Nat /\ D \subseteq E
  <2>1. ASSUME NEW x \in E, x - m \in 1..n
        PROVE  x > m /\ ledger'[x].rev = rev
    <3>1. x > m /\ x \in Nat
      BY <1>2, <2>1
    <3>2. ledger'[x] = evs[x - m]
      BY <1>2, <1>5, <3>1
    <3>. QED  BY <1>4, <2>1, <3>1, <3>2
  <2>2. \A x \in D : x \in E /\ x <= m
    BY <1>2
  <2>3. \A x \in D : ledger'[x] = ledger[x]
    BY <1>5, <2>2
  <2>. QED  BY <1>2, <2>1, <2>2, <2>3
<1>. HIDE DEF E, m, n, D
<1>7. buf \in Bufs(E) /\ buf \in Bufs(D) /\ \A i \in 1..Len(evs) : m + i \in E
  <2>1. buf \in Bufs(D)
    BY <1>2 DEF TypeOK, Bufs, D
  <2>2. Seq(D) \subseteq Seq(E)
    BY <1>6, SeqMonotonic
  <2>3. buf \in Bufs(E)
    BY <2>1, <2>2 DEF Bufs
  <2>. QED  BY <1>2, <1>4, <2>1, <2>3 DEF E
<1>8. /\ buf' \in Bufs(E)
      /\ \A s \in SubIds, x \in E :
           Times(x, buf'[s]) =
             Times(x, buf[s]) + (IF x - m \in 1..Len(evs) /\ Wants(s, evs[x - m])
                                   THEN Times(s, list[evs[x - m].top]) ELSE 0)
      /\ \A s \in SubIds : InOrder(buf[s]) /\ (\A i \in DOMAIN buf[s] : buf[s][i] <= m) => InOrder(buf'[s])
  <2>1. /\ Show(evs, m) \in Bufs(E)
        /\ \A s \in SubIds, x \in E :
             Times(x, Show(evs, m)[s]) =
               Times(x, buf[s]) + (IF x - m \in 1..Len(evs) /\ Wants(s, evs[x - m])
                                     THEN Times(s, list[evs[x - m].top]) ELSE 0)
        /\ \A s \in SubIds : InOrder(buf[s]) /\ (\A i \in DOMAIN buf[s] : buf[s][i] <= m) =>
             InOrder(Show(evs, m)[s])
    BY <1>2, <1>4, <1>6, <1>7, ShowIs, Zenon
  <2>. QED  BY <1>1, <2>1
<1>9. ASSUME NEW s \in SubIds, NEW y \in Range(buf'[s])
      PROVE  y \in Range(buf[s]) \/ (y \in Nat /\ y > m /\ ledger'[y].rev = rev)
  <2>1. buf[s] \in Seq(E) /\ buf'[s] \in Seq(E)
    BY <1>7, <1>8 DEF Bufs
  <2>2. y \in E /\ Times(y, buf'[s]) > 0
    <3>1. PICK i \in DOMAIN buf'[s] : buf'[s][i] = y
      BY DEF Range
    <3>. QED  BY <2>1, <3>1, LenProperties, ElementOfSeq, TimesType
  <2>3. CASE y - m \in 1..Len(evs)
    BY <1>4, <1>6, <2>2, <2>3
  <2>4. CASE y - m \notin 1..Len(evs)
    <3>1. Times(y, buf'[s]) = Times(y, buf[s]) + 0 /\ Times(y, buf[s]) \in Nat
      BY <1>8, <2>1, <2>2, <2>4, TimesType
    <3>2. Times(y, buf[s]) > 0
      BY <2>2, <3>1
    <3>. QED  BY <2>1, <3>2, TimesType DEF Range
  <2>. QED  BY <2>3, <2>4
<1>10. ASSUME NEW d \in Conns
       PROVE  InLine(ledger', sent'[d], chan'[d], Pending(d)')
  <2>1. InLine(ledger, sent[d], chan[d], Pending(d)) /\ sent'[d] = sent[d] /\ chan'[d] = chan[d]
    BY <1>1 DEF WaitInv
  <2>2. /\ sent[d] \in Seq(D) /\ chan[d] \in Seq(Seq(D))
        /\ smap[d] # Abs!NoSub => smap[d] \in SubIds
    BY <1>2, OwnersAre DEF TypeOK, D
  <2>3. /\ Pending(d) \in Seq(D) /\ InOrder(Pending(d)')
        /\ \A y \in Range(Pending(d)') :
             y \in Range(Pending(d)) \/ (y \in Nat /\ y > m /\ ledger'[y].rev = rev)
    <3>1. CASE smap[d] = Abs!NoSub
      <4>1. Pending(d) = <<>> /\ Pending(d)' = <<>>
        BY <1>1, <3>1 DEF Pending, Abs!NoSub
      <4>2. <<>> \in Seq(D)
        BY EmptySeq
      <4>. QED  BY <4>1, <4>2 DEF InOrder, Range
    <3>2. CASE smap[d] # Abs!NoSub
      <4>. DEFINE s == smap[d]
      <4>1. s \in SubIds /\ Pending(d) = buf[s] /\ Pending(d)' = buf'[s]
        BY <1>1, <2>2, <3>2 DEF Pending, Abs!NoSub
      <4>. HIDE DEF s
      <4>2. buf[s] \in Seq(D)
        BY <1>7, <4>1 DEF Bufs
      <4>3. \A i \in DOMAIN buf[s] : buf[s][i] <= m
        <5>1. \A i \in DOMAIN buf[s] : buf[s][i] \in D
          BY <4>2, LenProperties, ElementOfSeq
        <5>. QED  BY <1>6, <5>1
      <4>4. InOrder(buf'[s])
        BY <1>8, <2>1, <4>1, <4>3 DEF InLine
      <4>. QED  BY <1>9, <4>1, <4>2, <4>4
    <3>. QED  BY <3>1, <3>2
  <2>4. /\ D \in SUBSET Nat /\ m \in Nat /\ rev \in Int
        /\ \A x \in D : x <= m /\ ledger'[x] = ledger[x] /\ ledger[x].rev \in Int /\ ledger[x].rev < rev
    BY <1>2, <1>3, <1>6
  <2>5. InLine(ledger', sent[d], chan[d], Pending(d)')
    <3>1. OldOrNew(ledger', m, rev, Pending(d), Pending(d)')
      BY <2>3 DEF OldOrNew
    <3>2. Extends(ledger, ledger', D, m, rev)
      BY <2>4 DEF Extends
    <3>. QED  BY <2>1, <2>2, <2>3, <2>4, <3>1, <3>2, LineGrows
  <2>. QED  BY <2>1, <2>5
<1>. QED  BY <1>10 DEF WaitInv

\* Nothing waits before anything was published.
LEMMA InitWaits == Init => WaitInv
<1>. SUFFICES ASSUME Init
              PROVE  WaitInv
  OBVIOUS
<1>1. \A c \in Conns : sent[c] = <<>> /\ chan[c] = <<>> /\ Pending(c) = <<>>
  BY DEF Init, Pending
<1>2. InLine(ledger, <<>>, <<>>, <<>>)
  BY DEF InLine, InOrder, Range
<1>. QED  BY <1>1, <1>2 DEF WaitInv

\* What waits stays in line.
LEMMA StepWaits ==
  ASSUME SlicesInv, P!Inv, WaitInv, [Next]_vars
  PROVE  WaitInv'
<1>1. ASSUME NEW c \in Conns, NEW ws \in WatchLists, Sub(c, ws)
      PROVE  WaitInv'
  BY <1>1, SubWaits
<1>2. ASSUME NEW c \in Conns, NEW ws \in WatchLists \cup {<<>>}, Unsub(c, ws)
      PROVE  WaitInv'
  BY <1>2, UnsubWaits
<1>3. ASSUME NEW c \in Conns, NEW acts \in ActLists, NEW now \in 1..MaxNow, Publish(c, acts, now)
      PROVE  WaitInv'
  BY <1>3, PublishWaits
<1>4. ASSUME Bcast
      PROVE  WaitInv'
  <2>1. UNCHANGED <<ledger, smap, buf, chan, sent>>
    BY <1>4 DEF Bcast, objVars
  <2>. QED  BY <2>1, SameWaits
<1>5. ASSUME NEW s \in SubIds, Update(s)
      PROVE  WaitInv'
  BY <1>5, UpdateWaits
<1>6. ASSUME NEW c \in Conns, Take(c)
      PROVE  WaitInv'
  BY <1>6, TakeWaits
<1>7. ASSUME UNCHANGED vars
      PROVE  WaitInv'
  <2>1. UNCHANGED <<ledger, smap, buf, chan, sent>>
    BY <1>7 DEF vars, objVars
  <2>. QED  BY <2>1, SameWaits
<1>. QED  BY <1>1, <1>2, <1>3, <1>4, <1>5, <1>6, <1>7 DEF Next

LEMMA WaitInvariant == Spec => []WaitInv
<1>1. SlicesInv /\ P!Inv /\ WaitInv /\ [Next]_vars => WaitInv'
  BY StepWaits
<1>. QED  BY <1>1, InitWaits, SlicesInvariant, SubsInv, PTL DEF Spec

\* In order, and no element more than once.
LEMMA InOrderAscending ==
  ASSUME NEW s \in Seq(Nat), InOrder(s), \A x \in Range(s) : Times(x, s) <= 1
  PROVE  Ascending(s)
<1>1. DOMAIN s = 1..Len(s) /\ Len(s) \in Nat /\ \A i \in DOMAIN s : s[i] \in Nat
  BY LenProperties, ElementOfSeq
<1>2. ASSUME NEW i \in DOMAIN s, NEW j \in DOMAIN s, i < j
      PROVE  s[i] < s[j]
  <2>. SUFFICES ASSUME s[i] = s[j]
                PROVE  FALSE
    BY <1>1, <1>2 DEF InOrder
  <2>. DEFINE x == s[i]
  <2>1. IsFiniteSet(Places(x, s)) /\ Times(x, s) = Cardinality(Places(x, s))
    <3>. HIDE DEF x
    <3>. QED  BY TimesType
  <2>2. Times(x, s) <= 1
    BY DEF Range
  <2>3. {i, j} \subseteq Places(x, s)
    BY DEF Places
  <2>4. IsFiniteSet({i, j}) /\ Cardinality({i, j}) = 2
    <3>1. i # j
      BY <1>1, <1>2
    <3>2. IsFiniteSet({i}) /\ Cardinality({i}) = 1
      BY FS_Singleton
    <3>3. IsFiniteSet({i} \cup {j}) /\ Cardinality({i} \cup {j}) = Cardinality({i}) + 1
      BY <3>1, <3>2, FS_AddElement
    <3>4. {i, j} = {i} \cup {j}
      OBVIOUS
    <3>. QED  BY <3>2, <3>3, <3>4
  <2>. HIDE DEF x
  <2>5. Cardinality({i, j}) <= Cardinality(Places(x, s))
    BY <2>1, <2>3, FS_Subset
  <2>6. Cardinality(Places(x, s)) \in Nat
    BY <2>1, FS_CardinalityType
  <2>. QED  BY <2>1, <2>2, <2>4, <2>5, <2>6
<1>. QED  BY <1>2 DEF Ascending

\* A connection is sent the events in the order of the ledger, each at most once, and what
\* waits for it comes after all of that, across subscriptions, filters and buffers that are
\* used again (subs.go:35-44, 60-72, 152-164).
THEOREM SlicesInLedgerOrder == Spec => []InLedgerOrder
<1>1. ASSUME SlicesInv, P!Inv, WaitInv
      PROVE  InLedgerOrder
  <2>. SUFFICES ASSUME NEW c \in Conns
                PROVE  Ascending(sent[c] \o Pending(c))
    BY DEF InLedgerOrder, Pending
  <2>. DEFINE D == DOMAIN ledger
  <2>1. /\ sent[c] \in Seq(D)
        /\ smap[c] # Abs!NoSub => smap[c] \in SubIds
        /\ D \subseteq 1..MaxEv /\ D \subseteq Nat
    BY <1>1, OwnersAre, PositionsType DEF SlicesInv, TypeOK
  <2>2. Pending(c) \in Seq(D)
    <3>1. <<>> \in Seq(D)
      BY EmptySeq
    <3>2. smap[c] # Abs!NoSub => buf[smap[c]] \in Seq(D)
      BY <1>1, <2>1 DEF SlicesInv, TypeOK
    <3>. QED  BY <3>1, <3>2 DEF Pending
  <2>. HIDE DEF D
  <2>3. sent[c] \o Pending(c) \in Seq(D)
    BY <2>1, <2>2, ConcatProperties
  <2>4. ASSUME NEW e \in D
        PROVE  Times(e, sent[c] \o Pending(c)) <= 1
    <3>1. Times(e, sent[c] \o Pending(c)) = Times(e, sent[c]) + Times(e, Pending(c))
      BY <2>1, <2>2, TimesConcat
    <3>2. Times(e, sent[c]) \in Nat /\ Times(e, Pending(c)) \in Nat /\ e \in 1..MaxEv
      BY <2>1, <2>2, TimesType
    <3>3. GotSeen[c][e] + (IF smap[c] = Abs!NoSub THEN 0 ELSE BufrSeen[smap[c]][e]) <= 1
      BY <1>1, <3>2
         DEF P!Inv, P!AtMostOnce, P!EvIds, P!NoSub, Abs!NoSub, GotSeen, BufrSeen
    <3>4. CASE smap[c] = Abs!NoSub
      <4>1. smap[c] \notin todo
        BY <1>1, <3>4, OwnersAre
      <4>2. Times(e, Pending(c)) = 0
        BY <3>4, TimesEmpty DEF Pending
      <4>3. GotSeen[c][e] = Times(e, sent[c])
        BY <3>2, <4>1 DEF GotSeen
      <4>. QED  BY <3>1, <3>2, <3>3, <3>4, <4>2, <4>3
    <3>5. CASE smap[c] # Abs!NoSub
      <4>1. Pending(c) = buf[smap[c]] /\ smap[c] \in SubIds
        BY <2>1, <3>5 DEF Pending
      <4>2. CASE smap[c] \in todo
        <5>1. GotSeen[c][e] = Times(e, sent[c]) + Times(e, Pending(c)) /\ BufrSeen[smap[c]][e] = 0
          BY <3>2, <4>1, <4>2 DEF GotSeen, BufrSeen
        <5>. QED  BY <3>1, <3>2, <3>3, <3>5, <5>1
      <4>3. CASE smap[c] \notin todo
        <5>1. GotSeen[c][e] = Times(e, sent[c]) /\ BufrSeen[smap[c]][e] = Times(e, Pending(c))
          BY <3>2, <4>1, <4>3 DEF GotSeen, BufrSeen
        <5>. QED  BY <3>1, <3>2, <3>3, <3>5, <5>1
      <4>. QED  BY <4>2, <4>3
    <3>. QED  BY <3>4, <3>5
  <2>5. InOrder(sent[c] \o Pending(c)) /\ sent[c] \o Pending(c) \in Seq(Nat)
    <3>1. sent[c] \in Seq(Nat) /\ Pending(c) \in Seq(Nat)
      BY <2>1, <2>2, SeqMonotonic
    <3>2. InLine(ledger, sent[c], chan[c], Pending(c))
      BY <1>1 DEF WaitInv
    <3>. QED  BY <3>1, <3>2, InOrderConcat, ConcatProperties DEF InLine
  <2>6. \A x \in Range(sent[c] \o Pending(c)) : x \in D
    BY <2>3, LenProperties, ElementOfSeq DEF Range
  <2>. QED  BY <2>4, <2>5, <2>6, InOrderAscending
<1>. QED  BY <1>1, SlicesInvariant, SubsInv, WaitInvariant, PTL

\* All that a connection is sent of one transaction is in one update, before anything of a
\* later transaction (subs.go:36-43, 137).
THEOREM SlicesWholeTransactions == Spec => []WholeTransactions
<1>1. ASSUME SlicesInv, WaitInv
      PROVE  WholeTransactions
  <2>. SUFFICES ASSUME NEW c \in Conns, NEW i \in DOMAIN Waiting(c), NEW j \in DOMAIN Waiting(c), i < j
                PROVE  Apart(ledger, Waiting(c)[i], Waiting(c)[j])
    BY DEF WholeTransactions, Apart
  <2>1. chan[c] \in Seq(Seq(DOMAIN ledger)) /\ InLine(ledger, sent[c], chan[c], Pending(c))
    BY <1>1 DEF SlicesInv, TypeOK, WaitInv
  <2>. DEFINE ch == chan[c]
  <2>2. CASE smap[c] = Abs!NoSub
    <3>1. Waiting(c) = ch
      <4>. HIDE DEF ch
      <4>1. ch \o <<>> = ch
        BY <2>1, ConcatEmptySeq DEF ch
      <4>. QED  BY <2>2, <4>1 DEF Waiting, ch
    <3>. QED  BY <2>1, <3>1 DEF InLine
  <2>3. CASE smap[c] # Abs!NoSub
    <3>. DEFINE b == Pending(c)
                q == Append(ch, b)
    <3>1. b \in Seq(DOMAIN ledger) /\ b = buf[smap[c]]
      BY <1>1, <2>3, OwnersAre DEF Pending, SlicesInv, TypeOK
    <3>. HIDE DEF ch, b
    <3>2. ch \in Seq(Seq(DOMAIN ledger))
      BY <2>1 DEF ch
    <3>3. Waiting(c) = q
      <4>1. q = ch \o <<b>>
        BY <3>1, <3>2, AppendIsConcat
      <4>. QED  BY <2>3, <3>1, <4>1 DEF Waiting, ch
    <3>4. /\ Len(ch) \in Nat /\ DOMAIN ch = 1..Len(ch) /\ DOMAIN q = 1..(Len(ch) + 1)
          /\ q[Len(ch) + 1] = b /\ \A k \in DOMAIN ch : q[k] = ch[k]
      BY <3>1, <3>2, AppendIs
    <3>. HIDE DEF q
    <3>5. i \in DOMAIN ch /\ q[i] = ch[i]
      BY <3>3, <3>4
    <3>6. CASE j = Len(ch) + 1
      BY <2>1, <3>3, <3>4, <3>5, <3>6 DEF InLine, ch, b
    <3>7. CASE j # Len(ch) + 1
      <4>1. j \in DOMAIN ch /\ q[j] = ch[j]
        BY <3>3, <3>4, <3>7
      <4>. QED  BY <2>1, <3>3, <3>5, <4>1 DEF InLine, ch
    <3>. QED  BY <3>6, <3>7
  <2>. QED  BY <2>2, <2>3
<1>. QED  BY <1>1, SlicesInvariant, WaitInvariant, PTL
=============================================================================
