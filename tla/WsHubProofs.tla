---------------------------- MODULE WsHubProofs ----------------------------
(***************************************************************************)
(* Proofs about the websocket participants: for any number of connections  *)
(* and sessions, all capacities, any number of messages and any subjects   *)
(* the peers send, every sign-off of a connection becomes exactly one nil  *)
(* message, and the hub's list is what was sent for each connection last,  *)
(* up to what is still queued.                                             *)
(***************************************************************************)
EXTENDS WsHub, HubProofs, FunctionTheorems

-----------------------------------------------------------------------------
(* How often an element occurs in a sequence *)

\* Where m stands in s.
Places(m, s) == {i \in DOMAIN s : s[i] = m}

LEMMA OccursType ==
  ASSUME NEW S, NEW s \in Seq(S), NEW m
  PROVE  IsFiniteSet(Places(m, s)) /\ Occurs(m, s) \in Nat /\ Occurs(m, s) = Cardinality(Places(m, s))
<1>1. DOMAIN s = 1..Len(s) /\ Len(s) \in Nat
  BY LenProperties
<1>2. IsFiniteSet(DOMAIN s)
  BY <1>1, FS_Interval
<1>3. Places(m, s) \in SUBSET DOMAIN s
  BY DEF Places
<1>4. IsFiniteSet(Places(m, s))
  BY <1>2, <1>3, FS_Subset
<1>. QED  BY <1>4, FS_CardinalityType DEF Occurs, Places

\* One more at the end.
LEMMA OccursAppend ==
  ASSUME NEW S, NEW s \in Seq(S), NEW e \in S, NEW m
  PROVE  Occurs(m, Append(s, e)) = Occurs(m, s) + (IF e = m THEN 1 ELSE 0)
<1>. DEFINE t == Append(s, e)
<1>1. /\ Len(s) \in Nat /\ DOMAIN s = 1..Len(s) /\ t \in Seq(S)
      /\ DOMAIN t = 1..(Len(s) + 1)
      /\ t[Len(s) + 1] = e /\ \A i \in DOMAIN s : t[i] = s[i]
  BY AppendIs
<1>. HIDE DEF t
<1>2. IsFiniteSet(Places(m, s)) /\ Occurs(m, s) = Cardinality(Places(m, s))
      /\ Occurs(m, t) = Cardinality(Places(m, t)) /\ Occurs(m, s) \in Nat
  BY <1>1, OccursType
<1>3. DOMAIN t = DOMAIN s \cup {Len(s) + 1} /\ Len(s) + 1 \notin DOMAIN s
  BY <1>1
<1>4. Len(s) + 1 \notin Places(m, s)
  BY <1>3 DEF Places
<1>5. CASE e = m
  <2>1. Places(m, t) = Places(m, s) \cup {Len(s) + 1}
    BY <1>1, <1>3, <1>5 DEF Places
  <2>2. Cardinality(Places(m, t)) = Cardinality(Places(m, s)) + 1
    BY <1>2, <1>4, <2>1, FS_AddElement
  <2>. QED  BY <1>2, <1>5, <2>2 DEF t
<1>6. CASE e # m
  <2>1. Places(m, t) = Places(m, s)
    BY <1>1, <1>3, <1>6 DEF Places
  <2>. QED  BY <1>2, <1>6, <2>1 DEF t
<1>. QED  BY <1>5, <1>6

\* One less at the front: the others move up by one.
LEMMA OccursTail ==
  ASSUME NEW S, NEW s \in Seq(S), s # <<>>, NEW m
  PROVE  Occurs(m, s) = Occurs(m, Tail(s)) + (IF Head(s) = m THEN 1 ELSE 0)
<1>. DEFINE t == Tail(s)
            A == Places(m, t)
            B == Places(m, s) \ {1}
            f == [i \in A |-> i + 1]
<1>1. /\ Len(s) \in Nat \ {0} /\ DOMAIN s = 1..Len(s) /\ 1 \in DOMAIN s
      /\ Head(s) = s[1] /\ t \in Seq(S) /\ DOMAIN t = 1..(Len(s) - 1)
      /\ \A i \in DOMAIN t : i + 1 \in DOMAIN s /\ t[i] = s[i + 1]
      /\ \A i \in DOMAIN s : i = 1 \/ i - 1 \in DOMAIN t
  BY TailIs
<1>2. /\ IsFiniteSet(Places(m, s)) /\ Occurs(m, s) = Cardinality(Places(m, s))
      /\ IsFiniteSet(Places(m, t)) /\ Occurs(m, t) = Cardinality(Places(m, t))
      /\ Occurs(m, t) \in Nat
  BY <1>1, OccursType
<1>. HIDE DEF t
<1>3. ASSUME NEW i \in A
      PROVE  i \in Nat /\ i + 1 \in B
  BY <1>1 DEF Places
<1>4. ASSUME NEW j \in B
      PROVE  j \in Nat /\ j - 1 \in A
  BY <1>1 DEF Places
<1>5. f \in Bijection(A, B)
  <2>1. f \in [A -> B]
    BY <1>3
  <2>2. \A i, j \in A : f[i] = f[j] => i = j
    BY <1>3
  <2>3. \A j \in B : \E i \in A : f[i] = j
    <3>1. ASSUME NEW j \in B
          PROVE  j - 1 \in A /\ f[j - 1] = j
      BY <1>4
    <3>. QED  BY <3>1
  <2>. HIDE DEF f, A, B
  <2>. QED  BY <2>1, <2>2, <2>3, Fun_IsBij
<1>. HIDE DEF f
<1>6. Cardinality(B) = Cardinality(A)
  <2>. HIDE DEF A, B
  <2>1. ExistsBijection(A, B)
    BY <1>5 DEF ExistsBijection
  <2>2. IsFiniteSet(A)
    BY <1>2 DEF A
  <2>. QED  BY <2>1, <2>2, FS_Bijection
<1>7. Cardinality(B) = IF 1 \in Places(m, s) THEN Cardinality(Places(m, s)) - 1
                                             ELSE Cardinality(Places(m, s))
  BY <1>2, FS_RemoveElement
<1>8. 1 \in Places(m, s) <=> Head(s) = m
  BY <1>1 DEF Places
<1>9. Cardinality(Places(m, s)) \in Nat
  BY <1>2, FS_CardinalityType
<1>. QED  BY <1>2, <1>6, <1>7, <1>8, <1>9 DEF t

LEMMA OccursEmpty == \A m : Occurs(m, <<>>) = 0
BY FS_EmptySet DEF Occurs

-----------------------------------------------------------------------------
(* The last sign-on or sign-off *)

\* Something is added behind the last sign: it is the last one now, or no sign.
LEMMA LastSignAppend ==
  ASSUME NEW f, NEW g, NEW n \in Nat, NEW x, NEW y, DOMAIN f = 0..n, DOMAIN g = 0..(n + 1),
         LastSign(f, x), \A i \in 0..n : g[i] = f[i],
         (g[n + 1] = "none" /\ y = x) \/ g[n + 1] = y
  PROVE  LastSign(g, y)
<1>1. CASE g[n + 1] = "none" /\ y = x
  <2>1. PICK i \in 0..n : f[i] = x /\ \A j \in 0..n : i < j => f[j] = "none"
    BY DEF LastSign
  <2>2. i \in 0..(n + 1) /\ g[i] = y
    BY <1>1, <2>1
  <2>3. ASSUME NEW j \in 0..(n + 1), i < j
        PROVE  g[j] = "none"
    <3>1. CASE j = n + 1
      BY <1>1, <3>1
    <3>2. CASE j # n + 1
      <4>1. j \in 0..n
        BY <3>2
      <4>. QED  BY <2>1, <2>3, <4>1
    <3>. QED  BY <3>1, <3>2
  <2>. QED  BY <2>2, <2>3 DEF LastSign
<1>2. CASE g[n + 1] = y
  <2>1. n + 1 \in 0..(n + 1) /\ \A j \in 0..(n + 1) : ~(n + 1 < j)
    OBVIOUS
  <2>. QED  BY <1>2, <2>1 DEF LastSign
<1>. QED  BY <1>1, <1>2

\* The first sign takes effect, or something that is no sign goes from behind it: the others
\* move up.
LEMMA LastSignTail ==
  ASSUME NEW f, NEW g, NEW n \in Nat, NEW x, DOMAIN f = 0..(n + 1), DOMAIN g = 0..n,
         LastSign(f, x), x # "none", \A i \in 0..n : i # 0 => g[i] = f[i + 1],
         (f[1] = "none" /\ g[0] = f[0]) \/ (f[1] # "none" /\ g[0] = f[1])
  PROVE  LastSign(g, x)
<1>1. PICK i \in 0..(n + 1) : f[i] = x /\ \A j \in 0..(n + 1) : i < j => f[j] = "none"
  BY DEF LastSign
<1>2. CASE i = 0
  <2>1. 1 \in 0..(n + 1) /\ 0 < 1 /\ 0 \in 0..n
    OBVIOUS
  <2>2. f[1] = "none"
    BY <1>1, <1>2, <2>1
  <2>3. g[0] = x
    BY <1>1, <1>2, <2>2
  <2>4. ASSUME NEW j \in 0..n, 0 < j
        PROVE  g[j] = "none"
    <3>1. j + 1 \in 0..(n + 1) /\ 0 < j + 1 /\ j # 0
      BY <2>4
    <3>. QED  BY <1>1, <1>2, <3>1
  <2>. QED  BY <2>1, <2>3, <2>4 DEF LastSign
<1>3. CASE i # 0
  <2>. DEFINE a == i - 1
  <2>1. a \in 0..n /\ a + 1 = i /\ (a = 0 => i = 1)
    BY <1>3
  <2>. HIDE DEF a
  <2>2. g[a] = x
    <3>1. CASE a = 0
      <4>1. f[1] # "none"
        BY <1>1, <2>1, <3>1
      <4>. QED  BY <1>1, <2>1, <3>1, <4>1
    <3>2. CASE a # 0
      BY <1>1, <2>1, <3>2
    <3>. QED  BY <3>1, <3>2
  <2>3. ASSUME NEW j \in 0..n, a < j
        PROVE  g[j] = "none"
    <3>1. j + 1 \in 0..(n + 1) /\ i < j + 1 /\ j # 0
      BY <2>1, <2>3
    <3>. QED  BY <1>1, <3>1
  <2>. QED  BY <2>1, <2>2, <2>3 DEF LastSign
<1>. QED  BY <1>2, <1>3

-----------------------------------------------------------------------------
(* What a step means for a connection *)

\* There are no one-off requests, and whatever the hub handles has a sender.
LEMMA Participants ==
  /\ Receivers = Conns /\ Senders = Conns \cup {HUB} /\ HUB \notin Conns
  /\ \A c \in Conns : c \in Senders /\ Cap(c) = ConnCap
BY WsAssumption, NamesDiffer DEF Receivers, Senders, Cap

\* A sign is a message of its sender.
LEMMA SignIs ==
  ASSUME NEW c \in Senders, NEW m \in Item
  PROVE  /\ m \in {Msg(c, "+"), Msg(c, "-")}
              <=> m # Nil /\ m.from = c /\ m.subj \in {"+", "-"}
         /\ m = Msg(c, "-") <=> m # Nil /\ m.from = c /\ m.subj = "-"
         /\ m = Msg(c, "+") <=> m # Nil /\ m.from = c /\ m.subj = "+"
         /\ Sign(c, Msg(c, "+")) = "+" /\ Sign(c, Msg(c, "-")) = "-"
         /\ m \notin {Msg(c, "+"), Msg(c, "-")} <=> Sign(c, m) = "none"
<1>1. /\ Msg(c, "+") # Nil /\ Msg(c, "+").from = c /\ Msg(c, "+").subj = "+"
      /\ Msg(c, "-") # Nil /\ Msg(c, "-").from = c /\ Msg(c, "-").subj = "-"
  BY MsgType DEF Subjects
<1>2. m # Nil => m = Msg(m.from, m.subj)
  BY MessageIs
<1>3. /\ m = Msg(c, "-") <=> m # Nil /\ m.from = c /\ m.subj = "-"
      /\ m = Msg(c, "+") <=> m # Nil /\ m.from = c /\ m.subj = "+"
  BY <1>1, <1>2
<1>. QED  BY <1>1, <1>3 DEF Sign

\* What the invariant says of a connection.
ByNil(c)  == {w \in byNil : w[1] = c}
NilsOK(c) == SignOffs(c) = Nils(c) + Occurs(Msg(c, "-"), mque) + (IF Signing(c) THEN 1 ELSE 0)
ConnOK(c) == LastSign(Signs(c), signed[c]) /\ HandlerSigns(c) /\ NilsOK(c)

LEMMA InvConns ==
  Inv <=> /\ TypeOK /\ RunOK
          /\ \A c \in Conns : WritersOK(c) /\ ConnOK(c)
BY DEF Inv, ConnOK, NilsOK, NilsMatchSignoffs

LEMMA CountsType ==
  ASSUME TypeOK, NEW c \in Conns
  PROVE  /\ IsFiniteSet({k \in Sess : SignedOff(c, k)})
         /\ HandlerSignOffs(c) \in Nat /\ SignOffs(c) \in Nat
         /\ IsFiniteSet(ByNil(c)) /\ Cardinality(ByNil(c)) \in Nat
         /\ Occurs(Nil, chan[c]) \in Nat
         /\ Nils(c) = Occurs(Nil, chan[c]) + Cardinality(ByNil(c)) /\ Nils(c) \in Nat
         /\ Occurs(Msg(c, "-"), mque) \in Nat
<1>1. IsFiniteSet(Sess)
  BY WsAssumption, FS_Interval DEF Sess
<1>2. {k \in Sess : SignedOff(c, k)} \in SUBSET Sess
  OBVIOUS
<1>3. IsFiniteSet({k \in Sess : SignedOff(c, k)}) /\ HandlerSignOffs(c) \in Nat
  BY <1>1, <1>2, FS_Subset, FS_CardinalityType DEF HandlerSignOffs
<1>4. offs[c] \in Nat
  BY DEF TypeOK
<1>5. SignOffs(c) \in Nat
  BY <1>3, <1>4 DEF SignOffs
<1>6. IsFiniteSet({c} \X Sess)
  BY <1>1, FS_Singleton, FS_Product
<1>7. ByNil(c) \in SUBSET ({c} \X Sess)
  BY DEF ByNil, TypeOK
<1>8. IsFiniteSet(ByNil(c)) /\ Cardinality(ByNil(c)) \in Nat
  BY <1>6, <1>7, FS_Subset, FS_CardinalityType
<1>9. chan[c] \in Seq(Item) /\ mque \in Seq(Item)
  BY TypeFacts, Participants DEF TypeOK
<1>10. Occurs(Nil, chan[c]) \in Nat /\ Occurs(Msg(c, "-"), mque) \in Nat
  BY <1>9, OccursType
<1>11. Nils(c) = Occurs(Nil, chan[c]) + Cardinality(ByNil(c))
  BY DEF Nils, ByNil
<1>. QED  BY <1>3, <1>5, <1>8, <1>10, <1>11

\* A connection for which a step changes nothing.
LEMMA ConnKept ==
  ASSUME NEW c, ConnOK(c), mque' = mque, chan'[c] = chan[c], byNil' = byNil,
         Listing(c)' <=> Listing(c), Signing(c)' <=> Signing(c),
         SignOffs(c)' = SignOffs(c), signed'[c] = signed[c], HandlerSigns(c)'
  PROVE  ConnOK(c)'
<1>1. Signs(c)' = Signs(c)
  BY DEF Signs, Sign, Msg
<1>2. Nils(c)' = Nils(c)
  BY DEF Nils, Occurs
<1>3. Occurs(Msg(c, "-"), mque)' = Occurs(Msg(c, "-"), mque)
  BY DEF Occurs, Msg
<1>4. LastSign(Signs(c), signed[c])'
  BY <1>1 DEF ConnOK, LastSign
<1>. QED  BY <1>2, <1>3, <1>4 DEF ConnOK, NilsOK

\* A message at the end of the queue: it signs c on or off, or it is no sign of c.
LEMMA ConnSends ==
  ASSUME TypeOK, NEW c \in Conns, ConnOK(c), NEW m \in Item, mque' = Append(mque, m),
         Nils(c)' = Nils(c), Listing(c)' <=> Listing(c), Signing(c)' <=> Signing(c),
         HandlerSigns(c)',
         \/ /\ m = Nil \/ m.from # c \/ m.subj \notin {"+", "-"}
            /\ signed'[c] = signed[c]
            /\ SignOffs(c)' = SignOffs(c)
         \/ m = Msg(c, "+") /\ signed'[c] = "+" /\ SignOffs(c)' = SignOffs(c)
         \/ m = Msg(c, "-") /\ signed'[c] = "-" /\ SignOffs(c)' = SignOffs(c) + 1
  PROVE  ConnOK(c)'
<1>. DEFINE n == Len(mque)
            f == Signs(c)
            g == Signs(c)'
<1>1. /\ n \in Nat /\ DOMAIN mque = 1..n /\ mque \in Seq(Item) /\ Len(mque') = n + 1
      /\ mque'[n + 1] = m /\ \A i \in DOMAIN mque : mque'[i] = mque[i]
  BY TypeFacts, AppendIs DEF TypeOK
<1>2. /\ m \in {Msg(c, "+"), Msg(c, "-")} <=> m # Nil /\ m.from = c /\ m.subj \in {"+", "-"}
      /\ m = Msg(c, "-") <=> m # Nil /\ m.from = c /\ m.subj = "-"
      /\ Sign(c, Msg(c, "+")) = "+" /\ Sign(c, Msg(c, "-")) = "-"
      /\ m \notin {Msg(c, "+"), Msg(c, "-")} <=> Sign(c, m) = "none"
      /\ Msg(c, "+") # Msg(c, "-")
  BY Participants, SignIs DEF Msg
<1>3. DOMAIN f = 0..n
  BY DEF Signs
<1>4. DOMAIN g = 0..(n + 1)
  BY <1>1 DEF Signs
<1>5. \A i \in 0..n : g[i] = f[i]
  BY <1>1 DEF Signs, Sign, Msg
<1>6. g[n + 1] = Sign(c, m)
  BY <1>1 DEF Signs, Sign, Msg
<1>7. LastSign(f, signed[c])
  BY DEF ConnOK
<1>. HIDE DEF f, g, n
<1>8. (g[n + 1] = "none" /\ signed'[c] = signed[c]) \/ g[n + 1] = signed'[c]
  BY <1>2, <1>6
<1>9. LastSign(g, signed'[c])
  BY <1>1, <1>3, <1>4, <1>5, <1>7, <1>8, LastSignAppend
<1>10. LastSign(Signs(c), signed[c])'
  BY <1>9 DEF g, LastSign
<1>11. NilsOK(c)'
  <2>1. Occurs(Msg(c, "-"), mque') = Occurs(Msg(c, "-"), mque) + (IF m = Msg(c, "-") THEN 1 ELSE 0)
    BY <1>1, OccursAppend
  <2>2. Occurs(Msg(c, "-"), mque)' = Occurs(Msg(c, "-"), mque')
    BY DEF Occurs, Msg
  <2>3. SignOffs(c) \in Nat /\ Nils(c) \in Nat /\ Occurs(Msg(c, "-"), mque) \in Nat
    BY CountsType
  <2>4. SignOffs(c) = Nils(c) + Occurs(Msg(c, "-"), mque) + (IF Signing(c) THEN 1 ELSE 0)
    BY DEF ConnOK, NilsOK
  <2>5. CASE m = Msg(c, "-")
    <3>1. SignOffs(c)' = SignOffs(c) + 1
      BY <1>2, <2>5
    <3>2. Occurs(Msg(c, "-"), mque)' = Occurs(Msg(c, "-"), mque) + 1
      BY <2>1, <2>2, <2>5
    <3>. QED  BY <2>3, <2>4, <3>1, <3>2 DEF NilsOK
  <2>6. CASE m # Msg(c, "-")
    <3>1. SignOffs(c)' = SignOffs(c)
      BY <1>2, <2>6
    <3>2. Occurs(Msg(c, "-"), mque)' = Occurs(Msg(c, "-"), mque)
      BY <2>1, <2>2, <2>3, <2>6
    <3>. QED  BY <2>3, <2>4, <3>1, <3>2 DEF NilsOK
  <2>. QED  BY <2>5, <2>6
<1>. QED  BY <1>10, <1>11 DEF ConnOK

\* The hub takes a message: the sign-on or sign-off of c takes effect.
LEMMA ConnTaken ==
  ASSUME TypeOK, NEW c \in Conns, ConnOK(c), mque # <<>>, mque' = Tail(mque),
         Nils(c)' = Nils(c), SignOffs(c)' = SignOffs(c), signed'[c] = signed[c],
         HandlerSigns(c)', ~Signing(c),
         Signing(c)' <=> Head(mque) = Msg(c, "-"),
         \/ Head(mque) \notin {Msg(c, "+"), Msg(c, "-")} /\ (Listing(c)' <=> Listing(c))
         \/ Head(mque) = Msg(c, "+") /\ Listing(c)'
         \/ Head(mque) = Msg(c, "-") /\ ~Listing(c)'
  PROVE  ConnOK(c)'
<1>. DEFINE h == Head(mque)
            n == Len(mque')
            f == Signs(c)
            g == Signs(c)'
<1>1. /\ n \in Nat /\ Len(mque) = n + 1 /\ DOMAIN mque = 1..(n + 1) /\ mque \in Seq(Item)
      /\ h \in Item /\ h = mque[1] /\ DOMAIN mque' = 1..n
      /\ \A i \in DOMAIN mque' : i + 1 \in DOMAIN mque /\ mque'[i] = mque[i + 1]
  <2>1. mque \in Seq(Item)
    BY TypeFacts DEF TypeOK
  <2>. QED  BY <2>1, TailIs
<1>. HIDE DEF h
<1>2. /\ h \notin {Msg(c, "+"), Msg(c, "-")} <=> Sign(c, h) = "none"
      /\ Sign(c, Msg(c, "+")) = "+" /\ Sign(c, Msg(c, "-")) = "-"
      /\ Msg(c, "+") # Msg(c, "-")
  BY <1>1, Participants, SignIs DEF Msg
<1>3. DOMAIN g = 0..n
  BY DEF Signs
<1>4. DOMAIN f = 0..(n + 1)
  BY <1>1 DEF Signs
<1>5. \A i \in 0..n : i # 0 => g[i] = f[i + 1]
  BY <1>1 DEF Signs, Sign, Msg
<1>6. f[1] = Sign(c, h)
  BY <1>1 DEF Signs
<1>7. f[0] = (IF Listing(c) THEN "+" ELSE "-") /\ g[0] = (IF Listing(c)' THEN "+" ELSE "-")
  BY DEF Signs
<1>8. LastSign(f, signed[c]) /\ signed[c] # "none"
  BY DEF ConnOK, TypeOK
<1>. HIDE DEF f, g, n
<1>9. (f[1] = "none" /\ g[0] = f[0]) \/ (f[1] # "none" /\ g[0] = f[1])
  <2>1. CASE h \notin {Msg(c, "+"), Msg(c, "-")}
    BY <1>2, <1>6, <1>7, <2>1 DEF h
  <2>2. CASE h \in {Msg(c, "+"), Msg(c, "-")}
    BY <1>2, <1>6, <1>7, <2>2 DEF h
  <2>. QED  BY <2>1, <2>2
<1>10. LastSign(Signs(c), signed[c])'
  <2>1. LastSign(g, signed[c])
    BY <1>1, <1>3, <1>4, <1>5, <1>8, <1>9, LastSignTail
  <2>. QED  BY <2>1 DEF g, LastSign
<1>11. NilsOK(c)'
  <2>1. Occurs(Msg(c, "-"), mque) = Occurs(Msg(c, "-"), mque') + (IF h = Msg(c, "-") THEN 1 ELSE 0)
    BY <1>1, OccursTail DEF h
  <2>2. Occurs(Msg(c, "-"), mque)' = Occurs(Msg(c, "-"), mque')
    BY DEF Occurs, Msg
  <2>3. Occurs(Msg(c, "-"), mque') \in Nat
    <3>1. mque' \in Seq(Item)
      BY TypeFacts, HeadTailProperties DEF TypeOK
    <3>. QED  BY <3>1, OccursType
  <2>4. SignOffs(c) \in Nat /\ Nils(c) \in Nat
    BY CountsType
  <2>5. SignOffs(c) = Nils(c) + Occurs(Msg(c, "-"), mque) + 0
    BY DEF ConnOK, NilsOK
  <2>6. Signing(c)' <=> h = Msg(c, "-")
    BY DEF h
  <2>7. CASE h = Msg(c, "-")
    <3>1. Occurs(Msg(c, "-"), mque) = Occurs(Msg(c, "-"), mque)' + 1
      BY <2>1, <2>2, <2>7
    <3>. QED  BY <2>2, <2>3, <2>4, <2>5, <2>6, <2>7, <3>1 DEF NilsOK
  <2>8. CASE h # Msg(c, "-")
    <3>1. Occurs(Msg(c, "-"), mque) = Occurs(Msg(c, "-"), mque)'
      BY <2>1, <2>2, <2>3, <2>8
    <3>. QED  BY <2>2, <2>3, <2>4, <2>5, <2>6, <2>8, <3>1 DEF NilsOK
  <2>. QED  BY <2>7, <2>8
<1>. QED  BY <1>10, <1>11 DEF ConnOK

-----------------------------------------------------------------------------
(* The hub goroutine keeps the invariant *)

\* A step of the hub does nothing to handlers, writers and websockets.
LEMMA HubAlone ==
  ASSUME Inv, UNCHANGED wsVars
  PROVE  /\ \A c : /\ signed'[c] = signed[c] /\ (HandlerSigns(c)' <=> HandlerSigns(c))
                   /\ SignOffs(c)' = SignOffs(c)
                   /\ chan'[c] = chan[c] => Nils(c)' = Nils(c)
         /\ HubTypeOK' /\ RunOK' /\ (\A c \in Conns : ConnOK(c)') => Inv'
<1>1. ASSUME NEW c
      PROVE  /\ signed'[c] = signed[c] /\ (HandlerSigns(c)' <=> HandlerSigns(c))
             /\ SignOffs(c)' = SignOffs(c)
             /\ chan'[c] = chan[c] => Nils(c)' = Nils(c)
  BY DEF wsVars, histVars, HandlerSigns, Active, SignOffs, HandlerSignOffs, SignedOff, Nils, Occurs
<1>2. \A c \in Conns : WritersOK(c)'
  BY DEF Inv, wsVars, histVars, WritersOK
<1>3. HubTypeOK' => TypeOK'
  BY DEF Inv, wsVars, histVars, TypeOK
<1>4. servers' = servers
  BY DEF wsVars
<1>5. TypeOK' /\ RunOK' /\ (\A c \in Conns : ConnOK(c)') => Inv'
  BY <1>2, <1>4 DEF Inv, ConnOK, NilsOK, NilsMatchSignoffs
<1>. QED  BY <1>1, <1>3, <1>5

LEMMA HubRecvInv ==
  ASSUME Inv, HubRecv, UNCHANGED wsVars
  PROVE  Inv'
<1>. DEFINE m == Head(mque)
            f == m.from
<1>1. /\ hpc = "recv" /\ mque # <<>> /\ m # Nil /\ cur' = m /\ hpc' = "route"
      /\ cmap' = Listed(m) /\ held' = HeldAfter(m) /\ mque' = Tail(mque) /\ chan' = chan
  BY DEF HubRecv
<1>2. PICK S \in SUBSET Targets(m) : todo' \in Orders(S)
  BY DEF HubRecv
<1>3. TypeOK /\ HubTypeOK /\ RunOK
  BY DEF Inv, TypeOK
<1>4. /\ mque \in Seq(Item) /\ m \in Item
      /\ mque' \in Seq(Item) /\ Len(mque') = Len(mque) - 1 /\ Len(mque) \in Nat
  BY <1>1, <1>3, TypeFacts, TailIs
<1>5. m \in Message /\ m.subj \in Subjects /\ f \in Conns \cup {HUB}
  BY <1>1, <1>4, MessageIs, Participants
<1>6. IsFiniteSet(held') /\ held' \subseteq Conns
  <2>1. held \subseteq Conns /\ IsFiniteSet(held)
    BY <1>3, TypeFacts DEF RunOK
  <2>2. IsFiniteSet(held \ {f}) /\ IsFiniteSet(held \cup {f})
    BY <2>1, FS_RemoveElement, FS_AddElement
  <2>3. held' \in {held \ {f}, held, held \cup {f}}
    BY <1>1 DEF HeldAfter
  <2>. QED  BY <1>1, <2>1, <2>2, <2>3 DEF HeldAfter
<1>7. todo' \in Seq(Conns)
  <2>1. Targets(m) = held'
    BY <1>1, WsAssumption DEF Targets
  <2>2. IsFiniteSet(S) /\ S \subseteq Conns
    BY <1>6, <2>1, FS_Subset
  <2>3. todo' \in Seq(S)
    BY <1>2, <2>2, OrdersAre
  <2>. QED  BY <2>2, <2>3, SeqMonotonic
<1>8. HubTypeOK'
  <2>1. mque' \in Seq(Message \cup {Nil}) /\ Len(mque') <= QueCap
    BY <1>3, <1>4, TypeFacts DEF Item
  <2>2. cmap' \subseteq Conns \cup {HUB}
    BY <1>1, <1>3, <1>5 DEF Listed, HubTypeOK
  <2>3. todo' \in Seq(Conns \cup Reqs)
    BY <1>7, WsAssumption
  <2>. QED  BY <1>1, <1>3, <1>4, <1>6, <2>1, <2>2, <2>3 DEF HubTypeOK, Item, Cap
<1>9. RunOK'
  BY <1>1, <1>6 DEF RunOK
<1>10. ASSUME NEW c \in Conns
       PROVE  ConnOK(c)'
  <2>1. ConnOK(c) /\ c \in Senders
    BY InvConns, Participants
  <2>2. /\ m = Msg(c, "-") <=> f = c /\ m.subj = "-"
        /\ m = Msg(c, "+") <=> f = c /\ m.subj = "+"
        /\ m \in {Msg(c, "+"), Msg(c, "-")} <=> f = c /\ m.subj \in {"+", "-"}
    BY <1>1, <1>4, <2>1, SignIs
  <2>3. ~Signing(c) /\ (Signing(c)' <=> f = c /\ m.subj = "-") /\ (Listing(c) <=> c \in cmap)
    BY <1>1 DEF Signing, Listing
  <2>4. Listing(c)' <=> c \in cmap' /\ ~Signing(c)'
    BY <1>1 DEF Listing
  <2>5. \/ m \notin {Msg(c, "+"), Msg(c, "-")} /\ (Listing(c)' <=> Listing(c))
        \/ m = Msg(c, "+") /\ Listing(c)'
        \/ m = Msg(c, "-") /\ ~Listing(c)'
    <3>1. CASE f = c /\ m.subj = "+"
      <4>1. c \in cmap'
        BY <1>1, <3>1 DEF Listed
      <4>. QED  BY <2>2, <2>3, <2>4, <3>1, <4>1
    <3>2. CASE f = c /\ m.subj = "-"
      BY <2>2, <2>3, <2>4, <3>2
    <3>3. CASE ~(f = c /\ m.subj \in {"+", "-"})
      <4>1. c \in cmap' <=> c \in cmap
        BY <1>1, <3>3 DEF Listed
      <4>. QED  BY <2>2, <2>3, <2>4, <3>3, <4>1
    <3>. QED  BY <3>1, <3>2, <3>3
  <2>6. Nils(c)' = Nils(c) /\ SignOffs(c)' = SignOffs(c) /\ signed'[c] = signed[c] /\ HandlerSigns(c)'
    BY <1>1, <2>1, HubAlone DEF ConnOK
  <2>. QED  BY <1>1, <1>3, <2>1, <2>2, <2>3, <2>5, <2>6, ConnTaken
<1>. QED  BY <1>8, <1>9, <1>10, HubAlone

LEMMA HubStoppedInv ==
  ASSUME Inv, HubStopped, UNCHANGED wsVars
  PROVE  Inv'
<1>1. /\ hpc = "recv" /\ mque # <<>> /\ Head(mque) = Nil /\ hpc' = "stopped"
      /\ mque' = Tail(mque) /\ UNCHANGED <<cmap, cur, todo, held, chan>>
  BY DEF HubStopped
<1>2. TypeOK /\ HubTypeOK /\ RunOK
  BY DEF Inv, TypeOK
<1>3. /\ mque \in Seq(Item) /\ Nil \in Item
      /\ mque' \in Seq(Item) /\ Len(mque') = Len(mque) - 1 /\ Len(mque) \in Nat
  BY <1>1, <1>2, TypeFacts, TailIs DEF Item
<1>4. HubTypeOK'
  <2>1. mque' \in Seq(Message \cup {Nil}) /\ Len(mque') <= QueCap
    BY <1>2, <1>3, TypeFacts DEF Item
  <2>. QED  BY <1>1, <1>2, <2>1 DEF HubTypeOK, Cap
<1>5. RunOK'
  BY <1>1, <1>2 DEF RunOK
<1>6. ASSUME NEW c \in Conns
      PROVE  ConnOK(c)'
  <2>1. ConnOK(c) /\ c \in Senders
    BY InvConns, Participants
  <2>2. Nil \notin {Msg(c, "+"), Msg(c, "-")}
    BY <1>3, <2>1, SignIs
  <2>3. ~Signing(c) /\ ~Signing(c)' /\ (Listing(c)' <=> Listing(c))
    BY <1>1 DEF Signing, Listing
  <2>4. Nils(c)' = Nils(c) /\ SignOffs(c)' = SignOffs(c) /\ signed'[c] = signed[c] /\ HandlerSigns(c)'
    BY <1>1, <2>1, HubAlone DEF ConnOK
  <2>. QED  BY <1>1, <1>2, <2>1, <2>2, <2>3, <2>4, ConnTaken
<1>. QED  BY <1>4, <1>5, <1>6, HubAlone

LEMMA HubRouteInv ==
  ASSUME Inv, HubRoute, UNCHANGED wsVars
  PROVE  Inv'
<1>. DEFINE d == Head(todo)
<1>1. /\ hpc = "route" /\ todo # <<>> /\ Send(d, Routed(d)) /\ todo' = Tail(todo)
      /\ UNCHANGED <<cmap, hpc, cur, held>>
  BY DEF HubRoute
<1>2. TypeOK /\ HubTypeOK /\ RunOK
  BY DEF Inv, TypeOK
<1>3. d \in Conns /\ todo' \in Seq(Conns)
  <2>1. todo \in Seq(Conns)
    BY <1>2, Participants, TypeFacts
  <2>. QED  BY <1>1, <2>1, TailIs
<1>4. Routed(d) = cur /\ cur \in Item /\ cur # Nil
  BY <1>1, <1>2, WsAssumption DEF Routed, HubTypeOK, Item
<1>5. /\ mque' = mque
      /\ chan' \in [Receivers -> Seq(Item)]
      /\ chan'[d] = Append(chan[d], cur)
      /\ \A x \in Receivers : x # d => chan'[x] = chan[x]
      /\ \A x \in Receivers : Len(chan'[x]) <= Cap(x)
  BY <1>1, <1>2, <1>3, <1>4, Participants, SendToConn
<1>. HIDE DEF d
<1>6. HubTypeOK'
  BY <1>1, <1>2, <1>3, <1>5, WsAssumption DEF HubTypeOK, Item, Receivers, Cap
<1>7. RunOK'
  BY <1>1, <1>2 DEF RunOK
<1>8. ASSUME NEW c \in Conns
      PROVE  ConnOK(c)'
  <2>1. ConnOK(c) /\ c \in Conns
    BY InvConns
  <2>2. (Signing(c)' <=> Signing(c)) /\ (Listing(c)' <=> Listing(c))
    BY <1>1 DEF Signing, Listing
  <2>3. SignOffs(c)' = SignOffs(c) /\ signed'[c] = signed[c] /\ HandlerSigns(c)' /\ byNil' = byNil
    BY <2>1, HubAlone DEF ConnOK, wsVars, histVars
  <2>4. Occurs(Nil, chan'[c]) = Occurs(Nil, chan[c])
    <3>1. CASE c = d
      <4>1. chan[c] \in Seq(Item)
        BY <1>2, <2>1, Participants, TypeFacts
      <4>2. Occurs(Nil, Append(chan[c], cur)) = Occurs(Nil, chan[c]) + 0 /\ Occurs(Nil, chan[c]) \in Nat
        BY <1>4, <4>1, OccursAppend, OccursType
      <4>3. chan'[c] = Append(chan[c], cur)
        BY <1>5, <3>1
      <4>4. Occurs(Nil, chan'[c]) = Occurs(Nil, Append(chan[c], cur))
        BY <4>3 DEF Occurs
      <4>. QED  BY <4>2, <4>4
    <3>2. CASE c # d
      BY <1>5, <2>1, <3>2, Participants
    <3>. QED  BY <3>1, <3>2
  <2>5. Nils(c)' = Nils(c)
    <3>1. Occurs(Nil, chan[c])' = Occurs(Nil, chan'[c])
      BY DEF Occurs
    <3>. QED  BY <2>3, <2>4, <3>1 DEF Nils
  <2>6. Signs(c)' = Signs(c)
    BY <1>5, <2>2, <2>3 DEF Signs, Sign, Msg
  <2>7. Occurs(Msg(c, "-"), mque)' = Occurs(Msg(c, "-"), mque)
    BY <1>5 DEF Occurs, Msg
  <2>. QED  BY <2>1, <2>2, <2>3, <2>5, <2>6, <2>7 DEF ConnOK, NilsOK, LastSign
<1>. QED  BY <1>6, <1>7, <1>8, HubAlone

LEMMA HubRoutedInv ==
  ASSUME Inv, HubRouted, UNCHANGED wsVars
  PROVE  Inv'
<1>1. /\ hpc = "route" /\ todo = <<>> /\ UNCHANGED <<mque, todo, held, chan>>
      /\ \/ cur.subj = "-" /\ hpc' = "signoff" /\ cmap' = cmap \ {cur.from} /\ cur' = cur
         \/ cur.subj # "-" /\ hpc' = "recv" /\ cur' = Nil /\ cmap' = cmap
  BY DEF HubRouted
<1>2. TypeOK /\ HubTypeOK /\ RunOK
  BY DEF Inv, TypeOK
<1>3. HubTypeOK'
  BY <1>1, <1>2 DEF HubTypeOK, Cap
<1>4. RunOK'
  BY <1>1, <1>2 DEF RunOK
<1>5. ASSUME NEW c \in Conns
      PROVE  ConnOK(c)'
  <2>1. ConnOK(c)
    BY InvConns
  <2>2. Signing(c)' <=> Signing(c)
    BY <1>1 DEF Signing
  <2>3. Listing(c)' <=> Listing(c)
    BY <1>1 DEF Signing, Listing
  <2>4. SignOffs(c)' = SignOffs(c) /\ signed'[c] = signed[c] /\ HandlerSigns(c)' /\ byNil' = byNil
    BY <2>1, HubAlone DEF ConnOK, wsVars, histVars
  <2>. QED  BY <1>1, <2>1, <2>2, <2>3, <2>4, ConnKept
<1>. QED  BY <1>3, <1>4, <1>5, HubAlone

\* The nil message for a client goes to its channel; the one for a server stops the hub.
LEMMA HubSignoffInv ==
  ASSUME Inv, HubSignoff, UNCHANGED wsVars
  PROVE  Inv'
<1>. DEFINE d == cur.from
<1>1. /\ hpc = "signoff" /\ Send(d, Nil) /\ hpc' = "recv" /\ cur' = Nil
      /\ UNCHANGED <<cmap, todo, held>>
  BY DEF HubSignoff
<1>2. TypeOK /\ HubTypeOK /\ RunOK
  BY DEF Inv, TypeOK
<1>3. cur \in Item /\ cur # Nil /\ cur.subj = "-" /\ d \in Conns \cup {HUB} /\ Nil \in Item
  <2>1. cur \in Item /\ cur # Nil /\ cur.subj = "-"
    BY <1>1, <1>2 DEF HubTypeOK, RunOK, Item
  <2>. QED  BY <2>1, MessageIs, Participants DEF Item
<1>. HIDE DEF d
<1>4. RunOK'
  BY <1>1, <1>2 DEF RunOK
<1>5. ASSUME NEW c \in Conns
      PROVE  /\ ConnOK(c) /\ c \in Conns /\ c # HUB
             /\ ~Signing(c)' /\ (Listing(c)' <=> Listing(c)) /\ (Signing(c) <=> c = d)
             /\ SignOffs(c)' = SignOffs(c) /\ signed'[c] = signed[c] /\ HandlerSigns(c)' /\ byNil' = byNil
             /\ chan'[c] = chan[c] => Nils(c)' = Nils(c)
  <2>1. ~Signing(c)' /\ (Listing(c)' <=> Listing(c)) /\ (Signing(c) <=> c = d)
    BY <1>1, <1>3 DEF Signing, Listing, d
  <2>. QED  BY <2>1, InvConns, Participants, HubAlone DEF ConnOK, wsVars, histVars
<1>6. CASE d = HUB
  <2>1. mque' = Append(mque, Nil) /\ chan' = chan /\ mque' \in Seq(Item) /\ Len(mque') <= QueCap
    BY <1>1, <1>2, <1>3, <1>6, SendToHub
  <2>2. HubTypeOK'
    BY <1>1, <1>2, <2>1 DEF HubTypeOK, Cap, Item
  <2>3. ASSUME NEW c \in Conns
        PROVE  ConnOK(c)'
    <3>1. ~Signing(c) /\ ~Signing(c)'
      BY <1>5, <1>6
    <3>. QED  BY <1>2, <1>3, <1>5, <2>1, <3>1, ConnSends
  <2>. QED  BY <1>4, <2>2, <2>3, HubAlone
<1>7. CASE d \in Conns
  <2>1. /\ mque' = mque
        /\ chan' \in [Receivers -> Seq(Item)]
        /\ chan'[d] = Append(chan[d], Nil)
        /\ \A x \in Receivers : x # d => chan'[x] = chan[x]
        /\ \A x \in Receivers : Len(chan'[x]) <= Cap(x)
    BY <1>1, <1>2, <1>3, <1>7, Participants, SendToConn
  <2>2. HubTypeOK'
    BY <1>1, <1>2, <2>1 DEF HubTypeOK, Cap, Item, Receivers
  <2>3. ASSUME NEW c \in Conns
        PROVE  ConnOK(c)'
    <3>1. CASE c # d
      <4>1. chan'[c] = chan[c] /\ (Signing(c)' <=> Signing(c))
        BY <1>5, <2>1, <3>1, Participants
      <4>. QED  BY <1>5, <2>1, <4>1, ConnKept
    <3>2. CASE c = d
      <4>1. Occurs(Nil, Append(chan[c], Nil)) = Occurs(Nil, chan[c]) + 1
        <5>1. chan[c] \in Seq(Item)
          BY <1>2, <1>5, Participants, TypeFacts
        <5>. QED  BY <1>3, <5>1, OccursAppend
      <4>2. Occurs(Nil, chan[c])' = Occurs(Nil, chan[c]) + 1
        <5>1. chan'[c] = Append(chan[c], Nil)
          BY <2>1, <3>2
        <5>. QED  BY <4>1, <5>1 DEF Occurs
      <4>3. /\ Occurs(Nil, chan[c]) \in Nat /\ Cardinality(ByNil(c)) \in Nat
            /\ Nils(c) = Occurs(Nil, chan[c]) + Cardinality(ByNil(c))
            /\ Occurs(Msg(c, "-"), mque) \in Nat
        BY <1>2, <1>5, CountsType
      <4>4. Nils(c)' = Occurs(Nil, chan[c])' + Cardinality(ByNil(c))
        BY <1>5 DEF Nils, ByNil
      <4>5. Nils(c)' = Nils(c) + 1 /\ Nils(c) \in Nat
        BY <4>2, <4>3, <4>4
      <4>6. Signing(c) /\ ~Signing(c)' /\ SignOffs(c)' = SignOffs(c)
        BY <1>5, <3>2
      <4>7. Occurs(Msg(c, "-"), mque)' = Occurs(Msg(c, "-"), mque)
        BY <2>1 DEF Occurs, Msg
      <4>8. SignOffs(c) = Nils(c) + Occurs(Msg(c, "-"), mque) + 1
        BY <1>5, <4>6 DEF ConnOK, NilsOK
      <4>9. NilsOK(c)'
        BY <4>3, <4>5, <4>6, <4>7, <4>8 DEF NilsOK
      <4>10. Signs(c)' = Signs(c)
        BY <1>5, <2>1 DEF Signs, Sign, Msg
      <4>. QED  BY <1>5, <4>9, <4>10 DEF ConnOK, LastSign
    <3>. QED  BY <3>1, <3>2
  <2>. QED  BY <1>4, <2>2, <2>3, HubAlone
<1>. QED  BY <1>3, <1>6, <1>7

-----------------------------------------------------------------------------
(* The handlers keep the invariant *)

\* A step of one handler is none of another connection.
LEMMA HandlerAlone ==
  ASSUME NEW d, servers' = servers, sess'[d] = sess[d], hs'[d] = hs[d],
         signed'[d] = signed[d], offs'[d] = offs[d]
  PROVE  (HandlerSigns(d)' <=> HandlerSigns(d)) /\ SignOffs(d)' = SignOffs(d)
BY DEF HandlerSigns, Active, SignOffs, HandlerSignOffs, SignedOff

\* What stays the same while the hub does nothing.
LEMMA HubWaits ==
  ASSUME UNCHANGED runVars
  PROVE  \A c : (Signing(c)' <=> Signing(c)) /\ (Listing(c)' <=> Listing(c))
BY DEF runVars, Signing, Listing

\* A step of the handler of c that sends nothing.
LEMMA HandlerKeeps ==
  ASSUME Inv, NEW c \in Conns, UNCHANGED <<hubVars, servers, histVars>>, TypeOK',
         \A d \in Conns : d # c => sess'[d] = sess[d] /\ hs'[d] = hs[d] /\ wr'[d] = wr[d],
         WritersOK(c)', Active(c)' <=> Active(c), HandlerSignOffs(c)' = HandlerSignOffs(c)
  PROVE  Inv'
<1>1. RunOK'
  BY DEF Inv, RunOK, hubVars
<1>2. ASSUME NEW d \in Conns
      PROVE  WritersOK(d)' /\ ConnOK(d)'
  <2>1. ConnOK(d) /\ WritersOK(d)
    BY InvConns
  <2>2. signed' = signed /\ offs' = offs /\ byNil' = byNil /\ mque' = mque /\ chan' = chan
    BY DEF histVars, hubVars
  <2>3. WritersOK(d)'
    BY <2>1, <2>2 DEF WritersOK
  <2>4. HandlerSigns(d)' /\ SignOffs(d)' = SignOffs(d)
    <3>1. CASE d = c
      BY <2>1, <2>2, <3>1 DEF ConnOK, HandlerSigns, SignOffs
    <3>2. CASE d # c
      BY <2>1, <2>2, <3>2, HandlerAlone DEF ConnOK
    <3>. QED  BY <3>1, <3>2
  <2>5. (Signing(d)' <=> Signing(d)) /\ (Listing(d)' <=> Listing(d))
    BY HubWaits DEF hubVars, runVars
  <2>. QED  BY <2>1, <2>2, <2>3, <2>4, <2>5, ConnKept
<1>. QED  BY <1>1, <1>2 DEF Inv, ConnOK, NilsOK, NilsMatchSignoffs

\* A step of the handler of c that sends a message of f with subject s to the hub.
LEMMA HandlerSends ==
  ASSUME Inv, NEW c \in Conns, NEW f \in {c, HUB}, NEW s \in Subjects, Send(HUB, Msg(f, s)),
         signed' = SignedBy(c, Msg(f, s)), TypeOK',
         UNCHANGED <<runVars, servers, sess, byNil>>,
         \A d \in Conns : d # c => hs'[d] = hs[d] /\ wr'[d] = wr[d] /\ offs'[d] = offs[d],
         WritersOK(c)', HandlerSigns(c)',
         SignOffs(c)' = SignOffs(c) + (IF f = c /\ s = "-" THEN 1 ELSE 0)
  PROVE  Inv'
<1>. DEFINE m == Msg(f, s)
<1>1. TypeOK /\ HubTypeOK /\ RunOK
  BY DEF Inv, TypeOK
<1>2. m \in Message /\ m \in Item /\ m # Nil /\ m.from = f /\ m.subj = s
  BY MsgType, Participants DEF Item
<1>3. mque' = Append(mque, m) /\ chan' = chan
  BY <1>1, <1>2, SendToHub
<1>4. RunOK'
  BY <1>1 DEF RunOK, runVars
<1>5. ASSUME NEW d \in Conns
      PROVE  WritersOK(d)' /\ ConnOK(d)'
  <2>1. ConnOK(d) /\ WritersOK(d) /\ d # HUB
    BY InvConns, Participants
  <2>2. WritersOK(d)'
    BY <2>1 DEF WritersOK
  <2>3. (Signing(d)' <=> Signing(d)) /\ (Listing(d)' <=> Listing(d))
    BY HubWaits
  <2>4. Nils(d)' = Nils(d)
    BY <1>3 DEF Nils, Occurs
  <2>5. SignOffs(d) \in Nat
    BY <1>1, CountsType
  <2>6. CASE d # c
    <3>1. signed'[d] = signed[d]
      BY <1>1, <2>6 DEF SignedBy, TypeOK
    <3>2. HandlerSigns(d)' /\ SignOffs(d)' = SignOffs(d)
      BY <2>1, <2>6, <3>1, HandlerAlone DEF ConnOK
    <3>3. m.from # d
      BY <1>2, <2>1, <2>6
    <3>. HIDE DEF m
    <3>. QED  BY <1>1, <1>2, <1>3, <2>1, <2>2, <2>3, <2>4, <3>1, <3>2, <3>3, ConnSends
  <2>7. CASE d = c
    <3>1. signed'[c] = IF f = c /\ s # "msg" THEN s ELSE signed[c]
      BY <1>1, <1>2 DEF SignedBy, TypeOK
    <3>2. \/ f # c \/ s = "msg"
          \/ f = c /\ s = "+"
          \/ f = c /\ s = "-"
      BY DEF Subjects
    <3>3. CASE f # c \/ s = "msg"
      <4>1. (m.from # d \/ m.subj \notin {"+", "-"}) /\ signed'[d] = signed[d]
            /\ SignOffs(d)' = SignOffs(d)
        BY <1>2, <2>5, <2>7, <3>1, <3>3
      <4>. HIDE DEF m
      <4>. QED  BY <1>1, <1>2, <1>3, <2>1, <2>2, <2>3, <2>4, <2>7, <4>1, ConnSends
    <3>4. CASE f = c /\ s = "+"
      <4>1. m = Msg(d, "+") /\ signed'[d] = "+" /\ SignOffs(d)' = SignOffs(d)
        BY <2>5, <2>7, <3>1, <3>4
      <4>. HIDE DEF m
      <4>. QED  BY <1>1, <1>2, <1>3, <2>1, <2>2, <2>3, <2>4, <2>7, <4>1, ConnSends
    <3>5. CASE f = c /\ s = "-"
      <4>1. m = Msg(d, "-") /\ signed'[d] = "-" /\ SignOffs(d)' = SignOffs(d) + 1
        BY <2>7, <3>1, <3>5
      <4>. HIDE DEF m
      <4>. QED  BY <1>1, <1>2, <1>3, <2>1, <2>2, <2>3, <2>4, <2>7, <4>1, ConnSends
    <3>. QED  BY <3>2, <3>3, <3>4, <3>5
  <2>. QED  BY <2>6, <2>7
<1>. QED  BY <1>4, <1>5 DEF Inv, ConnOK, NilsOK, NilsMatchSignoffs

\* Only the handler, the writers and the histories change when a handler sends.
LEMMA SendType ==
  ASSUME TypeOK, NEW c \in Conns, NEW f \in {c, HUB}, NEW s \in Subjects, Send(HUB, Msg(f, s)),
         signed' = SignedBy(c, Msg(f, s)),
         UNCHANGED <<runVars, servers, sess, nread, ws, byNil>>,
         NEW h \in {"read", "done"}, hs' = [hs EXCEPT ![c] = h],
         frame' = [frame EXCEPT ![c] = "none"],
         wr' \in [Conns -> [Sess -> {"none", "run", "done"}]],
         offs' \in [Conns -> Nat]
  PROVE  /\ TypeOK'
         /\ hs'[c] = h /\ \A d \in Conns : d # c => hs'[d] = hs[d]
         /\ signed'[c] = IF f = c /\ s # "msg" THEN s ELSE signed[c]
<1>1. HubTypeOK
  BY DEF TypeOK
<1>2. Msg(f, s) \in Item /\ Msg(f, s).from = f /\ Msg(f, s).subj = s
  BY MsgType, Participants DEF Item
<1>3. mque' \in Seq(Item) /\ Len(mque') <= QueCap /\ chan' = chan
  BY <1>1, <1>2, SendToHub
<1>4. HubTypeOK'
  BY <1>1, <1>3 DEF HubTypeOK, runVars, Cap, Item
<1>5. hs'[c] = h /\ \A d \in Conns : d # c => hs'[d] = hs[d]
  BY DEF TypeOK
<1>6. /\ signed' \in [Conns -> {"+", "-"}]
      /\ signed'[c] = IF f = c /\ s # "msg" THEN s ELSE signed[c]
  BY <1>2 DEF SignedBy, TypeOK, Subjects
<1>7. /\ hs' \in [Conns -> {"none", "signon", "read", "route", "signoff", "done"}]
      /\ frame' \in [Conns -> Subjects \cup {"none"}]
  BY DEF TypeOK
<1>8. \A d \in Conns : frame'[d] = "none" <=> hs'[d] # "route"
  BY <1>5 DEF TypeOK
<1>. QED  BY <1>4, <1>5, <1>6, <1>7, <1>8 DEF TypeOK

LEMMA OpenInv ==
  ASSUME Inv, NEW c \in Conns, Open(c)
  PROVE  Inv'
<1>1. /\ hs[c] \in {"none", "done"} /\ sess[c] < (IF c \in servers THEN 1 ELSE MaxSess)
      /\ sess' = [sess EXCEPT ![c] = sess[c] + 1] /\ hs' = [hs EXCEPT ![c] = "signon"]
      /\ ws' = [ws EXCEPT ![c][sess[c] + 1] = "open"]
      /\ UNCHANGED <<hubVars, servers, frame, nread, wr, histVars>>
  BY DEF Open
<1>2. TypeOK /\ WritersOK(c)
  BY DEF Inv
<1>3. sess[c] \in Nat /\ sess[c] + 1 \in 0..MaxSess /\ MaxSess \in Nat
  BY <1>1, <1>2, WsAssumption DEF TypeOK
<1>4. /\ sess'[c] = sess[c] + 1 /\ hs'[c] = "signon"
      /\ \A d \in Conns : d # c => sess'[d] = sess[d] /\ hs'[d] = hs[d] /\ wr'[d] = wr[d]
  BY <1>1, <1>2 DEF TypeOK
<1>5. TypeOK'
  <2>1. sess' \in [Conns -> 0..MaxSess]
    BY <1>1, <1>2, <1>3 DEF TypeOK
  <2>2. HubTypeOK'
    BY <1>1, <1>2 DEF TypeOK, HubTypeOK, hubVars, Cap
  <2>3. \A d \in Conns : frame'[d] = "none" <=> hs'[d] # "route"
    BY <1>1, <1>2, <1>4 DEF TypeOK
  <2>. QED  BY <1>1, <1>2, <2>1, <2>2, <2>3 DEF TypeOK, histVars
<1>6. WritersOK(c)'
  <2>1. hs'[c] # "none" /\ sess'[c] # 0
    BY <1>3, <1>4
  <2>2. ASSUME NEW k \in Sess, k >= sess'[c]
        PROVE  wr'[c][k] = "none"
    <3>1. k > sess[c]
      BY <1>3, <1>4, <2>2 DEF Sess
    <3>. QED  BY <1>1, <1>2, <3>1 DEF WritersOK
  <2>3. ASSUME NEW k \in Sess, k > sess'[c] \/ k = sess'[c]
        PROVE  wr'[c][k] = "none"
    BY <1>3, <1>4, <2>2, <2>3 DEF Sess
  <2>. QED  BY <1>1, <1>2, <2>1, <2>3 DEF WritersOK, histVars
<1>7. Active(c)' <=> Active(c)
  BY <1>1, <1>4 DEF Active
<1>8. HandlerSignOffs(c)' = HandlerSignOffs(c)
  <2>1. ASSUME NEW k \in Sess
        PROVE  SignedOff(c, k)' <=> SignedOff(c, k)
    <3>1. k \in Nat \ {0}
      BY WsAssumption DEF Sess
    <3>2. SignedOff(c, k)' <=> k < sess[c] + 1
      BY <1>4 DEF SignedOff
    <3>3. CASE hs[c] = "none"
      <4>1. sess[c] = 0
        BY <1>2, <3>3 DEF WritersOK
      <4>. QED  BY <3>1, <3>2, <3>3, <4>1 DEF SignedOff
    <3>4. CASE hs[c] = "done"
      BY <1>3, <3>1, <3>2, <3>4 DEF SignedOff
    <3>. QED  BY <1>1, <3>3, <3>4
  <2>. QED  BY <1>1, <2>1 DEF HandlerSignOffs
<1>. QED  BY <1>1, <1>4, <1>5, <1>6, <1>7, <1>8, HandlerKeeps

\* The writer of a websocket whose handler signs on has not run before.
LEMMA SignOnInv ==
  ASSUME Inv, NEW c \in Conns, SignOn(c)
  PROVE  Inv'
<1>1. /\ hs[c] = "signon" /\ Send(HUB, Msg(SignFrom(c), "+"))
      /\ signed' = SignedBy(c, Msg(SignFrom(c), "+"))
      /\ hs' = [hs EXCEPT ![c] = "read"] /\ wr' = [wr EXCEPT ![c][sess[c]] = "run"]
      /\ UNCHANGED <<runVars, servers, sess, frame, nread, ws, byNil, offs>>
  BY DEF SignOn
<1>2. TypeOK /\ WritersOK(c)
  BY DEF Inv
<1>3. /\ wr' \in [Conns -> [Sess -> {"none", "run", "done"}]]
      /\ \A d \in Conns : d # c => wr'[d] = wr[d]
      /\ \A k \in Sess : wr'[c][k] = IF k = sess[c] THEN "run" ELSE wr[c][k]
      /\ hs'[c] = "read" /\ sess' = sess /\ sess[c] # 0
  BY <1>1, <1>2 DEF TypeOK, WritersOK
<1>4. WritersOK(c)'
  <2>1. ASSUME NEW k \in Sess, k > sess[c]
        PROVE  k # sess[c] /\ wr[c][k] = "none"
    <3>1. k \in Nat /\ sess[c] \in Nat
      BY <1>2, WsAssumption DEF TypeOK, Sess
    <3>2. k # sess[c]
      BY <2>1, <3>1
    <3>. QED  BY <1>2, <2>1, <3>2 DEF WritersOK
  <2>2. \A k \in Sess : k = sess[c] => <<c, k>> \notin byNil
    BY <1>1, <1>2 DEF WritersOK
  <2>. QED  BY <1>1, <1>2, <1>3, <2>1, <2>2 DEF WritersOK
<1>5. SignFrom(c) \in {c, HUB} /\ (c \notin servers => SignFrom(c) = c) /\ "+" \in Subjects
  BY DEF SignFrom, Subjects
<1>6. frame' = [frame EXCEPT ![c] = "none"] /\ offs' \in [Conns -> Nat]
  BY <1>1, <1>2 DEF TypeOK
<1>7. /\ TypeOK' /\ \A d \in Conns : d # c => hs'[d] = hs[d]
      /\ signed'[c] = IF SignFrom(c) = c /\ "+" # "msg" THEN "+" ELSE signed[c]
  BY <1>1, <1>2, <1>3, <1>5, <1>6, SendType
<1>8. HandlerSigns(c)'
  BY <1>1, <1>3, <1>5, <1>7 DEF HandlerSigns, Active
<1>9. SignOffs(c)' = SignOffs(c) /\ SignOffs(c) \in Nat
  BY <1>1, <1>2, <1>3, CountsType DEF SignOffs, HandlerSignOffs, SignedOff
<1>10. SignOffs(c)' = SignOffs(c) + (IF SignFrom(c) = c /\ "+" = "-" THEN 1 ELSE 0)
  BY <1>9
<1>. QED  BY <1>1, <1>3, <1>4, <1>5, <1>7, <1>8, <1>10, HandlerSends

LEMMA ReadInv ==
  ASSUME Inv, NEW c \in Conns, Read(c)
  PROVE  Inv'
<1>1. /\ hs[c] = "read" /\ nread < MaxRead /\ nread' = nread + 1 /\ hs' = [hs EXCEPT ![c] = "route"]
      /\ UNCHANGED <<hubVars, servers, sess, ws, wr, histVars>>
  BY DEF Read
<1>2. PICK subj \in Subjects : frame' = [frame EXCEPT ![c] = subj]
  BY DEF Read
<1>3. TypeOK /\ WritersOK(c)
  BY DEF Inv
<1>4. hs'[c] = "route" /\ sess' = sess
      /\ \A d \in Conns : d # c => hs'[d] = hs[d]
  BY <1>1, <1>3 DEF TypeOK
<1>5. TypeOK'
  <2>1. nread' \in 0..MaxRead
    BY <1>1, <1>3, WsAssumption DEF TypeOK
  <2>2. HubTypeOK'
    BY <1>1, <1>3 DEF TypeOK, HubTypeOK, hubVars, Cap
  <2>3. frame' \in [Conns -> Subjects \cup {"none"}] /\ subj # "none"
    BY <1>2, <1>3 DEF TypeOK, Subjects
  <2>4. \A d \in Conns : frame'[d] = "none" <=> hs'[d] # "route"
    BY <1>2, <1>3, <1>4, <2>3 DEF TypeOK
  <2>. QED  BY <1>1, <1>3, <2>1, <2>2, <2>3, <2>4 DEF TypeOK, histVars
<1>6. WritersOK(c)'
  BY <1>1, <1>3, <1>4 DEF WritersOK, histVars
<1>7. (Active(c)' <=> Active(c)) /\ HandlerSignOffs(c)' = HandlerSignOffs(c)
  BY <1>1, <1>4 DEF Active, HandlerSignOffs, SignedOff
<1>. QED  BY <1>1, <1>4, <1>5, <1>6, <1>7, HandlerKeeps

\* What a peer sends may be a sign-off; its handler is at work.
LEMMA RouteInv ==
  ASSUME Inv, NEW c \in Conns, Route(c)
  PROVE  Inv'
<1>. DEFINE s == frame[c]
<1>1. /\ hs[c] = "route" /\ Send(HUB, Msg(c, s)) /\ hs' = [hs EXCEPT ![c] = "read"]
      /\ signed' = SignedBy(c, Msg(c, s))
      /\ offs' = IF s = "-" THEN [offs EXCEPT ![c] = @ + 1] ELSE offs
      /\ frame' = [frame EXCEPT ![c] = "none"]
      /\ UNCHANGED <<runVars, servers, sess, nread, ws, wr, byNil>>
  BY DEF Route
<1>2. TypeOK /\ WritersOK(c) /\ HandlerSigns(c)
  BY DEF Inv
<1>3. hs'[c] = "read" /\ sess' = sess /\ wr' = wr
  BY <1>1, <1>2 DEF TypeOK
<1>4. s \in Subjects
  BY <1>1, <1>2 DEF TypeOK
<1>. HIDE DEF s
<1>5. WritersOK(c)'
  BY <1>1, <1>2, <1>3 DEF WritersOK
<1>6. wr' \in [Conns -> [Sess -> {"none", "run", "done"}]] /\ offs' \in [Conns -> Nat]
  BY <1>1, <1>2 DEF TypeOK
<1>7. /\ offs[c] \in Nat /\ offs'[c] = offs[c] + (IF s = "-" THEN 1 ELSE 0)
      /\ \A d \in Conns : d # c => offs'[d] = offs[d]
  BY <1>1, <1>2 DEF TypeOK
<1>8. /\ TypeOK' /\ \A d \in Conns : d # c => hs'[d] = hs[d]
      /\ signed'[c] = IF c = c /\ s # "msg" THEN s ELSE signed[c]
  BY <1>1, <1>2, <1>4, <1>6, SendType
<1>9. HandlerSigns(c)'
  <2>1. Active(c) /\ Active(c)'
    BY <1>1, <1>3 DEF Active
  <2>2. offs'[c] = 0 => offs[c] = 0 /\ s # "-"
    BY <1>7
  <2>. QED  BY <1>1, <1>2, <1>4, <1>8, <2>1, <2>2 DEF HandlerSigns, Subjects
<1>10. SignOffs(c)' = SignOffs(c) + (IF c = c /\ s = "-" THEN 1 ELSE 0)
  <2>1. HandlerSignOffs(c)' = HandlerSignOffs(c) /\ HandlerSignOffs(c) \in Nat
    BY <1>1, <1>2, <1>3, CountsType DEF HandlerSignOffs, SignedOff
  <2>. QED  BY <1>7, <2>1 DEF SignOffs
<1>. QED  BY <1>1, <1>3, <1>4, <1>5, <1>7, <1>8, <1>9, <1>10, HandlerSends

LEMMA ReadEndsInv ==
  ASSUME Inv, NEW c \in Conns, ReadEnds(c)
  PROVE  Inv'
<1>1. /\ hs[c] = "read" /\ hs' = [hs EXCEPT ![c] = "signoff"]
      /\ UNCHANGED <<hubVars, servers, sess, frame, nread, ws, wr, histVars>>
  BY DEF ReadEnds
<1>2. TypeOK /\ WritersOK(c)
  BY DEF Inv
<1>3. hs'[c] = "signoff" /\ sess' = sess
      /\ \A d \in Conns : d # c => hs'[d] = hs[d]
  BY <1>1, <1>2 DEF TypeOK
<1>4. TypeOK'
  <2>1. HubTypeOK'
    BY <1>1, <1>2 DEF TypeOK, HubTypeOK, hubVars, Cap
  <2>2. \A d \in Conns : frame'[d] = "none" <=> hs'[d] # "route"
    BY <1>1, <1>2, <1>3 DEF TypeOK
  <2>. QED  BY <1>1, <1>2, <2>1, <2>2 DEF TypeOK, histVars
<1>5. WritersOK(c)'
  BY <1>1, <1>2, <1>3 DEF WritersOK, histVars
<1>6. (Active(c)' <=> Active(c)) /\ HandlerSignOffs(c)' = HandlerSignOffs(c)
  BY <1>1, <1>3 DEF Active, HandlerSignOffs, SignedOff
<1>. QED  BY <1>1, <1>3, <1>4, <1>5, <1>6, HandlerKeeps

\* One more sign-off of a client's handlers.
LEMMA SignOffInv ==
  ASSUME Inv, NEW c \in Conns, SignOff(c)
  PROVE  Inv'
<1>1. /\ hs[c] = "signoff" /\ Send(HUB, Msg(SignFrom(c), "-"))
      /\ signed' = SignedBy(c, Msg(SignFrom(c), "-"))
      /\ hs' = [hs EXCEPT ![c] = "done"]
      /\ UNCHANGED <<runVars, servers, sess, frame, nread, ws, wr, byNil, offs>>
  BY DEF SignOff
<1>2. TypeOK /\ WritersOK(c)
  BY DEF Inv
<1>3. hs'[c] = "done" /\ sess' = sess /\ wr' = wr
  BY <1>1, <1>2 DEF TypeOK
<1>4. WritersOK(c)'
  BY <1>1, <1>2, <1>3 DEF WritersOK
<1>5. /\ SignFrom(c) \in {c, HUB} /\ (c \notin servers <=> SignFrom(c) = c)
      /\ "-" \in Subjects /\ c # HUB
  BY Participants DEF SignFrom, Subjects
<1>6. /\ wr' \in [Conns -> [Sess -> {"none", "run", "done"}]] /\ offs' \in [Conns -> Nat]
      /\ frame' = [frame EXCEPT ![c] = "none"]
  BY <1>1, <1>2 DEF TypeOK
<1>7. /\ TypeOK' /\ \A d \in Conns : d # c => hs'[d] = hs[d]
      /\ signed'[c] = IF SignFrom(c) = c /\ "-" # "msg" THEN "-" ELSE signed[c]
  BY <1>1, <1>2, <1>5, <1>6, SendType
<1>8. HandlerSigns(c)'
  BY <1>1, <1>3, <1>5, <1>7 DEF HandlerSigns, Active
<1>9. SignOffs(c)' = SignOffs(c) + (IF SignFrom(c) = c /\ "-" = "-" THEN 1 ELSE 0)
  <2>1. HandlerSignOffs(c) \in Nat /\ offs[c] \in Nat /\ offs' = offs
    BY <1>1, <1>2, CountsType DEF TypeOK
  <2>2. CASE c \in servers
    BY <1>1, <1>5, <2>1, <2>2 DEF SignOffs, HandlerSignOffs
  <2>3. CASE c \notin servers
    <3>. DEFINE B == {k \in Sess : SignedOff(c, k)}
                A == {k \in Sess : SignedOff(c, k)'}
    <3>1. sess[c] \in Sess /\ \A k \in Sess : k \in Nat
      BY <1>1, <1>2, WsAssumption DEF WritersOK, TypeOK, Sess
    <3>2. sess[c] \notin B
      BY <1>1, <3>1 DEF SignedOff
    <3>3. A = B \cup {sess[c]}
      BY <1>1, <1>3, <3>1 DEF SignedOff
    <3>4. /\ IsFiniteSet(B) /\ HandlerSignOffs(c) = Cardinality(B)
          /\ HandlerSignOffs(c)' = Cardinality(A)
      BY <1>1, <1>2, <2>3, CountsType DEF HandlerSignOffs
    <3>. HIDE DEF A, B
    <3>5. HandlerSignOffs(c)' = HandlerSignOffs(c) + 1
      BY <3>2, <3>3, <3>4, FS_AddElement
    <3>. QED  BY <1>5, <2>1, <2>3, <3>5 DEF SignOffs
  <2>. QED  BY <2>2, <2>3
<1>. QED  BY <1>1, <1>3, <1>4, <1>5, <1>7, <1>8, <1>9, HandlerSends

-----------------------------------------------------------------------------
(* Writers and the network keep the invariant *)

\* The writer of websocket k ends.
LEMMA EndsWriter ==
  ASSUME TypeOK, NEW c \in Conns, NEW k \in Sess, Ends(c, k)
  PROVE  /\ wr' \in [Conns -> [Sess -> {"none", "run", "done"}]]
         /\ ws' \in [Conns -> [Sess -> {"none", "open", "broken", "closed"}]]
         /\ \A d \in Conns : d # c => wr'[d] = wr[d]
         /\ \A j \in Sess : wr'[c][j] = IF j = k THEN "done" ELSE wr[c][j]
BY DEF Ends, TypeOK

\* Only a writer that runs ends, so a websocket without a writer still has none.
LEMMA WriterEnds ==
  ASSUME Inv, NEW c \in Conns, NEW k \in Sess, wr[c][k] = "run",
         UNCHANGED <<sess, hs>>,
         Ends(c, k) \/ UNCHANGED wr,
         \A w \in byNil' : w \in byNil \/ (w = <<c, k>> /\ Ends(c, k))
  PROVE  \A d \in Conns : WritersOK(d)'
<1>. TAKE d \in Conns
<1>1. WritersOK(d) /\ TypeOK
  BY DEF Inv
<1>2. ASSUME NEW j \in Sess
      PROVE  /\ wr'[d][j] = wr[d][j] \/ (d = c /\ j = k /\ wr'[d][j] = "done" /\ Ends(c, k))
             /\ Ends(c, k) /\ d = c /\ j = k => wr'[d][j] = "done"
  BY <1>1, EndsWriter
<1>3. ASSUME NEW j \in Sess, j > sess[d] \/ (j = sess[d] /\ hs[d] = "signon")
      PROVE  wr'[d][j] = "none"
  <2>1. wr[d][j] = "none"
    BY <1>1, <1>3 DEF WritersOK
  <2>. QED  BY <1>2, <2>1
<1>4. ASSUME NEW j \in Sess, <<d, j>> \in byNil'
      PROVE  wr'[d][j] = "done"
  <2>1. CASE <<d, j>> \in byNil
    <3>1. wr[d][j] = "done"
      BY <1>1, <2>1 DEF WritersOK
    <3>. QED  BY <1>2, <3>1
  <2>2. CASE <<d, j>> = <<c, k>> /\ Ends(c, k)
    BY <1>2, <2>2
  <2>. QED  BY <1>4, <2>1, <2>2
<1>. QED  BY <1>1, <1>3, <1>4 DEF WritersOK

\* A nil message moves from the channel to the writer that ends because of it.
LEMMA WriteInv ==
  ASSUME Inv, NEW c \in Conns, NEW k \in Sess, Write(c, k)
  PROVE  Inv'
<1>. DEFINE h == Head(chan[c])
<1>1. /\ wr[c][k] = "run" /\ chan[c] # <<>> /\ chan' = [chan EXCEPT ![c] = Tail(@)]
      /\ UNCHANGED <<mque, runVars, servers, sess, hs, frame, nread, signed, offs>>
  BY DEF Write
<1>2. \/ h = Nil /\ Ends(c, k) /\ byNil' = byNil \cup {<<c, k>>}
      \/ h # Nil /\ byNil' = byNil /\ (UNCHANGED <<wr, ws>> \/ Ends(c, k))
  BY DEF Write
<1>. HIDE DEF h
<1>3. TypeOK /\ HubTypeOK /\ RunOK /\ c \in Receivers /\ WritersOK(c)
  BY Participants DEF Inv, TypeOK
<1>4. /\ chan' \in [Receivers -> Seq(Item)]
      /\ chan'[c] = Tail(chan[c])
      /\ \A d \in Receivers : d # c => chan'[d] = chan[d]
      /\ \A d \in Receivers : Len(chan'[d]) <= Cap(d)
  BY <1>1, <1>3, TakeFromConn
<1>5. TypeOK'
  <2>1. HubTypeOK'
    BY <1>1, <1>3, <1>4 DEF HubTypeOK, runVars, Item, Receivers, Cap
  <2>2. /\ wr' \in [Conns -> [Sess -> {"none", "run", "done"}]]
        /\ ws' \in [Conns -> [Sess -> {"none", "open", "broken", "closed"}]]
    BY <1>2, <1>3, EndsWriter DEF TypeOK
  <2>3. byNil' \subseteq Conns \X Sess
    BY <1>2, <1>3 DEF TypeOK
  <2>. QED  BY <1>1, <1>3, <2>1, <2>2, <2>3 DEF TypeOK
<1>6. RunOK'
  BY <1>1, <1>3 DEF RunOK, runVars
<1>7. \A d \in Conns : WritersOK(d)'
  <2>1. Ends(c, k) \/ UNCHANGED wr
    BY <1>2
  <2>2. \A w \in byNil' : w \in byNil \/ (w = <<c, k>> /\ Ends(c, k))
    BY <1>2
  <2>. QED  BY <1>1, <2>1, <2>2, WriterEnds
<1>8. ASSUME NEW d \in Conns
      PROVE  ConnOK(d)'
  <2>1. ConnOK(d) /\ d \in Conns
    BY InvConns
  <2>2. (Signing(d)' <=> Signing(d)) /\ (Listing(d)' <=> Listing(d))
    BY <1>1, HubWaits
  <2>3. HandlerSigns(d)' /\ SignOffs(d)' = SignOffs(d)
    BY <1>1, <2>1, HandlerAlone DEF ConnOK
  <2>4. Nils(d)' = Nils(d)
    <3>1. CASE d # c
      <4>1. chan'[d] = chan[d]
        BY <1>4, <2>1, <3>1, Participants
      <4>2. ByNil(d)' = ByNil(d)
        BY <1>2, <3>1 DEF ByNil
      <4>. QED  BY <4>1, <4>2 DEF Nils, ByNil, Occurs
    <3>2. CASE d = c
      <4>1. chan[c] \in Seq(Item) /\ Tail(chan[c]) \in Seq(Item)
        BY <1>1, <1>3, TypeFacts, TailIs
      <4>2. /\ Occurs(Nil, chan[c]) = Occurs(Nil, Tail(chan[c])) + (IF h = Nil THEN 1 ELSE 0)
            /\ Occurs(Nil, Tail(chan[c])) \in Nat
        BY <1>1, <4>1, OccursTail, OccursType DEF h
      <4>3. Occurs(Nil, chan[c])' = Occurs(Nil, Tail(chan[c]))
        BY <1>4 DEF Occurs
      <4>4. IsFiniteSet(ByNil(c)) /\ Cardinality(ByNil(c)) \in Nat
            /\ Nils(c) = Occurs(Nil, chan[c]) + Cardinality(ByNil(c))
        BY <1>3, CountsType
      <4>5. Nils(c)' = Occurs(Nil, chan[c])' + Cardinality(ByNil(c)')
        BY DEF Nils, ByNil
      <4>6. CASE h = Nil
        <5>1. <<c, k>> \notin ByNil(c)
          BY <1>1, <1>3 DEF WritersOK, ByNil
        <5>2. ByNil(c)' = ByNil(c) \cup {<<c, k>>}
          BY <1>2, <4>6 DEF ByNil
        <5>3. Cardinality(ByNil(c)') = Cardinality(ByNil(c)) + 1
          BY <4>4, <5>1, <5>2, FS_AddElement
        <5>. QED  BY <3>2, <4>2, <4>3, <4>4, <4>5, <4>6, <5>3
      <4>7. CASE h # Nil
        <5>1. ByNil(c)' = ByNil(c)
          BY <1>2, <4>7 DEF ByNil
        <5>2. Occurs(Nil, chan[c])' = Occurs(Nil, chan[c])
          BY <4>2, <4>3, <4>7
        <5>. QED  BY <3>2, <4>4, <4>5, <5>1, <5>2
      <4>. QED  BY <4>6, <4>7
    <3>. QED  BY <3>1, <3>2
  <2>5. Signs(d)' = Signs(d)
    BY <1>1, <2>2 DEF Signs, Sign, Msg
  <2>6. Occurs(Msg(d, "-"), mque)' = Occurs(Msg(d, "-"), mque)
    BY <1>1 DEF Occurs, Msg
  <2>. QED  BY <1>1, <2>1, <2>2, <2>3, <2>4, <2>5, <2>6 DEF ConnOK, NilsOK, LastSign
<1>9. servers' = servers
  BY <1>1
<1>. QED  BY <1>5, <1>6, <1>7, <1>8, <1>9 DEF Inv, ConnOK, NilsOK, NilsMatchSignoffs

\* A step of neither the hub nor a handler that takes nothing from a channel.
LEMMA WriterKeeps ==
  ASSUME Inv, UNCHANGED <<hubVars, servers, sess, hs, frame, nread, histVars>>,
         wr' \in [Conns -> [Sess -> {"none", "run", "done"}]],
         ws' \in [Conns -> [Sess -> {"none", "open", "broken", "closed"}]],
         \A c \in Conns : WritersOK(c)'
  PROVE  Inv'
<1>1. TypeOK'
  <2>1. HubTypeOK'
    BY DEF Inv, TypeOK, HubTypeOK, hubVars, Cap
  <2>. QED  BY <2>1 DEF Inv, TypeOK, histVars
<1>2. RunOK'
  BY DEF Inv, RunOK, hubVars
<1>3. ASSUME NEW d \in Conns
      PROVE  ConnOK(d)'
  <2>1. ConnOK(d)
    BY InvConns
  <2>2. HandlerSigns(d)' /\ SignOffs(d)' = SignOffs(d) /\ signed' = signed
    BY <2>1, HandlerAlone DEF ConnOK, histVars
  <2>3. (Signing(d)' <=> Signing(d)) /\ (Listing(d)' <=> Listing(d))
    BY HubWaits DEF hubVars, runVars
  <2>4. mque' = mque /\ chan'[d] = chan[d] /\ byNil' = byNil
    BY DEF hubVars, histVars
  <2>. QED  BY <2>1, <2>2, <2>3, <2>4, ConnKept
<1>. QED  BY <1>1, <1>2, <1>3 DEF Inv, ConnOK, NilsOK, NilsMatchSignoffs

LEMMA PingInv ==
  ASSUME Inv, NEW c \in Conns, NEW k \in Sess, Ping(c, k)
  PROVE  Inv'
<1>1. /\ wr[c][k] = "run" /\ Ends(c, k)
      /\ UNCHANGED <<hubVars, servers, sess, hs, frame, nread, histVars>>
  BY DEF Ping
<1>2. /\ wr' \in [Conns -> [Sess -> {"none", "run", "done"}]]
      /\ ws' \in [Conns -> [Sess -> {"none", "open", "broken", "closed"}]]
  BY <1>1, EndsWriter DEF Inv
<1>3. \A d \in Conns : WritersOK(d)'
  BY <1>1, WriterEnds DEF histVars
<1>. QED  BY <1>1, <1>2, <1>3, WriterKeeps

LEMMA BreakInv ==
  ASSUME Inv, NEW c \in Conns, NEW k \in Sess, Break(c, k)
  PROVE  Inv'
<1>1. /\ ws' = [ws EXCEPT ![c][k] = "broken"]
      /\ UNCHANGED <<hubVars, servers, sess, hs, frame, nread, wr, histVars>>
  BY DEF Break
<1>2. /\ wr' \in [Conns -> [Sess -> {"none", "run", "done"}]]
      /\ ws' \in [Conns -> [Sess -> {"none", "open", "broken", "closed"}]]
  BY <1>1 DEF Inv, TypeOK
<1>3. \A d \in Conns : WritersOK(d)'
  BY <1>1 DEF Inv, WritersOK, histVars
<1>. QED  BY <1>1, <1>2, <1>3, WriterKeeps

LEMMA StutterInv ==
  ASSUME Inv, UNCHANGED vars
  PROVE  Inv'
<1>1. UNCHANGED <<hubVars, servers, sess, hs, frame, nread, histVars, wr, ws>>
  BY DEF vars, wsVars
<1>2. /\ wr' \in [Conns -> [Sess -> {"none", "run", "done"}]]
      /\ ws' \in [Conns -> [Sess -> {"none", "open", "broken", "closed"}]]
  BY <1>1 DEF Inv, TypeOK
<1>3. \A d \in Conns : WritersOK(d)'
  BY <1>1 DEF Inv, WritersOK, histVars
<1>. QED  BY <1>1, <1>2, <1>3, WriterKeeps

-----------------------------------------------------------------------------
(* The invariant and what follows from it *)

LEMMA InitInv ==
  ASSUME WsInit
  PROVE  Inv
<1>1. /\ mque = <<>> /\ cmap = {} /\ hpc = "recv" /\ cur = Nil /\ todo = <<>> /\ held = {}
      /\ chan = [c \in Conns \cup Reqs |-> <<>>]
      /\ servers \in ServerSets /\ sess = [c \in Conns |-> 0] /\ hs = [c \in Conns |-> "none"]
      /\ nread = 0 /\ byNil = {} /\ frame = [c \in Conns |-> "none"]
      /\ signed = [c \in Conns |-> "-"] /\ offs = [c \in Conns |-> 0]
      /\ ws = [c \in Conns |-> [k \in Sess |-> "none"]]
      /\ wr = [c \in Conns |-> [k \in Sess |-> "none"]]
  BY DEF WsInit, HubInit
<1>2. TypeOK
  <2>1. /\ \A T : <<>> \in Seq(T)
        /\ Len(<<>>) = 0
    OBVIOUS
  <2>2. \A c \in Conns \cup Reqs : Len(chan[c]) <= Cap(c)
    <3>1. \A c \in Conns \cup Reqs : Cap(c) \in Nat
      BY CapAssumption DEF Cap
    <3>. QED  BY <1>1, <2>1, <3>1
  <2>3. chan \in [Conns \cup Reqs -> Seq(Message \cup {Nil})]
    BY <1>1, <2>1
  <2>4. HubTypeOK
    BY <1>1, <2>1, <2>2, <2>3, CapAssumption DEF HubTypeOK
  <2>5. sess \in [Conns -> 0..MaxSess] /\ nread \in 0..MaxRead
    BY <1>1, WsAssumption
  <2>. QED  BY <1>1, <2>4, <2>5 DEF TypeOK
<1>3. RunOK
  BY <1>1, FS_EmptySet DEF RunOK
<1>4. \A c \in Conns : WritersOK(c)
  BY <1>1 DEF WritersOK
<1>5. ASSUME NEW c \in Conns
      PROVE  ConnOK(c)
  <2>1. c \in Conns /\ hs[c] = "none" /\ sess[c] = 0 /\ chan[c] = <<>> /\ ~Signing(c)
    BY <1>1 DEF Signing
  <2>2. LastSign(Signs(c), signed[c]) /\ HandlerSigns(c)
    <3>1. DOMAIN Signs(c) = 0..0 /\ Signs(c)[0] = "-" /\ signed[c] = "-"
      BY <1>1, <2>1 DEF Signs, Listing
    <3>2. 0 \in 0..0 /\ \A j \in 0..0 : ~(0 < j)
      OBVIOUS
    <3>3. LastSign(Signs(c), signed[c])
      BY <3>1, <3>2 DEF LastSign
    <3>. QED  BY <2>1, <3>1, <3>3 DEF HandlerSigns, Active
  <2>3. SignOffs(c) = 0
    <3>1. \A k \in Sess : ~SignedOff(c, k)
      BY <2>1, WsAssumption DEF SignedOff, Sess
    <3>2. {k \in Sess : SignedOff(c, k)} = {}
      BY <3>1
    <3>3. offs[c] = 0
      BY <1>1
    <3>. QED  BY <3>2, <3>3, FS_EmptySet DEF SignOffs, HandlerSignOffs
  <2>4. Nils(c) = 0
    <3>1. Occurs(Nil, chan[c]) = 0
      BY <2>1, OccursEmpty
    <3>2. {w \in byNil : w[1] = c} = {}
      BY <1>1
    <3>. QED  BY <3>1, <3>2, FS_EmptySet DEF Nils
  <2>5. Occurs(Msg(c, "-"), mque) = 0
    BY <1>1, OccursEmpty
  <2>. QED  BY <2>1, <2>2, <2>3, <2>4, <2>5 DEF ConnOK, NilsOK
<1>. QED  BY <1>2, <1>3, <1>4, <1>5, InvConns

LEMMA NextInv ==
  ASSUME Inv, [Next]_vars
  PROVE  Inv'
<1>1. CASE HubStep /\ UNCHANGED wsVars
  BY <1>1, HubRecvInv, HubStoppedInv, HubRouteInv, HubRoutedInv, HubSignoffInv DEF HubStep
<1>2. ASSUME NEW c \in Conns, Open(c) \/ Read(c) \/ ReadEnds(c) \/ Handler(c)
      PROVE  Inv'
  BY <1>2, OpenInv, ReadInv, ReadEndsInv, SignOnInv, RouteInv, SignOffInv DEF Handler
<1>3. ASSUME NEW c \in Conns, NEW k \in Sess, Write(c, k) \/ Ping(c, k) \/ Break(c, k)
      PROVE  Inv'
  BY <1>3, WriteInv, PingInv, BreakInv
<1>4. CASE Rest
  BY <1>4, StutterInv DEF Rest
<1>5. CASE UNCHANGED vars
  BY <1>5, StutterInv
<1>. QED  BY <1>1, <1>2, <1>3, <1>4, <1>5 DEF Next

\* The inductive invariant: what was sent last to sign a connection on or off is the last
\* sign from the hub's list over the queue, whether a handler or a peer sent it, and every
\* sign-off is matched.
THEOREM WsHubInvariant == Spec => []Inv
<1>1. WsInit => Inv
  BY InitInv
<1>2. Inv /\ [Next]_vars => Inv'
  BY NextInv
<1>. QED  BY <1>1, <1>2, PTL DEF Spec

\* Every sign-off of a connection, of its handlers or its peers, is in the queue, in the
\* hands of the hub, or has become exactly one nil message, however often a client connects
\* again over the same channel.
THEOREM WsHubNilsMatchSignoffs == Spec => []NilsMatchSignoffs
<1>1. Inv => NilsMatchSignoffs
  BY DEF Inv
<1>. QED  BY <1>1, WsHubInvariant, PTL

\* The hub lists a connection that was last signed on and whose sign-on is handled, and does
\* not list one that was last signed off and whose sign-off is handled; a client is signed on
\* while its handler is at work, unless its peer signs it off, and never afterwards.
THEOREM WsHubListsSignedOn == Spec => []ListsSignedOn
<1>1. ASSUME Inv
      PROVE  ListsSignedOn
  <2>1. ASSUME NEW c \in Conns
        PROVE  /\ signed[c] = "+" /\ ~InQueue(c, "+") => Listing(c)
               /\ signed[c] = "-" /\ ~InQueue(c, "-") => ~Listing(c)
    <3>. DEFINE f == Signs(c)
    <3>1. Len(mque) \in Nat /\ DOMAIN mque = 1..Len(mque)
      BY <1>1, TypeFacts, LenProperties DEF Inv, TypeOK
    <3>2. /\ DOMAIN f = 0..Len(mque)
          /\ f[0] = (IF Listing(c) THEN "+" ELSE "-")
          /\ \A k \in 0..Len(mque) : k # 0 => k \in DOMAIN mque /\ f[k] = Sign(c, mque[k])
      BY <3>1 DEF Signs
    <3>3. LastSign(f, signed[c])
      BY <1>1 DEF Inv
    <3>. HIDE DEF f
    <3>4. PICK i \in 0..Len(mque) : f[i] = signed[c]
      BY <3>2, <3>3 DEF LastSign
    <3>5. \A k \in DOMAIN mque : /\ Sign(c, mque[k]) = "+" => InQueue(c, "+")
                                 /\ Sign(c, mque[k]) = "-" => InQueue(c, "-")
      BY DEF Sign, InQueue, Elems, Msg
    <3>. QED  BY <3>2, <3>4, <3>5
  <2>2. ASSUME NEW c \in Conns
        PROVE  /\ signed[c] = "+" /\ ~InQueue(c, "+") => c \in cmap
               /\ signed[c] = "-" /\ ~InQueue(c, "-")
                    => c \notin cmap \/ (Signing(c) /\ hpc = "route")
    BY <2>1 DEF Listing
  <2>. QED  BY <1>1, <2>2 DEF Inv, ListsSignedOn
<1>. QED  BY <1>1, WsHubInvariant, PTL
=============================================================================
