----------------------------- MODULE HubProofs -----------------------------
(***************************************************************************)
(* Facts about the hub that the proofs of both kinds of participants need: *)
(* messages, what a queue holds after a message was added or taken, and    *)
(* what a send changes.                                                    *)
(***************************************************************************)
EXTENDS Hub, TLAPS, FiniteSetTheorems, SequenceTheorems

Item      == Message \cup {Nil}
Receivers == Conns \cup Reqs

-----------------------------------------------------------------------------
(* Messages and queues *)

\* A message is its sender and its subject, and is not nil.
LEMMA MsgType ==
  ASSUME NEW f \in Senders, NEW s \in Subjects
  PROVE  Msg(f, s) \in Message /\ Msg(f, s) # Nil /\ Msg(f, s).from = f /\ Msg(f, s).subj = s
BY NilAssumption DEF Message, Msg, Subjects

LEMMA MessageIs ==
  ASSUME NEW m \in Item, m # Nil
  PROVE  /\ m \in Message /\ m.from \in Senders /\ m.subj \in Subjects
         /\ m = Msg(m.from, m.subj)
BY DEF Item, Message, Msg, Subjects

\* The three kinds of connections.
LEMMA SenderKinds ==
  /\ \A c \in Conns : c \in Senders /\ c \in Receivers /\ c \notin Reqs /\ c # HUB
  /\ \A r \in Reqs : r \in Senders /\ r \in Receivers /\ r \notin Conns /\ r # HUB
  /\ \A f \in Senders : f \in Conns \/ f \in Reqs \/ f = HUB
BY NamesDiffer DEF Senders, Receivers

\* One more at the end.
LEMMA AppendIs ==
  ASSUME NEW S, NEW s \in Seq(S), NEW e \in S
  PROVE  /\ Len(s) \in Nat /\ DOMAIN s = 1..Len(s) /\ Append(s, e) \in Seq(S)
         /\ Len(Append(s, e)) = Len(s) + 1 /\ DOMAIN Append(s, e) = 1..(Len(s) + 1)
         /\ Append(s, e)[Len(s) + 1] = e
         /\ \A i \in DOMAIN s : Append(s, e)[i] = s[i]
         /\ Elems(Append(s, e)) = Elems(s) \cup {e}
<1>. DEFINE t == Append(s, e)
<1>1. /\ Len(s) \in Nat /\ DOMAIN s = 1..Len(s)
      /\ t \in Seq(S) /\ Len(t) = Len(s) + 1 /\ t[Len(s) + 1] = e
      /\ \A i \in 1..Len(s) : t[i] = s[i]
  BY AppendProperties, LenProperties
<1>2. DOMAIN t = 1..(Len(s) + 1)
  BY <1>1, LenProperties
<1>. HIDE DEF t
<1>3. DOMAIN t = DOMAIN s \cup {Len(s) + 1}
  BY <1>1, <1>2
<1>4. Elems(t) = Elems(s) \cup {e}
  BY <1>1, <1>3 DEF Elems
<1>. QED  BY <1>1, <1>2, <1>4 DEF t

\* One less at the front.
LEMMA TailIs ==
  ASSUME NEW S, NEW s \in Seq(S), s # <<>>
  PROVE  /\ Len(s) \in Nat \ {0} /\ DOMAIN s = 1..Len(s) /\ 1 \in DOMAIN s
         /\ Head(s) \in S /\ Head(s) = s[1]
         /\ Tail(s) \in Seq(S) /\ Len(Tail(s)) = Len(s) - 1
         /\ DOMAIN Tail(s) = 1..(Len(s) - 1)
         /\ \A i \in DOMAIN Tail(s) : i + 1 \in DOMAIN s /\ Tail(s)[i] = s[i + 1]
         /\ \A i \in DOMAIN s : i = 1 \/ i - 1 \in DOMAIN Tail(s)
         /\ Elems(s) = Elems(Tail(s)) \cup {Head(s)}
<1>. DEFINE t == Tail(s)
<1>1. /\ Len(s) \in Nat \ {0} /\ DOMAIN s = 1..Len(s)
      /\ Head(s) \in S /\ t \in Seq(S) /\ Len(t) = Len(s) - 1
      /\ \A i \in 1..Len(t) : t[i] = s[i + 1]
  BY HeadTailProperties, LenProperties, EmptySeq
<1>2. DOMAIN t = 1..(Len(s) - 1)
  BY <1>1, LenProperties
<1>3. Head(s) = s[1]
  OBVIOUS
<1>. HIDE DEF t
<1>4. /\ \A i \in DOMAIN t : i + 1 \in DOMAIN s /\ t[i] = s[i + 1]
      /\ \A i \in DOMAIN s : i = 1 \/ (i - 1 \in DOMAIN t /\ t[i - 1] = s[i])
  BY <1>1, <1>2
<1>5. Elems(s) = Elems(t) \cup {Head(s)}
  <2>1. \A x \in Elems(s) : x \in Elems(t) \/ x = Head(s)
    BY <1>3, <1>4 DEF Elems
  <2>2. \A x \in Elems(t) : x \in Elems(s)
    BY <1>4 DEF Elems
  <2>3. Head(s) \in Elems(s)
    BY <1>1, <1>3 DEF Elems
  <2>. QED  BY <2>1, <2>2, <2>3
<1>. QED  BY <1>1, <1>2, <1>3, <1>4, <1>5 DEF t

\* The empty sequence has no elements, and a sequence without elements is empty.
LEMMA NoElems ==
  /\ Elems(<<>>) = {}
  /\ \A S : \A s \in Seq(S) : Elems(s) = {} => s = <<>>
<1>1. Elems(<<>>) = {}
  BY DEF Elems
<1>2. ASSUME NEW S, NEW s \in Seq(S), Elems(s) = {}
      PROVE  s = <<>>
  <2>1. Len(s) \in Nat /\ DOMAIN s = 1..Len(s) /\ (s # <<>> => Len(s) \in Nat \ {0})
    BY LenProperties, EmptySeq
  <2>2. s # <<>> => s[1] \in Elems(s)
    BY <2>1 DEF Elems
  <2>. QED  BY <1>2, <2>2
<1>. QED  BY <1>1, <1>2

-----------------------------------------------------------------------------
(* Sends and orders *)

LEMMA TypeFacts ==
  ASSUME HubTypeOK
  PROVE  /\ mque \in Seq(Item) /\ Len(mque) \in Nat /\ Len(mque) <= QueCap
         /\ chan \in [Receivers -> Seq(Item)]
         /\ \A c \in Receivers : /\ chan[c] \in Seq(Item) /\ Len(chan[c]) \in Nat
                                 /\ Len(chan[c]) <= Cap(c) /\ Cap(c) \in Nat \ {0}
         /\ cur \in Item /\ QueCap \in Nat
         /\ todo \in Seq(Receivers) /\ held \subseteq Conns
<1>1. \A c \in Receivers : Cap(c) \in Nat \ {0}
  BY CapAssumption DEF Cap
<1>2. \A c \in Receivers : chan[c] \in Seq(Item)
  BY DEF HubTypeOK, Item, Receivers
<1>3. \A c \in Receivers : Len(chan[c]) \in Nat
  BY <1>2, LenProperties
<1>4. mque \in Seq(Item) /\ Len(mque) \in Nat
  BY LenProperties DEF HubTypeOK, Item
<1>. QED  BY <1>1, <1>2, <1>3, <1>4, CapAssumption DEF HubTypeOK, Item, Receivers

LEMMA SendToHub ==
  ASSUME HubTypeOK, NEW m \in Item, Send(HUB, m)
  PROVE  /\ mque' = Append(mque, m) /\ chan' = chan
         /\ mque' \in Seq(Item) /\ Len(mque') <= QueCap
<1>1. mque' = Append(mque, m) /\ chan' = chan /\ Len(mque) < QueCap
  BY DEF Send, Room
<1>2. mque' \in Seq(Item) /\ Len(mque') = Len(mque) + 1 /\ Len(mque) \in Nat /\ QueCap \in Nat
  BY <1>1, TypeFacts, AppendIs
<1>. QED  BY <1>1, <1>2

LEMMA SendToConn ==
  ASSUME HubTypeOK, NEW c \in Receivers, NEW m \in Item, Send(c, m)
  PROVE  /\ mque' = mque
         /\ chan' \in [Receivers -> Seq(Item)]
         /\ chan'[c] = Append(chan[c], m) /\ Elems(chan'[c]) = Elems(chan[c]) \cup {m}
         /\ DOMAIN chan[c] = 1..Len(chan[c]) /\ DOMAIN chan'[c] = 1..(Len(chan[c]) + 1)
         /\ Len(chan[c]) \in Nat /\ Len(chan'[c]) = Len(chan[c]) + 1
         /\ chan'[c][Len(chan[c]) + 1] = m
         /\ \A i \in DOMAIN chan[c] : chan'[c][i] = chan[c][i]
         /\ \A d \in Receivers : d # c => chan'[d] = chan[d]
         /\ \A d \in Receivers : Len(chan'[d]) <= Cap(d)
<1>1. /\ mque' = mque /\ chan' = [chan EXCEPT ![c] = Append(chan[c], m)]
      /\ Len(chan[c]) < Cap(c)
  BY SenderKinds DEF Send, Room, Receivers
<1>2. /\ chan[c] \in Seq(Item) /\ chan \in [Receivers -> Seq(Item)]
      /\ Len(chan[c]) \in Nat /\ Cap(c) \in Nat
      /\ \A d \in Receivers : Len(chan[d]) <= Cap(d)
  BY TypeFacts
<1>. DEFINE t == Append(chan[c], m)
<1>3. /\ DOMAIN chan[c] = 1..Len(chan[c]) /\ DOMAIN t = 1..(Len(chan[c]) + 1)
      /\ t \in Seq(Item) /\ Len(t) = Len(chan[c]) + 1 /\ t[Len(chan[c]) + 1] = m
      /\ \A i \in DOMAIN chan[c] : t[i] = chan[c][i]
      /\ Elems(t) = Elems(chan[c]) \cup {m}
  BY <1>2, AppendIs
<1>. HIDE DEF t
<1>4. Len(t) <= Cap(c)
  BY <1>1, <1>2, <1>3
<1>5. chan'[c] = t /\ \A d \in Receivers : d # c => chan'[d] = chan[d]
  BY <1>1, <1>2 DEF t
<1>6. chan' \in [Receivers -> Seq(Item)]
  BY <1>1, <1>2, <1>3 DEF t
<1>7. \A d \in Receivers : Len(chan'[d]) <= Cap(d)
  BY <1>2, <1>4, <1>5
<1>. QED  BY <1>1, <1>2, <1>3, <1>5, <1>6, <1>7 DEF t

LEMMA TakeFromConn ==
  ASSUME HubTypeOK, NEW c \in Receivers, chan[c] # <<>>, chan' = [chan EXCEPT ![c] = Tail(@)]
  PROVE  /\ chan' \in [Receivers -> Seq(Item)]
         /\ chan'[c] = Tail(chan[c])
         /\ \A d \in Receivers : d # c => chan'[d] = chan[d]
         /\ \A d \in Receivers : Len(chan'[d]) <= Cap(d)
<1>1. /\ chan[c] \in Seq(Item) /\ chan \in [Receivers -> Seq(Item)]
      /\ Len(chan[c]) \in Nat /\ Cap(c) \in Nat
      /\ \A d \in Receivers : Len(chan[d]) <= Cap(d)
  BY TypeFacts
<1>2. Tail(chan[c]) \in Seq(Item) /\ Len(Tail(chan[c])) = Len(chan[c]) - 1
  BY <1>1, HeadTailProperties
<1>3. Len(Tail(chan[c])) <= Cap(c)
  BY <1>1, <1>2
<1>4. chan'[c] = Tail(chan[c]) /\ \A d \in Receivers : d # c => chan'[d] = chan[d]
  BY <1>1
<1>5. chan' \in [Receivers -> Seq(Item)]
  BY <1>1, <1>2
<1>6. \A d \in Receivers : Len(chan'[d]) <= Cap(d)
  BY <1>1, <1>3, <1>4
<1>. QED  BY <1>4, <1>5, <1>6

\* An order of a finite set is a sequence of its elements.
LEMMA OrdersAre ==
  ASSUME NEW S, IsFiniteSet(S), NEW o \in Orders(S)
  PROVE  o \in Seq(S) /\ Len(o) = Cardinality(S) /\ Elems(o) \subseteq S
<1>1. Cardinality(S) \in Nat
  BY FS_CardinalityType
<1>2. o \in [1..Cardinality(S) -> S]
  BY DEF Orders
<1>3. o \in Seq(S) /\ Len(o) = Cardinality(S)
  BY <1>1, <1>2
<1>. QED  BY <1>2, <1>3 DEF Elems
=============================================================================
