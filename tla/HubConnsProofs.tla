--------------------------- MODULE HubConnsProofs ---------------------------
(***************************************************************************)
(* Proofs about the hub and its in-process participants: for any number of *)
(* participants and requests, all capacities of the queue and the channels *)
(* and any number of messages, a sign-off is under way in one place until  *)
(* it is answered, the answer is the last message of its participant, the  *)
(* list of the hub is what the participants think, and a reply never makes *)
(* the hub wait.                                                           *)
(***************************************************************************)
EXTENDS HubConns, HubProofs

-----------------------------------------------------------------------------
(* The messages of one sender in the queue *)

\* A message of c with this subject waits where one of c's messages has it.
LEMMA InQueueFrom ==
  ASSUME mque \in Seq(Item), NEW c \in Senders, NEW s \in Subjects
  PROVE  InQueue(c, s) <=> \E i \in From(c) : mque[i].subj = s
<1>1. DOMAIN mque = 1..Len(mque) /\ \A i \in DOMAIN mque : mque[i] \in Item
  BY LenProperties, ElementOfSeq
<1>2. ASSUME NEW i \in DOMAIN mque, mque[i] = Msg(c, s)
      PROVE  i \in From(c) /\ mque[i].subj = s
  BY <1>2, MsgType DEF From
<1>3. ASSUME NEW i \in From(c), mque[i].subj = s
      PROVE  i \in DOMAIN mque /\ mque[i] = Msg(c, s)
  BY <1>1, <1>3, MessageIs DEF From
<1>. QED  BY <1>2, <1>3 DEF InQueue, Elems

\* What a message at the end changes.
LEMMA QueueGrows ==
  ASSUME mque \in Seq(Item), NEW m \in Item, mque' = Append(mque, m)
  PROVE  /\ mque' \in Seq(Item) /\ Len(mque) \in Nat /\ Len(mque') = Len(mque) + 1
         /\ Elems(mque)' = Elems(mque) \cup {m}
         /\ mque'[Len(mque) + 1] = m
         /\ \A c : /\ From(c)' = IF m # Nil /\ m.from = c THEN From(c) \cup {Len(mque) + 1}
                                                        ELSE From(c)
                   /\ \A i \in From(c) : mque'[i] = mque[i] /\ i \in 1..Len(mque)
                   /\ \A s : InQueue(c, s)' <=> InQueue(c, s) \/ m = Msg(c, s)
<1>1. /\ Len(mque) \in Nat /\ DOMAIN mque = 1..Len(mque) /\ mque' \in Seq(Item)
      /\ Len(mque') = Len(mque) + 1 /\ DOMAIN mque' = 1..(Len(mque) + 1)
      /\ mque'[Len(mque) + 1] = m
      /\ \A i \in DOMAIN mque : mque'[i] = mque[i]
      /\ Elems(mque') = Elems(mque) \cup {m}
  BY AppendIs
<1>2. DOMAIN mque' = DOMAIN mque \cup {Len(mque) + 1} /\ Len(mque) + 1 \notin DOMAIN mque
  BY <1>1
<1>3. ASSUME NEW c
      PROVE  From(c)' = IF m # Nil /\ m.from = c THEN From(c) \cup {Len(mque) + 1} ELSE From(c)
  BY <1>1, <1>2 DEF From
<1>4. Elems(mque)' = Elems(mque')
  BY DEF Elems
<1>5. ASSUME NEW c, NEW s
      PROVE  InQueue(c, s)' <=> InQueue(c, s) \/ m = Msg(c, s)
  BY <1>1, <1>4 DEF InQueue, Msg
<1>6. \A c : \A i \in From(c) : mque'[i] = mque[i] /\ i \in 1..Len(mque)
  BY <1>1 DEF From
<1>. QED  BY <1>1, <1>3, <1>4, <1>5, <1>6

\* What taking the first message changes.
LEMMA QueueShrinks ==
  ASSUME mque \in Seq(Item), mque # <<>>, mque' = Tail(mque)
  PROVE  /\ Head(mque) \in Item /\ Head(mque) = mque[1] /\ 1 \in DOMAIN mque
         /\ mque' \in Seq(Item) /\ Len(mque') = Len(mque) - 1
         /\ Elems(mque) = Elems(mque)' \cup {Head(mque)}
         /\ \A c : /\ \A i \in From(c)' : i \in Nat \ {0} /\ i + 1 \in From(c) /\ mque'[i] = mque[i + 1]
                   /\ \A i \in From(c) : i \in Nat /\ (i = 1 \/ i - 1 \in From(c)')
                   /\ \A s : InQueue(c, s) <=> InQueue(c, s)' \/ Head(mque) = Msg(c, s)
<1>1. /\ Len(mque) \in Nat \ {0} /\ DOMAIN mque = 1..Len(mque) /\ 1 \in DOMAIN mque
      /\ Head(mque) \in Item /\ Head(mque) = mque[1]
      /\ mque' \in Seq(Item) /\ Len(mque') = Len(mque) - 1
      /\ DOMAIN mque' = 1..(Len(mque) - 1)
      /\ \A i \in DOMAIN mque' : i + 1 \in DOMAIN mque /\ mque'[i] = mque[i + 1]
      /\ \A i \in DOMAIN mque : i = 1 \/ i - 1 \in DOMAIN mque'
      /\ Elems(mque) = Elems(mque') \cup {Head(mque)}
  BY TailIs
<1>2. ASSUME NEW c, NEW i \in From(c)'
      PROVE  i \in Nat \ {0} /\ i + 1 \in From(c) /\ mque'[i] = mque[i + 1]
  BY <1>1 DEF From
<1>3. ASSUME NEW c, NEW i \in From(c)
      PROVE  i \in Nat /\ (i = 1 \/ i - 1 \in From(c)')
  <2>1. i \in Nat /\ i \in DOMAIN mque
    BY <1>1 DEF From
  <2>2. CASE i # 1
    <3>1. i - 1 \in DOMAIN mque' /\ mque'[i - 1] = mque[i]
      BY <1>1, <2>1, <2>2
    <3>. QED  BY <2>1, <3>1 DEF From
  <2>. QED  BY <2>1, <2>2
<1>4. Elems(mque)' = Elems(mque')
  BY DEF Elems
<1>5. ASSUME NEW c, NEW s
      PROVE  InQueue(c, s) <=> InQueue(c, s)' \/ Head(mque) = Msg(c, s)
  BY <1>1, <1>4 DEF InQueue, Msg
<1>. QED  BY <1>1, <1>2, <1>3, <1>4, <1>5

\* For c the queue holds the same, in the same order.
SameQueued(c) ==
  /\ From(c)' = {} <=> From(c) = {}
  /\ \A s \in Subjects : InQueue(c, s)' <=> InQueue(c, s)
  /\ Ordered(c) => Ordered(c)'
  /\ Once(c) => Once(c)'

LEMMA QueueUnchanged ==
  ASSUME mque' = mque
  PROVE  \A c : SameQueued(c) /\ From(c)' = From(c) /\ \A s : InQueue(c, s)' <=> InQueue(c, s)
BY DEF SameQueued, From, InQueue, Elems, Ordered, Once, Msg

\* A message of somebody else, or nil, at the end.
LEMMA GrowsForOthers ==
  ASSUME mque \in Seq(Item), NEW m \in Item, mque' = Append(mque, m),
         NEW c \in Senders, m = Nil \/ m.from # c
  PROVE  SameQueued(c)
<1>1. /\ From(c)' = From(c)
      /\ \A i \in From(c) : mque'[i] = mque[i]
      /\ \A s : InQueue(c, s)' <=> InQueue(c, s) \/ m = Msg(c, s)
  BY QueueGrows
<1>2. \A s \in Subjects : m # Msg(c, s)
  BY MsgType
<1>3. Ordered(c) => Ordered(c)'
  BY <1>1 DEF Ordered
<1>4. Once(c) => Once(c)'
  BY <1>1 DEF Once
<1>. QED  BY <1>1, <1>2, <1>3, <1>4 DEF SameQueued

\* Taking the first message keeps the order of what remains.
LEMMA ShrinksInOrder ==
  ASSUME mque \in Seq(Item), mque # <<>>, mque' = Tail(mque), NEW c
  PROVE  (Ordered(c) => Ordered(c)') /\ (Once(c) => Once(c)')
<1>1. \A i \in From(c)' : i \in Nat \ {0} /\ i + 1 \in From(c) /\ mque'[i] = mque[i + 1]
  BY QueueShrinks
<1>2. ASSUME Ordered(c), NEW i \in From(c)', NEW j \in From(c)', i < j
      PROVE  mque'[i].subj # "-" /\ mque'[j].subj # "+"
  <2>1. i + 1 < j + 1
    BY <1>1, <1>2
  <2>. QED  BY <1>1, <1>2, <2>1 DEF Ordered
<1>3. ASSUME Once(c), NEW i \in From(c)', NEW j \in From(c)'
      PROVE  i = j
  <2>1. i + 1 = j + 1
    BY <1>1, <1>3 DEF Once
  <2>. QED  BY <1>1, <2>1
<1>4. Ordered(c) => Ordered(c)'
  BY <1>2 DEF Ordered
<1>5. Once(c) => Once(c)'
  BY <1>3 DEF Once
<1>. QED  BY <1>4, <1>5

LEMMA ShrinksForOthers ==
  ASSUME mque \in Seq(Item), mque # <<>>, mque' = Tail(mque),
         NEW c \in Senders, Head(mque) = Nil \/ Head(mque).from # c
  PROVE  SameQueued(c)
<1>1. /\ Head(mque) = mque[1]
      /\ \A i \in From(c)' : i + 1 \in From(c)
      /\ \A i \in From(c) : i = 1 \/ i - 1 \in From(c)'
      /\ \A s : InQueue(c, s) <=> InQueue(c, s)' \/ Head(mque) = Msg(c, s)
  BY QueueShrinks
<1>2. 1 \notin From(c) /\ \A s \in Subjects : Head(mque) # Msg(c, s)
  BY <1>1, MsgType DEF From
<1>3. From(c)' = {} <=> From(c) = {}
  BY <1>1, <1>2
<1>. QED  BY <1>1, <1>2, <1>3, ShrinksInOrder DEF SameQueued

-----------------------------------------------------------------------------
(* Connections that a step leaves alone *)

\* A participant for which a step changes nothing.
LEMMA ConnUntouched ==
  ASSUME NEW c \in Conns, ConnOK(c), SameQueued(c),
         Handling(c)' <=> Handling(c), Handling(c) => cur' = cur /\ hpc' = hpc,
         chan'[c] = chan[c], cpc'[c] = cpc[c],
         c \in cmap' <=> c \in cmap, c \in held' <=> c \in held
  PROVE  ConnOK(c)'
<1>1. Signing(c)' <=> Signing(c)
  BY DEF Signing, Handling
<1>2. Signing(c) => Handling(c)
  BY DEF Signing, Handling
<1>3. InOrder(c)'
  BY DEF ConnOK, InOrder, SameQueued, Subjects
<1>4. PhaseOK(c)'
  <2>1. /\ InQueue(c, "+")' <=> InQueue(c, "+")
        /\ InQueue(c, "-")' <=> InQueue(c, "-")
        /\ Quiet(c)' <=> Quiet(c)
        /\ Nil \in Elems(chan[c])' <=> Nil \in Elems(chan[c])
    BY DEF SameQueued, Subjects, Quiet, Elems
  <2>. QED  BY <1>1, <1>2, <2>1 DEF ConnOK, PhaseOK, SignedOff, SignedOn, Leaving, Told
<1>5. NilEnds(c)'
  BY DEF ConnOK, NilEnds
<1>6. HeldOK(c)'
  BY <1>1, <1>2 DEF ConnOK, HeldOK
<1>. QED  BY <1>3, <1>4, <1>5, <1>6 DEF ConnOK

\* A request for which a step changes nothing.
LEMMA RequestUntouched ==
  ASSUME NEW r \in Reqs, RequestOK(r), SameQueued(r),
         Handling(r)' <=> Handling(r), Handling(r) => todo' \in {todo, <<>>},
         chan'[r] = chan[r], rpc'[r] = rpc[r]
  PROVE  RequestOK(r)'
BY DEF RequestOK, SameQueued, Quiet

-----------------------------------------------------------------------------
(* The hub goroutine keeps the invariant *)

\* What the hub handles comes from a participant or a request.
LEMMA SenderIs ==
  ASSUME SendersOK, NEW m \in Elems(mque) \cup {cur}, m \in Item, m # Nil
  PROVE  /\ m \in Message /\ m.subj \in Subjects
         /\ m.from \in Conns \/ m.from \in Reqs
         /\ m.from \in Reqs => m.subj = "msg"
         /\ m.subj \in {"+", "-"} => m.from \in Conns
BY MessageIs, SenderKinds DEF SendersOK

LEMMA HubRecvInv ==
  ASSUME Inv, HubRecv, UNCHANGED <<connVars, rpc>>
  PROVE  Inv'
<1>. DEFINE m == Head(mque)
            f == m.from
<1>. USE DEF Inv
<1>1. /\ hpc = "recv" /\ mque # <<>> /\ m # Nil /\ cur' = m /\ hpc' = "route"
      /\ cmap' = Listed(m) /\ held' = HeldAfter(m) /\ mque' = Tail(mque)
      /\ UNCHANGED <<chan, cpc, sent, rpc>>
  BY DEF HubRecv, connVars
<1>2. PICK S \in SUBSET Targets(m) : todo' \in Orders(S)
  BY DEF HubRecv
<1>3. /\ mque \in Seq(Item) /\ m \in Item /\ m = mque[1] /\ 1 \in DOMAIN mque
      /\ mque' \in Seq(Item) /\ Len(mque') = Len(mque) - 1
      /\ Elems(mque) = Elems(mque)' \cup {m}
  BY <1>1, TypeFacts, QueueShrinks DEF TypeOK
<1>4. /\ m \in Message /\ m.subj \in Subjects /\ (f \in Conns \/ f \in Reqs)
      /\ f \in Reqs => m.subj = "msg"
      /\ m.subj \in {"+", "-"} => f \in Conns
  BY <1>1, <1>3, SenderIs
<1>5. f \in Senders /\ m = Msg(f, m.subj) /\ 1 \in From(f)
  BY <1>1, <1>3, MessageIs DEF From
<1>6. \A c : ~Handling(c) /\ ~Signing(c) /\ (Handling(c)' <=> c = f)
             /\ (Signing(c)' <=> c = f /\ m.subj = "-")
  BY <1>1 DEF Handling, Signing
<1>7. IsFiniteSet(held') /\ held' \subseteq Conns
  <2>1. held \subseteq Conns /\ IsFiniteSet(held)
    BY TypeFacts DEF TypeOK, RouterOK
  <2>3. IsFiniteSet(held \ {f}) /\ IsFiniteSet(held \cup {f})
    BY <2>1, FS_RemoveElement, FS_AddElement
  <2>4. held' \in {held \ {f}, held, held \cup {f}}
    BY <1>1 DEF HeldAfter
  <2>. QED  BY <1>1, <2>1, <2>3, <2>4 DEF HeldAfter
<1>8. /\ todo' \in Seq(Receivers) /\ \A x \in Elems(todo)' : x \in held' \/ x = f
      /\ f \in Reqs /\ todo' # <<>> => Len(todo') = 1
  <2>1. Targets(m) \subseteq held' \cup {f} /\ Targets(m) \subseteq Receivers
    BY <1>1, <1>4, <1>7 DEF Targets, Receivers
  <2>2. IsFiniteSet(Targets(m))
    BY <1>1, <1>7, FS_Singleton DEF Targets
  <2>3. IsFiniteSet(S)
    BY <2>2, FS_Subset
  <2>4. todo' \in Seq(S) /\ Len(todo') = Cardinality(S) /\ Elems(todo') \subseteq S
    BY <1>2, <2>3, OrdersAre
  <2>5. todo' \in Seq(Receivers)
    BY <2>1, <2>4, SeqMonotonic
  <2>6. f \in Reqs => Cardinality(S) <= 1
    <3>1. f \in Reqs => S \in SUBSET {f}
      BY DEF Targets
    <3>2. IsFiniteSet({f}) /\ Cardinality({f}) = 1
      BY FS_Singleton
    <3>3. S \in SUBSET {f} => Cardinality(S) <= Cardinality({f})
      BY <3>2, FS_Subset
    <3>. QED  BY <3>1, <3>2, <3>3
  <2>7. Elems(todo)' = Elems(todo')
    BY DEF Elems
  <2>8. todo' # <<>> => Len(todo') \in Nat \ {0}
    BY <2>5, EmptySeq
  <2>9. f \in Reqs /\ todo' # <<>> => Len(todo') = 1
    BY <2>4, <2>6, <2>8
  <2>. QED  BY <2>1, <2>4, <2>5, <2>7, <2>9
<1>9. TypeOK'
  <2>1. mque' \in Seq(Message \cup {Nil}) /\ Len(mque') <= QueCap
    BY <1>3, TypeFacts DEF TypeOK, Item
  <2>2. cmap' \subseteq Conns \cup {HUB}
    BY <1>1, <1>4 DEF Listed, TypeOK, HubTypeOK
  <2>3. todo' \in Seq(Conns \cup Reqs)
    BY <1>8 DEF Receivers
  <2>4. \A c \in Conns \cup Reqs : Len(chan'[c]) <= Cap(c)
    BY <1>1 DEF TypeOK, HubTypeOK
  <2>5. HubTypeOK'
    BY <1>1, <1>3, <1>7, <2>1, <2>2, <2>3, <2>4 DEF TypeOK, HubTypeOK, Item
  <2>. QED  BY <1>1, <2>5 DEF TypeOK
<1>10. SendersOK'
  BY <1>1, <1>3 DEF SendersOK
<1>11. RouterOK'
  BY <1>1, <1>6, <1>7, <1>8 DEF RouterOK
<1>12. ASSUME NEW c \in Conns
       PROVE  ConnOK(c)'
  <2>. USE SenderKinds
  <2>1. CASE c # f
    <3>1. SameQueued(c)
      BY <1>1, <1>3, <2>1, ShrinksForOthers
    <3>2. c \in cmap' <=> c \in cmap
      BY <1>1, <2>1 DEF Listed
    <3>3. c \in held' <=> c \in held
      BY <1>1, <2>1 DEF HeldAfter
    <3>. QED  BY <1>1, <1>6, <2>1, <3>1, <3>2, <3>3, ConnUntouched
  <2>2. CASE c = f
    <3>1. /\ From(c) # {}
          /\ Ordered(c) /\ Ordered(c)'
          /\ \A i \in From(c)' : i \in Nat \ {0} /\ i + 1 \in From(c) /\ mque'[i] = mque[i + 1]
          /\ \A s : InQueue(c, s) <=> InQueue(c, s)' \/ m = Msg(c, s)
      BY <1>1, <1>3, <1>5, <2>2, ShrinksInOrder, QueueShrinks DEF ConnOK, InOrder
    <3>2. \A i \in From(c)' : m.subj # "-" /\ mque'[i].subj # "+"
      <4>1. \A i \in From(c)' : 1 < i + 1
        BY <3>1
      <4>. QED  BY <1>3, <1>5, <2>2, <3>1, <4>1 DEF Ordered
    <3>3. ~InQueue(c, "+")' /\ (m.subj = "-" => From(c)' = {})
      <4>1. InQueue(c, "+")' <=> \E i \in From(c)' : mque'[i].subj = "+"
        <5>1. DOMAIN mque' = 1..Len(mque') /\ \A i \in DOMAIN mque' : mque'[i] \in Item
          BY <1>3, LenProperties, ElementOfSeq
        <5>2. InQueue(c, "+")' => \E i \in DOMAIN mque' : mque'[i] = Msg(c, "+")
          BY DEF InQueue, Elems, Msg
        <5>3. Msg(c, "+") # Nil /\ Msg(c, "+").from = c /\ Msg(c, "+").subj = "+"
          BY MsgType DEF Subjects
        <5>4. ASSUME NEW i \in From(c)', mque'[i].subj = "+"
              PROVE  i \in DOMAIN mque' /\ mque'[i] = Msg(c, "+")
          BY <5>1, <5>4, MessageIs DEF From
        <5>. QED  BY <5>2, <5>3, <5>4 DEF InQueue, Elems, From, Msg
      <4>. QED  BY <3>2, <4>1
    <3>4. InOrder(c)'
      BY <1>1, <3>1, <3>3 DEF InOrder
    <3>5. cpc[c] # "off" /\ ~Told(c) /\ ~Leaving(c)
      BY <1>6, <3>1 DEF ConnOK, PhaseOK, SignedOff, Told, Leaving, Quiet
    <3>6. InQueue(c, "+") => m.subj = "+"
      BY <2>2, <3>1, <3>3, MsgType DEF Subjects
    <3>7. PhaseOK(c)'
      <4>1. CASE cpc[c] = "on"
        <5>1. m.subj # "-" /\ ~InQueue(c, "-")' /\ SignedOn(c)
          BY <1>5, <2>2, <3>1, <4>1 DEF ConnOK, PhaseOK
        <5>2. c \in cmap'
          BY <1>1, <2>2, <3>6, <5>1 DEF SignedOn, Listed
        <5>3. SignedOn(c)'
          BY <1>1, <1>6, <3>3, <5>1, <5>2 DEF SignedOn, Elems
        <5>. QED  BY <1>1, <4>1, <5>1, <5>3 DEF PhaseOK
      <4>2. CASE cpc[c] = "bye"
        <5>1. SignedOn(c) /\ InQueue(c, "-")
          BY <3>5, <4>2 DEF ConnOK, PhaseOK
        <5>2. m.subj = "+" \/ c \in cmap
          BY <3>6, <5>1 DEF SignedOn
        <5>3. c \in cmap'
          BY <1>1, <1>4, <2>2, <5>2 DEF Listed
        <5>4. CASE m.subj = "-"
          <6>1. Leaving(c)'
            BY <1>1, <1>6, <2>2, <5>1, <5>3, <5>4 DEF Leaving, SignedOn, Elems
          <6>. QED  BY <1>1, <4>2, <6>1 DEF PhaseOK
        <5>5. CASE m.subj # "-"
          <6>1. InQueue(c, "-")'
            BY <1>5, <2>2, <3>1, <5>1, <5>5, MsgType DEF Subjects
          <6>2. SignedOn(c)'
            BY <1>1, <1>6, <3>3, <5>1, <5>3, <5>5 DEF SignedOn, Elems
          <6>. QED  BY <1>1, <4>2, <6>1, <6>2 DEF PhaseOK
        <5>. QED  BY <5>4, <5>5
      <4>. QED  BY <1>1, <3>5, <4>1, <4>2 DEF TypeOK
    <3>8. NilEnds(c)'
      BY <1>1 DEF ConnOK, NilEnds
    <3>9. HeldOK(c)'
      <4>1. c \in held' <=> m.subj # "-"
        BY <1>1, <2>2 DEF HeldAfter
      <4>2. m.subj # "-" => c \in cmap'
        BY <1>1, <3>5, <3>6, <2>2 DEF TypeOK, ConnOK, PhaseOK, SignedOn, Listed
      <4>. QED  BY <1>1, <1>6, <2>2, <4>1, <4>2 DEF HeldOK
    <3>. QED  BY <3>4, <3>7, <3>8, <3>9 DEF ConnOK
  <2>. QED  BY <2>1, <2>2
<1>13. ASSUME NEW r \in Reqs
       PROVE  RequestOK(r)'
  <2>. USE SenderKinds
  <2>1. CASE r # f
    <3>1. SameQueued(r)
      BY <1>1, <1>3, <2>1, ShrinksForOthers
    <3>. QED  BY <1>1, <1>6, <2>1, <3>1, RequestUntouched
  <2>2. CASE r = f
    <3>1. Once(r) /\ Once(r)' /\ From(r) # {} /\ chan[r] = <<>> /\ rpc[r] \notin {"idle", "post"}
      BY <1>1, <1>3, <1>5, <2>2, ShrinksInOrder DEF RequestOK, Quiet
    <3>2. From(r)' = {}
      <4>1. \A i \in From(r)' : i \in Nat \ {0} /\ i + 1 \in From(r)
        BY <1>1, <1>3, QueueShrinks
      <4>2. ASSUME NEW i \in From(r)'
            PROVE  FALSE
        <5>1. i \in Nat \ {0} /\ i + 1 = 1
          BY <1>5, <2>2, <3>1, <4>1 DEF Once
        <5>. QED  BY <5>1
      <4>. QED  BY <4>2
    <3>3. todo' # <<>> => Len(todo') = 1
      BY <1>8, <2>2
    <3>4. chan'[r] = <<>> /\ rpc'[r] \notin {"idle", "post"}
      BY <1>1, <3>1
    <3>. QED  BY <3>1, <3>2, <3>3, <3>4 DEF RequestOK
  <2>. QED  BY <2>1, <2>2
<1>. QED  BY <1>9, <1>10, <1>11, <1>12, <1>13

LEMMA HubStoppedInv ==
  ASSUME Inv, HubStopped, UNCHANGED <<connVars, rpc>>
  PROVE  Inv'
<1>. USE DEF Inv
<1>1. /\ hpc = "recv" /\ mque # <<>> /\ Head(mque) = Nil /\ hpc' = "stopped"
      /\ mque' = Tail(mque) /\ UNCHANGED <<cmap, cur, todo, held, chan, cpc, sent, rpc>>
  BY DEF HubStopped, connVars
<1>2. /\ mque \in Seq(Item) /\ mque' \in Seq(Item) /\ Len(mque') = Len(mque) - 1
      /\ Elems(mque) = Elems(mque)' \cup {Head(mque)}
  BY <1>1, TypeFacts, QueueShrinks DEF TypeOK
<1>3. \A c : ~Handling(c) /\ ~Handling(c)'
  BY <1>1 DEF Handling
<1>4. TypeOK'
  <2>1. mque' \in Seq(Message \cup {Nil}) /\ Len(mque') <= QueCap
    BY <1>2, TypeFacts DEF TypeOK, Item
  <2>. QED  BY <1>1, <2>1 DEF TypeOK, HubTypeOK, Cap
<1>5. SendersOK'
  BY <1>1, <1>2 DEF SendersOK
<1>6. RouterOK'
  BY <1>1, <1>3 DEF RouterOK, Elems
<1>7. \A c \in Senders : SameQueued(c)
  BY <1>1, <1>2, ShrinksForOthers
<1>8. ASSUME NEW c \in Conns
      PROVE  ConnOK(c)'
  BY <1>1, <1>3, <1>7, SenderKinds, ConnUntouched
<1>9. ASSUME NEW r \in Reqs
      PROVE  RequestOK(r)'
  BY <1>1, <1>3, <1>7, SenderKinds, RequestUntouched
<1>. QED  BY <1>4, <1>5, <1>6, <1>8, <1>9

\* A participant that is sent to has not been told good-bye, and is not signed off.
LEMMA RoutedIsOn ==
  ASSUME Inv, hpc = "route", NEW c \in Conns, c \in held \/ Handling(c)
  PROVE  /\ cpc[c] # "off" /\ Nil \notin Elems(chan[c])
         /\ ~SignedOff(c) /\ ~Told(c)
<1>1. ~Quiet(c) \/ c \in cmap
  BY DEF Inv, ConnOK, HeldOK, Quiet
<1>2. ~SignedOff(c) /\ ~Told(c)
  BY <1>1 DEF SignedOff, Told
<1>3. cpc[c] # "off"
  BY <1>2 DEF Inv, ConnOK, PhaseOK
<1>4. SignedOn(c) \/ Leaving(c)
  BY <1>2, <1>3 DEF Inv, TypeOK, ConnOK, PhaseOK
<1>. QED  BY <1>2, <1>3, <1>4 DEF SignedOn, Leaving

\* What the router sends is a message.
LEMMA RoutedType ==
  ASSUME Inv, hpc = "route", NEW d \in Receivers
  PROVE  Routed(d) \in Item /\ Routed(d) # Nil
<1>1. cur \in Item /\ cur # Nil /\ cur.subj \in Subjects
  BY TypeFacts, MessageIs DEF Inv, TypeOK, HubTypeOK
<1>2. Msg(HUB, cur.subj) \in Item /\ Msg(HUB, cur.subj) # Nil
  BY <1>1, MsgType DEF Item, Senders
<1>. QED  BY <1>1, <1>2 DEF Routed

LEMMA HubRouteInv ==
  ASSUME Inv, HubRoute, UNCHANGED <<connVars, rpc>>
  PROVE  Inv'
<1>. DEFINE d == Head(todo)
            m == Routed(d)
<1>1. /\ hpc = "route" /\ todo # <<>> /\ Send(d, m) /\ todo' = Tail(todo)
      /\ UNCHANGED <<cmap, hpc, cur, held, cpc, sent, rpc>>
  BY DEF HubRoute, connVars
<1>2. /\ d \in Receivers /\ d \in Elems(todo) /\ todo' \in Seq(Receivers)
      /\ Elems(todo) = Elems(todo)' \cup {d} /\ Len(todo') = Len(todo) - 1
      /\ (Len(todo) = 1 => todo' = <<>>)
  <2>1. todo \in Seq(Receivers)
    BY TypeFacts DEF Inv, TypeOK
  <2>2. /\ d \in Receivers /\ todo' \in Seq(Receivers)
        /\ Elems(todo) = Elems(todo') \cup {d} /\ Len(todo') = Len(todo) - 1
    BY <1>1, <2>1, TailIs
  <2>3. todo' # <<>> => Len(todo') \in Nat \ {0}
    BY <2>2, EmptySeq
  <2>4. Elems(todo)' = Elems(todo')
    BY DEF Elems
  <2>. QED  BY <2>2, <2>3, <2>4
<1>3. d \in held \/ Handling(d)
  BY <1>2 DEF Inv, RouterOK
<1>4. m \in Item /\ m # Nil
  BY <1>1, <1>2, RoutedType
<1>5. /\ mque' = mque
      /\ chan' \in [Receivers -> Seq(Item)]
      /\ Elems(chan'[d]) = Elems(chan[d]) \cup {m}
      /\ \A x \in Receivers : x # d => chan'[x] = chan[x]
      /\ \A x \in Receivers : Len(chan'[x]) <= Cap(x)
  BY <1>1, <1>2, <1>4, SendToConn DEF Inv, TypeOK
<1>. HIDE DEF d, m
<1>6. \A c : SameQueued(c) /\ (Handling(c)' <=> Handling(c)) /\ (Signing(c)' <=> Signing(c))
  BY <1>1, <1>5, QueueUnchanged DEF Handling, Signing
<1>7. TypeOK'
  BY <1>1, <1>2, <1>5 DEF Inv, TypeOK, HubTypeOK, Item, Receivers, Cap
<1>8. SendersOK'
  BY <1>1, <1>5 DEF Inv, SendersOK, Elems
<1>9. RouterOK'
  BY <1>1, <1>2, <1>6 DEF Inv, RouterOK
<1>10. ASSUME NEW c \in Conns
       PROVE  ConnOK(c)'
  <2>1. CASE c # d
    BY <1>1, <1>5, <1>6, <2>1, SenderKinds, ConnUntouched DEF Inv
  <2>2. CASE c = d
    <3>1. /\ cpc[c] # "off" /\ ~Told(c) /\ Nil \notin Elems(chan[c])
      BY <1>1, <1>3, <2>2, RoutedIsOn
    <3>2. Nil \notin Elems(chan'[c])
      BY <1>4, <1>5, <2>2, <3>1
    <3>3. Nil \notin Elems(chan[c])'
      BY <3>2 DEF Elems
    <3>4. InOrder(c)'
      BY <1>1, <1>6 DEF Inv, ConnOK, InOrder, SameQueued, Subjects
    <3>5. PhaseOK(c)'
      BY <1>1, <1>6, <3>1, <3>3
         DEF Inv, ConnOK, PhaseOK, SignedOn, Leaving, SameQueued, Subjects
    <3>6. NilEnds(c)'
      BY <3>3 DEF NilEnds, Elems
    <3>7. HeldOK(c)'
      BY <1>1, <1>6 DEF Inv, ConnOK, HeldOK
    <3>. QED  BY <3>4, <3>5, <3>6, <3>7 DEF ConnOK
  <2>. QED  BY <2>1, <2>2
<1>11. ASSUME NEW r \in Reqs
       PROVE  RequestOK(r)'
  <2>1. Handling(r) => todo' = <<>>
    BY <1>1, <1>2 DEF Inv, RequestOK
  <2>2. CASE r # d
    BY <1>1, <1>5, <1>6, <2>1, <2>2, SenderKinds, RequestUntouched DEF Inv
  <2>3. CASE r = d
    <3>1. Handling(r)
      BY <1>3, <2>3, SenderKinds DEF Inv, TypeOK, HubTypeOK
    <3>2. Once(r)' /\ From(r)' = {} /\ todo' = <<>> /\ rpc'[r] \notin {"idle", "post"}
      BY <1>1, <1>6, <2>1, <3>1 DEF Inv, RequestOK, SameQueued, Quiet
    <3>. QED  BY <3>2 DEF RequestOK
  <2>. QED  BY <2>2, <2>3
<1>. QED  BY <1>7, <1>8, <1>9, <1>10, <1>11 DEF Inv

LEMMA HubRoutedInv ==
  ASSUME Inv, HubRouted, UNCHANGED <<connVars, rpc>>
  PROVE  Inv'
<1>. DEFINE f == cur.from
<1>1. /\ hpc = "route" /\ todo = <<>>
      /\ UNCHANGED <<mque, todo, held, chan, cpc, sent, rpc>>
      /\ \/ cur.subj = "-" /\ hpc' = "signoff" /\ cmap' = cmap \ {f} /\ cur' = cur
         \/ cur.subj # "-" /\ hpc' = "recv" /\ cur' = Nil /\ cmap' = cmap
  BY DEF HubRouted, connVars
<1>2. cur \in Item /\ cur # Nil /\ (cur.subj = "-" => f \in Conns)
  BY <1>1, TypeFacts, SenderIs DEF Inv, TypeOK, HubTypeOK
<1>3. \A c : /\ SameQueued(c) /\ From(c)' = From(c)
             /\ \A s : InQueue(c, s)' <=> InQueue(c, s)
             /\ Handling(c) <=> c = f
             /\ Handling(c)' <=> cur.subj = "-" /\ c = f
             /\ Signing(c) <=> cur.subj = "-" /\ c = f
             /\ Signing(c)' <=> Signing(c)
  BY <1>1, QueueUnchanged DEF Handling, Signing
<1>. HIDE DEF f
<1>4. TypeOK'
  BY <1>1, <1>2 DEF Inv, TypeOK, HubTypeOK, Cap, Item
<1>5. SendersOK'
  BY <1>1 DEF Inv, SendersOK, Elems
<1>6. RouterOK'
  BY <1>1, NoElems DEF Inv, RouterOK, Elems
<1>7. ASSUME NEW c \in Conns
      PROVE  ConnOK(c)'
  <2>. USE <1>1, <1>3 DEF Inv, ConnOK
  <2>1. InOrder(c)'
    BY DEF InOrder, SameQueued
  <2>2. NilEnds(c)'
    BY DEF NilEnds
  <2>3. CASE Signing(c)
    <3>1. cpc[c] = "bye" /\ Leaving(c)
      BY <2>3 DEF TypeOK, PhaseOK, SignedOff, SignedOn, Told, Quiet
    <3>2. Leaving(c)'
      BY <2>3, <3>1 DEF Leaving, Elems
    <3>3. PhaseOK(c)'
      BY <3>1, <3>2 DEF PhaseOK
    <3>4. HeldOK(c)'
      BY <2>3 DEF HeldOK
    <3>. QED  BY <2>1, <2>2, <3>3, <3>4
  <2>4. CASE ~Signing(c)
    <3>1. c \in cmap' <=> c \in cmap
      BY <2>4
    <3>2. (Quiet(c) => Quiet(c)') /\ (Nil \in Elems(chan[c])' <=> Nil \in Elems(chan[c]))
      BY DEF Quiet, Elems
    <3>3. PhaseOK(c)'
      BY <2>4, <3>1, <3>2 DEF PhaseOK, SignedOff, SignedOn, Leaving, Told
    <3>4. HeldOK(c)'
      BY <2>4, <3>1 DEF HeldOK
    <3>. QED  BY <2>1, <2>2, <3>3, <3>4
  <2>. QED  BY <2>3, <2>4
<1>8. ASSUME NEW r \in Reqs
      PROVE  RequestOK(r)'
  <2>1. Handling(r)' => Handling(r)
    BY <1>3
  <2>2. Once(r)' /\ From(r)' = From(r) /\ chan' = chan /\ rpc' = rpc /\ todo' = <<>>
    BY <1>1, <1>3 DEF SameQueued, Inv, RequestOK
  <2>. QED  BY <2>1, <2>2 DEF Inv, RequestOK, Quiet
<1>. QED  BY <1>4, <1>5, <1>6, <1>7, <1>8 DEF Inv

LEMMA HubSignoffInv ==
  ASSUME Inv, HubSignoff, UNCHANGED <<connVars, rpc>>
  PROVE  Inv'
<1>. DEFINE f == cur.from
<1>1. /\ hpc = "signoff" /\ cur.subj = "-" /\ Send(f, Nil) /\ hpc' = "recv" /\ cur' = Nil
      /\ UNCHANGED <<cmap, todo, held, cpc, sent, rpc>>
  BY DEF HubSignoff, connVars, Inv, RouterOK
<1>2. f \in Conns /\ f \in Receivers
  BY <1>1, TypeFacts, SenderIs, SenderKinds DEF Inv, TypeOK, HubTypeOK
<1>3. /\ mque' = mque
      /\ chan' \in [Receivers -> Seq(Item)]
      /\ Elems(chan'[f]) = Elems(chan[f]) \cup {Nil}
      /\ DOMAIN chan[f] = 1..Len(chan[f]) /\ DOMAIN chan'[f] = 1..(Len(chan[f]) + 1)
      /\ Len(chan[f]) \in Nat /\ Len(chan'[f]) = Len(chan[f]) + 1
      /\ \A i \in DOMAIN chan[f] : chan'[f][i] = chan[f][i]
      /\ \A x \in Receivers : x # f => chan'[x] = chan[x]
      /\ \A x \in Receivers : Len(chan'[x]) <= Cap(x)
  BY <1>1, <1>2, SendToConn DEF Inv, TypeOK, Item
<1>4. \A c : /\ SameQueued(c) /\ From(c)' = From(c)
             /\ \A s : InQueue(c, s)' <=> InQueue(c, s)
             /\ Handling(c) <=> c = f
             /\ Signing(c) <=> c = f
             /\ ~Handling(c)' /\ ~Signing(c)'
  BY <1>1, <1>3, QueueUnchanged DEF Handling, Signing
<1>. HIDE DEF f
<1>5. TypeOK'
  BY <1>1, <1>3 DEF Inv, TypeOK, HubTypeOK, Cap, Item, Receivers
<1>6. SendersOK'
  BY <1>1, <1>3 DEF Inv, SendersOK, Elems
<1>7. RouterOK'
  BY <1>1, NoElems DEF Inv, RouterOK, Elems
<1>8. ASSUME NEW c \in Conns
      PROVE  ConnOK(c)'
  <2>1. CASE c # f
    BY <1>1, <1>3, <1>4, <2>1, SenderKinds, ConnUntouched DEF Inv
  <2>2. CASE c = f
    <3>1. cpc[c] = "bye" /\ Leaving(c) /\ From(c) = {} /\ c \notin cmap /\ c \notin held
      BY <1>1, <1>4, <2>2 DEF Inv, TypeOK, ConnOK, InOrder, PhaseOK, HeldOK, SignedOff, SignedOn,
                              Leaving, Told, Quiet
    <3>2. Told(c)'
      BY <1>1, <1>3, <1>4, <2>2, <3>1 DEF Told, Quiet, Elems
    <3>3. NilEnds(c)'
      <4>1. \A i \in DOMAIN chan[c] : chan[c][i] # Nil
        BY <3>1 DEF Leaving, Elems
      <4>. QED  BY <1>3, <2>2, <4>1 DEF NilEnds
    <3>4. InOrder(c)'
      BY <1>4 DEF Inv, ConnOK, InOrder, SameQueued
    <3>5. PhaseOK(c)' /\ HeldOK(c)'
      BY <1>1, <3>1, <3>2 DEF PhaseOK, HeldOK
    <3>. QED  BY <3>3, <3>4, <3>5 DEF ConnOK
  <2>. QED  BY <2>1, <2>2
<1>9. ASSUME NEW r \in Reqs
      PROVE  RequestOK(r)'
  BY <1>1, <1>2, <1>3, <1>4, SenderKinds, RequestUntouched DEF Inv
<1>. QED  BY <1>5, <1>6, <1>7, <1>8, <1>9 DEF Inv

-----------------------------------------------------------------------------
(* Participants, requests and the owner of the hub keep the invariant *)

\* What a message to the hub leaves as it is, when only its sender moves on.
LEMMA PostKeeps ==
  ASSUME Inv, NEW m \in Item, Send(HUB, m), UNCHANGED runVars,
         m # Nil => m.from # HUB /\ (m.from \in Reqs => m.subj = "msg")
  PROVE  /\ HubTypeOK' /\ SendersOK' /\ RouterOK'
         /\ mque' = Append(mque, m) /\ chan' = chan
         /\ \A c : (Handling(c)' <=> Handling(c)) /\ (Signing(c)' <=> Signing(c))
         /\ \A c \in Conns : (m = Nil \/ m.from # c) /\ cpc'[c] = cpc[c] => ConnOK(c)'
         /\ \A r \in Reqs : (m = Nil \/ m.from # r) /\ rpc'[r] = rpc[r] => RequestOK(r)'
<1>1. /\ mque' = Append(mque, m) /\ chan' = chan /\ mque' \in Seq(Item) /\ Len(mque') <= QueCap
      /\ UNCHANGED <<cmap, hpc, cur, todo, held>>
  BY SendToHub DEF Inv, TypeOK, runVars
<1>2. mque \in Seq(Item)
  BY TypeFacts DEF Inv, TypeOK
<1>3. \A c : (Handling(c)' <=> Handling(c)) /\ (Signing(c)' <=> Signing(c))
  BY <1>1 DEF Handling, Signing
<1>4. HubTypeOK'
  BY <1>1 DEF Inv, TypeOK, HubTypeOK, Item, Cap
<1>5. SendersOK'
  <2>1. Elems(mque)' = Elems(mque) \cup {m}
    BY <1>1, <1>2, QueueGrows
  <2>. QED  BY <1>1, <2>1 DEF Inv, SendersOK
<1>6. RouterOK'
  BY <1>1, <1>3 DEF Inv, RouterOK, Elems
<1>7. ASSUME NEW c \in Senders, m = Nil \/ m.from # c
      PROVE  SameQueued(c)
  BY <1>1, <1>2, <1>7, GrowsForOthers
<1>8. ASSUME NEW c \in Conns, m = Nil \/ m.from # c, cpc'[c] = cpc[c]
      PROVE  ConnOK(c)'
  BY <1>1, <1>3, <1>7, <1>8, SenderKinds, ConnUntouched DEF Inv
<1>9. ASSUME NEW r \in Reqs, m = Nil \/ m.from # r, rpc'[r] = rpc[r]
      PROVE  RequestOK(r)'
  BY <1>1, <1>3, <1>7, <1>9, SenderKinds, RequestUntouched DEF Inv
<1>. QED  BY <1>1, <1>3, <1>4, <1>5, <1>6, <1>8, <1>9

\* What a message of a participant to the hub changes.
LEMMA PostIs ==
  ASSUME Inv, NEW c \in Conns, NEW subj \in Subjects, Post(c, subj), UNCHANGED <<runVars, rpc>>,
         NEW pc \in {"off", "on", "bye"}, cpc' = [cpc EXCEPT ![c] = pc]
  PROVE  /\ TypeOK' /\ SendersOK' /\ RouterOK'
         /\ \A d \in Conns : d # c => ConnOK(d)'
         /\ \A r \in Reqs : RequestOK(r)'
         /\ cpc'[c] = pc /\ Elems(chan[c])' = Elems(chan[c])
         /\ \E n \in Nat : /\ From(c)' = From(c) \cup {n} /\ mque'[n].subj = subj
                          /\ \A i \in From(c) : i \in Nat /\ i < n /\ mque'[i] = mque[i]
         /\ \A s \in Subjects : InQueue(c, s)' <=> InQueue(c, s) \/ s = subj
         /\ (Handling(c)' <=> Handling(c)) /\ (Signing(c)' <=> Signing(c))
         /\ \A i \in From(c) : mque[i].subj \in Subjects /\ InQueue(c, mque[i].subj)
<1>. DEFINE m == Msg(c, subj)
            n == Len(mque) + 1
<1>1. Send(HUB, m) /\ sent[c] < MaxSent /\ sent' = [sent EXCEPT ![c] = @ + 1]
  BY DEF Post
<1>2. c \in Senders /\ c \notin Reqs /\ c # HUB
  BY SenderKinds
<1>3. m \in Item /\ m # Nil /\ m.from = c /\ m.subj = subj
  BY <1>2, MsgType DEF Item
<1>4. \A s \in Subjects : m = Msg(c, s) <=> s = subj
  BY <1>2, <1>3, MsgType
<1>. HIDE DEF m
<1>5. /\ HubTypeOK' /\ SendersOK' /\ RouterOK'
      /\ mque' = Append(mque, m) /\ chan' = chan
      /\ (Handling(c)' <=> Handling(c)) /\ (Signing(c)' <=> Signing(c))
      /\ \A d \in Conns : m.from # d /\ cpc'[d] = cpc[d] => ConnOK(d)'
      /\ \A r \in Reqs : m.from # r /\ rpc'[r] = rpc[r] => RequestOK(r)'
  BY <1>1, <1>2, <1>3, PostKeeps
<1>6. mque \in Seq(Item)
  BY TypeFacts DEF Inv, TypeOK
<1>7. /\ From(c)' = From(c) \cup {n} /\ n \in Nat /\ mque'[n] = m
      /\ \A i \in From(c) : i \in Nat /\ i < n /\ mque'[i] = mque[i]
      /\ \A s : InQueue(c, s)' <=> InQueue(c, s) \/ m = Msg(c, s)
  <2>1. /\ From(c)' = From(c) \cup {n} /\ Len(mque) \in Nat /\ mque'[n] = m
        /\ \A i \in From(c) : i \in 1..Len(mque) /\ mque'[i] = mque[i]
        /\ \A s : InQueue(c, s)' <=> InQueue(c, s) \/ m = Msg(c, s)
    BY <1>3, <1>5, <1>6, QueueGrows
  <2>2. n \in Nat /\ \A i \in 1..Len(mque) : i \in Nat /\ i < n
    BY <2>1
  <2>. QED  BY <2>1, <2>2
<1>8. \A i \in From(c) : mque[i].subj \in Subjects /\ InQueue(c, mque[i].subj)
  <2>1. \A i \in From(c) : mque[i].subj \in Subjects
    <3>1. DOMAIN mque = 1..Len(mque) /\ \A i \in DOMAIN mque : mque[i] \in Item
      BY <1>6, LenProperties, ElementOfSeq
    <3>. QED  BY <3>1, MessageIs DEF From
  <2>. QED  BY <1>2, <1>6, <2>1, InQueueFrom
<1>9. TypeOK'
  <2>1. sent' \in [Conns -> 0..MaxSent]
    BY <1>1, ConnsAssumption DEF Inv, TypeOK
  <2>. QED  BY <1>5, <2>1 DEF Inv, TypeOK
<1>10. cpc'[c] = pc /\ \A d \in Conns : d # c => cpc'[d] = cpc[d]
  BY DEF Inv, TypeOK
<1>11. Elems(chan[c])' = Elems(chan[c])
  BY <1>5 DEF Elems
<1>. HIDE DEF n
<1>12. \E k \in Nat : /\ From(c)' = From(c) \cup {k} /\ mque'[k].subj = subj
                     /\ \A i \in From(c) : i \in Nat /\ i < k /\ mque'[i] = mque[i]
  BY <1>3, <1>7
<1>. QED  BY <1>2, <1>3, <1>4, <1>5, <1>7, <1>8, <1>9, <1>10, <1>11, <1>12

\* Behind messages that are no sign-off comes one that may follow them.
LEMMA PostOrdered ==
  ASSUME NEW c, Ordered(c), NEW n \in Nat, From(c)' = From(c) \cup {n},
         \A i \in From(c) : i \in Nat /\ i < n /\ mque'[i] = mque[i] /\ mque[i].subj # "-",
         From(c) = {} \/ mque'[n].subj # "+"
  PROVE  Ordered(c)'
<1>. SUFFICES ASSUME NEW i \in From(c)', NEW j \in From(c)', i < j
              PROVE  mque'[i].subj # "-" /\ mque'[j].subj # "+"
  BY DEF Ordered
<1>1. i \in From(c)
  BY SMT
<1>. QED  BY <1>1 DEF Ordered

LEMMA SignOnInv ==
  ASSUME Inv, NEW c \in Conns, SignOn(c)
  PROVE  Inv'
<1>1. /\ Post(c, "+") /\ cpc[c] = "off" /\ cpc' = [cpc EXCEPT ![c] = "on"]
      /\ UNCHANGED <<runVars, rpc>> /\ UNCHANGED <<cmap, hpc, cur, held, chan>>
  BY SendToHub DEF SignOn, Post, Send, runVars
<1>2. /\ TypeOK' /\ SendersOK' /\ RouterOK'
      /\ \A d \in Conns : d # c => ConnOK(d)'
      /\ \A r \in Reqs : RequestOK(r)'
      /\ cpc'[c] = "on" /\ Elems(chan[c])' = Elems(chan[c])
      /\ \E n \in Nat : /\ From(c)' = From(c) \cup {n} /\ mque'[n].subj = "+"
                       /\ \A i \in From(c) : i \in Nat /\ i < n /\ mque'[i] = mque[i]
      /\ \A s \in Subjects : InQueue(c, s)' <=> InQueue(c, s) \/ s = "+"
      /\ (Handling(c)' <=> Handling(c)) /\ (Signing(c)' <=> Signing(c))
  BY <1>1, PostIs DEF Subjects
<1>3. From(c) = {} /\ ~Handling(c) /\ ~Signing(c) /\ chan[c] = <<>> /\ c \notin cmap /\ c \notin held
  BY <1>1 DEF Inv, ConnOK, PhaseOK, SignedOff, Quiet, HeldOK, Handling, Signing
<1>4. ~InQueue(c, "-")
  BY <1>3, SenderKinds, InQueueFrom, TypeFacts DEF Inv, TypeOK, Subjects
<1>5. InOrder(c)'
  <2>1. Ordered(c)'
    BY <1>2, <1>3, PostOrdered DEF Inv, ConnOK, InOrder
  <2>. QED  BY <1>2, <1>3, <2>1 DEF InOrder
<1>6. PhaseOK(c)'
  BY <1>1, <1>2, <1>3, <1>4, NoElems DEF PhaseOK, SignedOn, Subjects
<1>7. NilEnds(c)' /\ HeldOK(c)'
  BY <1>1, <1>2, <1>3 DEF NilEnds, HeldOK
<1>. QED  BY <1>2, <1>5, <1>6, <1>7 DEF Inv, ConnOK

\* A participant that is on has sent no sign-off, and may send what is no sign-on.
LEMMA PostOn ==
  ASSUME Inv, NEW c \in Conns, cpc[c] = "on", NEW subj \in {"msg", "-"}, Post(c, subj),
         UNCHANGED <<runVars, rpc>>,
         cpc' = [cpc EXCEPT ![c] = IF subj = "-" THEN "bye" ELSE "on"]
  PROVE  Inv'
<1>. DEFINE pc == IF subj = "-" THEN "bye" ELSE "on"
<1>1. pc \in {"off", "on", "bye"} /\ subj \in Subjects /\ subj # "+"
      /\ UNCHANGED <<cmap, hpc, cur, held, chan>>
  BY DEF Post, Send, runVars, Subjects
<1>2. /\ TypeOK' /\ SendersOK' /\ RouterOK'
      /\ \A d \in Conns : d # c => ConnOK(d)'
      /\ \A r \in Reqs : RequestOK(r)'
      /\ cpc'[c] = pc /\ Elems(chan[c])' = Elems(chan[c])
      /\ \E n \in Nat : /\ From(c)' = From(c) \cup {n} /\ mque'[n].subj = subj
                       /\ \A i \in From(c) : i \in Nat /\ i < n /\ mque'[i] = mque[i]
      /\ \A s \in Subjects : InQueue(c, s)' <=> InQueue(c, s) \/ s = subj
      /\ (Handling(c)' <=> Handling(c)) /\ (Signing(c)' <=> Signing(c))
      /\ \A i \in From(c) : mque[i].subj \in Subjects /\ InQueue(c, mque[i].subj)
  BY <1>1, PostIs
<1>3. SignedOn(c) /\ ~InQueue(c, "-")
  BY DEF Inv, ConnOK, PhaseOK
<1>4. InOrder(c)'
  <2>1. \A i \in From(c) : mque[i].subj # "-"
    BY <1>2, <1>3
  <2>2. Ordered(c)'
    BY <1>1, <1>2, <2>1, PostOrdered DEF Inv, ConnOK, InOrder
  <2>3. Handling(c) => ~InQueue(c, "+") /\ cur.subj # "-"
    BY <1>3 DEF Inv, ConnOK, InOrder, SignedOn, Signing, Handling
  <2>. QED  BY <1>1, <1>2, <2>2, <2>3 DEF InOrder, Subjects
<1>5. SignedOn(c)' /\ (InQueue(c, "-")' <=> subj = "-")
  BY <1>1, <1>2, <1>3 DEF SignedOn, Subjects
<1>6. PhaseOK(c)'
  BY <1>2, <1>5 DEF PhaseOK
<1>7. NilEnds(c)' /\ HeldOK(c)'
  BY <1>1, <1>2 DEF Inv, ConnOK, NilEnds, HeldOK
<1>. QED  BY <1>2, <1>4, <1>6, <1>7 DEF Inv, ConnOK

LEMMA SayInv ==
  ASSUME Inv, NEW c \in Conns, Say(c)
  PROVE  Inv'
<1>1. cpc' = [cpc EXCEPT ![c] = "on"] /\ cpc[c] = "on" /\ Post(c, "msg") /\ UNCHANGED <<runVars, rpc>>
  BY DEF Say, Inv, TypeOK
<1>. QED  BY <1>1, PostOn

LEMMA SignOffInv ==
  ASSUME Inv, NEW c \in Conns, SignOff(c)
  PROVE  Inv'
<1>1. cpc' = [cpc EXCEPT ![c] = "bye"] /\ cpc[c] = "on" /\ Post(c, "-") /\ UNCHANGED <<runVars, rpc>>
  BY DEF SignOff
<1>. QED  BY <1>1, PostOn

LEMMA StopHubInv ==
  ASSUME Inv, StopHub
  PROVE  Inv'
<1>1. Send(HUB, Nil) /\ UNCHANGED <<runVars, connVars, rpc>> /\ Nil \in Item
  BY DEF StopHub, Item
<1>2. /\ HubTypeOK' /\ SendersOK' /\ RouterOK'
      /\ \A c \in Conns : ConnOK(c)'
      /\ \A r \in Reqs : RequestOK(r)'
  BY <1>1, PostKeeps DEF connVars
<1>. QED  BY <1>1, <1>2 DEF Inv, TypeOK, connVars

\* A participant takes the nil, which is its last message, or a message before it.
LEMMA TakeInv ==
  ASSUME Inv, NEW c \in Conns, Take(c)
  PROVE  Inv'
<1>1. /\ chan[c] # <<>> /\ chan' = [chan EXCEPT ![c] = Tail(@)]
      /\ cpc' = IF Head(chan[c]) = Nil THEN [cpc EXCEPT ![c] = "off"] ELSE cpc
      /\ UNCHANGED <<mque, cmap, hpc, cur, todo, held, sent, rpc>>
  BY DEF Take, runVars
<1>2. c \in Receivers /\ chan[c] \in Seq(Item) /\ cpc \in [Conns -> {"off", "on", "bye"}]
  BY SenderKinds, TypeFacts DEF Inv, TypeOK
<1>3. /\ chan' \in [Receivers -> Seq(Item)]
      /\ chan'[c] = Tail(chan[c])
      /\ \A d \in Receivers : d # c => chan'[d] = chan[d]
      /\ \A d \in Receivers : Len(chan'[d]) <= Cap(d)
  BY <1>1, <1>2, TakeFromConn DEF Inv, TypeOK
<1>4. /\ Len(chan[c]) \in Nat \ {0} /\ Head(chan[c]) = chan[c][1] /\ 1 \in DOMAIN chan[c]
      /\ Len(chan'[c]) = Len(chan[c]) - 1 /\ DOMAIN chan'[c] = 1..(Len(chan[c]) - 1)
      /\ \A i \in DOMAIN chan'[c] : i + 1 \in DOMAIN chan[c] /\ chan'[c][i] = chan[c][i + 1]
      /\ Elems(chan[c]) = Elems(chan'[c]) \cup {Head(chan[c])}
  <2>. DEFINE q == chan[c]
  <2>1. q \in Seq(Item) /\ q # <<>>
    BY <1>1, <1>2
  <2>. HIDE DEF q
  <2>2. /\ Len(q) \in Nat \ {0} /\ Head(q) = q[1] /\ 1 \in DOMAIN q
        /\ Len(Tail(q)) = Len(q) - 1 /\ DOMAIN Tail(q) = 1..(Len(q) - 1)
        /\ \A i \in DOMAIN Tail(q) : i + 1 \in DOMAIN q /\ Tail(q)[i] = q[i + 1]
        /\ Elems(q) = Elems(Tail(q)) \cup {Head(q)}
    BY <2>1, TailIs
  <2>. QED  BY <1>3, <2>2 DEF q
<1>5. \A x : /\ SameQueued(x) /\ From(x)' = From(x)
             /\ \A s : InQueue(x, s)' <=> InQueue(x, s)
             /\ (Handling(x)' <=> Handling(x)) /\ (Signing(x)' <=> Signing(x))
  BY <1>1, QueueUnchanged DEF Handling, Signing
<1>6. \A d \in Conns : d # c => cpc'[d] = cpc[d]
  BY <1>1, <1>2
<1>7. TypeOK'
  BY <1>1, <1>2, <1>3 DEF Inv, TypeOK, HubTypeOK, Cap, Item, Receivers
<1>8. SendersOK' /\ RouterOK'
  BY <1>1, <1>5 DEF Inv, SendersOK, RouterOK, Elems
<1>9. ASSUME NEW d \in Conns, d # c
      PROVE  ConnOK(d)'
  BY <1>1, <1>3, <1>5, <1>6, <1>9, SenderKinds, ConnUntouched DEF Inv
<1>10. ASSUME NEW r \in Reqs
       PROVE  RequestOK(r)'
  BY <1>1, <1>3, <1>5, SenderKinds, RequestUntouched DEF Inv
<1>11. ConnOK(c)'
  <2>1. InOrder(c)' /\ HeldOK(c)'
    BY <1>1, <1>5 DEF Inv, ConnOK, InOrder, HeldOK, SameQueued
  <2>2. Nil \in Elems(chan[c])' <=> Nil \in Elems(chan'[c])
    BY DEF Elems
  <2>3. NilEnds(c)'
    <3>1. ASSUME NEW i \in DOMAIN chan'[c], chan'[c][i] = Nil
          PROVE  i = Len(chan'[c])
      <4>1. i + 1 = Len(chan[c])
        BY <1>4, <3>1 DEF Inv, ConnOK, NilEnds
      <4>. QED  BY <1>4, <4>1
    <3>. QED  BY <3>1 DEF NilEnds
  <2>4. CASE Head(chan[c]) = Nil
    <3>1. Len(chan[c]) = 1 /\ chan'[c] = <<>>
      <4>1. 1 = Len(chan[c])
        BY <1>4, <2>4 DEF Inv, ConnOK, NilEnds
      <4>2. chan'[c] \in Seq(Item) /\ Len(chan'[c]) = 0
        BY <1>2, <1>3, <1>4, <4>1
      <4>. QED  BY <4>1, <4>2, EmptySeq
    <3>2. Nil \in Elems(chan[c])
      BY <1>4, <2>4 DEF Elems
    <3>3. chan[c] # <<>> /\ Told(c)
      BY <1>1, <1>2, <3>2 DEF Inv, ConnOK, PhaseOK, SignedOff, SignedOn, Leaving
    <3>4. SignedOff(c)'
      BY <1>1, <1>5, <3>1, <3>3 DEF SignedOff, Told, Quiet
    <3>5. cpc'[c] = "off"
      BY <1>1, <1>2, <2>4
    <3>6. PhaseOK(c)'
      BY <3>4, <3>5 DEF PhaseOK
    <3>. QED  BY <2>1, <2>3, <3>6 DEF ConnOK
  <2>5. CASE Head(chan[c]) # Nil
    <3>1. Nil \in Elems(chan[c])' <=> Nil \in Elems(chan[c])
      BY <1>4, <2>2, <2>5
    <3>2. cpc' = cpc /\ cpc[c] # "off"
      BY <1>1, <2>5 DEF Inv, ConnOK, PhaseOK, SignedOff
    <3>3. PhaseOK(c)'
      BY <1>1, <1>5, <3>1, <3>2 DEF Inv, ConnOK, PhaseOK, SignedOn, Leaving, Told, Quiet
    <3>. QED  BY <2>1, <2>3, <3>3 DEF ConnOK
  <2>. QED  BY <2>4, <2>5
<1>. QED  BY <1>7, <1>8, <1>9, <1>10, <1>11 DEF Inv

\* The call of Req changes neither what the hub holds nor what it knows of participants.
LEMMA RequestKeeps ==
  ASSUME Inv, UNCHANGED <<mque, runVars, connVars>>,
         NEW r \in Reqs, NEW pc \in {"idle", "post", "wait", "done", "gone"},
         rpc' = [rpc EXCEPT ![r] = pc], chan' \in [Receivers -> Seq(Item)],
         \A x \in Receivers : x # r => chan'[x] = chan[x],
         Len(chan'[r]) <= Cap(r), chan'[r] = chan[r] \/ chan'[r] = <<>>,
         pc \in {"idle", "post"} => Quiet(r) /\ chan'[r] = <<>>
  PROVE  Inv'
<1>1. UNCHANGED <<mque, cmap, hpc, cur, todo, held, cpc, sent>>
  BY DEF runVars, connVars
<1>2. \A x : /\ SameQueued(x) /\ From(x)' = From(x) /\ (Handling(x)' <=> Handling(x))
             /\ \A s : InQueue(x, s)' <=> InQueue(x, s)
  BY <1>1, QueueUnchanged DEF Handling
<1>3. rpc \in [Reqs -> {"idle", "post", "wait", "done", "gone"}]
  BY DEF Inv, TypeOK
<1>4. TypeOK'
  <2>1. \A x \in Receivers : Len(chan'[x]) <= Cap(x)
    BY TypeFacts DEF Inv, TypeOK
  <2>. QED  BY <1>1, <1>3, <2>1 DEF Inv, TypeOK, HubTypeOK, Cap, Item, Receivers
<1>5. SendersOK' /\ RouterOK'
  BY <1>1, <1>2 DEF Inv, SendersOK, RouterOK, Elems
<1>6. ASSUME NEW c \in Conns
      PROVE  ConnOK(c)'
  BY <1>1, <1>2, SenderKinds, ConnUntouched DEF Inv
<1>7. ASSUME NEW x \in Reqs, x # r
      PROVE  RequestOK(x)'
  BY <1>1, <1>2, <1>3, <1>7, SenderKinds, RequestUntouched DEF Inv
<1>8. RequestOK(r)'
  <2>1. Once(r)'
    BY <1>2 DEF Inv, RequestOK, SameQueued
  <2>2. rpc'[r] = pc
    BY <1>3
  <2>. QED  BY <1>1, <1>2, <2>1, <2>2 DEF Inv, RequestOK, Quiet
<1>. QED  BY <1>4, <1>5, <1>6, <1>7, <1>8 DEF Inv

LEMMA ReqStartInv ==
  ASSUME Inv, NEW r \in Reqs, ReqStart(r)
  PROVE  Inv'
<1>1. /\ rpc[r] = "idle" /\ rpc' = [rpc EXCEPT ![r] = "post"]
      /\ UNCHANGED <<mque, runVars, connVars>> /\ chan' = chan
  BY DEF ReqStart, hubVars, runVars
<1>2. Quiet(r) /\ chan[r] = <<>>
  BY <1>1 DEF Inv, RequestOK
<1>3. chan \in [Receivers -> Seq(Item)] /\ Len(chan[r]) <= Cap(r)
  BY SenderKinds, TypeFacts DEF Inv, TypeOK
<1>. QED  BY <1>1, <1>2, <1>3, RequestKeeps

LEMMA ReqReplyInv ==
  ASSUME Inv, NEW r \in Reqs, ReqReply(r)
  PROVE  Inv'
<1>1. /\ chan[r] # <<>> /\ chan' = [chan EXCEPT ![r] = Tail(@)]
      /\ rpc' = [rpc EXCEPT ![r] = "done"] /\ UNCHANGED <<mque, runVars, connVars>>
  BY DEF ReqReply
<1>2. r \in Receivers
  BY SenderKinds
<1>3. /\ chan' \in [Receivers -> Seq(Item)] /\ chan'[r] = Tail(chan[r])
      /\ \A d \in Receivers : d # r => chan'[d] = chan[d]
      /\ \A d \in Receivers : Len(chan'[d]) <= Cap(d)
  BY <1>1, <1>2, TakeFromConn DEF Inv, TypeOK
<1>4. chan'[r] = <<>>
  <2>1. chan[r] \in Seq(Item) /\ Len(chan[r]) \in Nat /\ Len(chan[r]) <= 1
    BY <1>2, TypeFacts DEF Inv, TypeOK, Cap
  <2>2. Len(chan'[r]) = Len(chan[r]) - 1 /\ chan'[r] \in Seq(Item)
    BY <1>1, <1>3, <2>1, HeadTailProperties
  <2>3. chan'[r] # <<>> => Len(chan'[r]) \in Nat \ {0}
    BY <2>2, EmptySeq
  <2>. QED  BY <2>1, <2>2, <2>3
<1>. QED  BY <1>1, <1>2, <1>3, <1>4, RequestKeeps

LEMMA ReqTimeoutInv ==
  ASSUME Inv, NEW r \in Reqs, ReqTimeout(r)
  PROVE  Inv'
<1>1. /\ rpc' = [rpc EXCEPT ![r] = "gone"]
      /\ UNCHANGED <<mque, runVars, connVars>> /\ chan' = chan
  BY DEF ReqTimeout, hubVars, runVars
<1>2. chan \in [Receivers -> Seq(Item)] /\ Len(chan[r]) <= Cap(r)
  BY SenderKinds, TypeFacts DEF Inv, TypeOK
<1>. QED  BY <1>1, <1>2, RequestKeeps

LEMMA ReqPostInv ==
  ASSUME Inv, NEW r \in Reqs, ReqPost(r)
  PROVE  Inv'
<1>. DEFINE m == Msg(r, "msg")
<1>1. /\ rpc[r] = "post" /\ rpc' = [rpc EXCEPT ![r] = "wait"] /\ Send(HUB, m)
      /\ UNCHANGED <<runVars, connVars>>
  BY DEF ReqPost
<1>2. r \in Senders /\ r # HUB /\ r \notin Conns
  BY SenderKinds
<1>3. m \in Item /\ m # Nil /\ m.from = r /\ m.subj = "msg"
  BY <1>2, MsgType DEF Item, Subjects
<1>. HIDE DEF m
<1>4. rpc \in [Reqs -> {"idle", "post", "wait", "done", "gone"}] /\ mque \in Seq(Item)
  BY TypeFacts DEF Inv, TypeOK
<1>5. /\ HubTypeOK' /\ SendersOK' /\ RouterOK'
      /\ mque' = Append(mque, m) /\ chan' = chan
      /\ (Handling(r)' <=> Handling(r))
      /\ \A c \in Conns : ConnOK(c)'
      /\ \A x \in Reqs : m.from # x /\ rpc'[x] = rpc[x] => RequestOK(x)'
  BY <1>1, <1>2, <1>3, PostKeeps DEF connVars
<1>6. TypeOK'
  BY <1>1, <1>4, <1>5 DEF Inv, TypeOK, connVars
<1>7. ASSUME NEW x \in Reqs, x # r
      PROVE  RequestOK(x)'
  BY <1>1, <1>3, <1>4, <1>5, <1>7
<1>8. RequestOK(r)'
  <2>1. From(r) = {} /\ ~Handling(r) /\ chan[r] = <<>>
    BY <1>1 DEF Inv, RequestOK, Quiet
  <2>2. From(r)' = {Len(mque) + 1}
    BY <1>3, <1>4, <1>5, <2>1, QueueGrows
  <2>3. rpc'[r] = "wait"
    BY <1>1, <1>4
  <2>. QED  BY <1>5, <2>1, <2>2, <2>3 DEF RequestOK, Once
<1>. QED  BY <1>5, <1>6, <1>7, <1>8 DEF Inv

-----------------------------------------------------------------------------
(* The theorems *)

LEMMA InitInv == Init => Inv
<1> SUFFICES ASSUME Init PROVE Inv
  OBVIOUS
<1>1. /\ mque = <<>> /\ cmap = {} /\ hpc = "recv" /\ cur = Nil /\ todo = <<>> /\ held = {}
      /\ chan = [c \in Receivers |-> <<>>] /\ cpc = [c \in Conns |-> "off"]
      /\ sent = [c \in Conns |-> 0] /\ rpc = [r \in Reqs |-> "idle"]
  BY DEF Init, HubInit, Receivers
<1>2. Elems(mque) = {} /\ Elems(todo) = {} /\ DOMAIN mque = {}
  BY <1>1, NoElems
<1>3. \A c : From(c) = {} /\ ~Handling(c) /\ ~Signing(c)
  BY <1>1, <1>2 DEF From, Handling, Signing
<1>4. TypeOK
  <2>1. /\ mque \in Seq(Message \cup {Nil}) /\ Len(mque) <= QueCap
        /\ todo \in Seq(Conns \cup Reqs)
    BY <1>1, EmptySeq, CapAssumption
  <2>2. \A c \in Conns \cup Reqs : chan[c] = <<>> /\ Len(chan[c]) <= Cap(c)
    BY <1>1, EmptySeq, CapAssumption DEF Cap, Receivers
  <2>3. chan \in [Conns \cup Reqs -> Seq(Message \cup {Nil})]
    BY <1>1, EmptySeq DEF Receivers
  <2>4. HubTypeOK
    BY <1>1, <2>1, <2>2, <2>3 DEF HubTypeOK
  <2>. QED  BY <1>1, <2>4, ConnsAssumption DEF TypeOK
<1>5. SendersOK
  BY <1>1, <1>2 DEF SendersOK
<1>6. RouterOK
  BY <1>1, <1>2, FS_EmptySet DEF RouterOK
<1>7. ASSUME NEW c \in Conns
      PROVE  ConnOK(c)
  <2>1. chan[c] = <<>> /\ cpc[c] = "off" /\ DOMAIN chan[c] = {}
    BY <1>1 DEF Receivers
  <2>2. InOrder(c)
    BY <1>3 DEF InOrder, Ordered
  <2>3. PhaseOK(c)
    BY <1>1, <1>3, <2>1 DEF PhaseOK, SignedOff, Quiet
  <2>. QED  BY <1>1, <2>1, <2>2, <2>3 DEF ConnOK, NilEnds, HeldOK
<1>8. ASSUME NEW r \in Reqs
      PROVE  RequestOK(r)
  BY <1>1, <1>3 DEF RequestOK, Once, Quiet, Receivers
<1>. QED  BY <1>4, <1>5, <1>6, <1>7, <1>8 DEF Inv

LEMMA StutterInv ==
  ASSUME Inv, UNCHANGED vars
  PROVE  Inv'
<1>1. /\ UNCHANGED <<mque, cmap, hpc, cur, todo, held, chan, cpc, sent, rpc>>
  BY DEF vars, hubVars, connVars
<1>2. \A x : SameQueued(x) /\ (Handling(x)' <=> Handling(x))
  BY <1>1, QueueUnchanged DEF Handling
<1>3. TypeOK' /\ SendersOK' /\ RouterOK'
  BY <1>1, <1>2 DEF Inv, TypeOK, HubTypeOK, Cap, SendersOK, RouterOK, Elems
<1>4. \A c \in Conns : ConnOK(c)'
  BY <1>1, <1>2, ConnUntouched DEF Inv
<1>5. \A r \in Reqs : RequestOK(r)'
  BY <1>1, <1>2, RequestUntouched DEF Inv
<1>. QED  BY <1>3, <1>4, <1>5 DEF Inv

LEMMA StepInv == Inv /\ [Next]_vars => Inv'
<1> SUFFICES ASSUME Inv, [Next]_vars PROVE Inv'
  OBVIOUS
<1>1. CASE HubStep /\ UNCHANGED <<connVars, rpc>>
  BY <1>1, HubRecvInv, HubStoppedInv, HubRouteInv, HubRoutedInv, HubSignoffInv DEF HubStep
<1>2. ASSUME NEW c \in Conns, SignOn(c) \/ Say(c) \/ SignOff(c) \/ Take(c)
      PROVE  Inv'
  BY <1>2, SignOnInv, SayInv, SignOffInv, TakeInv
<1>3. CASE StopHub
  BY <1>3, StopHubInv
<1>4. ASSUME NEW r \in Reqs, ReqStart(r) \/ ReqStep(r)
      PROVE  Inv'
  BY <1>4, ReqStartInv, ReqPostInv, ReqReplyInv, ReqTimeoutInv DEF ReqStep
<1>5. CASE Rest \/ UNCHANGED vars
  BY <1>5, StutterInv DEF Rest
<1>. QED  BY <1>1, <1>2, <1>3, <1>4, <1>5 DEF Next

\* In every reachable state of the hub, whatever participants and requests do and whenever
\* they do it, each participant is in a phase that queue, hands and channel agree on, and a
\* request is in one place (hub.go:72-90, req.go:28-44).
THEOREM HubConnsInvariant == Spec => []Inv
<1>1. Inv /\ [Next]_vars => Inv'
  BY StepInv
<1>. QED  BY <1>1, InitInv, PTL DEF Spec

\* Type correctness of the hub with its participants: no queue and no channel ever holds
\* more than its capacity, and the hub handles a message whenever it routes or signs off.
THEOREM HubConnsTypeOK == Spec => []TypeOK
<1>1. Inv => TypeOK
  BY DEF Inv
<1>. QED  BY <1>1, HubConnsInvariant, PTL

\* A sender of whom nothing is queued waits in the queue with no subject.
LEMMA QuietQueue ==
  ASSUME Inv, NEW c \in Conns, From(c) = {}
  PROVE  ~InQueue(c, "-") /\ ~InQueue(c, "+")
BY SenderKinds, InQueueFrom, TypeFacts DEF Inv, TypeOK, Subjects

\* The nil of a participant that signed off is the last message it gets: the list and the
\* router have let go of it, and no message to it is still to be sent (hub.go:42).
THEOREM HubNilIsLast == Spec => []NilIsLast
<1>1. ASSUME Inv
      PROVE  NilIsLast
  <2>. SUFFICES ASSUME NEW c \in Conns, NEW i \in DOMAIN chan[c], chan[c][i] = Nil
                PROVE  /\ i = Len(chan[c]) /\ cpc[c] = "bye"
                       /\ c \notin cmap /\ c \notin held /\ c \notin Elems(todo)
    BY DEF NilIsLast
  <2>1. i = Len(chan[c]) /\ Nil \in Elems(chan[c])
    BY <1>1 DEF Inv, ConnOK, NilEnds, Elems
  <2>2. chan[c] # <<>>
    BY <2>1, NoElems
  <2>3. cpc[c] = "bye" /\ Told(c)
    BY <1>1, <2>1, <2>2 DEF Inv, TypeOK, ConnOK, PhaseOK, SignedOff, SignedOn, Leaving
  <2>4. c \notin held
    BY <1>1, <2>3 DEF Inv, ConnOK, HeldOK, Told
  <2>5. c \notin Elems(todo)
    BY <1>1, <2>3, <2>4 DEF Inv, RouterOK, Told, Quiet
  <2>. QED  BY <2>1, <2>3, <2>4, <2>5 DEF Told
<1>. QED  BY <1>1, HubConnsInvariant, PTL

\* A sign-off is in the queue, in the hub's hands or answered by the nil in the channel, in
\* one of these and in no two, until the participant has taken the nil (hub.go:42, 83-88).
THEOREM HubSignoffInFlight == Spec => []SignoffInFlight
<1>1. ASSUME Inv
      PROVE  SignoffInFlight
  <2>. SUFFICES ASSUME NEW c \in Conns, cpc[c] = "bye"
                PROVE  Cardinality({x \in {"queue", "hub", "nil"} :
                          \/ x = "queue" /\ InQueue(c, "-")
                          \/ x = "hub" /\ Signing(c)
                          \/ x = "nil" /\ Nil \in Elems(chan[c])}) = 1
    BY DEF SignoffInFlight
  <2>. DEFINE P == {x \in {"queue", "hub", "nil"} :
                      \/ x = "queue" /\ InQueue(c, "-")
                      \/ x = "hub" /\ Signing(c)
                      \/ x = "nil" /\ Nil \in Elems(chan[c])}
  <2>1. \/ SignedOn(c) /\ InQueue(c, "-")
        \/ Leaving(c)
        \/ Told(c)
    BY <1>1 DEF Inv, ConnOK, PhaseOK
  <2>2. CASE SignedOn(c) /\ InQueue(c, "-")
    <3>1. P = {"queue"}
      BY <2>2 DEF SignedOn
    <3>. QED  BY <3>1, FS_Singleton
  <2>3. CASE Leaving(c)
    <3>1. From(c) = {}
      BY <1>1, <2>3 DEF Inv, ConnOK, InOrder, Leaving, Signing, Handling
    <3>2. P = {"hub"}
      BY <1>1, <2>3, <3>1, QuietQueue DEF Leaving
    <3>. QED  BY <3>2, FS_Singleton
  <2>4. CASE Told(c)
    <3>1. From(c) = {} /\ ~Signing(c)
      BY <2>4 DEF Told, Quiet, Signing, Handling
    <3>2. P = {"nil"}
      BY <1>1, <2>4, <3>1, QuietQueue DEF Told
    <3>. QED  BY <3>2, FS_Singleton
  <2>. QED  BY <2>1, <2>2, <2>3, <2>4
<1>. QED  BY <1>1, HubConnsInvariant, PTL

\* The list of the hub has exactly the participants that think they are signed on, up to the
\* sign-on or sign-off that waits in the queue or that the hub is routing (hub.go:47, 77-88).
THEOREM HubSignedOnListed == Spec => []SignedOnListed
<1>1. ASSUME Inv
      PROVE  SignedOnListed
  <2>. SUFFICES ASSUME NEW c \in Conns
                PROVE  /\ cpc[c] = "on" => (c \in cmap) # InQueue(c, "+")
                       /\ cpc[c] = "bye" =>
                            (c \in cmap) = ((InQueue(c, "-") /\ ~InQueue(c, "+"))
                                              \/ (Signing(c) /\ hpc = "route"))
                       /\ cpc[c] = "off" => c \notin cmap /\ chan[c] = <<>>
    BY DEF SignedOnListed
  <2>1. PhaseOK(c) /\ InOrder(c)
    BY <1>1 DEF Inv, ConnOK
  <2>2. From(c) = {} => ~InQueue(c, "-") /\ ~InQueue(c, "+")
    BY <1>1, QuietQueue
  <2>3. Leaving(c) => From(c) = {}
    BY <2>1 DEF InOrder, Leaving, Signing, Handling
  <2>4. Told(c) => From(c) = {} /\ ~Signing(c)
    BY DEF Told, Quiet, Signing, Handling
  <2>5. cpc[c] = "on" => (c \in cmap <=> ~InQueue(c, "+"))
    BY <2>1 DEF PhaseOK, SignedOn
  <2>6. cpc[c] = "bye" => (c \in cmap <=> \/ InQueue(c, "-") /\ ~InQueue(c, "+")
                                          \/ Signing(c) /\ hpc = "route")
    BY <2>1, <2>2, <2>3, <2>4 DEF PhaseOK, SignedOn, Leaving, Told
  <2>7. cpc[c] = "off" => c \notin cmap /\ chan[c] = <<>>
    BY <2>1 DEF PhaseOK, SignedOff
  <2>. QED  BY <2>5, <2>6, <2>7 DEF InQueue, Signing
<1>. QED  BY <1>1, HubConnsInvariant, PTL

\* There is room for the one reply of a request whenever the router sends it, also when the
\* call of Req has given up: the hub never waits for a caller that is gone (req.go:31).
THEOREM HubReplyNeverBlocks == Spec => []ReplyNeverBlocks
<1>1. ASSUME Inv
      PROVE  ReplyNeverBlocks
  <2>. SUFFICES ASSUME hpc = "route", todo # <<>>, Head(todo) \in Reqs
                PROVE  Room(Head(todo))
    BY DEF ReplyNeverBlocks
  <2>. DEFINE r == Head(todo)
  <2>1. r \in Elems(todo)
    BY <1>1, TypeFacts, TailIs DEF Inv, TypeOK
  <2>2. r \notin held
    BY <1>1, SenderKinds, TypeFacts DEF Inv, TypeOK
  <2>3. chan[r] = <<>>
    BY <1>1, <2>1, <2>2 DEF Inv, RouterOK, RequestOK
  <2>4. Len(chan[r]) = 0 /\ Cap(r) = 1 /\ r # HUB
    BY <2>3, EmptySeq, SenderKinds DEF Cap
  <2>. QED  BY <2>4 DEF Room
<1>. QED  BY <1>1, HubConnsInvariant, PTL
=============================================================================
