----------------------------- MODULE SubsSlices -----------------------------
(***************************************************************************)
(* The subscriptions of package evt with the slices and loops of the code: *)
(* topic lists and buffers are sequences, Sub, Unsub and Show go through   *)
(* their arguments one entry at a time, and Bcast sends to one subscriber  *)
(* after the other, waiting for room in each one's channel while the       *)
(* receivers go on. It implements Subs, where a slice is a count and a     *)
(* broadcast one step.                                                     *)
(***************************************************************************)
EXTENDS Integers, SequencesExt

CONSTANTS Conns, Topics, Keys, NoWatch, WatchLists, ActLists, Milli, MaxNow, MaxSubs,
          MaxEv, SharedLoopVar,    \* as in Subs
          ChanCap                  \* capacity of a connection's channel

ASSUME ChanAssumption == ChanCap \in Nat \ {0}

VARIABLES ledger, nsub, owner, watch, srev, smap, bcast, since,    \* as in Subs
          list,     \* Subscribers.tmap: the subscribers of each topic
          buf,      \* Subscriber.Bufr: the events that wait, by their position in the ledger
          todo,     \* the subscribers Bcast has yet to update
          chan,     \* the updates in the channel of each connection
          sent      \* history: the events each connection was sent

objVars == <<nsub, owner, smap>>
vars    == <<ledger, objVars, watch, srev, bcast, since, list, buf, todo, chan, sent>>

SubIds == 1..MaxSubs

\* How often a sequence holds x.
Times(x, s) == Cardinality({i \in DOMAIN s : s[i] = x})

\* What Subs says of a subscriber that the current broadcast has not reached: its update is
\* as good as sent.
Abs == INSTANCE Subs WITH
  tmap <- [t \in Topics |-> [s \in SubIds |-> Times(s, list[t])]],
  bufr <- [s \in SubIds |-> [e \in 1..MaxEv |-> IF s \in todo THEN 0 ELSE Times(e, buf[s])]],
  srev <- [s \in SubIds |-> IF s \in todo THEN bcast ELSE srev[s]],
  got  <- [c \in Conns |-> [e \in 1..MaxEv |->
             Times(e, sent[c]) + (IF smap[c] \in todo THEN Times(e, buf[smap[c]]) ELSE 0)]]

\* What Subs assumes of the bounds and the input.
ASSUME SubsAssumption ==
  /\ Milli \in Nat \ {0} /\ MaxNow \in Nat /\ MaxSubs \in Nat /\ MaxEv \in Nat
  /\ SharedLoopVar \in BOOLEAN
  /\ WatchLists \subseteq Seq(Abs!Watch) /\ ActLists \subseteq Seq(Abs!Act)
  /\ NoWatch \notin Abs!Watch /\ Conns # {}

Init ==
  /\ ledger = <<>> /\ nsub = 0 /\ bcast = 0
  /\ owner = [s \in SubIds |-> CHOOSE c \in Conns : TRUE]
  /\ watch = [s \in SubIds |-> [t \in Topics |-> NoWatch]]
  /\ srev = [s \in SubIds |-> 0]
  /\ smap = [c \in Conns |-> Abs!NoSub]
  /\ since = [s \in SubIds |-> [t \in Topics |-> 0]]
  /\ list = [t \in Topics |-> <<>>]
  /\ buf = [s \in SubIds |-> <<>>]
  /\ todo = {}
  /\ chan = [c \in Conns |-> <<>>]
  /\ sent = [c \in Conns |-> <<>>]

\* A call runs from beginning to end before the router takes the next message.
Idle == todo = {}

-----------------------------------------------------------------------------
\* A buffer without the events of the topics in ws; the slice is reused.
Filter(b, ws) ==
  LET out[i \in 0..Len(b)] ==
        IF i = 0 THEN <<>>
        ELSE IF ledger[b[i]].top \in Abs!Tops(ws) THEN out[i - 1] ELSE Append(out[i - 1], b[i])
  IN  out[Len(b)]

\* Mutant: the topic is listed again.
SubEntryTwice(st, s, w, stored) ==
  [watch |-> [st.watch EXCEPT ![w.top] = stored],
   list  |-> [st.list EXCEPT ![w.top] = Append(@, s)]]

\* One round of Sub's loop: list the topic if it was not watched, store the watch.
SubEntry(st, s, w, stored) ==
  [watch |-> [st.watch EXCEPT ![w.top] = stored],
   list  |-> IF st.watch[w.top] = NoWatch THEN [st.list EXCEPT ![w.top] = Append(@, s)]
                                          ELSE st.list]

\* The loop of Sub. A watch is stored by address: with one variable for all rounds every
\* entry reads what the last round left there.
SubLoop(s, ws) ==
  LET st[i \in 0..Len(ws)] ==
        IF i = 0 THEN [watch |-> watch[s], list |-> list]
                 ELSE SubEntry(st[i - 1], s, ws[i], IF SharedLoopVar THEN Last(ws) ELSE ws[i])
  IN  st[Len(ws)]

\* Sub once the subscriber s of c has been looked up or made.
SubWith(c, s, ws) ==
  /\ LET st == SubLoop(s, ws) IN
       watch' = [watch EXCEPT ![s] = st.watch] /\ list' = st.list
  /\ smap' = [smap EXCEPT ![c] = s]
  /\ owner' = [owner EXCEPT ![s] = c]
  /\ buf' = [buf EXCEPT ![s] = Filter(@, ws)]
  /\ since' = [since EXCEPT ![s] = [t \in Topics |->
       IF t \in {ws[i].top : i \in DOMAIN ws} THEN Len(ledger) ELSE @[t]]]
  /\ UNCHANGED <<ledger, srev, bcast, todo, chan, sent>>

Sub(c, ws) ==
  /\ Idle /\ ws # <<>>
  /\ \/ smap[c] # Abs!NoSub /\ nsub' = nsub /\ SubWith(c, smap[c], ws)
     \/ smap[c] = Abs!NoSub /\ nsub < MaxSubs /\ nsub' = nsub + 1 /\ SubWith(c, nsub + 1, ws)

\* One round of Unsub's loop: drop the watch, and the first entry of the topic's list.
UnsubEntry(st, s, w) ==
  [watch |-> [st.watch EXCEPT ![w.top] = NoWatch],
   list  |-> [st.list EXCEPT ![w.top] = RemoveFirst(@, s)]]

UnsubLoop(s, ws) ==
  LET st[i \in 0..Len(ws)] ==
        IF i = 0 THEN [watch |-> watch[s], list |-> list] ELSE UnsubEntry(st[i - 1], s, ws[i])
  IN  st[Len(ws)]

\* Unsub; without a list the subscriber is only forgotten.
Unsub(c, ws) ==
  /\ Idle /\ smap[c] # Abs!NoSub
  /\ IF ws = <<>>
       THEN /\ smap' = [smap EXCEPT ![c] = Abs!NoSub]
            /\ since' = [since EXCEPT ![smap[c]] = [t \in Topics |-> 0]]
            /\ UNCHANGED <<watch, list, buf>>
       ELSE LET s == smap[c]  st == UnsubLoop(s, ws) IN
              /\ watch' = [watch EXCEPT ![s] = st.watch]
              /\ list' = st.list
              /\ smap' = IF \A t \in Topics : st.watch[t] = NoWatch
                           THEN [smap EXCEPT ![c] = Abs!NoSub] ELSE smap
              /\ buf' = [buf EXCEPT ![s] = Filter(@, ws)]
              /\ since' = [since EXCEPT ![s] = [t \in Topics |->
                   IF t \in Abs!Tops(ws) THEN 0 ELSE @[t]]]
  /\ UNCHANGED <<ledger, nsub, owner, srev, bcast, todo, chan, sent>>

-----------------------------------------------------------------------------
\* Mutant: the newest event comes first.
ShowToFirst(b, ev, e, s) ==
  IF owner[s] # ev.by /\ Abs!Accept(s, ev) THEN [b EXCEPT ![s] = <<e>> \o @] ELSE b

\* One round of Show's inner loop: event e goes to the subscriber s of its topic.
ShowTo(b, ev, e, s) ==
  IF owner[s] # ev.by /\ Abs!Accept(s, ev) THEN [b EXCEPT ![s] = Append(@, e)] ELSE b

\* Show's inner loop: the subscribers of the event's topic.
ShowEvent(b, ev, e) ==
  LET bufs[i \in 0..Len(list[ev.top])] ==
        IF i = 0 THEN b ELSE ShowTo(bufs[i - 1], ev, e, list[ev.top][i])
  IN  bufs[Len(list[ev.top])]

\* Show for the events evs, which have the positions after n.
Show(evs, n) ==
  LET bufs[i \in 0..Len(evs)] ==
        IF i = 0 THEN buf ELSE ShowEvent(bufs[i - 1], evs[i], n + i)
  IN  bufs[Len(evs)]

\* A transaction is published to the ledger and shown to the subscribers.
Publish(c, acts, now) ==
  /\ Idle /\ acts # <<>> /\ Len(ledger) + Len(acts) <= MaxEv
  /\ LET rev == Abs!NextRev(Abs!LedgerRev, now)
         evs == [i \in DOMAIN acts |->
                   [rev |-> rev, top |-> acts[i].top, key |-> acts[i].key, by |-> c]]
     IN /\ ledger' = ledger \o evs
        /\ buf' = Show(evs, Len(ledger))
  /\ UNCHANGED <<objVars, watch, srev, bcast, since, list, todo, chan, sent>>

-----------------------------------------------------------------------------
\* Bcast begins: there is a new revision.
Bcast ==
  /\ Idle
  /\ Abs!LedgerRev > bcast
  /\ bcast' = Abs!LedgerRev
  /\ todo' = {smap[c] : c \in Conns} \ {Abs!NoSub}
  /\ UNCHANGED <<ledger, objVars, watch, srev, since, list, buf, chan, sent>>

\* Mutant: the buffer is not emptied.
UpdateKeeps(s) ==
  /\ s \in todo /\ Len(chan[owner[s]]) < ChanCap
  /\ srev' = [srev EXCEPT ![s] = bcast]
  /\ chan' = [chan EXCEPT ![owner[s]] = Append(@, buf[s])]
  /\ sent' = [sent EXCEPT ![owner[s]] = @ \o buf[s]]
  /\ todo' = todo \ {s}
  /\ UNCHANGED <<ledger, objVars, watch, bcast, since, list, buf>>

\* Update: the subscriber, any one that is left, is sent a copy of its buffer once there is
\* room in its channel, and the buffer is empty again.
Update(s) ==
  /\ s \in todo /\ Len(chan[owner[s]]) < ChanCap
  /\ srev' = [srev EXCEPT ![s] = bcast]
  /\ chan' = [chan EXCEPT ![owner[s]] = Append(@, buf[s])]
  /\ sent' = [sent EXCEPT ![owner[s]] = @ \o buf[s]]
  /\ buf' = [buf EXCEPT ![s] = <<>>]
  /\ todo' = todo \ {s}
  /\ UNCHANGED <<ledger, objVars, watch, bcast, since, list>>

\* The connection takes an update from its channel.
Take(c) ==
  /\ chan[c] # <<>>
  /\ chan' = [chan EXCEPT ![c] = Tail(@)]
  /\ UNCHANGED <<ledger, objVars, watch, srev, bcast, since, list, buf, todo, sent>>

Next ==
  \/ \E c \in Conns, ws \in WatchLists : Sub(c, ws)
  \/ \E c \in Conns, ws \in WatchLists \cup {<<>>} : Unsub(c, ws)
  \/ \E c \in Conns, acts \in ActLists, now \in 1..MaxNow : Publish(c, acts, now)
  \/ Bcast
  \/ \E s \in SubIds : Update(s)
  \/ \E c \in Conns : Take(c)

Spec == Init /\ [][Next]_vars

-----------------------------------------------------------------------------
(* Properties *)

Ascending(s) == \A i, j \in DOMAIN s : i < j => s[i] < s[j]

\* The type of the state: positions in buffers and updates are positions in the ledger.
TypeOK ==
  /\ ledger \in Seq(Abs!Event) /\ Len(ledger) <= MaxEv
  /\ nsub \in 0..MaxSubs
  /\ owner \in [SubIds -> Conns]
  /\ watch \in [SubIds -> [Topics -> Abs!Watch \cup {NoWatch}]]
  /\ srev \in [SubIds -> Int]
  /\ smap \in [Conns -> {Abs!NoSub} \cup SubIds]
  /\ bcast \in Int
  /\ since \in [SubIds -> [Topics -> Nat]]
  /\ list \in [Topics -> Seq(SubIds)]
  /\ buf \in [SubIds -> Seq(DOMAIN ledger)]
  /\ todo \subseteq SubIds
  /\ chan \in [Conns -> Seq(Seq(DOMAIN ledger))]
  /\ \A c \in Conns : Len(chan[c]) <= ChanCap
  /\ sent \in [Conns -> Seq(DOMAIN ledger)]

\* A connection's subscriber is its own, and a broadcast goes to subscribers of connections.
OwnersOK ==
  /\ \A c \in Conns : smap[c] # Abs!NoSub => smap[c] <= nsub /\ owner[smap[c]] = c
  /\ \A s \in todo : smap[owner[s]] = s

\* The inductive invariant that makes every step one of Subs (SubsSlicesProofs).
SlicesInv == TypeOK /\ OwnersOK

\* What a connection was sent and what waits for it follow the order of the ledger, each
\* event at most once, across subscriptions, filters and reused buffers (subs.go:35-44,
\* 60-72, 152-164).
InLedgerOrder ==
  \A c \in Conns :
    Ascending(sent[c] \o (IF smap[c] = Abs!NoSub THEN <<>> ELSE buf[smap[c]]))

\* The events that wait for c: in its channel, update by update, and then in its buffer.
Waiting(c) == chan[c] \o (IF smap[c] = Abs!NoSub THEN <<>> ELSE <<buf[smap[c]]>>)

\* A connection is sent all it gets of one transaction in one update, before anything of
\* a later one: what waits for it is cut between revisions only (subs.go:36-43, 137).
WholeTransactions ==
  \A c \in Conns : \A i, j \in DOMAIN Waiting(c) : i < j =>
    \A x \in Range(Waiting(c)[i]), y \in Range(Waiting(c)[j]) : ledger[x].rev < ledger[y].rev

\* The slices and loops do what Subs says (subs.go:9-164).
ImplementsSubs == Abs!Spec
=============================================================================
