-------------------------------- MODULE Subs --------------------------------
(***************************************************************************)
(* The subscriptions of package evt: who watches which topics (Sub,        *)
(* Unsub), which published events wait in which buffer (Show), and the     *)
(* broadcast that hands the buffers out (Bcast). All of it runs in the     *)
(* goroutine of the hub's router, one call at a time.                      *)
(*                                                                         *)
(* Subscriber objects live on a heap: Unsub with an empty list forgets the *)
(* subscriber of a connection without taking it off the topic lists, so a  *)
(* connection that subscribes again gets a second object while the first   *)
(* one goes on collecting events.                                          *)
(*                                                                         *)
(* A slice is modelled by how often it holds an element. Every property    *)
(* here is about which events are in a buffer and how often; events enter  *)
(* a buffer in the order of the ledger and filter keeps that order.        *)
(***************************************************************************)
EXTENDS Integers, Sequences, FiniteSets

CONSTANTS Conns,          \* connections, by their id
          Topics, Keys,   \* the topics and keys of events
          NoWatch,        \* no entry in Subscriber.Watch
          WatchLists,     \* the lists Sub and Unsub may be called with
          ActLists,       \* the actions of the transactions that may be published
          Milli,          \* the length of a millisecond on the clock
          MaxNow,         \* bound: the latest arrival time
          MaxSubs,        \* bound: subscriber objects ever made
          MaxEv,          \* bound: length of the ledger
          SharedLoopVar   \* whether a loop has one variable for all its iterations (Go
                          \* before 1.22, for which the code was written) or one for each

Watch == [top : Topics, rev : Int, ids : SUBSET Keys]
Act   == [top : Topics, key : Keys]

ASSUME BoundsAssumption ==
  /\ Milli \in Nat \ {0} /\ MaxNow \in Nat /\ MaxSubs \in Nat /\ MaxEv \in Nat
  /\ SharedLoopVar \in BOOLEAN
ASSUME InputAssumption == WatchLists \subseteq Seq(Watch) /\ ActLists \subseteq Seq(Act)
ASSUME NoWatchAssumption == NoWatch \notin Watch
ASSUME ConnsAssumption == Conns # {}

SubIds == 1..MaxSubs
EvIds  == 1..MaxEv
NoSub  == 0
Event  == [rev : Int, top : Topics, key : Keys, by : Conns]

VARIABLES ledger,   \* the events of the ledger; an event's id is its position
          nsub,     \* how many subscribers have been made: 1..nsub
          owner,    \* Subscriber.Conn
          watch,    \* Subscriber.Watch
          bufr,     \* Subscriber.Bufr: how often it holds each event
          srev,     \* Subscriber.Rev
          smap,     \* Subscribers.smap: the subscriber of a connection, or NoSub
          tmap,     \* Subscribers.tmap: how often a topic's list holds each subscriber
          bcast,    \* Subscribers.bcast, the revision of the latest broadcast
          got,      \* history: how often each connection was sent each event
          since     \* history: the length of the ledger when a topic was last subscribed,
                    \* 0 without subscription

subVars  == <<owner, watch, srev, smap, tmap>>
histVars == <<got, since>>
vars     == <<ledger, nsub, subVars, bufr, bcast, histVars>>

Init ==
  /\ ledger = <<>> /\ nsub = 0 /\ bcast = 0
  /\ owner = [s \in SubIds |-> CHOOSE c \in Conns : TRUE]
  /\ watch = [s \in SubIds |-> [t \in Topics |-> NoWatch]]
  /\ bufr = [s \in SubIds |-> [e \in EvIds |-> 0]]
  /\ srev = [s \in SubIds |-> 0]
  /\ smap = [c \in Conns |-> NoSub]
  /\ tmap = [t \in Topics |-> [s \in SubIds |-> 0]]
  /\ got = [c \in Conns |-> [e \in EvIds |-> 0]]
  /\ since = [s \in SubIds |-> [t \in Topics |-> 0]]

-----------------------------------------------------------------------------
(* Revisions *)

Truncate(t) == t - (t % Milli)

\* Mutant: the arrival time is taken even if the clock went back.
NextRevClock(last, rev) == Truncate(rev)

NextRev(last, rev) == IF Truncate(rev) > last THEN Truncate(rev) ELSE last + Milli

\* The latest revision of the ledger, or the zero time.
LedgerRev == IF ledger = <<>> THEN 0 ELSE ledger[Len(ledger)].rev

-----------------------------------------------------------------------------
(* Subscriptions *)

Tops(ws) == {ws[i].top : i \in DOMAIN ws}

\* Mutant: nothing is dropped.
FilterNot(b, ws) == b

\* Mutant: all events are dropped.
FilterAll(b, ws) == [e \in EvIds |-> 0]

\* A buffer without the events of the topics in ws.
Filter(b, ws) ==
  [e \in EvIds |-> IF e <= Len(ledger) /\ ledger[e].top \in Tops(ws) THEN 0 ELSE b[e]]

\* i is where ws asks for topic t for the last time.
LastAsk(ws, t, i) == ws[i].top = t /\ \A j \in DOMAIN ws : ws[j].top = t => j <= i

\* Mutant: a topic is listed again when it is subscribed again.
TmapTwice(s, ws) ==
  [t \in Topics |-> [tmap[t] EXCEPT ![s] = IF t \in Tops(ws) THEN @ + 1 ELSE @]]

\* The topic lists with s added to those topics in ws it did not watch.
TmapAdded(s, ws) ==
  [t \in Topics |-> [tmap[t] EXCEPT ![s] =
     IF t \in Tops(ws) /\ watch[s][t] = NoWatch THEN @ + 1 ELSE @]]

\* What Sub stores for entry i of ws: the address of the loop variable, which may be the
\* same for all entries and then holds the last one of the list.
Stored(ws, i) == IF SharedLoopVar THEN ws[Len(ws)] ELSE ws[i]

\* Sub for a connection that has subscriber s, or has none and gets s.
SubWith(c, s, ws) ==
  \E last \in [Tops(ws) -> DOMAIN ws] :
    /\ \A t \in Tops(ws) : LastAsk(ws, t, last[t])
    /\ watch' = [watch EXCEPT ![s] = [t \in Topics |->
         IF t \in Tops(ws) THEN Stored(ws, last[t]) ELSE @[t]]]
    /\ since' = [since EXCEPT ![s] = [t \in Topics |->
         IF t \in Tops(ws) THEN Len(ledger) ELSE @[t]]]
    /\ owner' = [owner EXCEPT ![s] = c]
    /\ smap' = [smap EXCEPT ![c] = s]
    /\ tmap' = TmapAdded(s, ws)
    /\ bufr' = [bufr EXCEPT ![s] = Filter(@, ws)]
    /\ UNCHANGED <<ledger, srev, bcast, got>>

\* Sub for a connection without subscriber; an empty list changes nothing.
SubNew(c, ws) ==
  /\ ws # <<>> /\ smap[c] = NoSub
  /\ nsub < MaxSubs
  /\ nsub' = nsub + 1
  /\ SubWith(c, nsub + 1, ws)

\* Sub for a connection that has a subscriber.
SubMore(c, ws) ==
  /\ ws # <<>> /\ smap[c] # NoSub
  /\ SubWith(c, smap[c], ws)
  /\ UNCHANGED nsub

-----------------------------------------------------------------------------

\* How often ws names topic t.
Count(ws, t) == Cardinality({i \in DOMAIN ws : ws[i].top = t})

\* The topic lists with one entry of s removed for every time ws names the topic.
TmapRemoved(s, ws) ==
  [t \in Topics |-> [tmap[t] EXCEPT ![s] =
     IF @ > Count(ws, t) THEN @ - Count(ws, t) ELSE 0]]

\* Mutant: the subscriber is never forgotten.
SmapKept(c, s, ws) == smap

\* The subscribers without s if Unsub leaves it no watch.
SmapLeft(c, s, ws) ==
  IF \A t \in Topics \ Tops(ws) : watch[s][t] = NoWatch
    THEN [smap EXCEPT ![c] = NoSub] ELSE smap

\* Unsub with a list, for a connection that has a subscriber.
UnsubSome(c, ws) ==
  /\ ws # <<>> /\ smap[c] # NoSub
  /\ LET s == smap[c] IN
       /\ watch' = [watch EXCEPT ![s] = [t \in Topics |->
            IF t \in Tops(ws) THEN NoWatch ELSE @[t]]]
       /\ tmap' = TmapRemoved(s, ws)
       /\ smap' = SmapLeft(c, s, ws)
       /\ bufr' = [bufr EXCEPT ![s] = Filter(@, ws)]
       /\ since' = [since EXCEPT ![s] = [t \in Topics |-> IF t \in Tops(ws) THEN 0 ELSE @[t]]]
  /\ UNCHANGED <<ledger, nsub, owner, srev, bcast, got>>

\* Unsub with an empty list: the subscriber is forgotten, its topics still list it.
UnsubAll(c) ==
  /\ smap[c] # NoSub
  /\ smap' = [smap EXCEPT ![c] = NoSub]
  /\ since' = [since EXCEPT ![smap[c]] = [t \in Topics |-> 0]]
  /\ UNCHANGED <<ledger, nsub, owner, watch, srev, tmap, bufr, bcast, got>>

-----------------------------------------------------------------------------
(* Publishing *)

\* Subscriber.Accept
Accept(s, ev) ==
  LET w == watch[s][ev.top] IN
    /\ w # NoWatch
    /\ ev.rev > w.rev
    /\ w.ids # {} => ev.key \in w.ids

\* How often Show appends an event published by c to the buffer of s.
Shown(c, s, ev) == IF owner[s] # c /\ Accept(s, ev) THEN tmap[ev.top][s] ELSE 0

\* The ledger publishes a transaction of c that arrived at time now (Publisher is the
\* application's; it takes its revision from NextRev), and Show distributes the events.
Publish(c, acts, now) ==
  /\ acts # <<>> /\ Len(ledger) + Len(acts) <= MaxEv
  /\ LET rev == NextRev(LedgerRev, now)
         evs == [i \in DOMAIN acts |->
                   [rev |-> rev, top |-> acts[i].top, key |-> acts[i].key, by |-> c]]
     IN /\ ledger' = ledger \o evs
        /\ bufr' = [s \in SubIds |-> [e \in EvIds |->
             IF e - Len(ledger) \in DOMAIN acts
               THEN bufr[s][e] + Shown(c, s, evs[e - Len(ledger)]) ELSE bufr[s][e]]]
  /\ UNCHANGED <<nsub, subVars, bcast, histVars>>

-----------------------------------------------------------------------------
(* Broadcast *)

\* What Update leaves in the buffer of s.
Left(s) == [e \in EvIds |-> 0]

\* Bcast at the revision of the ledger, if that is after the latest broadcast: every
\* subscriber gets an update with what its buffer holds.
Bcast ==
  /\ LedgerRev > bcast
  /\ bcast' = LedgerRev
  /\ srev' = [s \in SubIds |-> IF s \in {smap[c] : c \in Conns} THEN LedgerRev ELSE srev[s]]
  /\ got' = [c \in Conns |-> IF smap[c] = NoSub THEN got[c]
                             ELSE [e \in EvIds |-> got[c][e] + bufr[smap[c]][e]]]
  /\ bufr' = [s \in SubIds |-> IF s \in {smap[c] : c \in Conns} THEN Left(s) ELSE bufr[s]]
  /\ UNCHANGED <<ledger, nsub, owner, watch, smap, tmap, since>>

-----------------------------------------------------------------------------
Next ==
  \/ \E c \in Conns, ws \in WatchLists : SubNew(c, ws) \/ SubMore(c, ws) \/ UnsubSome(c, ws)
  \/ \E c \in Conns : UnsubAll(c)
  \/ \E c \in Conns, acts \in ActLists, now \in 1..MaxNow : Publish(c, acts, now)
  \/ Bcast

Spec == Init /\ [][Next]_vars

-----------------------------------------------------------------------------
(* Properties *)

\* The type of the state.
TypeOK ==
  /\ ledger \in Seq(Event) /\ Len(ledger) <= MaxEv
  /\ nsub \in 0..MaxSubs
  /\ owner \in [SubIds -> Conns]
  /\ watch \in [SubIds -> [Topics -> Watch \cup {NoWatch}]]
  /\ bufr \in [SubIds -> [EvIds -> Nat]]
  /\ srev \in [SubIds -> Int]
  /\ smap \in [Conns -> {NoSub} \cup SubIds]
  /\ tmap \in [Topics -> [SubIds -> Nat]]
  /\ bcast \in Int
  /\ got \in [Conns -> [EvIds -> Nat]]
  /\ since \in [SubIds -> [Topics -> Nat]]

Live(s) == \E c \in Conns : smap[c] = s

\* The two indexes agree: a topic lists a subscriber once if that watches the topic, and
\* not at all if it does not (subs.go:85-91 and 108-117).
IndexesAgree ==
  \A t \in Topics, s \in SubIds : tmap[t][s] = IF watch[s][t] = NoWatch THEN 0 ELSE 1

\* A subscriber that watches nothing is forgotten (subs.go:119).
LiveWatches == \A s \in SubIds : Live(s) => \E t \in Topics : watch[s][t] # NoWatch

\* What waits in a buffer is wanted: the watch in force accepts it, whatever was
\* subscribed and unsubscribed since it was put there (subs.go:94, 122).
BufferWanted ==
  \A s \in SubIds, e \in EvIds :
    bufr[s][e] > 0 => e <= Len(ledger) /\ Accept(s, ledger[e])

\* The revisions of the ledger never go back, even if the clock does (ledger.go:11).
LedgerOrdered ==
  \A i, j \in DOMAIN ledger : i <= j => 0 < ledger[i].rev /\ ledger[i].rev <= ledger[j].rev

\* No connection is sent what it published itself (subs.go:64).
NoEcho ==
  \A e \in EvIds :
    /\ \A s \in SubIds : bufr[s][e] > 0 => ledger[e].by # owner[s]
    /\ \A c \in Conns : got[c][e] > 0 => ledger[e].by # c

\* A broadcast at a revision leaves nothing behind up to that revision (subs.go:135).
SentUpTo ==
  \A s \in SubIds, e \in EvIds : Live(s) /\ bufr[s][e] > 0 => ledger[e].rev > bcast

\* No connection is sent an event twice, or has it waiting when it was sent already.
AtMostOnce ==
  \A c \in Conns, e \in EvIds :
    got[c][e] + (IF smap[c] = NoSub THEN 0 ELSE bufr[smap[c]][e]) <= 1

\* No event is lost: one published after a topic was last subscribed, accepted by the
\* watch and not the connection's own, waits in the buffer or has been sent.
NothingLost ==
  \A s \in SubIds, e \in EvIds :
    /\ Live(s) /\ e <= Len(ledger)
    /\ e > since[s][ledger[e].top] /\ Accept(s, ledger[e]) /\ ledger[e].by # owner[s]
    => bufr[s][e] + got[owner[s]][e] > 0

\* The subscriber of a connection is its own; a subscriber that was never made is blank.
SubscribersOK ==
  /\ \A c \in Conns : smap[c] # NoSub => smap[c] <= nsub /\ owner[smap[c]] = c
  /\ \A s \in SubIds : s > nsub =>
       /\ \A t \in Topics : watch[s][t] = NoWatch
       /\ \A e \in EvIds : bufr[s][e] = 0

\* Broadcasts and what was sent are not ahead of the ledger.
LedgerAhead ==
  /\ bcast <= LedgerRev
  /\ \A c \in Conns, e \in EvIds : got[c][e] > 0 => e <= Len(ledger)

\* The inductive invariant: no operation leads out of these states (SubsProofs).
Inv ==
  /\ TypeOK /\ SubscribersOK /\ LedgerAhead
  /\ IndexesAgree /\ LiveWatches /\ BufferWanted /\ LedgerOrdered
  /\ NoEcho /\ SentUpTo /\ AtMostOnce /\ NothingLost
=============================================================================
