-------------------------------- MODULE Hub --------------------------------
(***************************************************************************)
(* The connection hub of package hub: one goroutine (Hub.Run) takes        *)
(* messages from a bounded queue, keeps the list of signed-on connections  *)
(* and hands every message to a router; participants own a bounded         *)
(* channel each, and one-off requests use a channel for a single reply.    *)
(* Modules HubConns and WsHub add the participants.                        *)
(*                                                                         *)
(* A channel send blocks while the channel is full, so the hub goroutine   *)
(* is modelled with a program counter: it may be stuck in the middle of    *)
(* routing one message while everybody else goes on.                       *)
(*                                                                         *)
(* The router is the application's: it is modelled as one that holds on    *)
(* to the participants that signed on and have not signed off, sends a     *)
(* message to any of them in any order, and answers a one-off request at   *)
(* most once, which is what Services.Handle does.                          *)
(***************************************************************************)
EXTENDS Integers, Sequences, FiniteSets

CONSTANTS Conns,     \* the normal connections (positive id)
          Reqs,      \* the one-off connections, one for each call of Req (id -1)
          HUB,       \* the hub as a connection (id 0)
          Nil,       \* the nil message
          QueCap,    \* capacity of the hub queue, 128 in the code
          ConnCap    \* capacity of a participant's channel, 32 in package wshub

ASSUME CapAssumption == QueCap \in Nat \ {0} /\ ConnCap \in Nat \ {0}
ASSUME NamesDiffer == HUB \notin Conns \cup Reqs /\ Conns \cap Reqs = {}

VARIABLES mque,      \* Hub.mque, the queue of messages to be routed
          cmap,      \* Hub.cmap, the signed-on connections
          hpc,       \* where Hub.Run is
          cur,       \* the message Hub.Run is working on
          todo,      \* the connections the router has yet to send to, in its order
          held,      \* the participants the router holds on to
          chan       \* the receiver channel of each connection

hubVars == <<mque, cmap, hpc, cur, todo, held, chan>>

Senders == Conns \cup Reqs \cup {HUB}
Subjects == {"+", "-", "msg"}
Message == [from : Senders, subj : Subjects]

\* The nil message is no message.
ASSUME NilAssumption == Nil \notin Message

Msg(f, s) == [from |-> f, subj |-> s]

\* Mutant: Req makes an unbuffered channel.
CapUnbuffered(c) == IF c \in Reqs THEN 0 ELSE ConnCap

\* The capacity of a connection's channel: Req makes one for a single reply.
Cap(c) == IF c \in Reqs THEN 1 ELSE ConnCap

\* Mutant: the bound is off by one.
RoomForOneMore(c) == IF c = HUB THEN Len(mque) <= QueCap ELSE Len(chan[c]) <= Cap(c)

\* A send c.Chan() <- m; the channel of the hub itself is its queue.
Room(c) == IF c = HUB THEN Len(mque) < QueCap ELSE Len(chan[c]) < Cap(c)
Send(c, m) ==
  /\ Room(c)
  /\ IF c = HUB THEN mque' = Append(mque, m) /\ UNCHANGED chan
                ELSE chan' = [chan EXCEPT ![c] = Append(@, m)] /\ UNCHANGED mque

HubInit ==
  /\ mque = <<>> /\ cmap = {} /\ hpc = "recv" /\ cur = Nil /\ todo = <<>> /\ held = {}
  /\ chan = [c \in Conns \cup Reqs |-> <<>>]

-----------------------------------------------------------------------------
(* The hub goroutine *)

\* The orders in which the router may send to the connections in S.
Orders(S) == {o \in [1..Cardinality(S) -> S] : \A i, j \in DOMAIN o : o[i] = o[j] => i = j}

\* What the router holds on to once it has seen m.
HeldAfter(m) ==
  IF m.subj = "-" THEN held \ {m.from} ELSE held \cup ({m.from} \cap Conns)

\* Whom the router may send to for m: the participants it holds on to or, for a
\* one-off request, the sender only, which gets at most one reply.
Targets(m) == IF m.from \in Reqs THEN {m.from} ELSE HeldAfter(m)

\* Mutant: sign-ons are not recorded.
ListedNever(m) == cmap

\* The list once Run has seen m: a sign-on adds its sender.
Listed(m) == IF m.subj = "+" THEN cmap \cup {m.from} ELSE cmap

\* Run takes a message, lists the sender of a sign-on, and calls the router.
HubRecv ==
  /\ hpc = "recv" /\ mque # <<>>
  /\ Head(mque) # Nil
  /\ LET m == Head(mque) IN
       /\ cur' = m
       /\ cmap' = Listed(m)
       /\ held' = HeldAfter(m)
       /\ \E S \in SUBSET Targets(m) : todo' \in Orders(S)
  /\ mque' = Tail(mque)
  /\ hpc' = "route"
  /\ UNCHANGED <<chan>>

\* Run takes a nil message and returns.
HubStopped ==
  /\ hpc = "recv" /\ mque # <<>>
  /\ Head(mque) = Nil
  /\ mque' = Tail(mque)
  /\ hpc' = "stopped"
  /\ UNCHANGED <<cmap, cur, todo, held, chan>>

\* What the router sends to c: the message, or a service's reply to a request.
Routed(c) == IF c \in Reqs THEN Msg(HUB, cur.subj) ELSE cur

\* The router sends to the next connection; the hub waits while its channel is full.
HubRoute ==
  /\ hpc = "route" /\ todo # <<>>
  /\ Send(Head(todo), Routed(Head(todo)))
  /\ todo' = Tail(todo)
  /\ UNCHANGED <<cmap, hpc, cur, held>>

\* Mutant: the delete is missing.
HubRoutedKeeps ==
  /\ hpc = "route" /\ todo = <<>>
  /\ IF cur.subj = "-" THEN hpc' = "signoff" /\ UNCHANGED cur
                       ELSE hpc' = "recv" /\ cur' = Nil
  /\ UNCHANGED <<mque, cmap, todo, held, chan>>

\* Mutant: sign-ons are treated as sign-offs.
HubRoutedSwapped ==
  /\ hpc = "route" /\ todo = <<>>
  /\ IF cur.subj = "+" THEN hpc' = "signoff" /\ cmap' = cmap \ {cur.from} /\ UNCHANGED cur
                       ELSE hpc' = "recv" /\ cur' = Nil /\ UNCHANGED cmap
  /\ UNCHANGED <<mque, todo, held, chan>>

\* The router returns; a sign-off removes its sender from the list.
HubRouted ==
  /\ hpc = "route" /\ todo = <<>>
  /\ IF cur.subj = "-" THEN hpc' = "signoff" /\ cmap' = cmap \ {cur.from} /\ UNCHANGED cur
                       ELSE hpc' = "recv" /\ cur' = Nil /\ UNCHANGED cmap
  /\ UNCHANGED <<mque, todo, held, chan>>

\* Mutant: nobody is told.
HubSignoffSilent ==
  /\ hpc = "signoff"
  /\ hpc' = "recv" /\ cur' = Nil
  /\ UNCHANGED <<mque, cmap, todo, held, chan>>

\* Run sends nil to the connection that signed off.
HubSignoff ==
  /\ hpc = "signoff"
  /\ Send(cur.from, Nil)
  /\ hpc' = "recv" /\ cur' = Nil
  /\ UNCHANGED <<cmap, todo, held>>

HubStep == HubRecv \/ HubStopped \/ HubRoute \/ HubRouted \/ HubSignoff

\* What only the hub goroutine changes.
runVars == <<cmap, hpc, cur, todo, held>>

-----------------------------------------------------------------------------
(* What modules with participants say about the hub *)

\* The type of the state; no queue or channel holds more than it can.
HubTypeOK ==
  /\ mque \in Seq(Message \cup {Nil}) /\ Len(mque) <= QueCap
  /\ cmap \subseteq Conns \cup {HUB}
  /\ hpc \in {"recv", "route", "signoff", "stopped"}
  /\ cur \in Message \cup {Nil} /\ (hpc \in {"route", "signoff"} => cur # Nil)
  /\ todo \in Seq(Conns \cup Reqs)
  /\ held \subseteq Conns
  /\ chan \in [Conns \cup Reqs -> Seq(Message \cup {Nil})]
  /\ \A c \in Conns \cup Reqs : Len(chan[c]) <= Cap(c)

Elems(s) == {s[i] : i \in DOMAIN s}

\* A message of this sender and subject waits in the queue.
InQueue(c, subj) == Msg(c, subj) \in Elems(mque)

\* The hub is handling a sign-off of c.
Signing(c) == hpc \in {"route", "signoff"} /\ cur.from = c /\ cur.subj = "-"
=============================================================================
