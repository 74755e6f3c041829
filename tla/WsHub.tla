------------------------------- MODULE WsHub -------------------------------
(***************************************************************************)
(* The websocket participants of package hub/wshub on top of the hub.      *)
(*                                                                         *)
(* A server connection (Server.HandleHTTP) lives for one websocket; a      *)
(* client (Client.Connect) may connect again and keeps its id and its      *)
(* channel. In both, the goroutine of the handler signs on, reads the      *)
(* websocket until it fails and signs off, and a second goroutine writes   *)
(* what arrives on the channel until it takes a nil message or fails.      *)
(* Closing the websocket is all the writer can do to the reader, and the   *)
(* nil message is all the hub can do to the writer.                        *)
(***************************************************************************)
EXTENDS Hub

CONSTANTS ServerSets,    \* which connections may be those accepted by a server
          MaxSess,   \* bound: how often a client connects
          MaxWs,     \* bound: websockets of all connections
          MaxRead    \* bound: messages read from all websockets

ASSUME WsAssumption ==
  /\ ServerSets \subseteq SUBSET Conns
  /\ MaxSess \in Nat \ {0} /\ MaxWs \in Nat /\ MaxRead \in Nat
  /\ Reqs = {}

Sess == 1..MaxSess

VARIABLES servers,   \* the connections accepted by a server; the others are clients
          sess,      \* how many websockets a connection has had
          hs,        \* where its handler is (HandleHTTP or Connect, and readAll)
          frame,     \* the subject of the message readAll has read and not sent yet
          nread,     \* messages read from the websockets so far
          ws,        \* the state of each websocket: "none", "open", "broken" or "closed"
          wr,        \* where the writer of each websocket is (writeAll)
          byNil,     \* history: the writers that ended because of a nil message
          signed,    \* history: the last sign-on or sign-off sent for a connection
          offs       \* history: how many sign-offs its peers sent

histVars == <<byNil, signed, offs>>
wsVars == <<servers, sess, hs, frame, nread, ws, wr, histVars>>
vars   == <<hubVars, wsVars>>

WsInit ==
  /\ HubInit
  /\ servers \in ServerSets
  /\ sess = [c \in Conns |-> 0]
  /\ hs = [c \in Conns |-> "none"]
  /\ frame = [c \in Conns |-> "none"]
  /\ nread = 0
  /\ ws = [c \in Conns |-> [k \in Sess |-> "none"]]
  /\ wr = [c \in Conns |-> [k \in Sess |-> "none"]]
  /\ byNil = {}
  /\ signed = [c \in Conns |-> "-"]
  /\ offs = [c \in Conns |-> 0]

\* Whom the sign-on and the sign-off come from: a client names itself, a server the hub.
SignFrom(c) == IF c \in servers THEN HUB ELSE c

-----------------------------------------------------------------------------
(* The handler goroutine *)

\* Upgrade or Dial succeeds (if it fails nothing happens); newConn.
Open(c) ==
  /\ hs[c] \in {"none", "done"}
  /\ sess[c] < (IF c \in servers THEN 1 ELSE MaxSess)
  /\ Cardinality({w \in Conns \X Sess : ws[w[1]][w[2]] # "none"}) < MaxWs
  /\ sess' = [sess EXCEPT ![c] = @ + 1]
  /\ ws' = [ws EXCEPT ![c][sess[c] + 1] = "open"]
  /\ hs' = [hs EXCEPT ![c] = "signon"]
  /\ UNCHANGED <<hubVars, servers, frame, nread, wr, histVars>>

\* What a message sent to the hub says last about c.
SignedBy(c, m) == IF m.from = c /\ m.subj # "msg" THEN [signed EXCEPT ![c] = m.subj] ELSE signed

\* The handler sends the sign-on and starts the writer.
SignOn(c) ==
  /\ hs[c] = "signon"
  /\ Send(HUB, Msg(SignFrom(c), "+"))
  /\ signed' = SignedBy(c, Msg(SignFrom(c), "+"))
  /\ hs' = [hs EXCEPT ![c] = "read"]
  /\ wr' = [wr EXCEPT ![c][sess[c]] = "run"]
  /\ UNCHANGED <<runVars, servers, sess, frame, nread, ws, byNil, offs>>

\* readAll reads a text message: readMsg takes any subject, the hub's own two included.
Read(c) ==
  /\ hs[c] = "read" /\ ws[c][sess[c]] = "open" /\ nread < MaxRead
  /\ nread' = nread + 1
  /\ \E subj \in Subjects : frame' = [frame EXCEPT ![c] = subj]
  /\ hs' = [hs EXCEPT ![c] = "route"]
  /\ UNCHANGED <<hubVars, servers, sess, ws, wr, histVars>>

\* Mutant: the message is sent in the name of the hub.
RouteAsHub(c) ==
  /\ hs[c] = "route"
  /\ Send(HUB, Msg(HUB, frame[c]))
  /\ signed' = SignedBy(c, Msg(c, frame[c]))
  /\ offs' = IF frame[c] = "-" THEN [offs EXCEPT ![c] = @ + 1] ELSE offs
  /\ frame' = [frame EXCEPT ![c] = "none"]
  /\ hs' = [hs EXCEPT ![c] = "read"]
  /\ UNCHANGED <<runVars, servers, sess, nread, ws, wr, byNil>>

\* readAll sends it to the hub as a message of the connection, whatever its subject, and
\* waits while the queue is full.
Route(c) ==
  /\ hs[c] = "route"
  /\ Send(HUB, Msg(c, frame[c]))
  /\ signed' = SignedBy(c, Msg(c, frame[c]))
  /\ offs' = IF frame[c] = "-" THEN [offs EXCEPT ![c] = @ + 1] ELSE offs
  /\ frame' = [frame EXCEPT ![c] = "none"]
  /\ hs' = [hs EXCEPT ![c] = "read"]
  /\ UNCHANGED <<runVars, servers, sess, nread, ws, wr, byNil>>

\* Mutant: readAll goes on with the next frame after an error.
ReadEndsNever(c) == hs[c] = "read" /\ UNCHANGED vars

\* readAll returns: the websocket failed, or the peer sent what is no message.
ReadEnds(c) ==
  /\ hs[c] = "read"
  /\ hs' = [hs EXCEPT ![c] = "signoff"]
  /\ UNCHANGED <<hubVars, servers, sess, frame, nread, ws, wr, histVars>>

\* Mutant: the handler returns without a sign-off.
SignOffMissing(c) ==
  /\ hs[c] = "signoff"
  /\ signed' = SignedBy(c, Msg(SignFrom(c), "-"))
  /\ hs' = [hs EXCEPT ![c] = "done"]
  /\ UNCHANGED <<hubVars, servers, sess, frame, nread, ws, wr, byNil, offs>>

\* The handler sends the sign-off and returns.
SignOff(c) ==
  /\ hs[c] = "signoff"
  /\ Send(HUB, Msg(SignFrom(c), "-"))
  /\ signed' = SignedBy(c, Msg(SignFrom(c), "-"))
  /\ hs' = [hs EXCEPT ![c] = "done"]
  /\ UNCHANGED <<runVars, servers, sess, frame, nread, ws, wr, byNil, offs>>

Handler(c) == SignOn(c) \/ Route(c) \/ SignOff(c)

-----------------------------------------------------------------------------
(* The writer goroutine of websocket k *)

\* writeAll returns and closes its websocket.
Ends(c, k) ==
  /\ wr' = [wr EXCEPT ![c][k] = "done"]
  /\ ws' = [ws EXCEPT ![c][k] = "closed"]

\* The writer takes a message. A write to an open or a broken websocket may succeed
\* (a broken one may not have been noticed); the write deadline bounds both outcomes.
Write(c, k) ==
  /\ wr[c][k] = "run" /\ chan[c] # <<>>
  /\ chan' = [chan EXCEPT ![c] = Tail(@)]
  /\ IF Head(chan[c]) = Nil
       THEN Ends(c, k) /\ byNil' = byNil \cup {<<c, k>>}
       ELSE UNCHANGED byNil /\ (UNCHANGED <<wr, ws>> \/ Ends(c, k))
  /\ UNCHANGED <<mque, runVars, servers, sess, hs, frame, nread, signed, offs>>

\* The ticker of a server connection makes the writer ping its peer; only a failure
\* changes anything. (A last tick may be taken after HandleHTTP has stopped the ticker.)
Ping(c, k) ==
  /\ c \in servers
  /\ wr[c][k] = "run"
  /\ Ends(c, k)
  /\ UNCHANGED <<hubVars, servers, sess, hs, frame, nread, histVars>>

-----------------------------------------------------------------------------
\* The peer or the network ends a websocket.
Break(c, k) ==
  /\ ws[c][k] = "open"
  /\ ws' = [ws EXCEPT ![c][k] = "broken"]
  /\ UNCHANGED <<hubVars, servers, sess, hs, frame, nread, wr, histVars>>

\* The hub waits for d to take a message.
WaitsFor(d) ==
  \/ hpc = "route" /\ todo # <<>> /\ Head(todo) = d
  \/ hpc = "signoff" /\ cur.from = d

\* It waits for room in a channel that no writer takes from, or in its own queue.
Blocked ==
  \E d \in Conns \cup {HUB} :
     /\ WaitsFor(d) /\ ~Room(d)
     /\ d # HUB => \A k \in Sess : wr[d][k] # "run"

\* Where everything may stop: no handler is at work, nothing is left to be
\* routed, and what is left to be written has no writer any more; or the hub has stopped,
\* or is blocked.
Rest ==
  /\ \/ /\ hpc = "recv" /\ mque = <<>>
        /\ \A c \in Conns : /\ hs[c] \in {"none", "done"}
                             /\ (chan[c] = <<>> \/ \A k \in Sess : wr[c][k] # "run")
     \/ hpc = "stopped"
     \/ Blocked
  /\ UNCHANGED vars

Next ==
  \/ HubStep /\ UNCHANGED wsVars
  \/ \E c \in Conns : Open(c) \/ Read(c) \/ ReadEnds(c) \/ Handler(c)
  \/ \E c \in Conns, k \in Sess : Write(c, k) \/ Ping(c, k) \/ Break(c, k)
  \/ Rest

Spec == WsInit /\ [][Next]_vars

\* The goroutines run, a blocked sender gets its turn, and a reader whose websocket is
\* no longer open returns.
Fairness ==
  /\ WF_vars(HubStep /\ UNCHANGED wsVars)
  /\ \A c \in Conns :
       /\ SF_vars(Handler(c))
       /\ WF_vars(ReadEnds(c) /\ ws[c][sess[c]] # "open")
       /\ \A k \in Sess : WF_vars(Write(c, k))

FairSpec == Spec /\ Fairness

-----------------------------------------------------------------------------
(* Properties *)

\* The type of the state.
TypeOK ==
  /\ HubTypeOK
  /\ servers \in ServerSets
  /\ sess \in [Conns -> 0..MaxSess]
  /\ hs \in [Conns -> {"none", "signon", "read", "route", "signoff", "done"}]
  /\ frame \in [Conns -> Subjects \cup {"none"}]
  /\ \A c \in Conns : frame[c] = "none" <=> hs[c] # "route"
  /\ nread \in 0..MaxRead
  /\ ws \in [Conns -> [Sess -> {"none", "open", "broken", "closed"}]]
  /\ wr \in [Conns -> [Sess -> {"none", "run", "done"}]]
  /\ byNil \subseteq Conns \X Sess
  /\ signed \in [Conns -> {"+", "-"}]
  /\ offs \in [Conns -> Nat]

\* The handler of websocket k has sent its sign-off.
SignedOff(c, k) == k < sess[c] \/ (k = sess[c] /\ hs[c] = "done")

\* The handler of c has signed on and not yet off.
Active(c) == hs[c] \in {"read", "route", "signoff"}

\* A client is signed on while its handler is at work, unless its peer has signed it off,
\* and it is not afterwards, whatever its peer has sent.
HandlerSigns(c) ==
  c \notin servers => /\ Active(c) /\ offs[c] = 0 => signed[c] = "+"
                      /\ ~Active(c) => signed[c] = "-"

\* The state is typed, and the hub lists the connections that were last signed on, by their
\* handlers or by their peers, up to the sign-ons and sign-offs it has not handled yet
\* (hub.go:47); for a client without sign-offs of its peer these are the ones whose handler
\* is at work.
ListsSignedOn ==
  TypeOK /\ \A c \in Conns :
     /\ signed[c] = "+" /\ ~InQueue(c, "+") => c \in cmap
     /\ signed[c] = "-" /\ ~InQueue(c, "-") => c \notin cmap \/ (Signing(c) /\ hpc = "route")
     /\ HandlerSigns(c)

\* How many of the elements of s are m.
Occurs(m, s) == Cardinality({i \in DOMAIN s : s[i] = m})

\* The nil messages the hub has sent to c.
Nils(c) == Occurs(Nil, chan[c]) + Cardinality({w \in byNil : w[1] = c})

\* The sign-offs that were sent for c by its handlers, and those with the ones of its peers.
HandlerSignOffs(c) == IF c \in servers THEN 0 ELSE Cardinality({k \in Sess : SignedOff(c, k)})
SignOffs(c) == HandlerSignOffs(c) + offs[c]

\* Every sign-off of a connection is in the queue, in the hands of the hub, or has become one
\* nil message: none is lost and none is answered twice, whoever sent it, and also when a
\* client is on its next websocket by then (hub.go:42, hub.go:83-88, conn.go:55-56).
NilsMatchSignoffs ==
  \A c \in Conns :
     SignOffs(c) = Nils(c) + Occurs(Msg(c, "-"), mque) + (IF Signing(c) THEN 1 ELSE 0)

-----------------------------------------------------------------------------
(* The inductive invariant: no step leads out of these states (WsHubProofs) *)

\* How the hub treats c once it has put away the message in its hands.
Listing(c) == c \in cmap /\ ~(Signing(c) /\ hpc = "route")

\* The sign-ons and sign-offs of c in the order they take effect: first what the hub's list
\* shows, then those in the queue.
Sign(c, m) == IF m \in {Msg(c, "+"), Msg(c, "-")} THEN m.subj ELSE "none"
Signs(c) ==
  [i \in 0..Len(mque) |->
     IF i = 0 THEN IF Listing(c) THEN "+" ELSE "-" ELSE Sign(c, mque[i])]

\* The last of the signs in s is x.
LastSign(s, x) == \E i \in DOMAIN s : s[i] = x /\ \A j \in DOMAIN s : i < j => s[j] = "none"

\* A websocket that has not signed on has no writer yet, and the writers that ended because
\* of a nil message have ended.
WritersOK(c) ==
  /\ hs[c] = "none" <=> sess[c] = 0
  /\ \A k \in Sess : /\ k > sess[c] \/ (k = sess[c] /\ hs[c] = "signon") => wr[c][k] = "none"
                     /\ <<c, k>> \in byNil => wr[c][k] = "done"

\* Only sign-offs are answered by Run.
RunOK == IsFiniteSet(held) /\ (hpc = "signoff" => cur.subj = "-")

Inv ==
  /\ TypeOK /\ RunOK
  /\ \A c \in Conns : WritersOK(c) /\ LastSign(Signs(c), signed[c]) /\ HandlerSigns(c)
  /\ NilsMatchSignoffs

-----------------------------------------------------------------------------
(* Liveness *)

\* The hub has stopped, or it waits for ever in the middle of a message, for a channel that
\* is full and has no writer any more, or for its own queue.
HubGone == hpc = "stopped" \/ []Blocked

\* A client that signs off is sent a nil message for it (hub.go:42), whatever else is
\* routed to it or to others and whichever writers fail; only a hub that is gone answers nobody.
ClientsAnswered ==
  \A c \in Conns : \A k \in Sess :
     (SignedOff(c, k) /\ c \notin servers) ~> (Nils(c) >= k \/ HubGone)

\* No writer of a client outlives its connection: it ends and closes its websocket, even
\* when another writer of the same channel took its nil message (conn.go:61, cli.go:43).
WritersEnd ==
  \A c \in Conns : \A k \in Sess :
     (SignedOff(c, k) /\ c \notin servers) ~> ((wr[c][k] = "done" /\ ws[c][k] = "closed") \/ HubGone)

\* A writer that fails takes the handler down with it: closing the websocket ends the
\* reader, which signs off, also if it just waited for room in the queue (conn.go:61, serv.go:33).
SessionEnds ==
  \A c \in Conns : \A k \in Sess :
     (wr[c][k] = "done") ~> (SignedOff(c, k) \/ HubGone)

\* What hub.go:42-43 says: a connection that signs off is sent a nil message.
NilAfterSignoff == \A c \in Conns : SignedOff(c, 1) ~> (Nils(c) >= 1)
=============================================================================
