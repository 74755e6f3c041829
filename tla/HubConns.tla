------------------------------ MODULE HubConns ------------------------------
(***************************************************************************)
(* The hub with in-process participants that sign on, talk and sign off    *)
(* (ChanConn), and with one-off requests (Req).                            *)
(***************************************************************************)
EXTENDS Hub

CONSTANTS MaxSent,   \* bound: messages sent by each participant
          MayStop    \* whether the owner of the hub may stop it with a nil message

ASSUME ConnsAssumption == MaxSent \in Nat /\ MayStop \in BOOLEAN

VARIABLES cpc,       \* the life of a participant: "off", "on" or "bye" (signed off)
          sent,      \* how many messages a participant has sent
          rpc        \* where a call of Req is

connVars == <<cpc, sent>>
vars     == <<hubVars, connVars, rpc>>

-----------------------------------------------------------------------------
(* Participants that drain their channel independently of what they send *)

Post(c, subj) ==
  /\ sent[c] < MaxSent
  /\ Send(HUB, Msg(c, subj))
  /\ sent' = [sent EXCEPT ![c] = @ + 1]

SignOn(c) ==
  /\ cpc[c] = "off" /\ sent[c] + 1 < MaxSent
  /\ Post(c, "+")
  /\ cpc' = [cpc EXCEPT ![c] = "on"]
  /\ UNCHANGED <<runVars, rpc>>

Say(c) ==
  /\ cpc[c] = "on" /\ sent[c] + 1 < MaxSent
  /\ Post(c, "msg")
  /\ UNCHANGED <<runVars, cpc, rpc>>

SignOff(c) ==
  /\ cpc[c] = "on"
  /\ Post(c, "-")
  /\ cpc' = [cpc EXCEPT ![c] = "bye"]
  /\ UNCHANGED <<runVars, rpc>>

\* A participant receives; the nil message tells it that it is signed off.
Take(c) ==
  /\ chan[c] # <<>>
  /\ chan' = [chan EXCEPT ![c] = Tail(@)]
  /\ cpc' = IF Head(chan[c]) = Nil THEN [cpc EXCEPT ![c] = "off"] ELSE cpc
  /\ UNCHANGED <<mque, runVars, sent, rpc>>

\* The owner of the hub ends Run.
StopHub ==
  /\ MayStop /\ Nil \notin {mque[i] : i \in DOMAIN mque} /\ hpc # "stopped"
  /\ Send(HUB, Nil)
  /\ UNCHANGED <<runVars, connVars, rpc>>

-----------------------------------------------------------------------------
(* One-off requests *)

\* Req is called: it has made its channel and is about to send.
ReqStart(r) ==
  /\ rpc[r] = "idle"
  /\ rpc' = [rpc EXCEPT ![r] = "post"]
  /\ UNCHANGED <<hubVars, connVars>>

\* Req has sent; only now its timer starts.
ReqPost(r) ==
  /\ rpc[r] = "post"
  /\ Send(HUB, Msg(r, "msg"))
  /\ rpc' = [rpc EXCEPT ![r] = "wait"]
  /\ UNCHANGED <<runVars, connVars>>

\* Req returns the reply.
ReqReply(r) ==
  /\ rpc[r] = "wait" /\ chan[r] # <<>>
  /\ chan' = [chan EXCEPT ![r] = Tail(@)]
  /\ rpc' = [rpc EXCEPT ![r] = "done"]
  /\ UNCHANGED <<mque, runVars, connVars>>

\* Mutant: there is no timer.
ReqWaitsForever(r) == FALSE /\ UNCHANGED vars

\* Req gives up; a reply may still come, and nobody will take it.
ReqTimeout(r) ==
  /\ rpc[r] = "wait"
  /\ rpc' = [rpc EXCEPT ![r] = "gone"]
  /\ UNCHANGED <<hubVars, connVars>>

ReqStep(r) == ReqPost(r) \/ ReqReply(r) \/ ReqTimeout(r)

-----------------------------------------------------------------------------
\* Nobody has anything left to do: the hub waits on an empty queue, or has stopped.
Rest ==
  /\ \/ hpc = "recv" /\ mque = <<>> /\ \A c \in Conns : chan[c] = <<>> /\ cpc[c] = "off"
     \/ hpc = "stopped"
  /\ UNCHANGED vars

Next ==
  \/ HubStep /\ UNCHANGED <<connVars, rpc>>
  \/ \E c \in Conns : SignOn(c) \/ Say(c) \/ SignOff(c) \/ Take(c)
  \/ StopHub
  \/ \E r \in Reqs : ReqStart(r) \/ ReqStep(r)
  \/ Rest

Init ==
  /\ HubInit
  /\ cpc = [c \in Conns |-> "off"]
  /\ sent = [c \in Conns |-> 0]
  /\ rpc = [r \in Reqs |-> "idle"]

Spec == Init /\ [][Next]_vars

\* The hub goroutine runs, participants drain their channels, a blocked sender gets its
\* turn (the waiting senders of a channel are served in order), and a timer fires.
Fairness ==
  /\ WF_vars(HubStep /\ UNCHANGED <<connVars, rpc>>)
  /\ \A c \in Conns : WF_vars(Take(c))
  /\ \A r \in Reqs : SF_vars(ReqPost(r)) /\ WF_vars(ReqReply(r) \/ ReqTimeout(r))

FairSpec == Spec /\ Fairness

-----------------------------------------------------------------------------
(* Properties *)

TypeOK ==
  /\ HubTypeOK
  /\ cpc \in [Conns -> {"off", "on", "bye"}]
  /\ sent \in [Conns -> 0..MaxSent]
  /\ rpc \in [Reqs -> {"idle", "post", "wait", "done", "gone"}]

\* The hub says good-bye last (hub.go:42, "after a sign-off message from this conn was
\* routed"): behind the nil in a channel comes no other message, its receiver has been
\* removed from the list and from the router's hands, and none is still to be sent to it.
NilIsLast ==
  \A c \in Conns : \A i \in DOMAIN chan[c] : chan[c][i] = Nil =>
     /\ i = Len(chan[c])
     /\ cpc[c] = "bye" /\ c \notin cmap /\ c \notin held /\ c \notin Elems(todo)

\* Every sign-off is under way in exactly one place until the participant has seen it:
\* the queue, the hub's hands, or the nil in its channel (hub.go:42).
SignoffInFlight ==
  \A c \in Conns : cpc[c] = "bye" =>
     Cardinality({x \in {"queue", "hub", "nil"} :
        \/ x = "queue" /\ InQueue(c, "-")
        \/ x = "hub" /\ Signing(c)
        \/ x = "nil" /\ Nil \in Elems(chan[c])}) = 1

\* The list of signed-on participants (hub.go:47) says what the participants think, up to
\* the sign-on or sign-off that the hub has not handled yet.
SignedOnListed ==
  \A c \in Conns :
     /\ cpc[c] = "on" => (c \in cmap) # InQueue(c, "+")
     /\ cpc[c] = "bye" => (c \in cmap) = ((InQueue(c, "-") /\ ~InQueue(c, "+"))
                                           \/ (Signing(c) /\ hpc = "route"))
     /\ cpc[c] = "off" => c \notin cmap /\ chan[c] = <<>>

\* A one-off connection, which nobody may be reading any more, never makes the hub
\* wait: there is room for its one reply whenever the router sends it (req.go:31).
ReplyNeverBlocks ==
  hpc = "route" /\ todo # <<>> /\ Head(todo) \in Reqs => Room(Head(todo))

-----------------------------------------------------------------------------
(* The inductive invariant: no step leads out of these states (HubConnsProofs) *)

Handling(c) == hpc \in {"route", "signoff"} /\ cur.from = c

\* Where the queue holds messages of c; nothing of c is under way.
From(c)  == {i \in DOMAIN mque : mque[i] # Nil /\ mque[i].from = c}
Quiet(c) == From(c) = {} /\ ~Handling(c)

\* A one-off connection neither signs on nor off, and the hub sends itself nothing.
SendersOK ==
  \A m \in Elems(mque) \cup {cur} : m # Nil =>
     m.from # HUB /\ (m.from \in Reqs => m.subj = "msg")

\* The messages of a participant are handled as they were sent: what follows a sign-on in
\* queue and hands is no sign-on, and nothing follows a sign-off.
Ordered(c) == \A i, j \in From(c) : i < j => mque[i].subj # "-" /\ mque[j].subj # "+"
InOrder(c) ==
  Ordered(c) /\ (Handling(c) => ~InQueue(c, "+") /\ (cur.subj = "-" => From(c) = {}))

\* Where a participant is, by what is under way.
SignedOff(c) == Quiet(c) /\ chan[c] = <<>> /\ c \notin cmap
SignedOn(c)  == ~Signing(c) /\ Nil \notin Elems(chan[c]) /\ (c \in cmap <=> ~InQueue(c, "+"))
Leaving(c)   == Signing(c) /\ Nil \notin Elems(chan[c]) /\ (c \in cmap <=> hpc = "route")
Told(c)      == Quiet(c) /\ Nil \in Elems(chan[c]) /\ c \notin cmap

PhaseOK(c) ==
  /\ cpc[c] = "off" => SignedOff(c)
  /\ cpc[c] = "on"  => SignedOn(c) /\ ~InQueue(c, "-")
  /\ cpc[c] = "bye" => (SignedOn(c) /\ InQueue(c, "-")) \/ Leaving(c) \/ Told(c)

NilEnds(c) == \A i \in DOMAIN chan[c] : chan[c][i] = Nil => i = Len(chan[c])

\* The router holds on to the participants that are listed, up to the one that leaves.
HeldOK(c) == c \in held <=> c \in cmap /\ ~(Signing(c) /\ hpc = "route")

\* It sends to nobody else but the sender of what it routes; only sign-offs are answered by Run.
RouterOK ==
  /\ IsFiniteSet(held)
  /\ hpc # "route" => todo = <<>>
  /\ \A x \in Elems(todo) : x \in held \/ Handling(x)
  /\ hpc = "signoff" => cur.subj = "-"

\* A request is in one place: queue, hands or channel.
Once(r) == \A i, j \in From(r) : i = j
RequestOK(r) ==
  /\ Once(r)
  /\ From(r) # {} => ~Handling(r) /\ chan[r] = <<>>
  /\ Handling(r) /\ todo # <<>> => Len(todo) = 1 /\ chan[r] = <<>>
  /\ rpc[r] \in {"idle", "post"} => Quiet(r) /\ chan[r] = <<>>

ConnOK(c) == InOrder(c) /\ PhaseOK(c) /\ NilEnds(c) /\ HeldOK(c)

Inv ==
  /\ TypeOK /\ SendersOK /\ RouterOK
  /\ \A c \in Conns : ConnOK(c)
  /\ \A r \in Reqs : RequestOK(r)

-----------------------------------------------------------------------------
(* Liveness *)

\* A participant that signed off is told so, unless the hub is stopped.
SignoffAnswered == \A c \in Conns : (cpc[c] = "bye") ~> (cpc[c] = "off" \/ hpc = "stopped")

\* Req comes back, with a response or because of its timeout, unless the hub is stopped.
ReqReturnsRunning ==
  \A r \in Reqs : (rpc[r] = "post") ~> (rpc[r] \in {"done", "gone"} \/ hpc = "stopped")
=============================================================================
