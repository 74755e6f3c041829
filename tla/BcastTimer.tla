----------------------------- MODULE BcastTimer -----------------------------
(***************************************************************************)
(* The broadcast timer of package evt: every publication calls Btrig,      *)
(* which starts a timer that asks the hub for a broadcast, and the hub     *)
(* answers that request with Bcast. A timer runs in a goroutine of its     *)
(* own and has to wait for room in the hub queue; Btrig may stop the       *)
(* timer before it, and stops the latest one only.                         *)
(*                                                                         *)
(* Time is counted in milliseconds, the unit of a revision. It passes      *)
(* only while nothing is ready to run: work is quick compared to the       *)
(* delay. What the events are and who gets them is the subject of Subs;    *)
(* here an event is the time it was published at.                          *)
(***************************************************************************)
EXTENDS Integers, Sequences

CONSTANTS Delay,     \* how long Btrig waits, 200 in the code
          Window,    \* how long after a broadcast Btrig stops timers, 2000 in the code
          QueCap,    \* capacity of the hub queue, 128 in the code
          MaxPubs,   \* bound: publications
          MaxNow     \* bound: the latest time of a publication

ASSUME TimerAssumption ==
  /\ Delay \in Nat \ {0} /\ Window \in Nat \ {0} /\ QueCap \in Nat \ {0}
  /\ MaxPubs \in Nat /\ MaxNow \in Nat

VARIABLES now,       \* the clock
          rev,       \* the revision of the ledger
          bcast,     \* Subscribers.bcast, the revision of the latest broadcast
          unsent,    \* when the events that have not been broadcast were published
          timer,     \* the state of the timers, in the order they were made
          due,       \* when they are due
          mque,      \* the hub queue: "pub" for a publication, "_bcast" for a request
          npost,     \* publications posted so far
          stopped    \* Subscribers.Stop was called

vars == <<now, rev, bcast, unsent, timer, due, mque, npost, stopped>>

\* The zero time of Subscribers.bcast and of an empty ledger is long ago.
Zero == 0 - Window

Init ==
  /\ now = 0 /\ rev = Zero /\ bcast = Zero /\ unsent = {}
  /\ timer = <<>> /\ due = <<>>
  /\ mque = <<>> /\ npost = 0 /\ stopped = FALSE

Later(x, y) == IF x > y THEN x ELSE y

-----------------------------------------------------------------------------
\* A participant posts a publication to the hub.
Post ==
  /\ npost < MaxPubs /\ now <= MaxNow /\ ~stopped
  /\ Len(mque) < QueCap
  /\ mque' = Append(mque, "pub")
  /\ npost' = npost + 1
  /\ UNCHANGED <<now, rev, bcast, unsent, timer, due, stopped>>

\* Mutant: timers are always stopped.
StopsAlways == TRUE

\* Btrig stops the latest timer: the latest broadcast was not long ago.
Stops == now - bcast < Window

\* The timers once Btrig has stopped the latest one, which may have fired already.
Stopped ==
  [i \in DOMAIN timer |-> IF i = Len(timer) /\ timer[i] = "set" THEN "stopped" ELSE timer[i]]

\* Btrig: stop the latest timer or let it be, and start another.
Btrig ==
  /\ timer' = Append(IF Stops THEN Stopped ELSE timer, "set")
  /\ due' = Append(due, now + Delay)

\* The router publishes: the ledger takes the next revision, the events are shown to the
\* subscribers and a broadcast is triggered.
HubPub ==
  /\ mque # <<>> /\ Head(mque) = "pub"
  /\ mque' = Tail(mque)
  /\ rev' = Later(now, rev + 1)
  /\ unsent' = unsent \cup {now}
  /\ Btrig
  /\ UNCHANGED <<now, bcast, npost, stopped>>

\* Mutant: the revision of the broadcast is the time of the broadcast.
NewBcastNow == now

\* Bcast at the revision of the ledger.
NewBcast == rev

\* The router answers a broadcast request; it does nothing if there is no new revision.
HubBcast ==
  /\ mque # <<>> /\ Head(mque) = "_bcast"
  /\ mque' = Tail(mque)
  /\ IF rev > bcast THEN bcast' = NewBcast /\ unsent' = {} ELSE UNCHANGED <<bcast, unsent>>
  /\ UNCHANGED <<now, rev, timer, due, npost, stopped>>

\* A timer that is due starts its goroutine; Stop comes too late from now on.
Fire(i) ==
  /\ i \in DOMAIN timer /\ timer[i] = "set" /\ due[i] <= now
  /\ timer' = [timer EXCEPT ![i] = "fired"]
  /\ UNCHANGED <<now, rev, bcast, unsent, due, mque, npost, stopped>>

\* Mutant: the request is dropped if the queue is full.
RequestOrDrop(i) ==
  /\ i \in DOMAIN timer /\ timer[i] = "fired"
  /\ mque' = IF Len(mque) < QueCap THEN Append(mque, "_bcast") ELSE mque
  /\ timer' = [timer EXCEPT ![i] = "done"]
  /\ UNCHANGED <<now, rev, bcast, unsent, due, npost, stopped>>

\* The goroutine of a timer sends the request, waiting while the queue is full.
Request(i) ==
  /\ i \in DOMAIN timer /\ timer[i] = "fired"
  /\ Len(mque) < QueCap
  /\ mque' = Append(mque, "_bcast")
  /\ timer' = [timer EXCEPT ![i] = "done"]
  /\ UNCHANGED <<now, rev, bcast, unsent, due, npost, stopped>>

\* Subscribers.Stop stops the latest timer.
Stop ==
  /\ ~stopped /\ stopped' = TRUE
  /\ timer' = Stopped
  /\ UNCHANGED <<now, rev, bcast, unsent, due, mque, npost>>

\* Time passes when nothing is ready to run. (The clock is of no interest once no more is
\* published and no timer runs.)
Tick ==
  /\ mque = <<>>
  /\ \A i \in DOMAIN timer : timer[i] # "fired" /\ (timer[i] = "set" => now < due[i])
  /\ now < MaxNow \/ \E i \in DOMAIN timer : timer[i] = "set"
  /\ now' = now + 1
  /\ UNCHANGED <<rev, bcast, unsent, timer, due, mque, npost, stopped>>

Next ==
  \/ Post \/ HubPub \/ HubBcast \/ Stop \/ Tick
  \/ \E i \in 1..MaxPubs : Fire(i) \/ Request(i)

Spec == Init /\ [][Next]_vars

\* The hub and the goroutines of the timers run, and time passes.
Fairness ==
  /\ WF_vars(HubPub) /\ WF_vars(HubBcast) /\ WF_vars(Tick)
  /\ \A i \in 1..MaxPubs : WF_vars(Fire(i)) /\ SF_vars(Request(i))

FairSpec == Spec /\ Fairness

-----------------------------------------------------------------------------
(* Properties *)

\* The type of the state.
TypeOK ==
  /\ now \in Nat /\ rev \in Int /\ bcast \in Int
  /\ unsent \subseteq Nat
  /\ timer \in Seq({"set", "stopped", "fired", "done"})
  /\ due \in Seq(Nat) /\ Len(due) = Len(timer)
  /\ npost \in 0..MaxPubs
  /\ mque \in Seq({"pub", "_bcast"}) /\ Len(mque) <= QueCap
  /\ stopped \in BOOLEAN

\* A broadcast is under way: a timer's goroutine or a request in the queue.
Asked ==
  \/ \E i \in DOMAIN timer : timer[i] = "fired"
  \/ \E i \in DOMAIN mque : mque[i] = "_bcast"

\* No event is forgotten: while one waits, the latest timer runs or a broadcast is under
\* way, whatever timers were stopped, late or superseded (subs.go:126-132, 137).
UnsentIsTriggered ==
  unsent # {} /\ ~stopped => (timer # <<>> /\ timer[Len(timer)] = "set") \/ Asked

\* When the broadcast is due that an event published at time t waits for at most.
Deadline(t) == Later(t, bcast) + Window + Delay

\* No stream of publications can put off a broadcast: an event waits less than the window
\* and the delay together, counted from its publication or from the latest broadcast's
\* revision if that is ahead of the clock (subs.go:127).
BoundedDelay == ~stopped => \A t \in unsent : now < Deadline(t)

\* What waits is newer than the latest broadcast, so that the next one is not taken for
\* superfluous (subs.go:137).
UnsentIsNewer == unsent # {} => rev > bcast

\* Events are broadcast in the end.
EventuallySent == unsent # {} ~> (unsent = {} \/ stopped)

\* What subs.go:125 says, that requests are de-duplicated: there is one timer at a time.
OneTimer ==
  \A i, j \in DOMAIN timer : timer[i] = "set" /\ timer[j] = "set" => i = j
=============================================================================
