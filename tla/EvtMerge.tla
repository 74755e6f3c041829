------------------------------ MODULE EvtMerge ------------------------------
(***************************************************************************)
(* evt: the events of a ledger are sorted, collected by signature, and     *)
(* those of one signature are merged, one after the other, into the one    *)
(* action that has the effect of all of them.                              *)
(*                                                                         *)
(* The argument of an action is a pointer, and Merge changes what it       *)
(* points to: event i of the ledger, and every action that was made from   *)
(* it, share args[i].  A record is a function from fields to values;       *)
(* applying a delta overrides fields.                                      *)
(***************************************************************************)
EXTENDS Integers, Sequences, SequencesExt, FiniteSetsExt

CONSTANTS
    Sigs,       \* signatures: a topic and a key
    NewArgs,    \* arguments of "+": whole records
    ModArgs,    \* arguments of "*": some fields
    MaxEvents   \* bound: events of the ledger

\* A whole record is a function that has a field; which optional ones it has may differ.
ASSUME MergeAssumption ==
    /\ MaxEvents \in Nat
    /\ \A r \in NewArgs : DOMAIN r # {} /\ r = [f \in DOMAIN r |-> r[f]]

VARIABLES
    ledger,     \* the events: signature, command and revision; the id is the index
    args,       \* event -> what its argument points to
    initial,    \* signature -> the record before the first event
    current,    \* signature -> the record after the last event
    states,     \* event -> the records after it, as they were: only to state properties
    sortedBy,   \* "none" as long as events are published, then "id" or "rev"
    order,      \* the events as the caller sorted them
    merged,     \* signature -> the merged action so far
    count,      \* signature -> how many of its events it was made from
    mergeErr    \* the signatures Merge returned an error for

mergeVars ==
    <<ledger, args, initial, current, states, sortedBy, order, merged, count, mergeErr>>

Absent == <<>>      \* no record
Records == NewArgs \cup {Absent}
NoAction == [sig |-> "none", cmd |-> "none", arg |-> 0]

(* ApplyDelta and MergeDeltas: the fields of the second argument override  *)
Override(fields, by) ==
    [f \in DOMAIN fields \cup DOMAIN by |-> IF f \in DOMAIN by THEN by[f] ELSE fields[f]]

(* What an action does to a record; an update finds no record to change,   *)
(* and a delete none to delete, when there is none.                        *)
Applied(record, cmd, fields) ==
    CASE cmd = "+" -> fields
      [] cmd = "-" -> Absent
      [] cmd = "*" -> IF record = Absent THEN Absent ELSE Override(record, fields)

MergeInit ==
    /\ ledger = <<>> /\ args = <<>> /\ states = <<>>
    /\ initial = [s \in Sigs |-> Absent]
    /\ current = [s \in Sigs |-> Absent]
    /\ sortedBy = "none" /\ order = <<>>
    /\ merged = [s \in Sigs |-> NoAction]
    /\ count = [s \in Sigs |-> 0]
    /\ mergeErr = {}

(* A record that is there before the events.                               *)
Preset(s, r) ==
    /\ ledger = <<>> /\ sortedBy = "none" /\ initial[s] = Absent
    /\ initial' = [initial EXCEPT ![s] = r]
    /\ current' = [current EXCEPT ![s] = r]
    /\ UNCHANGED <<ledger, args, states, sortedBy, order, merged, count, mergeErr>>

(* A publisher validates the commands; the events of a transaction share   *)
(* the revision (joins).                                                   *)
Legal(s, cmd) == (cmd = "+") = (current[s] = Absent)

Publish(s, cmd, fields, joins) ==
    LET last == IF ledger = <<>> THEN 0 ELSE Last(ledger).rev
    IN /\ sortedBy = "none" /\ Len(ledger) < MaxEvents
       /\ Legal(s, cmd)
       /\ joins => ledger # <<>>
       /\ ledger' = Append(ledger, [sig |-> s, cmd |-> cmd, rev |-> IF joins THEN last ELSE last + 1])
       /\ args' = Append(args, fields)
       /\ current' = [current EXCEPT ![s] = Applied(@, cmd, fields)]
       /\ states' = Append(states, current')
       /\ UNCHANGED <<initial, sortedBy, order, merged, count, mergeErr>>

-----------------------------------------------------------------------------
(* The caller has the events in any order and sorts them, by ByID or ByRev *)
(* and not stably: the result is any order without a descent.              *)

ByID(i, j)  == i < j
ByRev(i, j) == ledger[j].rev > ledger[i].rev

Orders == {o \in [1..Len(ledger) -> 1..Len(ledger)] : IsInjective(o)}

SortBy(key) ==
    /\ sortedBy = "none" /\ ledger # <<>>
    /\ sortedBy' = key
    /\ \E o \in Orders :
          /\ \A i, j \in DOMAIN o : i < j =>
                ~(IF key = "id" THEN ByID(o[j], o[i]) ELSE ByRev(o[j], o[i]))
          /\ order' = o
    /\ UNCHANGED <<ledger, args, initial, current, states, merged, count, mergeErr>>

(* CollectAll, and for one signature Collect                               *)
Collect(s) ==
    LET res[i \in 0..Len(order)] ==
          IF i = 0 THEN <<>>
          ELSE IF ledger[order[i]].sig = s THEN Append(res[i - 1], order[i]) ELSE res[i - 1]
    IN  res[Len(order)]

ActionOf(i) == [sig |-> ledger[i].sig, cmd |-> ledger[i].cmd, arg |-> i]

(* Merge: the action a has all of, and what becomes of the arguments       *)
MergeOk(a, b) ==
    /\ a.sig = b.sig
    /\ \/ a.cmd = "-" /\ b.cmd = "+"
       \/ a.cmd \in {"+", "*"} /\ b.cmd \in {"*", "-"}

(* Mutant: the create that follows a delete keeps the argument of that.    *)
MergeKeepsArg(a, b) ==
    CASE a.cmd = "-" -> [sig |-> a.sig, cmd |-> "*", arg |-> a.arg]
      [] b.cmd = "-" -> b
      [] OTHER -> a

Merge(a, b) ==
    CASE a.cmd = "-" -> [sig |-> a.sig, cmd |-> "*", arg |-> b.arg]
      [] b.cmd = "-" -> b
      [] OTHER -> a

(* Mutant: the update gets the fields of what it is merged into.           *)
MergedArgsSwapped(a, b) ==
    IF b.cmd = "*" THEN [args EXCEPT ![b.arg] = Override(args[a.arg], @)] ELSE args

MergedArgs(a, b) ==
    IF b.cmd = "*" THEN [args EXCEPT ![a.arg] = Override(@, args[b.arg])] ELSE args

MergeNext(s) ==
    LET evs == Collect(s)
        b == ActionOf(evs[count[s] + 1])
    IN /\ sortedBy # "none" /\ count[s] < Len(evs) /\ s \notin mergeErr
       /\ \/ /\ count[s] = 0
             /\ merged' = [merged EXCEPT ![s] = b]
             /\ UNCHANGED <<args, mergeErr>>
          \/ /\ count[s] > 0 /\ MergeOk(merged[s], b)
             /\ merged' = [merged EXCEPT ![s] = Merge(merged[s], b)]
             /\ args' = MergedArgs(merged[s], b)
             /\ UNCHANGED mergeErr
          \/ /\ count[s] > 0 /\ ~MergeOk(merged[s], b)
             /\ mergeErr' = mergeErr \cup {s}
             /\ UNCHANGED <<merged, args>>
       /\ count' = [count EXCEPT ![s] = @ + 1]
       /\ UNCHANGED <<ledger, initial, current, states, sortedBy, order>>

MergePublish ==
    \E s \in Sigs, joins \in BOOLEAN :
       \/ \E fields \in NewArgs : Publish(s, "+", fields, joins)
       \/ \E fields \in ModArgs : Publish(s, "*", fields, joins)
       \/ Publish(s, "-", <<>>, joins)

MergeSteps ==
    \/ \E s \in Sigs, r \in NewArgs : Preset(s, r)
    \/ MergePublish
    \/ \E key \in {"id", "rev"} : SortBy(key)
    \/ \E s \in Sigs : MergeNext(s)

MergeSpec == MergeInit /\ [][MergeSteps]_mergeVars

-----------------------------------------------------------------------------
MergeTypeOK ==
    /\ ledger \in Seq([sig : Sigs, cmd : {"+", "*", "-"}, rev : 1..MaxEvents])
    /\ Len(ledger) <= MaxEvents /\ args = [i \in 1..Len(ledger) |-> args[i]]
    /\ states = [i \in 1..Len(ledger) |-> states[i]]
    /\ initial \in [Sigs -> Records] /\ DOMAIN current = Sigs
    /\ count \in [Sigs -> 0..Len(ledger)] /\ DOMAIN merged = Sigs
    /\ \A s \in Sigs : IF count[s] = 0 THEN merged[s] = NoAction
                                       ELSE merged[s].arg \in 1..Len(ledger)
    /\ sortedBy \in {"none", "id", "rev"}
    /\ IF sortedBy = "none" THEN order = <<>> ELSE order \in Orders
    /\ mergeErr \subseteq Sigs

(* The events are in the ledger's order when they are sorted by id, or     *)
(* each has a revision of its own.                                         *)
InOrder == sortedBy = "id" \/ \A i, j \in DOMAIN ledger : i # j => ledger[i].rev # ledger[j].rev

(* A record that the events create, delete and create again is merged to   *)
(* an update, of a record that is not there.                               *)
Recreated(s) ==
    /\ initial[s] = Absent
    /\ \E i, j \in DOMAIN ledger : i < j /\ ledger[i].sig = s /\ ledger[j].sig = s
                                   /\ ledger[i].cmd = "-" /\ ledger[j].cmd = "+"

(* A record that is deleted and created without an optional field it had   *)
(* keeps that field (the TODO of utl.go:45).                               *)
Narrowed(s) == current[s] # Absent /\ ~(DOMAIN initial[s] \subseteq DOMAIN current[s])

(* The record of s, r before the events evs, after each of them, with the  *)
(* arguments as.                                                           *)
Replay(r, s, evs, as) ==
    LET rec[i \in 0..Len(evs)] ==
          IF i = 0 THEN r
          ELSE IF evs[i].sig = s THEN Applied(rec[i - 1], evs[i].cmd, as[i]) ELSE rec[i - 1]
    IN  rec

(* The state is typed, and the merged action has the effect of the events  *)
(* it was made from: no sequence of events a ledger accepts is refused,    *)
(* and applied to the record before the first event it leaves the record   *)
(* after the last.                                                         *)
MergedMeansAll ==
    MergeTypeOK /\ \A s \in Sigs : InOrder /\ sortedBy # "none" =>
       /\ s \notin mergeErr
       /\ count[s] = Len(Collect(s)) /\ count[s] > 0 /\ ~Recreated(s) /\ ~Narrowed(s) =>
             Applied(initial[s], merged[s].cmd, args[merged[s].arg]) = current[s]

(* The last event of s Merge has been through.                             *)
LastMerged(s) == IF count[s] = 0 THEN 0 ELSE Collect(s)[count[s]]

(* An update that comes after event i was carried back to it or over it.   *)
Rewritten(s, i) ==
    \E j \in 1..i, k \in (i + 1)..LastMerged(s) :
       /\ ledger[j].sig = s /\ ledger[k].sig = s
       /\ \A l \in (j + 1)..k : ledger[l].sig = s => ledger[l].cmd = "*"

(* A ledger "can be used to recreate a state at a revision"                *)
(* (evt/doc.go:16).  Merging writes to the arguments of the ledger's own   *)
(* events and breaks that at the events an update is carried back over:    *)
(* the states after all other events, the last one among them, can be      *)
(* recreated from the ledger whatever was merged.                          *)
RecreatesStates ==
    InOrder => \A s \in Sigs : \A i \in 1..Len(ledger) :
       ~Rewritten(s, i) => Replay(initial[s], s, ledger, args)[i] = states[i][s]
=============================================================================
