------------------------------ MODULE EvtProofs ------------------------------
(***************************************************************************)
(* Proofs about two parts of package evt.                                  *)
(*                                                                         *)
(* Merging: for all signatures, arguments and ledgers the action that the  *)
(* events of a signature are merged to has the effect of all of them, and  *)
(* the arguments that Merge writes to still replay to the same records.    *)
(* The lemmas are about ledgers, arguments and actions in general; the     *)
(* steps of the specification instantiate them.                            *)
(*                                                                         *)
(* The broadcast timer: for every delay, window and queue length, and any  *)
(* number of publications, an event that waits has a broadcast coming, in  *)
(* bounded time.                                                           *)
(***************************************************************************)
EXTENDS EvtMerge, BcastTimer, TLAPS, SequenceTheorems, FiniteSetTheorems, WellFoundedInduction

-----------------------------------------------------------------------------
(* Induction over the rounds of a loop *)

\* Every set of natural numbers has a least element.
LEMMA LeastNat ==
  ASSUME NEW T \in SUBSET Nat, T # {}
  PROVE  \E x \in T : \A y \in T : x <= y
<1>. DEFINE R == {p \in Nat \X Nat : p[1] < p[2]}
<1>1. IsWellFoundedOn(R, Nat)
  BY NatLessThanWellFounded DEF OpToRel
<1>2. PICK x \in T : \A y \in T : ~ (<<y, x>> \in R)
  <2>. HIDE DEF R
  <2>. QED  BY <1>1, WFMin
<1>3. ASSUME NEW y \in T
      PROVE  x <= y
  <2>1. x \in Nat /\ y \in Nat
    OBVIOUS
  <2>2. ~ (y < x)
    BY <1>2, <2>1, <<y, x>> \in Nat \X Nat
  <2>. QED  BY <2>1, <2>2
<1>. QED  BY <1>3

\* What holds before the first round, and after a round if it held before, holds after all.
LEMMA Rounds ==
  ASSUME NEW n \in Nat, NEW T, 0 \in T, \A i \in 1..n : i - 1 \in T => i \in T
  PROVE  \A i \in 0..n : i \in T
<1>. DEFINE N == {i \in 0..n : i \notin T}
<1>. SUFFICES ASSUME N # {}
              PROVE  FALSE
  OBVIOUS
<1>1. PICK k \in N : \A y \in N : k <= y
  <2>1. N \in SUBSET Nat
    OBVIOUS
  <2>. HIDE DEF N
  <2>. QED  BY <2>1, LeastNat
<1>2. k \in 1..n /\ k \notin T
  OBVIOUS
<1>3. k - 1 \notin N
  BY <1>1, <1>2
<1>. QED  BY <1>2, <1>3

-----------------------------------------------------------------------------
(* Records and fields *)

\* A function with a field.
Whole(f) == DOMAIN f # {} /\ f = [x \in DOMAIN f |-> f[x]]

LEMMA AbsentIs == DOMAIN Absent = {} /\ \A f : Whole(f) => f # Absent
BY DEF Absent, Whole

\* Override is the function of both, with the fields of the second where both have one.
LEMMA OverrideIs ==
  ASSUME NEW f, NEW g
  PROVE  /\ Override(f, g) = [x \in DOMAIN f \cup DOMAIN g |-> IF x \in DOMAIN g THEN g[x] ELSE f[x]]
         /\ DOMAIN Override(f, g) = DOMAIN f \cup DOMAIN g
         /\ Whole(f) => Whole(Override(f, g))
BY DEF Override, Whole

\* To override with one and then with another is to override with both.
LEMMA OverrideTwice ==
  ASSUME NEW f, NEW g, NEW h
  PROVE  Override(Override(f, g), h) = Override(f, Override(g, h))
BY DEF Override

LEMMA OverrideAgain ==
  ASSUME NEW f, NEW g
  PROVE  Override(Override(f, g), g) = Override(f, g) /\ Override(f, Override(f, g)) = Override(f, g)
BY DEF Override

\* What has all the fields is left.
LEMMA OverrideAll ==
  ASSUME NEW f, NEW g, Whole(g), DOMAIN f \subseteq DOMAIN g
  PROVE  Override(f, g) = g
BY DEF Override, Whole

\* What is the same under h is the same under g and then h.
LEMMA OverrideBoth ==
  ASSUME NEW e, NEW f, NEW g, NEW h, Override(e, h) = Override(f, h)
  PROVE  Override(Override(e, g), h) = Override(Override(f, g), h)
<1>1. DOMAIN e \cup DOMAIN h = DOMAIN f \cup DOMAIN h
  <2>1. DOMAIN Override(e, h) = DOMAIN e \cup DOMAIN h /\ DOMAIN Override(f, h) = DOMAIN f \cup DOMAIN h
    BY OverrideIs
  <2>. QED  BY <2>1
<1>2. \A x \in DOMAIN e \cup DOMAIN h : x \notin DOMAIN h => x \in DOMAIN e /\ x \in DOMAIN f /\ e[x] = f[x]
  <2>1. ASSUME NEW x \in DOMAIN e \cup DOMAIN h, x \notin DOMAIN h
        PROVE  x \in DOMAIN e /\ x \in DOMAIN f /\ e[x] = f[x]
    <3>1. x \in DOMAIN e /\ x \in DOMAIN f
      BY <1>1, <2>1
    <3>2. Override(e, h)[x] = e[x] /\ Override(f, h)[x] = f[x]
      BY <2>1, <3>1 DEF Override
    <3>. QED  BY <3>1, <3>2
  <2>. QED  BY <2>1
<1>. DEFINE D == DOMAIN e \cup DOMAIN g \cup DOMAIN h
            v(x) == IF x \in DOMAIN h THEN h[x] ELSE IF x \in DOMAIN g THEN g[x] ELSE e[x]
<1>3. Override(Override(e, g), h) = [x \in D |-> v(x)]
  BY DEF Override
<1>4. Override(Override(f, g), h) = [x \in D |-> v(x)]
  <2>1. D = DOMAIN f \cup DOMAIN g \cup DOMAIN h
    BY <1>1
  <2>2. Override(Override(f, g), h) =
          [x \in D |-> IF x \in DOMAIN h THEN h[x] ELSE IF x \in DOMAIN g THEN g[x] ELSE f[x]]
    BY <2>1 DEF Override
  <2>3. \A x \in D : (IF x \in DOMAIN h THEN h[x] ELSE IF x \in DOMAIN g THEN g[x] ELSE f[x]) = v(x)
    BY <1>2
  <2>. HIDE DEF D, v
  <2>. QED  BY <2>2, <2>3
<1>. QED  BY <1>3, <1>4

-----------------------------------------------------------------------------
(* Replaying events *)

\* A replay is at the record before the events and then at what each event makes of it.
IsReplay(r, s, evs, as, rec) ==
    /\ rec[0] = r
    /\ \A i \in 1..Len(evs) :
          rec[i] = IF evs[i].sig = s THEN Applied(rec[i - 1], evs[i].cmd, as[i]) ELSE rec[i - 1]

LEMMA ReplayIs ==
  ASSUME NEW r, NEW s, NEW evs, NEW as, Len(evs) \in Nat
  PROVE  IsReplay(r, s, evs, as, Replay(r, s, evs, as))
<1>. DEFINE n == Len(evs)
            Round(x, i) == IF evs[i].sig = s THEN Applied(x, evs[i].cmd, as[i]) ELSE x
            P(k, rec) == rec = [i \in 0..k |-> IF i = 0 THEN r ELSE Round(rec[i - 1], i)]
            T == {k \in 0..n : \E rec : P(k, rec)}
            o == CHOOSE rec : P(n, rec)
<1>1. Replay(r, s, evs, as) = o
  BY DEF Replay
<1>. HIDE DEF Round, n
<1>2. n \in Nat
  BY DEF n
<1>3. 0 \in T
  <2>1. P(0, [i \in 0..0 |-> r])
    OBVIOUS
  <2>. HIDE DEF P
  <2>. QED  BY <1>2, <2>1
<1>4. ASSUME NEW k \in 1..n, k - 1 \in T
      PROVE  k \in T
  <2>1. PICK rec : P(k - 1, rec)
    BY <1>4
  <2>. DEFINE e == Round(rec[k - 1], k)
              next == [i \in 0..k |-> IF i = k THEN e ELSE rec[i]]
  <2>2. \A i \in 0..(k - 1) : rec[i] = IF i = 0 THEN r ELSE Round(rec[i - 1], i)
    BY <2>1
  <2>3. \A i \in 0..k : next[i] = IF i = 0 THEN r ELSE Round(next[i - 1], i)
    <3>1. ASSUME NEW i \in 0..k
          PROVE  next[i] = IF i = 0 THEN r ELSE Round(next[i - 1], i)
      <4>1. CASE i = k
        <5>1. next[i] = e /\ k # 0 /\ next[k - 1] = rec[k - 1]
          BY <1>2, <4>1
        <5>. QED  BY <4>1, <5>1
      <4>2. CASE i # k
        <5>1. i \in 0..(k - 1) /\ next[i] = rec[i]
          BY <1>2, <4>2
        <5>2. i # 0 => next[i - 1] = rec[i - 1]
          BY <1>2, <4>2
        <5>. QED  BY <2>2, <5>1, <5>2
      <4>. QED  BY <4>1, <4>2
    <3>. QED  BY <3>1
  <2>4. P(k, next)
    <3>1. next = [i \in 0..k |-> next[i]]
      OBVIOUS
    <3>. HIDE DEF next
    <3>. QED  BY <2>3, <3>1
  <2>. HIDE DEF P
  <2>. QED  BY <1>2, <2>4
<1>5. \E rec : P(n, rec)
  <2>1. \A i \in 1..n : i - 1 \in T => i \in T
    BY <1>4
  <2>. HIDE DEF T
  <2>2. n \in T
    BY <1>2, <1>3, <2>1, Rounds
  <2>. QED  BY <2>2 DEF T
<1>6. P(n, o)
  <2>. HIDE DEF P
  <2>. QED  BY <1>5
<1>. HIDE DEF o
<1>7. o[0] = r /\ \A i \in 1..n : o[i] = Round(o[i - 1], i)
  BY <1>2, <1>6
<1>. QED  BY <1>1, <1>7 DEF Round, n, IsReplay

Commands == {"+", "*", "-"}
Events(evs) == Len(evs) \in Nat /\ \A i \in 1..Len(evs) : evs[i].cmd \in Commands

\* The records of s are created by nothing but "+", and only when they are absent.
Lawful(s, evs, rec) ==
    \A i \in 1..Len(evs) : evs[i].sig = s => (evs[i].cmd = "+" <=> rec[i - 1] = Absent)

\* What creates a record is a whole one.
WholeArgs(evs, as) == \A i \in 1..Len(evs) : evs[i].cmd = "+" => Whole(as[i])

\* What an action makes of a record, by command.
LEMMA AppliedIs ==
  ASSUME NEW x, NEW f
  PROVE  /\ Applied(x, "+", f) = f
         /\ Applied(x, "-", f) = Absent
         /\ Applied(Absent, "*", f) = Absent
         /\ x # Absent => Applied(x, "*", f) = Override(x, f)
BY DEF Applied

\* A replayed record is absent or whole; after an event it is absent if that deleted it.
Present(s, evs, rec) ==
    /\ \A i \in 0..Len(evs) : rec[i] = Absent \/ Whole(rec[i])
    /\ \A i \in 1..Len(evs) : evs[i].sig = s => (rec[i] = Absent <=> evs[i].cmd = "-")

LEMMA ReplayPresent ==
  ASSUME NEW r, NEW s, NEW evs, NEW as, Events(evs), WholeArgs(evs, as),
         r = Absent \/ Whole(r), Lawful(s, evs, Replay(r, s, evs, as))
  PROVE  Present(s, evs, Replay(r, s, evs, as))
<1>. DEFINE rec == Replay(r, s, evs, as)
            n == Len(evs)
            T == {i \in 0..n : rec[i] = Absent \/ Whole(rec[i])}
<1>0. Len(evs) \in Nat /\ IsReplay(r, s, evs, as, rec)
  BY ReplayIs DEF Events
<1>2. \A i \in 1..n : /\ evs[i].cmd \in Commands
                      /\ evs[i].cmd = "+" => Whole(as[i])
                      /\ evs[i].sig = s => (evs[i].cmd = "+" <=> rec[i - 1] = Absent)
  BY DEF Events, WholeArgs, Lawful
<1>. HIDE DEF rec
<1>1. /\ n \in Nat /\ rec[0] = r
      /\ \A i \in 1..n : rec[i] = IF evs[i].sig = s THEN Applied(rec[i - 1], evs[i].cmd, as[i])
                                  ELSE rec[i - 1]
  BY <1>0 DEF IsReplay
<1>. HIDE DEF n
<1>3. ASSUME NEW i \in 1..n, i - 1 \in T, evs[i].sig = s
      PROVE  /\ rec[i] = Absent \/ Whole(rec[i])
             /\ rec[i] = Absent <=> evs[i].cmd = "-"
  <2>1. rec[i - 1] = Absent \/ Whole(rec[i - 1])
    BY <1>3
  <2>2. rec[i] = Applied(rec[i - 1], evs[i].cmd, as[i])
    BY <1>1, <1>3
  <2>3. CASE evs[i].cmd = "+"
    <3>1. rec[i] = as[i]
      BY <2>2, <2>3, AppliedIs, Zenon
    <3>2. Whole(rec[i]) /\ rec[i] # Absent
      BY <1>2, <2>3, <3>1, AbsentIs
    <3>. QED  BY <2>3, <3>2
  <2>4. CASE evs[i].cmd = "-"
    <3>1. rec[i] = Absent
      <4>1. rec[i] = Applied(rec[i - 1], "-", as[i])
        BY <2>2, <2>4
      <4>2. Applied(rec[i - 1], "-", as[i]) = Absent
        BY AppliedIs
      <4>. QED  BY <4>1, <4>2
    <3>. QED  BY <2>4, <3>1
  <2>5. CASE evs[i].cmd = "*"
    <3>1. rec[i - 1] # Absent
      BY <1>2, <1>3, <2>5
    <3>2. rec[i] = Override(rec[i - 1], as[i])
      <4>1. rec[i] = Applied(rec[i - 1], "*", as[i])
        BY <2>2, <2>5
      <4>2. Applied(rec[i - 1], "*", as[i]) = Override(rec[i - 1], as[i])
        BY <3>1, AppliedIs
      <4>. QED  BY <4>1, <4>2
    <3>3. Whole(rec[i])
      <4>1. Whole(Override(rec[i - 1], as[i]))
        BY <2>1, <3>1, OverrideIs
      <4>. QED  BY <3>2, <4>1
    <3>. QED  BY <2>5, <3>3, AbsentIs
  <2>. QED  BY <1>2, <2>3, <2>4, <2>5 DEF Commands
<1>4. 0 \in T
  BY <1>1
<1>5. ASSUME NEW i \in 1..n, i - 1 \in T
      PROVE  i \in T
  <2>1. CASE evs[i].sig = s
    BY <1>1, <1>3, <1>5, <2>1
  <2>2. CASE evs[i].sig # s
    <3>1. rec[i] = rec[i - 1]
      BY <1>1, <2>2
    <3>. QED  BY <1>1, <1>5, <3>1
  <2>. QED  BY <2>1, <2>2
<1>6. \A i \in 0..n : i \in T
  <2>. HIDE DEF T
  <2>. QED  BY <1>1, <1>4, <1>5, Rounds
<1>7. \A i \in 1..n : i - 1 \in T
  BY <1>1, <1>6
<1>. QED  BY <1>3, <1>6, <1>7 DEF rec, n, Present

\* The first n events that concern s are the same, with the same arguments.
SameEvents(s, n, evs, as, evt, at) ==
    \A i \in 1..n : evt[i] = evs[i] /\ (evs[i].sig = s => at[i] = as[i])

SameUpTo(n, rec, ret) == \A i \in 0..n : ret[i] = rec[i]

\* Replays of what is the same up to the n-th event are the same up to there.
LEMMA ReplaySame ==
  ASSUME NEW r, NEW s, NEW evs, NEW as, NEW evt, NEW at, NEW n \in Nat,
         Len(evs) \in Nat, Len(evt) \in Nat, n <= Len(evs), n <= Len(evt),
         SameEvents(s, n, evs, as, evt, at)
  PROVE  SameUpTo(n, Replay(r, s, evs, as), Replay(r, s, evt, at))
<1>. DEFINE rec == Replay(r, s, evs, as)
            ret == Replay(r, s, evt, at)
            T == {i \in 0..n : ret[i] = rec[i]}
<1>0. IsReplay(r, s, evs, as, rec) /\ IsReplay(r, s, evt, at, ret)
  BY ReplayIs
<1>. HIDE DEF rec, ret
<1>1. /\ rec[0] = r
      /\ \A i \in 1..Len(evs) : rec[i] = IF evs[i].sig = s THEN Applied(rec[i - 1], evs[i].cmd, as[i])
                                         ELSE rec[i - 1]
  BY <1>0 DEF IsReplay
<1>2. /\ ret[0] = r
      /\ \A i \in 1..Len(evt) : ret[i] = IF evt[i].sig = s THEN Applied(ret[i - 1], evt[i].cmd, at[i])
                                         ELSE ret[i - 1]
  BY <1>0 DEF IsReplay
<1>3. 0 \in T
  BY <1>1, <1>2
<1>4. ASSUME NEW i \in 1..n, i - 1 \in T
      PROVE  i \in T
  <2>1. i \in 1..Len(evs) /\ i \in 1..Len(evt) /\ ret[i - 1] = rec[i - 1]
    BY <1>4
  <2>0. i \in 1..n
    OBVIOUS
  <2>a. evt[i] = evs[i] /\ (evs[i].sig = s => at[i] = as[i])
    BY <2>0 DEF SameEvents
  <2>2. ret[i] = rec[i]
    <3>1. CASE evs[i].sig = s
      <4>1. ret[i] = Applied(ret[i - 1], evt[i].cmd, at[i]) /\ rec[i] = Applied(rec[i - 1], evs[i].cmd, as[i])
        BY <1>1, <1>2, <2>1, <2>a, <3>1
      <4>. QED  BY <2>1, <2>a, <3>1, <4>1
    <3>2. CASE evs[i].sig # s
      BY <1>1, <1>2, <2>1, <2>a, <3>2
    <3>. QED  BY <3>1, <3>2
  <2>. QED  BY <2>0, <2>2
<1>5. \A i \in 0..n : i \in T
  <2>. HIDE DEF T
  <2>. QED  BY <1>3, <1>4, Rounds
<1>6. SameUpTo(n, rec, ret)
  BY <1>5 DEF SameUpTo
<1>. QED  BY <1>6 DEF rec, ret

\* After a, up to b, there is no event of s.
Quiet(s, evs, a, b) == \A i \in (a + 1)..b : evs[i].sig # s

\* Between two events of s its record stays.
Steady(s, evs, rec) ==
    \A a \in 0..Len(evs) : \A b \in a..Len(evs) : Quiet(s, evs, a, b) => rec[b] = rec[a]

LEMMA ReplaySteady ==
  ASSUME NEW r, NEW s, NEW evs, NEW as, Len(evs) \in Nat
  PROVE  Steady(s, evs, Replay(r, s, evs, as))
<1>. DEFINE rec == Replay(r, s, evs, as)
<1>a. IsReplay(r, s, evs, as, rec)
  BY ReplayIs
<1>. HIDE DEF rec
<1>b. ASSUME NEW a \in 0..Len(evs), NEW b \in a..Len(evs), Quiet(s, evs, a, b)
      PROVE  rec[b] = rec[a]
  <2>. DEFINE T == {i \in 0..b : a <= i => rec[i] = rec[a]}
  <2>0. b \in Nat /\ a \in Nat
    OBVIOUS
  <2>1. \A i \in 1..Len(evs) : evs[i].sig # s => rec[i] = rec[i - 1]
    BY <1>a DEF IsReplay
  <2>2. 0 \in T
    OBVIOUS
  <2>3. ASSUME NEW i \in 1..b, i - 1 \in T
        PROVE  i \in T
    <3>1. CASE a <= i - 1
      <4>1. i \in (a + 1)..b /\ i \in 1..Len(evs)
        BY <3>1
      <4>2. rec[i - 1] = rec[a]
        BY <2>3, <3>1
      <4>. QED  BY <1>b, <2>1, <4>1, <4>2 DEF Quiet
    <3>2. CASE ~(a <= i - 1)
      BY <3>2
    <3>. QED  BY <3>1, <3>2
  <2>4. \A i \in 0..b : i \in T
    <3>1. \A i \in 1..b : i - 1 \in T => i \in T
      BY <2>3
    <3>. HIDE DEF T
    <3>. QED  BY <2>0, <2>2, <3>1, Rounds
  <2>5. b \in 0..b /\ a <= b
    OBVIOUS
  <2>. QED  BY <2>4, <2>5
<1>c. Steady(s, evs, rec)
  BY <1>b DEF Steady
<1>. QED  BY <1>c DEF rec

\* All events of s after p, up to q, are updates.
Updates(s, evs, p, q) == \A i \in (p + 1)..q : evs[i].sig = s => evs[i].cmd = "*"

\* What merging changes: the argument p gets the fields of q.
Changed(n, as, at, p, q) ==
    at[p] = Override(as[p], as[q]) /\ \A i \in 1..n : i # p => at[i] = as[i]

\* A record is there in both or in none, and before p and from q on it is the same.
SameBut(n, p, q, rec, ret) ==
    /\ \A i \in 0..n : ret[i] = Absent <=> rec[i] = Absent
    /\ \A i \in 0..n : i < p \/ q <= i => ret[i] = rec[i]

\* The update q is merged into p, which is followed by updates only: the replay passes
\* records that have the fields of q early, and from q on it is what it was.
LEMMA ReplayMerged ==
  ASSUME NEW r, NEW s, NEW evs, NEW as, NEW at, Events(evs), WholeArgs(evs, as),
         r = Absent \/ Whole(r), Lawful(s, evs, Replay(r, s, evs, as)),
         NEW p \in 1..Len(evs), NEW q \in 1..Len(evs), p < q,
         evs[p].sig = s, evs[q].sig = s, evs[p].cmd # "-",
         Updates(s, evs, p, q), Changed(Len(evs), as, at, p, q)
  PROVE  SameBut(Len(evs), p, q, Replay(r, s, evs, as), Replay(r, s, evs, at))
<1>. DEFINE rec == Replay(r, s, evs, as)
            ret == Replay(r, s, evs, at)
            n == Len(evs)
            b == as[q]
            Before(i) == i < p => ret[i] = rec[i]
            Between(i) == p <= i /\ i < q =>
                            /\ Whole(rec[i]) /\ Whole(ret[i])
                            /\ Override(ret[i], b) = Override(rec[i], b)
            After(i) == q <= i => ret[i] = rec[i]
            T == {i \in 0..n : Before(i) /\ Between(i) /\ After(i)}
<1>0. IsReplay(r, s, evs, as, rec) /\ IsReplay(r, s, evs, at, ret) /\ n \in Nat
  BY ReplayIs DEF Events
<1>a. Present(s, evs, rec)
  BY ReplayPresent
<1>2. \A i \in 1..n : /\ evs[i].cmd \in Commands
                      /\ evs[i].cmd = "+" => Whole(as[i])
                      /\ evs[i].sig = s => (evs[i].cmd = "+" <=> rec[i - 1] = Absent)
  BY DEF Events, WholeArgs, Lawful
<1>b. /\ \A i \in (p + 1)..q : evs[i].sig = s => evs[i].cmd = "*"
      /\ at[p] = Override(as[p], as[q]) /\ \A i \in 1..n : i # p => at[i] = as[i]
  BY DEF Updates, Changed
<1>. HIDE DEF rec, ret
<1>1. /\ \A i \in 0..n : rec[i] = Absent \/ Whole(rec[i])
      /\ \A i \in 1..n : evs[i].sig = s => (rec[i] = Absent <=> evs[i].cmd = "-")
  BY <1>a DEF Present
<1>3. rec[0] = r /\ ret[0] = r
  BY <1>0 DEF IsReplay
<1>4. ASSUME NEW i \in 1..n, evs[i].sig # s
      PROVE  rec[i] = rec[i - 1] /\ ret[i] = ret[i - 1]
  BY <1>0, <1>4 DEF IsReplay
<1>5. ASSUME NEW i \in 1..n, evs[i].sig = s
      PROVE  /\ rec[i] = Applied(rec[i - 1], evs[i].cmd, as[i])
             /\ ret[i] = Applied(ret[i - 1], evs[i].cmd, at[i])
  BY <1>0, <1>5 DEF IsReplay
<1>. HIDE DEF n, b
<1>6. ASSUME NEW i \in 1..n, i # p, evs[i].sig = s, ret[i - 1] = rec[i - 1]
      PROVE  ret[i] = rec[i]
  <2>1. at[i] = as[i]
    BY <1>6, <1>b DEF n
  <2>. QED  BY <1>5, <1>6, <2>1
\* The event itself.
<1>7. ASSUME p - 1 \in T
      PROVE  Whole(rec[p]) /\ Whole(ret[p]) /\ Override(ret[p], b) = Override(rec[p], b)
  <2>1. p \in 1..n /\ p - 1 \in 0..n /\ ret[p - 1] = rec[p - 1] /\ at[p] = Override(as[p], b)
    BY <1>0, <1>7, <1>b DEF n, b
  <2>2. Whole(rec[p])
    BY <1>1, <2>1
  <2>3. CASE evs[p].cmd = "+"
    <3>1. rec[p] = Applied(rec[p - 1], "+", as[p]) /\ ret[p] = Applied(ret[p - 1], "+", at[p])
      BY <1>5, <2>1, <2>3
    <3>2. Applied(rec[p - 1], "+", as[p]) = as[p] /\ Applied(ret[p - 1], "+", at[p]) = at[p]
      BY AppliedIs
    <3>3. rec[p] = as[p] /\ ret[p] = Override(as[p], b)
      BY <2>1, <3>1, <3>2
    <3>4. Whole(Override(as[p], b)) /\ Override(Override(as[p], b), b) = Override(as[p], b)
      BY <2>2, <3>3, OverrideIs, OverrideAgain
    <3>. QED  BY <2>2, <3>3, <3>4
  <2>4. CASE evs[p].cmd = "*"
    <3>. DEFINE o == rec[p - 1]
                a == as[p]
    <3>1. o # Absent /\ Whole(o) /\ ret[p - 1] = o
      BY <1>1, <1>2, <2>1, <2>4
    <3>2. rec[p] = Applied(o, "*", a) /\ ret[p] = Applied(o, "*", Override(a, b))
      BY <1>5, <2>1, <2>4
    <3>. HIDE DEF o, a
    <3>3. rec[p] = Override(o, a) /\ ret[p] = Override(o, Override(a, b))
      <4>1. Applied(o, "*", a) = Override(o, a) /\ Applied(o, "*", Override(a, b)) = Override(o, Override(a, b))
        BY <3>1, AppliedIs
      <4>. QED  BY <3>2, <4>1
    <3>4. Override(o, Override(a, b)) = Override(Override(o, a), b)
      BY OverrideTwice
    <3>5. Override(Override(Override(o, a), b), b) = Override(Override(o, a), b)
      BY OverrideAgain
    <3>6. Whole(Override(o, Override(a, b)))
      BY <3>1, OverrideIs
    <3>. QED  BY <2>2, <3>3, <3>4, <3>5, <3>6
  <2>. QED  BY <1>2, <2>1, <2>3, <2>4 DEF Commands
\* An update between p and q, or q.
<1>8. ASSUME NEW i \in 1..n, p < i, i <= q, evs[i].sig = s, i - 1 \in T
      PROVE  /\ rec[i] = Override(rec[i - 1], as[i]) /\ ret[i] = Override(ret[i - 1], as[i])
             /\ Whole(rec[i]) /\ Whole(ret[i])
  <2>1. evs[i].cmd = "*" /\ at[i] = as[i]
    <3>1. i \in Nat /\ p \in Nat /\ q \in Nat /\ i \in 1..Len(evs)
      BY <1>0 DEF n
    <3>2. i \in (p + 1)..q /\ i # p
      BY <1>8, <3>1
    <3>. QED  BY <1>8, <1>b, <3>1, <3>2 DEF n
  <2>2. Whole(rec[i - 1]) /\ Whole(ret[i - 1])
    BY <1>0, <1>8
  <2>3. rec[i] = Applied(rec[i - 1], "*", as[i]) /\ ret[i] = Applied(ret[i - 1], "*", as[i])
    BY <1>5, <1>8, <2>1
  <2>4. /\ Applied(rec[i - 1], "*", as[i]) = Override(rec[i - 1], as[i])
        /\ Applied(ret[i - 1], "*", as[i]) = Override(ret[i - 1], as[i])
    BY <2>2, AbsentIs, AppliedIs
  <2>5. Whole(Override(rec[i - 1], as[i])) /\ Whole(Override(ret[i - 1], as[i]))
    BY <2>2, OverrideIs
  <2>. QED  BY <2>3, <2>4, <2>5
<1>9. 0 \in T
  BY <1>0, <1>3 DEF n
<1>10. ASSUME NEW i \in 1..n, i - 1 \in T
       PROVE  i \in T
  <2>1. i \in 0..n /\ i - 1 \in 0..n /\ i \in Nat /\ p \in Nat /\ q \in Nat
    BY <1>0 DEF n
  <2>2. Before(i - 1) /\ Between(i - 1) /\ After(i - 1)
    BY <1>10
  <2>3. i < p \/ i = p \/ (p < i /\ i < q) \/ i = q \/ q < i
    BY <2>1
  <2>. HIDE DEF T
  <2>4. Before(i) /\ Between(i) /\ After(i)
    <3>1. CASE i < p
      <4>1. ret[i - 1] = rec[i - 1] /\ i # p
        BY <2>1, <2>2, <3>1
      <4>2. ret[i] = rec[i]
        BY <1>4, <1>6, <4>1
      <4>. QED  BY <2>1, <3>1, <4>2
    <3>2. CASE i = p
      <4>1. Whole(rec[i]) /\ Whole(ret[i]) /\ Override(ret[i], b) = Override(rec[i], b)
        BY <1>7, <1>10, <3>2
      <4>. QED  BY <2>1, <3>2, <4>1
    <3>3. CASE p < i /\ i < q
      <4>1. Whole(rec[i - 1]) /\ Whole(ret[i - 1]) /\ Override(ret[i - 1], b) = Override(rec[i - 1], b)
        BY <2>1, <2>2, <3>3
      <4>2. p < i /\ i <= q
        BY <2>1, <3>3
      <4>3. Whole(rec[i]) /\ Whole(ret[i]) /\ Override(ret[i], b) = Override(rec[i], b)
        <5>1. CASE evs[i].sig # s
          BY <1>4, <4>1, <5>1
        <5>2. CASE evs[i].sig = s
          <6>1. /\ rec[i] = Override(rec[i - 1], as[i]) /\ ret[i] = Override(ret[i - 1], as[i])
                /\ Whole(rec[i]) /\ Whole(ret[i])
            BY <1>8, <1>10, <4>2, <5>2
          <6>2. Override(Override(ret[i - 1], as[i]), b) = Override(Override(rec[i - 1], as[i]), b)
            <7>. DEFINE e == ret[i - 1]
                        f == rec[i - 1]
                        g == as[i]
            <7>1. Override(e, b) = Override(f, b)
              BY <4>1
            <7>. HIDE DEF e, f, g
            <7>2. Override(Override(e, g), b) = Override(Override(f, g), b)
              BY <7>1, OverrideBoth
            <7>. QED  BY <7>2 DEF e, f, g
          <6>. QED  BY <6>1, <6>2
        <5>. QED  BY <5>1, <5>2
      <4>. QED  BY <2>1, <3>3, <4>3
    <3>4. CASE i = q
      <4>1. Override(ret[i - 1], b) = Override(rec[i - 1], b)
        BY <2>1, <2>2, <3>4
      <4>2. p < i /\ i <= q /\ evs[i].sig = s /\ as[i] = b
        BY <2>1, <3>4 DEF b
      <4>3. rec[i] = Override(rec[i - 1], b) /\ ret[i] = Override(ret[i - 1], b)
        BY <1>8, <1>10, <4>2
      <4>4. ret[i] = rec[i]
        BY <4>1, <4>3
      <4>. QED  BY <2>1, <3>4, <4>4
    <3>5. CASE q < i
      <4>1. ret[i - 1] = rec[i - 1] /\ i # p
        BY <2>1, <2>2, <3>5
      <4>2. ret[i] = rec[i]
        BY <1>4, <1>6, <4>1
      <4>. QED  BY <2>1, <3>5, <4>2
    <3>. QED  BY <2>3, <3>1, <3>2, <3>3, <3>4, <3>5
  <2>. QED  BY <2>1, <2>4 DEF T
<1>11. \A i \in 0..n : i \in T
  <2>. HIDE DEF T
  <2>. QED  BY <1>0, <1>9, <1>10, Rounds
<1>12. ASSUME NEW i \in 0..n
       PROVE  (ret[i] = Absent <=> rec[i] = Absent) /\ (i < p \/ q <= i => ret[i] = rec[i])
  <2>1. Before(i) /\ Between(i) /\ After(i)
    BY <1>11
  <2>2. i \in Nat /\ p \in Nat /\ q \in Nat
    BY <1>0 DEF n
  <2>3. i < p \/ (p <= i /\ i < q) \/ q <= i
    BY <2>2
  <2>. QED  BY <2>1, <2>3, AbsentIs
<1>13. SameBut(n, p, q, rec, ret)
  BY <1>12 DEF SameBut
<1>. QED  BY <1>13 DEF rec, ret, n

-----------------------------------------------------------------------------
(* Merging the events of one signature *)

\* What the event q of s does, R being the replay.
Step(R, evs, as, q) ==
    CASE evs[q].cmd = "+" -> R[q - 1] = Absent /\ Whole(as[q]) /\ R[q] = as[q]
      [] evs[q].cmd = "-" -> Whole(R[q - 1]) /\ R[q] = Absent
      [] OTHER -> Whole(R[q - 1]) /\ R[q] = Override(R[q - 1], as[q]) /\ Whole(R[q])

LEMMA StepIs ==
  ASSUME NEW r, NEW s, NEW evs, NEW as, Events(evs), WholeArgs(evs, as),
         r = Absent \/ Whole(r), Lawful(s, evs, Replay(r, s, evs, as)),
         NEW q \in 1..Len(evs), evs[q].sig = s
  PROVE  Step(Replay(r, s, evs, as), evs, as, q)
<1>. DEFINE R == Replay(r, s, evs, as)
<1>1. IsReplay(r, s, evs, as, R) /\ Len(evs) \in Nat
  BY ReplayIs DEF Events
<1>2. Present(s, evs, R)
  BY ReplayPresent
<1>3. Lawful(s, evs, R)
  OBVIOUS
<1>. HIDE DEF R
<1>4. q - 1 \in 0..Len(evs) /\ q \in 0..Len(evs)
  BY <1>1
<1>5. evs[q].cmd \in Commands /\ (evs[q].cmd = "+" => Whole(as[q])) /\ (evs[q].cmd = "+" <=> R[q - 1] = Absent)
  BY <1>3 DEF Events, WholeArgs, Lawful
<1>6. R[q] = Applied(R[q - 1], evs[q].cmd, as[q])
  BY <1>1 DEF IsReplay
<1>7. (R[q - 1] = Absent \/ Whole(R[q - 1])) /\ (R[q] = Absent \/ Whole(R[q])) /\ (R[q] = Absent <=> evs[q].cmd = "-")
  BY <1>2, <1>4 DEF Present
<1>8. CASE evs[q].cmd = "+"
  <2>1. R[q] = Applied(R[q - 1], "+", as[q])
    BY <1>6, <1>8
  <2>. QED  BY <1>5, <1>8, <2>1, AppliedIs DEF Step, R
<1>9. CASE evs[q].cmd = "-"
  BY <1>5, <1>7, <1>9 DEF Step, R
<1>10. CASE evs[q].cmd = "*"
  <2>1. R[q] = Applied(R[q - 1], "*", as[q])
    BY <1>6, <1>10
  <2>2. R[q] = Override(R[q - 1], as[q])
    BY <1>5, <1>10, <2>1, AppliedIs
  <2>. QED  BY <1>5, <1>7, <1>10, <2>2 DEF Step, R
<1>. QED  BY <1>5, <1>8, <1>9, <1>10 DEF Commands

\* c has the events of s, in their order.
Picks(c, s, evs) ==
    /\ Len(c) \in Nat
    /\ \A k \in 1..Len(c) : c[k] \in 1..Len(evs) /\ evs[c[k]].sig = s
    /\ \A k, l \in 1..Len(c) : k < l => c[k] < c[l]
    /\ \A i \in 1..Len(evs) : evs[i].sig = s => \E k \in 1..Len(c) : c[k] = i

\* Between one and the next, before the first and after the last there is none.
LEMMA PicksNext ==
  ASSUME NEW c, NEW s, NEW evs, Len(evs) \in Nat, Picks(c, s, evs),
         NEW k \in 1..Len(c), k + 1 \in 1..Len(c)
  PROVE  /\ c[k] \in 1..Len(evs) /\ c[k + 1] \in 1..Len(evs) /\ c[k] < c[k + 1]
         /\ \A i \in (c[k] + 1)..(c[k + 1] - 1) : evs[i].sig # s
<1>0. Len(c) \in Nat /\ k \in Nat
  BY DEF Picks
<1>1. c[k] \in 1..Len(evs) /\ c[k + 1] \in 1..Len(evs) /\ c[k] < c[k + 1]
  BY <1>0 DEF Picks
<1>2. ASSUME NEW i \in (c[k] + 1)..(c[k + 1] - 1), evs[i].sig = s
      PROVE  FALSE
  <2>1. i \in 1..Len(evs) /\ c[k] < i /\ i < c[k + 1] /\ i \in Nat
    BY <1>1
  <2>2. PICK l \in 1..Len(c) : c[l] = i
    BY <1>2, <2>1 DEF Picks
  <2>3. l < k \/ l = k \/ l = k + 1 \/ k + 1 < l
    BY <1>0
  <2>4. (l < k => c[l] < c[k]) /\ (k + 1 < l => c[k + 1] < c[l])
    BY DEF Picks
  <2>5. ~ (c[l] < c[k]) /\ ~ (c[k + 1] < c[l]) /\ c[l] # c[k] /\ c[l] # c[k + 1]
    BY <1>1, <2>1, <2>2
  <2>. QED  BY <2>3, <2>4, <2>5
<1>. QED  BY <1>1, <1>2

LEMMA PicksEnds ==
  ASSUME NEW c, NEW s, NEW evs, Len(evs) \in Nat, Picks(c, s, evs), Len(c) > 0
  PROVE  /\ 1 \in 1..Len(c) /\ Len(c) \in 1..Len(c)
         /\ c[1] \in 1..Len(evs) /\ c[Len(c)] \in 1..Len(evs)
         /\ \A i \in 1..(c[1] - 1) : evs[i].sig # s
         /\ \A i \in (c[Len(c)] + 1)..Len(evs) : evs[i].sig # s
<1>. DEFINE l == Len(c)
<1>0. l \in Nat /\ 1 \in 1..l /\ l \in 1..l
  BY DEF Picks
<1>1. c[1] \in 1..Len(evs) /\ c[l] \in 1..Len(evs)
  BY <1>0 DEF Picks
<1>2. ASSUME NEW i \in 1..Len(evs), evs[i].sig = s
      PROVE  ~ (i < c[1]) /\ ~ (c[l] < i)
  <2>1. PICK k \in 1..l : c[k] = i
    BY <1>2 DEF Picks
  <2>2. (1 = k \/ 1 < k) /\ (k = l \/ k < l)
    BY <1>0
  <2>3. (1 < k => c[1] < c[k]) /\ (k < l => c[k] < c[l])
    BY <1>0 DEF Picks
  <2>. HIDE DEF l
  <2>4. (c[1] = c[k] \/ c[1] < c[k]) /\ (c[k] = c[l] \/ c[k] < c[l])
    BY <2>2, <2>3
  <2>. QED  BY <1>1, <2>1, <2>4
<1>. HIDE DEF l
<1>3. \A i \in 1..(c[1] - 1) : i \in 1..Len(evs) /\ i < c[1]
  BY <1>1
<1>4. \A i \in (c[l] + 1)..Len(evs) : i \in 1..Len(evs) /\ c[l] < i
  BY <1>1
<1>. QED  BY <1>0, <1>1, <1>2, <1>3, <1>4 DEF l

Recreates(s, evs) ==
    \E i, j \in 1..Len(evs) : i < j /\ evs[i].sig = s /\ evs[j].sig = s
                              /\ evs[i].cmd = "-" /\ evs[j].cmd = "+"

\* The action a has the effect of the events of s up to q.
Means(r, s, evs, as, R, q, a) ==
    /\ a.sig = s /\ a.cmd \in Commands /\ a.arg \in 1..q /\ evs[a.arg].sig = s
    /\ a.cmd = "-" <=> evs[q].cmd = "-"
    /\ a.cmd # "-" => /\ evs[a.arg].cmd # "-"
                      /\ \A i \in (a.arg + 1)..q : evs[i].sig = s => evs[i].cmd = "*"
    /\ a.cmd = "+" => as[a.arg] = R[q]
    /\ a.cmd = "*" => IF r = Absent THEN Recreates(s, evs)
                      ELSE Override(r, as[a.arg]) = Override(r, R[q])

ActOf(s, evs, i) == [sig |-> s, cmd |-> evs[i].cmd, arg |-> i]

\* The first event means what it does.
LEMMA MeansFirst ==
  ASSUME NEW r, NEW s, NEW evs, NEW as, Events(evs), WholeArgs(evs, as),
         r = Absent \/ Whole(r), Lawful(s, evs, Replay(r, s, evs, as)),
         NEW q \in 1..Len(evs), evs[q].sig = s, \A i \in 1..(q - 1) : evs[i].sig # s
  PROVE  Means(r, s, evs, as, Replay(r, s, evs, as), q, ActOf(s, evs, q))
<1>. DEFINE R == Replay(r, s, evs, as)
            a == ActOf(s, evs, q)
<1>1. Len(evs) \in Nat /\ q \in 1..q /\ q - 1 \in 0..Len(evs) /\ 0 \in 0..Len(evs) /\ q - 1 \in 0..Len(evs)
      /\ evs[q].cmd \in Commands
  BY DEF Events
<1>2. Step(R, evs, as, q)
  BY StepIs
<1>3. R[q - 1] = r
  <2>1. IsReplay(r, s, evs, as, R)
    BY <1>1, ReplayIs
  <2>2. R[q - 1] = R[0]
    <3>1. q - 1 \in 0..Len(evs) /\ Quiet(s, evs, 0, q - 1)
      BY <1>1 DEF Quiet
    <3>2. Steady(s, evs, R)
      BY <1>1, ReplaySteady
    <3>. HIDE DEF R
    <3>. QED  BY <1>1, <3>1, <3>2 DEF Steady
  <2>. HIDE DEF R
  <2>. QED  BY <2>1, <2>2 DEF IsReplay
<1>4. a.sig = s /\ a.cmd = evs[q].cmd /\ a.arg = q
  BY DEF ActOf
<1>. HIDE DEF R, a
<1>5. \A i \in (q + 1)..q : FALSE
  BY <1>1
<1>6. evs[q].cmd = "+" => as[q] = R[q]
  BY <1>2 DEF Step
<1>7. evs[q].cmd = "*" => r # Absent /\ Override(r, as[q]) = Override(r, R[q])
  <2>1. evs[q].cmd = "*" => Whole(R[q - 1]) /\ R[q] = Override(R[q - 1], as[q])
    BY <1>2 DEF Step
  <2>. QED  BY <1>3, <2>1, AbsentIs, OverrideAgain
<1>. QED  BY <1>1, <1>4, <1>5, <1>6, <1>7 DEF Means, R, a

\* Merging the event p gives the arguments at.
Merges(evs, as, at, a, p) ==
    /\ evs[p].cmd # "*" => at = as
    /\ evs[p].cmd = "*" => Changed(Len(evs), as, at, a.arg, p)

\* An update of s up to q was carried back to the event i or over it.
Carried(s, evs, q, i) ==
    \E j \in 1..i, k \in (i + 1)..q : evs[j].sig = s /\ evs[k].sig = s /\ Updates(s, evs, j, k)

\* Elsewhere the records are what they were.
SameElse(s, evs, q, rec, ret) == \A i \in 0..Len(evs) : ~ Carried(s, evs, q, i) => ret[i] = rec[i]

\* It is possible, and the records after it are what they were.
NextMeans(r, s, evs, as, at, a, p) ==
    /\ MergeOk(a, ActOf(s, evs, p))
    /\ WholeArgs(evs, at) /\ Lawful(s, evs, Replay(r, s, evs, at))
    /\ Means(r, s, evs, at, Replay(r, s, evs, at), p, Merge(a, ActOf(s, evs, p)))
    /\ Replay(r, s, evs, at)[Len(evs)] = Replay(r, s, evs, as)[Len(evs)]
    /\ SameElse(s, evs, p, Replay(r, s, evs, as), Replay(r, s, evs, at))

\* The next event can be merged, and the merged action means what both do. The records after
\* it are what they were, also if the arguments have changed.
LEMMA MeansNext ==
  ASSUME NEW r, NEW s, NEW evs, NEW as, NEW at, Events(evs), WholeArgs(evs, as),
         r = Absent \/ Whole(r), Lawful(s, evs, Replay(r, s, evs, as)),
         NEW q \in 1..Len(evs), NEW p \in 1..Len(evs), q < p, evs[q].sig = s, evs[p].sig = s,
         Quiet(s, evs, q, p - 1),
         NEW a, Means(r, s, evs, as, Replay(r, s, evs, as), q, a),
         Merges(evs, as, at, a, p)
  PROVE  NextMeans(r, s, evs, as, at, a, p)
<1>. DEFINE R == Replay(r, s, evs, as)
            Q == Replay(r, s, evs, at)
            b == ActOf(s, evs, p)
            n == Len(evs)
<1>a. (evs[p].cmd # "*" => at = as) /\ (evs[p].cmd = "*" => Changed(n, as, at, a.arg, p))
  BY DEF Merges
<1>. SUFFICES /\ MergeOk(a, b)
              /\ WholeArgs(evs, at) /\ Lawful(s, evs, Q)
              /\ Means(r, s, evs, at, Q, p, Merge(a, b))
              /\ Q[n] = R[n]
              /\ SameElse(s, evs, p, R, Q)
  BY DEF NextMeans
<1>1. /\ n \in Nat /\ q \in Nat /\ p \in Nat /\ p - 1 \in 0..n /\ q \in 0..n /\ p \in 0..n
      /\ p \in 1..p /\ p \in p..n /\ n \in p..n
  BY DEF Events
<1>2. evs[p].cmd \in Commands /\ evs[q].cmd \in Commands
  BY DEF Events
<1>3. Step(R, evs, as, q) /\ Step(R, evs, as, p)
  BY StepIs
<1>4. R[p - 1] = R[q]
  <2>1. q \in 0..n /\ p - 1 \in q..n /\ Quiet(s, evs, q, p - 1)
    BY <1>1
  <2>2. Steady(s, evs, R)
    BY <1>1, ReplaySteady
  <2>. HIDE DEF R
  <2>. QED  BY <1>1, <2>1, <2>2 DEF Steady
<1>5. b.sig = s /\ b.cmd = evs[p].cmd /\ b.arg = p
  BY DEF ActOf
<1>6. Lawful(s, evs, R) /\ Means(r, s, evs, as, R, q, a)
  OBVIOUS
<1>. HIDE DEF b
<1>7. /\ a.sig = s /\ a.cmd \in Commands /\ a.arg \in 1..q /\ evs[a.arg].sig = s
      /\ a.cmd = "-" <=> evs[q].cmd = "-"
      /\ a.cmd # "-" => /\ evs[a.arg].cmd # "-"
                        /\ \A i \in (a.arg + 1)..q : evs[i].sig = s => evs[i].cmd = "*"
      /\ a.cmd = "+" => as[a.arg] = R[q]
      /\ a.cmd = "*" => IF r = Absent THEN Recreates(s, evs)
                        ELSE Override(r, as[a.arg]) = Override(r, R[q])
  <2>. HIDE DEF R
  <2>. QED  BY <1>6 DEF Means
<1>8. R[q] = Absent <=> a.cmd = "-"
  <2>. HIDE DEF R
  <2>. QED  BY <1>2, <1>3, <1>7, AbsentIs DEF Step, Commands
<1>9. R[q] = Absent <=> evs[p].cmd = "+"
  <2>. HIDE DEF R
  <2>. QED  BY <1>2, <1>3, <1>4, AbsentIs DEF Step, Commands
<1>10. \A i \in (p + 1)..p : FALSE
  BY <1>1
<1>14. Q = R => SameElse(s, evs, p, R, Q)
  <2>. HIDE DEF Q, R
  <2>. QED  BY DEF SameElse
\* An event that creates the record again.
<1>11. CASE evs[p].cmd = "+"
  <2>1. at = as /\ Q = R /\ a.cmd = "-" /\ evs[q].cmd = "-"
    BY <1>a, <1>7, <1>8, <1>9, <1>11
  <2>2. Merge(a, b) = [sig |-> s, cmd |-> "*", arg |-> p] /\ MergeOk(a, b)
    BY <1>5, <1>7, <1>11, <2>1 DEF Merge, MergeOk
  <2>3. as[p] = R[p] /\ Recreates(s, evs)
    <3>. HIDE DEF R
    <3>. QED  BY <1>3, <1>11, <2>1 DEF Step, Recreates
  <2>4. Means(r, s, evs, as, R, p, [sig |-> s, cmd |-> "*", arg |-> p])
    <3>. HIDE DEF R
    <3>. QED  BY <1>1, <1>10, <1>11, <2>3 DEF Means, Commands
  <2>. QED  BY <1>14, <2>1, <2>2, <2>4 DEF b
\* An event that deletes it.
<1>12. CASE evs[p].cmd = "-"
  <2>1. at = as /\ Q = R /\ a.cmd \in {"+", "*"}
    BY <1>a, <1>7, <1>8, <1>9, <1>12 DEF Commands
  <2>2. Merge(a, b) = b /\ MergeOk(a, b)
    BY <1>5, <1>7, <1>12, <2>1 DEF Merge, MergeOk
  <2>3. Means(r, s, evs, as, R, p, b)
    <3>. HIDE DEF R
    <3>. QED  BY <1>1, <1>5, <1>10, <1>12 DEF Means, Commands
  <2>. QED  BY <1>14, <2>1, <2>2, <2>3 DEF b
\* An update.
<1>13. CASE evs[p].cmd = "*"
  <2>. DEFINE m == a.arg
  <2>1. a.cmd \in {"+", "*"}
    BY <1>7, <1>8, <1>9, <1>13 DEF Commands
  <2>2. Merge(a, b) = a /\ MergeOk(a, b)
    BY <1>5, <1>7, <1>13, <2>1 DEF Merge, MergeOk
  <2>3. /\ m \in 1..n /\ m < p /\ m \in 1..p /\ evs[m].sig = s /\ evs[m].cmd # "-"
        /\ at[m] = Override(as[m], as[p]) /\ \A i \in 1..n : i # m => at[i] = as[i]
    <3>1. m \in 1..n /\ m < p /\ m \in 1..p
      BY <1>1, <1>7
    <3>. QED  BY <1>a, <1>7, <1>13, <2>1, <3>1 DEF Changed
  <2>4. \A i \in (m + 1)..p : evs[i].sig = s => evs[i].cmd = "*"
    <3>1. ASSUME NEW i \in (m + 1)..p, evs[i].sig = s
          PROVE  evs[i].cmd = "*"
      <4>1. m \in Nat /\ i \in Nat /\ (i \in (m + 1)..q \/ i \in (q + 1)..(p - 1) \/ i = p)
        BY <1>1, <2>3
      <4>. QED  BY <1>7, <1>13, <2>1, <3>1, <4>1 DEF Quiet
    <3>. QED  BY <3>1
  <2>. HIDE DEF m
  <2>5. /\ \A i \in 0..n : Q[i] = Absent <=> R[i] = Absent
        /\ \A i \in 0..n : i < m \/ p <= i => Q[i] = R[i]
        /\ Updates(s, evs, m, p)
    <3>1. Updates(s, evs, m, p) /\ Changed(n, as, at, m, p)
      BY <2>3, <2>4 DEF Updates, Changed
    <3>2. SameBut(n, m, p, R, Q)
      BY <2>3, <3>1, ReplayMerged
    <3>. HIDE DEF R, Q
    <3>. QED  BY <3>1, <3>2 DEF SameBut
  <2>. HIDE DEF R, Q
  <2>6. WholeArgs(evs, at)
    <3>1. ASSUME NEW i \in 1..n, evs[i].cmd = "+"
          PROVE  Whole(at[i])
      <4>1. Whole(as[i])
        BY <3>1 DEF WholeArgs
      <4>2. i = m => Whole(Override(as[i], as[p]))
        BY <4>1, OverrideIs
      <4>. QED  BY <2>3, <4>1, <4>2
    <3>. QED  BY <3>1 DEF WholeArgs
  <2>7. Lawful(s, evs, Q)
    <3>1. \A i \in 1..n : i - 1 \in 0..n
      BY <1>1
    <3>. QED  BY <1>6, <2>5, <3>1 DEF Lawful
  <2>8. R[p] = Override(R[q], as[p]) /\ Q[p] = R[p]
    <3>1. R[p] = Override(R[q], as[p])
      BY <1>3, <1>4, <1>13 DEF Step
    <3>2. p <= p
      BY <1>1
    <3>. QED  BY <1>1, <2>5, <3>1, <3>2
  <2>9. a.cmd = "+" => at[m] = Q[p]
    BY <1>7, <2>3, <2>8 DEF m
  <2>10. a.cmd = "*" => IF r = Absent THEN Recreates(s, evs) ELSE Override(r, at[m]) = Override(r, Q[p])
    <3>1. ASSUME a.cmd = "*", r # Absent
          PROVE  Override(r, at[m]) = Override(r, Q[p])
      <4>. DEFINE x == as[m]
                  y == as[p]
                  z == R[q]
      <4>1. Override(r, x) = Override(r, z)
        BY <1>7, <3>1 DEF m
      <4>. HIDE DEF x, y, z
      <4>2. Override(r, Override(x, y)) = Override(Override(r, x), y)
        BY OverrideTwice
      <4>3. Override(r, Override(z, y)) = Override(Override(r, z), y)
        BY OverrideTwice
      <4>4. Override(r, Override(x, y)) = Override(r, Override(z, y))
        BY <4>1, <4>2, <4>3
      <4>. QED  BY <2>3, <2>8, <4>4 DEF x, y, z
    <3>. QED  BY <1>7, <3>1
  <2>11. Means(r, s, evs, at, Q, p, a)
    <3>1. a.cmd = "-" <=> evs[p].cmd = "-"
      BY <1>13, <2>1
    <3>. QED  BY <1>7, <2>3, <2>4, <2>9, <2>10, <3>1 DEF Means, m
  <2>12. Q[n] = R[n]
    <3>1. n \in 0..n /\ p <= n
      BY <1>1
    <3>. QED  BY <2>5, <3>1
  <2>13. SameElse(s, evs, p, R, Q)
    <3>1. ASSUME NEW i \in 0..n, ~ Carried(s, evs, p, i)
          PROVE  Q[i] = R[i]
      <4>1. ASSUME m <= i, i < p
            PROVE  FALSE
        <5>1. m \in 1..i /\ p \in (i + 1)..p
          BY <1>1, <2>3, <4>1
        <5>. QED  BY <2>3, <2>5, <3>1, <5>1 DEF Carried
      <4>2. i \in Nat /\ m \in Nat /\ p \in Nat
        BY <1>1, <2>3
      <4>. QED  BY <2>5, <4>1, <4>2
    <3>. QED  BY <3>1 DEF SameElse
  <2>. QED  BY <2>2, <2>6, <2>7, <2>11, <2>12, <2>13 DEF b, Q, R
<1>. QED  BY <1>2, <1>11, <1>12, <1>13 DEF Commands

\* There is no record in the end, or it has all the fields it had.
Keeps(r, cur) == cur = Absent \/ DOMAIN r \subseteq DOMAIN cur

\* What the action of all events means.
LEMMA MeansLast ==
  ASSUME NEW r, NEW s, NEW evs, NEW as, Events(evs), WholeArgs(evs, as),
         r = Absent \/ Whole(r), Lawful(s, evs, Replay(r, s, evs, as)),
         NEW q \in 1..Len(evs), evs[q].sig = s, Quiet(s, evs, q, Len(evs)),
         NEW a, Means(r, s, evs, as, Replay(r, s, evs, as), q, a),
         NEW cur, Replay(r, s, evs, as)[Len(evs)] = cur,
         ~ (r = Absent /\ Recreates(s, evs)), Keeps(r, cur)
  PROVE  Applied(r, a.cmd, as[a.arg]) = cur
<1>. DEFINE R == Replay(r, s, evs, as)
<1>1. Len(evs) \in Nat /\ q \in 0..Len(evs) /\ Len(evs) \in q..Len(evs) /\ evs[q].cmd \in Commands
  BY DEF Events
<1>2. R[q] = cur
  <2>1. Quiet(s, evs, q, Len(evs))
    OBVIOUS
  <2>2. Steady(s, evs, R) /\ R[Len(evs)] = cur
    BY <1>1, ReplaySteady
  <2>. HIDE DEF R
  <2>. QED  BY <1>1, <2>1, <2>2 DEF Steady
<1>3. Step(R, evs, as, q)
  BY StepIs
<1>4. Means(r, s, evs, as, R, q, a)
  OBVIOUS
<1>. HIDE DEF R
<1>5. /\ a.cmd \in Commands /\ (a.cmd = "-" <=> evs[q].cmd = "-")
      /\ a.cmd = "+" => as[a.arg] = R[q]
      /\ a.cmd = "*" => r # Absent /\ Override(r, as[a.arg]) = Override(r, R[q])
  BY <1>4 DEF Means
<1>6. (a.cmd = "-" <=> cur = Absent) /\ (a.cmd # "-" => Whole(cur))
  BY <1>1, <1>2, <1>3, <1>5, AbsentIs DEF Step, Commands
<1>7. CASE a.cmd = "+"
  <2>1. Applied(r, "+", as[a.arg]) = as[a.arg]
    BY AppliedIs
  <2>. QED  BY <1>2, <1>5, <1>7, <2>1
<1>8. CASE a.cmd = "-"
  <2>. DEFINE f == as[a.arg]
  <2>. HIDE DEF f
  <2>1. Applied(r, "-", f) = Absent
    BY AppliedIs
  <2>. QED  BY <1>6, <1>8, <2>1 DEF f
<1>9. CASE a.cmd = "*"
  <2>1. r # Absent /\ Override(r, as[a.arg]) = Override(r, cur)
    BY <1>2, <1>5, <1>9
  <2>2. Applied(r, "*", as[a.arg]) = Override(r, as[a.arg])
    BY <2>1, AppliedIs
  <2>3. Override(r, cur) = cur
    BY <1>6, <1>9, AbsentIs, OverrideAll DEF Keeps
  <2>. QED  BY <1>9, <2>1, <2>2, <2>3
<1>. QED  BY <1>5, <1>7, <1>8, <1>9 DEF Commands

-----------------------------------------------------------------------------
(* Collecting the events of one signature *)

\* The events are sorted as the ledger has them.
Straight(o) == \A j \in 1..Len(o) : o[j] = j

\* What is sorted without a descent is the ledger itself.
LEMMA RisingIsStraight ==
  ASSUME NEW n \in Nat, NEW o \in [1..n -> 1..n],
         \A i, j \in 1..n : i < j => o[i] < o[j]
  PROVE  \A j \in 1..n : o[j] = j
<1>. DEFINE T == {j \in 0..n : j = 0 \/ j <= o[j]}
            U == {j \in 0..n : j = n \/ o[n - j] <= n - j}
<1>1. \A j \in 0..n : j \in T
  <2>1. ASSUME NEW j \in 1..n, j - 1 \in T
        PROVE  j \in T
    <3>1. CASE j = 1
      BY <3>1
    <3>2. CASE j # 1
      <4>1. j - 1 \in 1..n /\ j - 1 < j /\ j - 1 <= o[j - 1]
        BY <2>1, <3>2
      <4>2. o[j - 1] < o[j] /\ o[j] \in Nat /\ o[j - 1] \in Nat
        BY <4>1
      <4>. QED  BY <4>1, <4>2
    <3>. QED  BY <3>1, <3>2
  <2>2. 0 \in T /\ \A j \in 1..n : j - 1 \in T => j \in T
    BY <2>1
  <2>. HIDE DEF T
  <2>. QED  BY <2>2, Rounds
<1>2. \A j \in 0..n : j \in U
  <2>1. ASSUME NEW j \in 1..n, j - 1 \in U
        PROVE  j \in U
    <3>1. CASE j = n
      BY <3>1
    <3>2. CASE j # n
      <4>. DEFINE a == n - j
                  b == n - (j - 1)
      <4>1. a \in 1..n /\ b \in 1..n /\ a < b /\ o[b] <= b /\ b = a + 1
        BY <2>1, <3>2
      <4>2. o[a] < o[b] /\ o[a] \in Nat /\ o[b] \in Nat
        BY <4>1
      <4>. HIDE DEF a, b
      <4>3. o[a] <= a
        BY <4>1, <4>2
      <4>. QED  BY <4>3 DEF a
    <3>. QED  BY <3>1, <3>2
  <2>2. 0 \in U /\ \A j \in 1..n : j - 1 \in U => j \in U
    <3>1. n # 0 => n \in 1..n
      OBVIOUS
    <3>. QED  BY <2>1, <3>1
  <2>. HIDE DEF U
  <2>. QED  BY <2>2, Rounds
<1>3. ASSUME NEW j \in 1..n
      PROVE  o[j] = j
  <2>1. j <= o[j]
    BY <1>1
  <2>2. n - j \in 0..n /\ n - j # n /\ n - (n - j) = j
    OBVIOUS
  <2>3. o[n - (n - j)] <= n - (n - j)
    BY <1>2, <2>2
  <2>4. o[j] <= j /\ o[j] \in Nat
    BY <2>2, <2>3
  <2>. QED  BY <2>1, <2>4
<1>. QED  BY <1>3

\* What Collect has after i rounds: c.
Gathered(c, o, evs, s, i) ==
    /\ c \in Seq(1..Len(o)) /\ Len(c) <= i
    /\ Straight(o) =>
         /\ \A k \in 1..Len(c) : c[k] \in 1..i /\ evs[c[k]].sig = s
         /\ \A k, l \in 1..Len(c) : k < l => c[k] < c[l]
         /\ \A j \in 1..i : evs[j].sig = s => \E k \in 1..Len(c) : c[k] = j

LEMMA AppendOne ==
  ASSUME NEW S, NEW q \in Seq(S), NEW x \in S
  PROVE  /\ Len(q) \in Nat /\ Append(q, x) \in Seq(S)
         /\ Len(Append(q, x)) = Len(q) + 1
         /\ Append(q, x)[Len(q) + 1] = x
         /\ \A k \in 1..Len(q) : Append(q, x)[k] = q[k]
<1>1. Len(q) \in Nat
  BY LenProperties
<1>. QED  BY <1>1, AppendProperties

LEMMA GatherNone ==
  ASSUME NEW o, NEW evs, NEW s, NEW c, c = <<>>
  PROVE  Gathered(c, o, evs, s, 0)
<1>1. c \in Seq(1..Len(o)) /\ Len(c) = 0
  BY EmptySeq
<1>2. (\A k \in 1..Len(c) : FALSE) /\ (\A j \in 1..0 : FALSE)
  BY <1>1
<1>. QED  BY <1>1, <1>2 DEF Gathered

LEMMA GatherNext ==
  ASSUME NEW o, Len(o) \in Nat, \A j \in 1..Len(o) : o[j] \in 1..Len(o), NEW evs, NEW s,
         NEW i \in 1..Len(o), NEW c, Gathered(c, o, evs, s, i - 1), NEW e,
         e = IF evs[o[i]].sig = s THEN Append(c, o[i]) ELSE c
  PROVE  Gathered(e, o, evs, s, i)
<1>1. c \in Seq(1..Len(o)) /\ Len(c) <= i - 1
  BY DEF Gathered
<1>2. Len(c) \in Nat /\ i \in Nat
  BY <1>1, LenProperties
<1>3. CASE evs[o[i]].sig # s
  <2>1. e = c /\ Len(c) <= i
    BY <1>1, <1>2, <1>3
  <2>2. ASSUME Straight(o)
        PROVE  /\ \A k \in 1..Len(c) : c[k] \in 1..i /\ evs[c[k]].sig = s
               /\ \A k, l \in 1..Len(c) : k < l => c[k] < c[l]
               /\ \A j \in 1..i : evs[j].sig = s => \E k \in 1..Len(c) : c[k] = j
    <3>1. /\ \A k \in 1..Len(c) : c[k] \in 1..(i - 1) /\ evs[c[k]].sig = s
          /\ \A k, l \in 1..Len(c) : k < l => c[k] < c[l]
          /\ \A j \in 1..(i - 1) : evs[j].sig = s => \E k \in 1..Len(c) : c[k] = j
      BY <2>2 DEF Gathered
    <3>2. evs[i].sig # s
      BY <1>3, <2>2 DEF Straight
    <3>3. \A j \in 1..i : j = i \/ j \in 1..(i - 1)
      BY <1>2
    <3>4. \A j \in 1..(i - 1) : j \in 1..i
      BY <1>2
    <3>. QED  BY <3>1, <3>2, <3>3, <3>4
  <2>. QED  BY <1>1, <2>1, <2>2 DEF Gathered
<1>4. CASE evs[o[i]].sig = s
  <2>. DEFINE x == o[i]
              l == Len(c)
  <2>1. x \in 1..Len(o) /\ e = Append(c, x)
    BY <1>4
  <2>. HIDE DEF x
  <2>2. e \in Seq(1..Len(o)) /\ Len(e) = l + 1 /\ e[l + 1] = x /\ \A k \in 1..l : e[k] = c[k]
    <3>. DEFINE D == 1..Len(o)
    <3>1. c \in Seq(D) /\ x \in D
      BY <1>1, <2>1
    <3>. HIDE DEF D
    <3>2. /\ Append(c, x) \in Seq(D) /\ Len(Append(c, x)) = Len(c) + 1
          /\ Append(c, x)[Len(c) + 1] = x /\ \A k \in 1..Len(c) : Append(c, x)[k] = c[k]
      BY <3>1, AppendOne
    <3>. QED  BY <2>1, <3>2 DEF D
  <2>3. l \in Nat /\ Len(e) <= i
    BY <1>1, <1>2, <2>2
  <2>4. ASSUME Straight(o)
        PROVE  /\ \A k \in 1..Len(e) : e[k] \in 1..i /\ evs[e[k]].sig = s
               /\ \A k, m \in 1..Len(e) : k < m => e[k] < e[m]
               /\ \A j \in 1..i : evs[j].sig = s => \E k \in 1..Len(e) : e[k] = j
    <3>1. /\ \A k \in 1..l : c[k] \in 1..(i - 1) /\ evs[c[k]].sig = s
          /\ \A k, m \in 1..l : k < m => c[k] < c[m]
          /\ \A j \in 1..(i - 1) : evs[j].sig = s => \E k \in 1..l : c[k] = j
      BY <2>4 DEF Gathered
    <3>2. x = i /\ evs[i].sig = s
      BY <1>4, <2>4 DEF Straight, x
    <3>. HIDE DEF l
    <3>3. \A k \in 1..Len(e) : k = l + 1 \/ (k \in 1..l /\ k < l + 1)
      BY <2>2, <2>3
    <3>4. /\ \A j \in 1..(i - 1) : j \in 1..i /\ j < i
          /\ \A j \in 1..i : j = i \/ j \in 1..(i - 1)
          /\ i \in 1..i
      BY <1>2
    <3>5. l + 1 \in 1..Len(e) /\ \A k \in 1..l : k \in 1..Len(e)
      BY <2>2, <2>3
    <3>6. \A k \in 1..Len(e) : e[k] \in 1..i /\ evs[e[k]].sig = s
      BY <2>2, <3>1, <3>2, <3>3, <3>4
    <3>7. ASSUME NEW k \in 1..Len(e), NEW m \in 1..Len(e), k < m
          PROVE  e[k] < e[m]
      <4>1. k \in 1..l /\ e[k] = c[k] /\ c[k] < i
        <5>1. k # l + 1
          BY <2>2, <2>3, <3>7
        <5>. QED  BY <2>2, <3>1, <3>3, <3>4, <5>1
      <4>2. CASE m = l + 1
        BY <2>2, <3>2, <4>1, <4>2
      <4>3. CASE m \in 1..l
        BY <2>2, <3>1, <3>7, <4>1, <4>3
      <4>. QED  BY <3>3, <4>2, <4>3
    <3>8. \A j \in 1..i : evs[j].sig = s => \E k \in 1..Len(e) : e[k] = j
      BY <2>2, <3>1, <3>2, <3>4, <3>5
    <3>. QED  BY <3>6, <3>7, <3>8
  <2>. QED  BY <2>2, <2>3, <2>4 DEF Gathered
<1>. QED  BY <1>3, <1>4

\* The loop of Collect: what it has after each round.
Collecting(s, res) ==
    /\ Collect(s) = res[Len(order)] /\ res[0] = <<>>
    /\ \A i \in 1..Len(order) :
          res[i] = IF ledger[order[i]].sig = s THEN Append(res[i - 1], order[i]) ELSE res[i - 1]

LEMMA CollectRounds ==
  ASSUME NEW s, Len(order) \in Nat
  PROVE  \E res : Collecting(s, res)
<1>. DEFINE n == Len(order)
            Round(x, i) == IF ledger[order[i]].sig = s THEN Append(x, order[i]) ELSE x
            P(k, res) == res = [i \in 0..k |-> IF i = 0 THEN <<>> ELSE Round(res[i - 1], i)]
            T == {k \in 0..n : \E res : P(k, res)}
            o == CHOOSE res : P(n, res)
<1>1. Collect(s) = o[n]
  BY DEF Collect
<1>. HIDE DEF Round, n
<1>2. n \in Nat
  BY DEF n
<1>3. 0 \in T
  <2>1. P(0, [i \in 0..0 |-> <<>>])
    OBVIOUS
  <2>. HIDE DEF P
  <2>. QED  BY <1>2, <2>1
<1>4. ASSUME NEW k \in 1..n, k - 1 \in T
      PROVE  k \in T
  <2>1. PICK res : P(k - 1, res)
    BY <1>4
  <2>. DEFINE e == Round(res[k - 1], k)
              next == [i \in 0..k |-> IF i = k THEN e ELSE res[i]]
  <2>2. \A i \in 0..(k - 1) : res[i] = IF i = 0 THEN <<>> ELSE Round(res[i - 1], i)
    BY <2>1
  <2>3. \A i \in 0..k : next[i] = IF i = 0 THEN <<>> ELSE Round(next[i - 1], i)
    <3>1. ASSUME NEW i \in 0..k
          PROVE  next[i] = IF i = 0 THEN <<>> ELSE Round(next[i - 1], i)
      <4>1. CASE i = k
        <5>1. next[i] = e /\ k # 0 /\ next[k - 1] = res[k - 1]
          BY <1>2, <4>1
        <5>. QED  BY <4>1, <5>1
      <4>2. CASE i # k
        <5>1. i \in 0..(k - 1) /\ next[i] = res[i]
          BY <1>2, <4>2
        <5>2. i # 0 => next[i - 1] = res[i - 1]
          BY <1>2, <4>2
        <5>. QED  BY <2>2, <5>1, <5>2
      <4>. QED  BY <4>1, <4>2
    <3>. QED  BY <3>1
  <2>4. P(k, next)
    <3>1. next = [i \in 0..k |-> next[i]]
      OBVIOUS
    <3>. HIDE DEF next
    <3>. QED  BY <2>3, <3>1
  <2>. HIDE DEF P
  <2>. QED  BY <1>2, <2>4
<1>5. \E res : P(n, res)
  <2>1. \A i \in 1..n : i - 1 \in T => i \in T
    BY <1>4
  <2>. HIDE DEF T
  <2>2. n \in T
    BY <1>2, <1>3, <2>1, Rounds
  <2>. QED  BY <2>2 DEF T
<1>6. P(n, o)
  <2>. HIDE DEF P
  <2>. QED  BY <1>5
<1>. HIDE DEF o
<1>7. o[0] = <<>> /\ \A i \in 1..n : o[i] = Round(o[i - 1], i)
  BY <1>2, <1>6
<1>8. Collecting(s, o)
  BY <1>1, <1>7 DEF Round, n, Collecting
<1>. QED  BY <1>8

LEMMA OrderIs ==
  ASSUME MergeTypeOK
  PROVE  /\ Len(ledger) \in Nat /\ DOMAIN ledger = 1..Len(ledger)
         /\ sortedBy # "none" => /\ Len(order) = Len(ledger) /\ order \in [1..Len(ledger) -> 1..Len(ledger)]
                             /\ \A j \in 1..Len(order) : order[j] \in 1..Len(order)
<1>1. Len(ledger) \in Nat /\ DOMAIN ledger = 1..Len(ledger)
  BY LenProperties DEF MergeTypeOK
<1>. DEFINE n == Len(ledger)
<1>2. sortedBy # "none" => order \in [1..n -> 1..n]
  BY DEF MergeTypeOK, Orders
<1>. HIDE DEF n
<1>3. sortedBy # "none" => Len(order) = n
  <2>1. n \in Nat
    BY <1>1 DEF n
  <2>2. ASSUME order \in [1..n -> 1..n]
        PROVE  Len(order) = n
    <3>1. order \in Seq(1..n) /\ DOMAIN order = 1..n
      BY <2>1, <2>2, SeqDef
    <3>. QED  BY <2>1, <3>1, LenProperties
  <2>. QED  BY <1>2, <2>2
<1>. QED  BY <1>1, <1>2, <1>3 DEF n

\* Collect finds events, and all of them in their order if they are sorted as in the ledger.
LEMMA CollectIs ==
  ASSUME MergeTypeOK, sortedBy # "none", NEW s
  PROVE  /\ Len(Collect(s)) \in 0..Len(ledger)
         /\ \A k \in 1..Len(Collect(s)) : Collect(s)[k] \in 1..Len(ledger)
         /\ Straight(order) => Picks(Collect(s), s, ledger)
<1>0. SUFFICES ASSUME NEW n \in Nat, n = Len(ledger), n = Len(order)
               PROVE  /\ Len(Collect(s)) \in 0..n
                      /\ \A k \in 1..Len(Collect(s)) : Collect(s)[k] \in 1..n
                      /\ Straight(order) => Picks(Collect(s), s, ledger)
  BY OrderIs
<1>1. Len(order) \in Nat /\ \A j \in 1..n : order[j] \in 1..n
  BY <1>0, OrderIs
<1>2. PICK res : Collecting(s, res)
  BY <1>1, CollectRounds
<1>3. /\ Collect(s) = res[n] /\ res[0] = <<>>
      /\ \A i \in 1..n :
           res[i] = IF ledger[order[i]].sig = s THEN Append(res[i - 1], order[i]) ELSE res[i - 1]
  BY <1>0, <1>2 DEF Collecting
<1>. DEFINE T == {i \in 0..n : Gathered(res[i], order, ledger, s, i)}
<1>4. 0 \in T
  <2>1. Gathered(res[0], order, ledger, s, 0)
    BY <1>3, GatherNone
  <2>. QED  BY <1>0, <2>1
<1>5. ASSUME NEW i \in 1..n, i - 1 \in T
      PROVE  i \in T
  <2>1. Gathered(res[i - 1], order, ledger, s, i - 1)
    BY <1>5
  <2>2. i \in 0..n
    BY <1>0
  <2>3. SUFFICES ASSUME NEW o, o = order, NEW evs, evs = ledger, NEW c, c = res[i - 1], NEW e, e = res[i]
                 PROVE  Gathered(e, o, evs, s, i)
    BY <2>2
  <2>4. e = IF evs[o[i]].sig = s THEN Append(c, o[i]) ELSE c
    BY <1>3, <2>3
  <2>5. Gathered(c, o, evs, s, i - 1) /\ Len(o) = n
    BY <1>0, <2>1, <2>3
  <2>6. \A j \in 1..Len(o) : o[j] \in 1..Len(o)
    BY <1>1, <2>3, <2>5
  <2>. QED  BY <1>0, <2>4, <2>5, <2>6, GatherNext
<1>6. n \in T
  <2>1. \A i \in 1..n : i - 1 \in T => i \in T
    BY <1>5
  <2>. HIDE DEF T
  <2>2. \A i \in 0..n : i \in T
    BY <1>0, <1>4, <2>1, Rounds
  <2>. QED  BY <1>0, <2>2
<1>. SUFFICES ASSUME NEW c, c = Collect(s)
              PROVE  /\ Len(c) \in 0..n
                     /\ \A k \in 1..Len(c) : c[k] \in 1..n
                     /\ Straight(order) => Picks(c, s, ledger)
  OBVIOUS
<1>7. Gathered(c, order, ledger, s, n)
  BY <1>3, <1>6
<1>8. c \in Seq(1..n) /\ Len(c) <= n
  BY <1>0, <1>7 DEF Gathered
<1>9. Len(c) \in Nat /\ \A k \in 1..Len(c) : c[k] \in 1..n
  BY <1>8, LenProperties, ElementOfSeq
<1>10. ASSUME Straight(order)
       PROVE  Picks(c, s, ledger)
  BY <1>0, <1>7, <1>9, <1>10 DEF Gathered, Picks
<1>11. Len(c) \in 0..n
  BY <1>0, <1>8, <1>9
<1>. QED  BY <1>0, <1>9, <1>10, <1>11

-----------------------------------------------------------------------------
(* The invariant *)

\* Replaying the events of s leads from r to cur, and the commands are what they must be.
PlainOK(r, s, evs, as, cur) ==
    /\ r = Absent \/ Whole(r)
    /\ Lawful(s, evs, Replay(r, s, evs, as))
    /\ Replay(r, s, evs, as)[Len(evs)] = cur

\* The action a has the effect of the first k events of s.
PartOK(r, s, evs, as, k, c, a) ==
    k > 0 => k \in 1..Len(c) /\ Means(r, s, evs, as, Replay(r, s, evs, as), c[k], a)

\* The last of the first k events c.
LastOf(c, k) == IF k = 0 THEN 0 ELSE c[k]

\* Replaying the events of s leads through the records it had, h(i)[s] after event i, wherever no update
\* up to q was carried back.
RecallOK(r, s, evs, as, h, q) ==
    \A i \in 1..Len(evs) : ~ Carried(s, evs, q, i) => Replay(r, s, evs, as)[i] = h[i][s]

\* Revisions do not fall, and there are no more than events.
Growing ==
    /\ \A i, j \in 1..Len(ledger) : i < j => ledger[i].rev <= ledger[j].rev
    /\ ledger # <<>> => ledger[Len(ledger)].rev <= Len(ledger)

EvtInv ==
    /\ MergeTypeOK /\ Growing /\ WholeArgs(ledger, args)
    /\ sortedBy = "none" => count = [s \in Sigs |-> 0] /\ mergeErr = {}
    /\ sortedBy # "none" /\ InOrder => Straight(order)
    /\ sortedBy = "none" \/ InOrder =>
         \A s \in Sigs : /\ PlainOK(initial[s], s, ledger, args, current[s])
                         /\ RecallOK(initial[s], s, ledger, args, states, LastOf(Collect(s), count[s]))
    /\ sortedBy # "none" /\ InOrder =>
         \A s \in Sigs : /\ s \notin mergeErr
                         /\ PartOK(initial[s], s, ledger, args, count[s], Collect(s), merged[s])

\* e is q with x at its end.
Appended(e, q, x, n) ==
    /\ e = [i \in 1..(n + 1) |-> e[i]] /\ e[n + 1] = x
    /\ \A i \in 1..n : e[i] = q[i]

LEMMA AppendFun ==
  ASSUME NEW S, NEW n \in Nat, NEW q \in [1..n -> S], NEW x \in S
  PROVE  Appended(Append(q, x), q, x, n)
<1>1. q \in Seq(S) /\ DOMAIN q = 1..n
  BY SeqDef
<1>2. Len(q) = n
  BY <1>1, LenProperties
<1>3. Append(q, x) \in Seq(S) /\ Len(Append(q, x)) = n + 1
  BY <1>1, <1>2, AppendProperties
<1>4. Append(q, x) \in [1..(n + 1) -> S]
  BY <1>3, LenProperties
<1>5. Append(q, x)[n + 1] = x
  BY <1>1, <1>2, AppendProperties
<1>6. \A i \in 1..n : Append(q, x)[i] = q[i]
  BY <1>1, <1>2, AppendProperties
<1>. QED  BY <1>4, <1>5, <1>6 DEF Appended

\* The arguments of the ledger's events, and one more.
LEMMA AppendArg ==
  ASSUME NEW n \in Nat, NEW as, as = [i \in 1..n |-> as[i]], NEW x
  PROVE  Appended(Append(as, x), as, x, n)
<1>1. \E S : as \in [1..n -> S] /\ x \in S
  <2>1. as \in [1..n -> {as[i] : i \in 1..n} \cup {x}]
    OBVIOUS
  <2>. QED  BY <2>1
<1>2. PICK S : as \in [1..n -> S] /\ x \in S
  BY <1>1
<1>. QED  BY <1>2, AppendFun

\* The first n events are what they were.
Extends(n, evs, as, evt, at) == \A i \in 1..n : evt[i] = evs[i] /\ at[i] = as[i]

\* The next event leads to the next record.
LEMMA PlainNext ==
  ASSUME NEW n \in Nat, NEW r, NEW s, NEW evs, NEW as, NEW cur, PlainOK(r, s, evs, as, cur),
         NEW evt, NEW at, NEW new, Len(evs) = n, Len(evt) = n + 1,
         Extends(n, evs, as, evt, at),
         evt[n + 1].sig = s => /\ evt[n + 1].cmd = "+" <=> cur = Absent
                               /\ new = Applied(cur, evt[n + 1].cmd, at[n + 1]),
         evt[n + 1].sig # s => new = cur
  PROVE  PlainOK(r, s, evt, at, new)
<1>. DEFINE R == Replay(r, s, evs, as)
            Q == Replay(r, s, evt, at)
<1>1. \A i \in 0..n : Q[i] = R[i]
  <2>1. SameEvents(s, n, evs, as, evt, at)
    BY DEF SameEvents, Extends
  <2>2. Len(evs) \in Nat /\ Len(evt) \in Nat /\ n <= Len(evs) /\ n <= Len(evt)
    OBVIOUS
  <2>3. SameUpTo(n, R, Q)
    BY <2>1, <2>2, ReplaySame
  <2>. HIDE DEF R, Q
  <2>. QED  BY <2>3 DEF SameUpTo
<1>2. IsReplay(r, s, evt, at, Q)
  BY ReplayIs
<1>3. Lawful(s, evs, R) /\ R[n] = cur /\ (r = Absent \/ Whole(r))
  BY DEF PlainOK
<1>. HIDE DEF R, Q
<1>4. n + 1 \in 1..Len(evt) /\ n + 1 - 1 = n /\ n \in 0..n
  OBVIOUS
<1>5. Q[n] = cur
  BY <1>1, <1>3, <1>4
<1>6. Q[n + 1] = new
  BY <1>2, <1>4, <1>5 DEF IsReplay
<1>7. Lawful(s, evt, Q)
  <2>1. ASSUME NEW i \in 1..Len(evt), evt[i].sig = s
        PROVE  evt[i].cmd = "+" <=> Q[i - 1] = Absent
    <3>1. CASE i = n + 1
      BY <1>4, <1>5, <2>1, <3>1
    <3>2. CASE i # n + 1
      <4>1. i \in 1..n /\ i - 1 \in 0..n
        BY <3>2
      <4>. QED  BY <1>1, <1>3, <2>1, <4>1 DEF Lawful, Extends
    <3>. QED  BY <3>1, <3>2
  <2>. QED  BY <2>1 DEF Lawful
<1>. QED  BY <1>3, <1>6, <1>7 DEF PlainOK, Q

\* Before anything is merged every event is recalled, the next as well.
LEMMA RecallNext ==
  ASSUME NEW n \in Nat, NEW r, NEW s, NEW evs, NEW as, NEW h, RecallOK(r, s, evs, as, h, 0),
         NEW evt, NEW at, NEW new, NEW g, Len(evs) = n, Len(evt) = n + 1,
         Extends(n, evs, as, evt, at), PlainOK(r, s, evt, at, new),
         \A i \in 1..n : g[i] = h[i], g[n + 1][s] = new
  PROVE  RecallOK(r, s, evt, at, g, 0)
<1>. DEFINE R == Replay(r, s, evs, as)
            Q == Replay(r, s, evt, at)
<1>1. \A i \in 0..n : Q[i] = R[i]
  <2>1. SameEvents(s, n, evs, as, evt, at)
    BY DEF SameEvents, Extends
  <2>2. Len(evs) \in Nat /\ Len(evt) \in Nat /\ n <= Len(evs) /\ n <= Len(evt)
    OBVIOUS
  <2>3. SameUpTo(n, R, Q)
    BY <2>1, <2>2, ReplaySame
  <2>. HIDE DEF R, Q
  <2>. QED  BY <2>3 DEF SameUpTo
<1>2. Q[n + 1] = new
  BY DEF PlainOK
<1>3. \A i \in 1..n : ~ Carried(s, evs, 0, i) => R[i] = h[i][s]
  BY DEF RecallOK
<1>. HIDE DEF R, Q
<1>4. \A i \in 1..n : ~ Carried(s, evs, 0, i)
  BY DEF Carried
<1>5. ASSUME NEW i \in 1..Len(evt)
      PROVE  Q[i] = g[i][s]
  <2>1. CASE i = n + 1
    BY <1>2, <2>1
  <2>2. CASE i # n + 1
    <3>1. i \in 1..n /\ i \in 0..n
      BY <2>2
    <3>. QED  BY <1>1, <1>3, <1>4, <3>1
  <2>. QED  BY <2>1, <2>2
<1>. QED  BY <1>5 DEF RecallOK, Q

\* Further events are merged.
LEMMA RecallMerged ==
  ASSUME NEW r, NEW s, NEW evs, NEW as, NEW at, NEW h, NEW q \in Int, NEW p \in Int, q <= p,
         RecallOK(r, s, evs, as, h, q), Len(evs) \in Nat,
         SameElse(s, evs, p, Replay(r, s, evs, as), Replay(r, s, evs, at))
  PROVE  RecallOK(r, s, evs, at, h, p)
<1>1. ASSUME NEW i \in 1..Len(evs), Carried(s, evs, q, i)
      PROVE  Carried(s, evs, p, i)
  <2>1. \A k \in (i + 1)..q : k \in (i + 1)..p
    OBVIOUS
  <2>. QED  BY <1>1, <2>1 DEF Carried
<1>2. \A i \in 1..Len(evs) : i \in 0..Len(evs)
  OBVIOUS
<1>. QED  BY <1>1, <1>2 DEF RecallOK, SameElse

\* The first event of s is taken.
LEMMA PartFirst ==
  ASSUME NEW r, NEW s, NEW evs, NEW as, NEW cur, NEW c, Events(evs), WholeArgs(evs, as),
         PlainOK(r, s, evs, as, cur), Picks(c, s, evs), 0 < Len(c)
  PROVE  PartOK(r, s, evs, as, 1, c, ActOf(s, evs, c[1]))
<1>1. Len(evs) \in Nat
  BY DEF Events
<1>2. 1 \in 1..Len(c) /\ c[1] \in 1..Len(evs) /\ evs[c[1]].sig = s
  BY <1>1, PicksEnds DEF Picks
<1>3. \A i \in 1..(c[1] - 1) : evs[i].sig # s
  BY <1>1, PicksEnds
<1>4. (r = Absent \/ Whole(r)) /\ Lawful(s, evs, Replay(r, s, evs, as))
  BY DEF PlainOK
<1>. SUFFICES ASSUME NEW q, q = c[1]
              PROVE  Means(r, s, evs, as, Replay(r, s, evs, as), q, ActOf(s, evs, q))
  BY <1>2 DEF PartOK
<1>. QED  BY <1>2, <1>3, <1>4, MeansFirst

\* The next event of s is merged.
LEMMA PartNext ==
  ASSUME NEW r, NEW s, NEW evs, NEW as, NEW at, NEW cur, NEW c, Events(evs), WholeArgs(evs, as),
         PlainOK(r, s, evs, as, cur), Picks(c, s, evs), NEW k \in Nat, 0 < k, k < Len(c),
         NEW a, PartOK(r, s, evs, as, k, c, a), NEW p, p = c[k + 1],
         Merges(evs, as, at, a, p)
  PROVE  /\ MergeOk(a, ActOf(s, evs, p))
         /\ WholeArgs(evs, at) /\ PlainOK(r, s, evs, at, cur)
         /\ PartOK(r, s, evs, at, k + 1, c, Merge(a, ActOf(s, evs, p)))
         /\ c[k] < p /\ SameElse(s, evs, p, Replay(r, s, evs, as), Replay(r, s, evs, at))
<1>1. Len(evs) \in Nat /\ Len(c) \in Nat
  BY DEF Events, Picks
<1>2. k \in 1..Len(c) /\ k + 1 \in 1..Len(c)
  BY <1>1
<1>. SUFFICES ASSUME NEW q, q = c[k]
              PROVE  /\ MergeOk(a, ActOf(s, evs, p))
                     /\ WholeArgs(evs, at) /\ PlainOK(r, s, evs, at, cur)
                     /\ PartOK(r, s, evs, at, k + 1, c, Merge(a, ActOf(s, evs, p)))
                     /\ q < p /\ SameElse(s, evs, p, Replay(r, s, evs, as), Replay(r, s, evs, at))
  OBVIOUS
<1>3. q \in 1..Len(evs) /\ p \in 1..Len(evs) /\ q < p /\ Quiet(s, evs, q, p - 1)
  BY <1>1, <1>2, PicksNext DEF Quiet
<1>4. evs[q].sig = s /\ evs[p].sig = s
  BY <1>2 DEF Picks
<1>5. (r = Absent \/ Whole(r)) /\ Lawful(s, evs, Replay(r, s, evs, as)) /\ Replay(r, s, evs, as)[Len(evs)] = cur
  BY DEF PlainOK
<1>6. Means(r, s, evs, as, Replay(r, s, evs, as), q, a)
  BY DEF PartOK
<1>7. /\ MergeOk(a, ActOf(s, evs, p))
      /\ WholeArgs(evs, at) /\ Lawful(s, evs, Replay(r, s, evs, at))
      /\ Means(r, s, evs, at, Replay(r, s, evs, at), p, Merge(a, ActOf(s, evs, p)))
      /\ Replay(r, s, evs, at)[Len(evs)] = Replay(r, s, evs, as)[Len(evs)]
      /\ SameElse(s, evs, p, Replay(r, s, evs, as), Replay(r, s, evs, at))
  <2>1. NextMeans(r, s, evs, as, at, a, p)
    BY <1>3, <1>4, <1>5, <1>6, MeansNext
  <2>. QED  BY <2>1 DEF NextMeans
<1>9. PlainOK(r, s, evs, at, cur)
  BY <1>5, <1>7 DEF PlainOK
<1>10. PartOK(r, s, evs, at, k + 1, c, Merge(a, ActOf(s, evs, p)))
  BY <1>2, <1>7 DEF PartOK
<1>. QED  BY <1>3, <1>7, <1>9, <1>10

\* Merging events of one signature leaves the others alone.
LEMMA PartOther ==
  ASSUME NEW r, NEW s, NEW evs, NEW as, NEW at, NEW cur, NEW c, Events(evs),
         PlainOK(r, s, evs, as, cur), Picks(c, s, evs), NEW k, NEW a, PartOK(r, s, evs, as, k, c, a),
         \A i \in 1..Len(evs) : evs[i].sig = s => at[i] = as[i]
  PROVE  /\ PlainOK(r, s, evs, at, cur) /\ PartOK(r, s, evs, at, k, c, a)
         /\ \A q : SameElse(s, evs, q, Replay(r, s, evs, as), Replay(r, s, evs, at))
<1>. DEFINE R == Replay(r, s, evs, as)
            Q == Replay(r, s, evs, at)
<1>1. Len(evs) \in Nat
  BY DEF Events
<1>2. \A i \in 0..Len(evs) : Q[i] = R[i]
  <2>1. SameEvents(s, Len(evs), evs, as, evs, at)
    BY DEF SameEvents
  <2>2. SameUpTo(Len(evs), R, Q)
    <3>1. SUFFICES ASSUME NEW n \in Nat, n = Len(evs), SameEvents(s, n, evs, as, evs, at)
                   PROVE  SameUpTo(n, R, Q)
      BY <1>1, <2>1
    <3>2. n <= Len(evs) /\ Len(evs) \in Nat
      BY <3>1
    <3>. QED  BY <3>1, <3>2, ReplaySame
  <2>. HIDE DEF R, Q
  <2>. QED  BY <2>2 DEF SameUpTo
<1>3. (r = Absent \/ Whole(r)) /\ Lawful(s, evs, R) /\ R[Len(evs)] = cur
  BY DEF PlainOK
<1>4. PartOK(r, s, evs, as, k, c, a) <=> (k > 0 => k \in 1..Len(c) /\ Means(r, s, evs, as, R, c[k], a))
  BY DEF PartOK
<1>. HIDE DEF R, Q
<1>5. Len(evs) \in 0..Len(evs) /\ \A i \in 1..Len(evs) : i - 1 \in 0..Len(evs) /\ i \in 0..Len(evs)
  BY <1>1
<1>6. Lawful(s, evs, Q) /\ Q[Len(evs)] = cur
  BY <1>2, <1>3, <1>5 DEF Lawful
<1>7. ASSUME k > 0
      PROVE  k \in 1..Len(c) /\ Means(r, s, evs, at, Q, c[k], a)
  <2>1. k \in 1..Len(c) /\ Means(r, s, evs, as, R, c[k], a)
    BY <1>4, <1>7
  <2>. SUFFICES ASSUME NEW q, q = c[k]
                PROVE  Means(r, s, evs, at, Q, q, a)
    BY <2>1
  <2>2. q \in 1..Len(evs) /\ Means(r, s, evs, as, R, q, a)
    BY <2>1 DEF Picks
  <2>3. Q[q] = R[q]
    BY <1>2, <1>5, <2>2
  <2>4. a.arg \in 1..q /\ evs[a.arg].sig = s
    BY <2>2 DEF Means
  <2>5. at[a.arg] = as[a.arg]
    <3>1. a.arg \in 1..Len(evs)
      BY <1>1, <2>2, <2>4
    <3>. QED  BY <2>4, <3>1
  <2>. QED  BY <2>2, <2>3, <2>5 DEF Means
<1>8. PlainOK(r, s, evs, at, cur)
  BY <1>3, <1>6 DEF PlainOK, Q
<1>9. PartOK(r, s, evs, at, k, c, a)
  BY <1>7 DEF PartOK, Q
<1>10. \A q : SameElse(s, evs, q, R, Q)
  BY <1>2 DEF SameElse
<1>. QED  BY <1>8, <1>9, <1>10 DEF R, Q

\* Whatever is overridden stays whole.
LEMMA WholeChanged ==
  ASSUME NEW evs, NEW as, NEW at, WholeArgs(evs, as), NEW p, NEW q, Changed(Len(evs), as, at, p, q)
  PROVE  WholeArgs(evs, at)
<1>1. ASSUME NEW i \in 1..Len(evs), evs[i].cmd = "+"
      PROVE  Whole(at[i])
  <2>1. Whole(as[i])
    BY <1>1 DEF WholeArgs
  <2>2. i = p => Whole(Override(as[i], as[q]))
    BY <2>1, OverrideIs
  <2>. QED  BY <2>1, <2>2 DEF Changed
<1>. QED  BY <1>1 DEF WholeArgs

-----------------------------------------------------------------------------
(* Every step keeps the invariant *)

LEMMA LedgerIs ==
  ASSUME MergeTypeOK
  PROVE  /\ Len(ledger) \in Nat /\ Len(ledger) <= MaxEvents /\ MaxEvents \in Nat /\ Events(ledger)
         /\ \A i \in 1..Len(ledger) : /\ ledger[i].sig \in Sigs /\ ledger[i].rev \in 1..MaxEvents
                                      /\ ledger[i] \in [sig : Sigs, cmd : Commands, rev : 1..MaxEvents]
         /\ \A s \in Sigs : initial[s] = Absent \/ Whole(initial[s])
<1>1. /\ ledger \in Seq([sig : Sigs, cmd : Commands, rev : 1..MaxEvents]) /\ Len(ledger) <= MaxEvents
      /\ initial \in [Sigs -> Records]
  BY DEF MergeTypeOK, Commands
<1>2. Len(ledger) \in Nat /\ \A i \in 1..Len(ledger) : ledger[i] \in [sig : Sigs, cmd : Commands, rev : 1..MaxEvents]
  BY <1>1, LenProperties, ElementOfSeq
<1>3. Events(ledger)
  BY <1>2 DEF Events
<1>4. \A s \in Sigs : initial[s] = Absent \/ Whole(initial[s])
  BY <1>1, MergeAssumption DEF Records, Whole
<1>. QED  BY <1>1, <1>2, <1>3, <1>4, MergeAssumption

\* Without events the record is what it was.
LEMMA PlainNone ==
  ASSUME NEW r, NEW s, NEW evs, NEW as, NEW n, n = 0, Len(evs) = n, r = Absent \/ Whole(r)
  PROVE  PlainOK(r, s, evs, as, r)
<1>. DEFINE R == Replay(r, s, evs, as)
<1>0. Len(evs) \in Nat
  OBVIOUS
<1>1. IsReplay(r, s, evs, as, R)
  BY <1>0, ReplayIs
<1>. HIDE DEF R
<1>2. R[Len(evs)] = r /\ \A i \in 1..Len(evs) : FALSE
  BY <1>1 DEF IsReplay
<1>3. Lawful(s, evs, R)
  BY <1>2 DEF Lawful
<1>. QED  BY <1>2, <1>3 DEF PlainOK, R

LEMMA MergeInitInv == MergeInit => EvtInv
<1>. SUFFICES ASSUME MergeInit
              PROVE  EvtInv
  OBVIOUS
<1>1. /\ ledger = <<>> /\ args = <<>> /\ states = <<>> /\ sortedBy = "none" /\ order = <<>> /\ mergeErr = {}
      /\ initial = [s \in Sigs |-> Absent] /\ current = [s \in Sigs |-> Absent]
      /\ merged = [s \in Sigs |-> NoAction] /\ count = [s \in Sigs |-> 0]
  BY DEF MergeInit
<1>2. ledger \in Seq([sig : Sigs, cmd : {"+", "*", "-"}, rev : 1..MaxEvents]) /\ Len(ledger) = 0
  BY <1>1, EmptySeq
<1>3. Absent \in Records
  BY DEF Records
<1>4. args = [i \in 1..0 |-> args[i]] /\ states = [i \in 1..0 |-> states[i]]
  BY <1>1
<1>5. MergeTypeOK
  BY <1>1, <1>2, <1>3, <1>4, MergeAssumption DEF MergeTypeOK
<1>6. Growing
  BY <1>1, <1>2 DEF Growing
<1>7. WholeArgs(ledger, args)
  BY <1>2 DEF WholeArgs
<1>8. ASSUME NEW s \in Sigs
      PROVE  PlainOK(initial[s], s, ledger, args, current[s])
  <2>. SUFFICES ASSUME NEW r, r = Absent, NEW evs, evs = ledger, NEW as, as = args
                PROVE  PlainOK(r, s, evs, as, r)
    BY <1>1
  <2>. QED  BY <1>2, PlainNone
<1>9. \A s \in Sigs : RecallOK(initial[s], s, ledger, args, states, LastOf(Collect(s), count[s]))
  BY <1>2 DEF RecallOK
<1>. QED  BY <1>1, <1>5, <1>6, <1>7, <1>8, <1>9 DEF EvtInv

LEMMA PresetInv ==
  ASSUME EvtInv, NEW s \in Sigs, NEW r \in NewArgs, Preset(s, r)
  PROVE  EvtInv'
<1>1. /\ ledger = <<>> /\ sortedBy = "none"
      /\ initial' = [initial EXCEPT ![s] = r] /\ current' = [current EXCEPT ![s] = r]
      /\ ledger' = ledger /\ args' = args /\ states' = states /\ sortedBy' = sortedBy /\ order' = order
      /\ merged' = merged /\ count' = count /\ mergeErr' = mergeErr
  BY DEF Preset
<1>2. MergeTypeOK /\ Growing /\ WholeArgs(ledger, args) /\ count = [z \in Sigs |-> 0] /\ mergeErr = {}
      /\ \A z \in Sigs : PlainOK(initial[z], z, ledger, args, current[z])
  BY <1>1 DEF EvtInv
<1>3. MergeTypeOK'
  <2>1. initial' \in [Sigs -> Records] /\ DOMAIN current' = Sigs
    BY <1>1, <1>2 DEF MergeTypeOK, Records
  <2>2. (IF sortedBy = "none" THEN order = <<>> ELSE order \in Orders)'
    BY <1>1, <1>2 DEF MergeTypeOK
  <2>. QED  BY <1>1, <1>2, <2>1, <2>2 DEF MergeTypeOK
<1>4. ASSUME NEW z \in Sigs
      PROVE  PlainOK(initial[z], z, ledger, args, current[z])'
  <2>1. CASE z # s
    <3>1. initial'[z] = initial[z] /\ current'[z] = current[z]
      BY <1>1, <1>2, <2>1 DEF MergeTypeOK
    <3>. QED  BY <1>1, <1>2, <3>1
  <2>2. CASE z = s
    <3>1. initial'[z] = r /\ current'[z] = r /\ Len(ledger) = 0 /\ Whole(r)
      BY <1>1, <1>2, <2>2, EmptySeq, MergeAssumption DEF MergeTypeOK, Whole
    <3>2. PlainOK(r, z, ledger, args, r)
      <4>. SUFFICES ASSUME NEW evs, evs = ledger, NEW as, as = args
                    PROVE  PlainOK(r, z, evs, as, r)
        OBVIOUS
      <4>. QED  BY <3>1, PlainNone
    <3>. QED  BY <1>1, <3>1, <3>2
  <2>. QED  BY <2>1, <2>2
<1>5. Growing' /\ WholeArgs(ledger, args)'
  BY <1>1, <1>2 DEF Growing
<1>6. \A z \in Sigs : RecallOK(initial[z], z, ledger, args, states, LastOf(Collect(z), count[z]))'
  <2>1. Len(ledger') = 0
    BY <1>1, EmptySeq
  <2>. QED  BY <2>1 DEF RecallOK
<1>. QED  BY <1>1, <1>2, <1>3, <1>4, <1>5, <1>6 DEF EvtInv

LEMMA PublishInv ==
  ASSUME EvtInv, NEW s \in Sigs, NEW cmd \in Commands, NEW fields, cmd = "+" => fields \in NewArgs,
         NEW joins \in BOOLEAN, Publish(s, cmd, fields, joins)
  PROVE  EvtInv'
<1>. DEFINE n == Len(ledger)
            last == IF ledger = <<>> THEN 0 ELSE Last(ledger).rev
            e == [sig |-> s, cmd |-> cmd, rev |-> IF joins THEN last ELSE last + 1]
<1>1. /\ sortedBy = "none" /\ n < MaxEvents /\ (joins => ledger # <<>>)
      /\ (cmd = "+") = (current[s] = Absent)
      /\ ledger' = Append(ledger, e) /\ args' = Append(args, fields)
      /\ current' = [current EXCEPT ![s] = Applied(current[s], cmd, fields)]
      /\ states' = Append(states, current')
      /\ initial' = initial /\ sortedBy' = sortedBy /\ order' = order
      /\ merged' = merged /\ count' = count /\ mergeErr' = mergeErr
  BY DEF Publish, Legal
<1>2. MergeTypeOK /\ Growing /\ WholeArgs(ledger, args) /\ count = [z \in Sigs |-> 0] /\ mergeErr = {}
      /\ \A z \in Sigs : /\ PlainOK(initial[z], z, ledger, args, current[z])
                         /\ RecallOK(initial[z], z, ledger, args, states, LastOf(Collect(z), count[z]))
  BY <1>1 DEF EvtInv
<1>3. /\ n \in Nat /\ MaxEvents \in Nat
      /\ \A i \in 1..n : ledger[i].rev \in 1..MaxEvents
  BY <1>2, LedgerIs
<1>4. ledger # <<>> => n \in 1..n
  <2>1. ledger \in Seq([sig : Sigs, cmd : {"+", "*", "-"}, rev : 1..MaxEvents])
    BY <1>2 DEF MergeTypeOK
  <2>2. ledger # <<>> => n # 0
    BY <2>1, EmptySeq
  <2>. QED  BY <1>3, <2>2
<1>5. /\ last \in 0..MaxEvents /\ last <= n
      /\ ledger # <<>> => last \in 1..MaxEvents /\ last = ledger[n].rev
      /\ \A i \in 1..n : ledger[i].rev <= last
  <2>1. CASE ledger = <<>>
    <3>1. n = 0 /\ last = 0
      BY <2>1, EmptySeq
    <3>. QED  BY <1>3, <2>1, <3>1
  <2>2. CASE ledger # <<>>
    <3>1. last = ledger[n].rev
      BY <2>2 DEF Last
    <3>2. last \in 1..MaxEvents /\ last <= n
      BY <1>2, <1>3, <1>4, <2>2, <3>1 DEF Growing
    <3>3. \A i \in 1..n : ledger[i].rev <= last
      <4>1. ASSUME NEW i \in 1..n
            PROVE  ledger[i].rev <= last
        <5>1. i < n \/ i = n
          BY <1>3
        <5>2. n \in 1..n
          BY <1>4, <2>2
        <5>. QED  BY <1>2, <3>1, <3>2, <5>1, <5>2 DEF Growing
      <4>. QED  BY <4>1
    <3>. QED  BY <1>3, <2>2, <3>1, <3>2, <3>3
  <2>. QED  BY <2>1, <2>2
<1>. HIDE DEF last
<1>6. e.rev \in 1..MaxEvents /\ last <= e.rev /\ e.rev <= n + 1
  BY <1>1, <1>3, <1>5
<1>7. e \in [sig : Sigs, cmd : {"+", "*", "-"}, rev : 1..MaxEvents] /\ e.sig = s /\ e.cmd = cmd
  BY <1>6 DEF Commands
<1>. HIDE DEF e
<1>8. /\ ledger' \in Seq([sig : Sigs, cmd : {"+", "*", "-"}, rev : 1..MaxEvents])
      /\ Len(ledger') = n + 1 /\ ledger'[n + 1] = e /\ \A i \in 1..n : ledger'[i] = ledger[i]
  <2>. DEFINE E == [sig : Sigs, cmd : {"+", "*", "-"}, rev : 1..MaxEvents]
  <2>1. ledger \in Seq(E) /\ e \in E
    BY <1>2, <1>7 DEF MergeTypeOK
  <2>. HIDE DEF E
  <2>2. /\ Append(ledger, e) \in Seq(E) /\ Len(Append(ledger, e)) = n + 1
        /\ Append(ledger, e)[n + 1] = e /\ \A i \in 1..n : Append(ledger, e)[i] = ledger[i]
    BY <2>1, AppendOne
  <2>. QED  BY <1>1, <2>2 DEF E
<1>9. Appended(args', args, fields, n)
  <2>1. SUFFICES ASSUME NEW k \in Nat, k = n, NEW as, as = args
                 PROVE  Appended(Append(as, fields), as, fields, k)
    BY <1>1, <1>3
  <2>2. as = [i \in 1..k |-> as[i]]
    BY <1>2, <2>1 DEF MergeTypeOK
  <2>. QED  BY <2>2, AppendArg
<1>10. /\ args' = [i \in 1..(n + 1) |-> args'[i]] /\ args'[n + 1] = fields
       /\ \A i \in 1..n : args'[i] = args[i]
  BY <1>9 DEF Appended
<1>15. Appended(states', states, current', n)
  <2>1. SUFFICES ASSUME NEW k \in Nat, k = n, NEW as, as = states, NEW x, x = current'
                 PROVE  Appended(Append(as, x), as, x, k)
    BY <1>1, <1>3
  <2>2. as = [i \in 1..k |-> as[i]]
    BY <1>2, <2>1 DEF MergeTypeOK
  <2>. QED  BY <2>2, AppendArg
<1>16. /\ states' = [i \in 1..(n + 1) |-> states'[i]] /\ states'[n + 1] = current'
       /\ \A i \in 1..n : states'[i] = states[i]
  BY <1>15 DEF Appended
<1>11. MergeTypeOK'
  <2>1. count' \in [Sigs -> 0..Len(ledger')] /\ \A z \in Sigs : count'[z] = 0
    BY <1>1, <1>2, <1>3, <1>8
  <2>2. /\ Len(ledger') <= MaxEvents /\ args' = [i \in 1..Len(ledger') |-> args'[i]]
        /\ states' = [i \in 1..Len(ledger') |-> states'[i]]
    BY <1>1, <1>3, <1>8, <1>10, <1>16
  <2>3. \A z \in Sigs : merged'[z] = NoAction
    BY <1>1, <1>2 DEF MergeTypeOK
  <2>4. DOMAIN current' = Sigs /\ initial' \in [Sigs -> Records] /\ DOMAIN merged' = Sigs
        /\ order' = <<>> /\ sortedBy' = "none" /\ mergeErr' \subseteq Sigs
    BY <1>1, <1>2 DEF MergeTypeOK
  <2>. QED  BY <1>8, <2>1, <2>2, <2>3, <2>4 DEF MergeTypeOK
<1>12. Growing'
  <2>1. ASSUME NEW i \in 1..(n + 1), NEW j \in 1..(n + 1), i < j
        PROVE  ledger'[i].rev <= ledger'[j].rev
    <3>1. i \in 1..n /\ (j = n + 1 \/ j \in 1..n)
      BY <1>3, <2>1
    <3>2. CASE j = n + 1
      <4>1. ledger'[i].rev = ledger[i].rev /\ ledger'[j].rev = e.rev
        BY <1>8, <3>1, <3>2
      <4>2. ledger[i].rev \in Int /\ last \in Int /\ e.rev \in Int
        BY <1>3, <1>5, <1>6, <3>1
      <4>3. ledger[i].rev <= last /\ last <= e.rev
        BY <1>5, <1>6, <3>1
      <4>. QED  BY <4>1, <4>2, <4>3
    <3>3. CASE j \in 1..n
      BY <1>2, <1>8, <2>1, <3>1, <3>3 DEF Growing
    <3>. QED  BY <3>1, <3>2, <3>3
  <2>2. ledger'[Len(ledger')].rev <= Len(ledger')
    BY <1>6, <1>8
  <2>. QED  BY <1>8, <2>1, <2>2 DEF Growing
<1>13. WholeArgs(ledger, args)'
  <2>1. ASSUME NEW i \in 1..(n + 1), ledger'[i].cmd = "+"
        PROVE  Whole(args'[i])
    <3>1. i = n + 1 \/ i \in 1..n
      BY <1>3
    <3>2. CASE i = n + 1
      <4>1. fields \in NewArgs
        BY <1>7, <1>8, <2>1, <3>2
      <4>. QED  BY <1>10, <3>2, <4>1, MergeAssumption DEF Whole
    <3>3. CASE i \in 1..n
      BY <1>2, <1>8, <1>10, <2>1, <3>3 DEF WholeArgs
    <3>. QED  BY <3>1, <3>2, <3>3
  <2>. QED  BY <1>8, <2>1 DEF WholeArgs
<1>14. ASSUME NEW z \in Sigs
       PROVE  /\ PlainOK(initial[z], z, ledger, args, current[z])'
              /\ RecallOK(initial[z], z, ledger, args, states, LastOf(Collect(z), count[z]))'
  <2>1. SUFFICES ASSUME NEW k \in Nat, k = n, NEW r, r = initial[z], NEW evs, evs = ledger, NEW as, as = args,
                        NEW cur, cur = current[z], NEW evt, evt = ledger', NEW at, at = args',
                        NEW new, new = current'[z], NEW h, h = states, NEW g, g = states'
                 PROVE  PlainOK(r, z, evt, at, new) /\ RecallOK(r, z, evt, at, g, 0)
    <3>1. LastOf(Collect(z), count[z])' = 0
      BY <1>1, <1>2 DEF LastOf
    <3>. QED  BY <1>1, <1>3, <3>1
  <2>2. PlainOK(r, z, evs, as, cur) /\ RecallOK(r, z, evs, as, h, 0)
    <3>1. LastOf(Collect(z), count[z]) = 0
      BY <1>2 DEF LastOf
    <3>. QED  BY <1>2, <2>1, <3>1
  <2>3. Len(evs) = k /\ Len(evt) = k + 1 /\ Extends(k, evs, as, evt, at)
    BY <1>8, <1>10, <2>1 DEF Extends
  <2>4. evt[k + 1] = e /\ at[k + 1] = fields
    BY <1>8, <1>10, <2>1
  <2>5. /\ z = s => new = Applied(cur, cmd, fields)
        /\ z # s => new = cur
    BY <1>1, <1>2, <2>1 DEF MergeTypeOK
  <2>6. z = s => (cmd = "+" <=> cur = Absent)
    BY <1>1, <2>1
  <2>7. evt[k + 1].sig = s /\ evt[k + 1].cmd = cmd
    BY <1>7, <2>4
  <2>8. evt[k + 1].sig = z => /\ evt[k + 1].cmd = "+" <=> cur = Absent
                              /\ new = Applied(cur, evt[k + 1].cmd, at[k + 1])
    BY <2>4, <2>5, <2>6, <2>7
  <2>9. evt[k + 1].sig # z => new = cur
    BY <2>5, <2>7
  <2>10. PlainOK(r, z, evt, at, new)
    BY <2>2, <2>3, <2>8, <2>9, PlainNext
  <2>11. (\A i \in 1..k : g[i] = h[i]) /\ g[k + 1][z] = new
    BY <1>16, <2>1
  <2>12. RecallOK(r, z, evt, at, g, 0)
    BY <2>2, <2>3, <2>10, <2>11, RecallNext
  <2>. QED  BY <2>10, <2>12
<1>. QED  BY <1>1, <1>2, <1>11, <1>12, <1>13, <1>14 DEF EvtInv

LEMMA SortByInv ==
  ASSUME EvtInv, NEW key \in {"id", "rev"}, SortBy(key)
  PROVE  EvtInv'
<1>1. PICK o \in Orders :
        /\ \A i, j \in DOMAIN o : i < j => ~ (IF key = "id" THEN ByID(o[j], o[i]) ELSE ByRev(o[j], o[i]))
        /\ order' = o
  BY DEF SortBy
<1>2. /\ sortedBy = "none" /\ sortedBy' = key
      /\ ledger' = ledger /\ args' = args /\ initial' = initial /\ current' = current /\ states' = states
      /\ merged' = merged /\ count' = count /\ mergeErr' = mergeErr
  BY DEF SortBy
<1>3. MergeTypeOK /\ Growing /\ WholeArgs(ledger, args) /\ count = [z \in Sigs |-> 0] /\ mergeErr = {}
      /\ \A z \in Sigs : /\ PlainOK(initial[z], z, ledger, args, current[z])
                         /\ RecallOK(initial[z], z, ledger, args, states, LastOf(Collect(z), count[z]))
  BY <1>2 DEF EvtInv
<1>4. SUFFICES ASSUME NEW n \in Nat, n = Len(ledger)
               PROVE  EvtInv'
  BY <1>3, LedgerIs
<1>5. /\ o \in [1..n -> 1..n] /\ DOMAIN o = 1..n
      /\ \A i, j \in 1..n : o[i] = o[j] => i = j
  BY <1>4 DEF Orders, IsInjective
<1>6. MergeTypeOK'
  <2>1. Orders' = Orders
    BY <1>2 DEF Orders
  <2>2. (IF sortedBy = "none" THEN order = <<>> ELSE order \in Orders)'
    BY <1>1, <1>2, <2>1
  <2>3. sortedBy' \in {"none", "id", "rev"}
    BY <1>2
  <2>. QED  BY <1>2, <1>3, <2>2, <2>3 DEF MergeTypeOK
<1>7. ASSUME InOrder'
      PROVE  Straight(order)'
  <2>1. ASSUME NEW i \in 1..n, NEW j \in 1..n, i < j
        PROVE  o[i] < o[j]
    <3>1. o[i] \in 1..n /\ o[j] \in 1..n /\ o[i] # o[j]
      BY <1>5, <2>1
    <3>2. CASE key = "id"
      <4>1. ~ ByID(o[j], o[i])
        BY <1>1, <1>5, <2>1, <3>2
      <4>. QED  BY <3>1, <4>1 DEF ByID
    <3>3. CASE key = "rev"
      <4>1. ~ ByRev(o[j], o[i])
        BY <1>1, <1>5, <2>1, <3>3
      <4>2. ledger[o[i]].rev <= ledger[o[j]].rev
        <5>1. ledger[o[i]].rev \in 1..MaxEvents /\ ledger[o[j]].rev \in 1..MaxEvents /\ MaxEvents \in Nat
          BY <1>3, <1>4, <3>1, LedgerIs
        <5>. QED  BY <4>1, <5>1 DEF ByRev
      <4>3. ledger[o[i]].rev # ledger[o[j]].rev
        <5>1. \A a, b \in DOMAIN ledger : a # b => ledger[a].rev # ledger[b].rev
          BY <1>2, <1>7, <3>3 DEF InOrder
        <5>2. DOMAIN ledger = 1..n
          BY <1>3, <1>4, OrderIs
        <5>. QED  BY <3>1, <5>1, <5>2
      <4>4. o[j] < o[i] => ledger[o[j]].rev <= ledger[o[i]].rev
        BY <1>3, <1>4, <3>1 DEF Growing
      <4>5. ledger[o[i]].rev \in Nat /\ ledger[o[j]].rev \in Nat
        BY <1>3, <1>4, <3>1, LedgerIs
      <4>. QED  BY <3>1, <4>2, <4>3, <4>4, <4>5
    <3>. QED  BY <3>2, <3>3
  <2>2. \A j \in 1..n : o[j] = j
    BY <1>5, <2>1, RisingIsStraight
  <2>3. Len(o) = n
    <3>1. o \in Seq(1..n)
      BY <1>5, SeqDef
    <3>. QED  BY <1>5, <3>1, LenProperties
  <2>. QED  BY <1>1, <2>2, <2>3 DEF Straight
<1>8. Growing' /\ WholeArgs(ledger, args)'
  BY <1>2, <1>3 DEF Growing
<1>9. ASSUME NEW z \in Sigs
      PROVE  /\ PlainOK(initial[z], z, ledger, args, current[z])'
             /\ RecallOK(initial[z], z, ledger, args, states, LastOf(Collect(z), count[z]))'
             /\ z \notin mergeErr'
             /\ PartOK(initial[z], z, ledger, args, count[z], Collect(z), merged[z])'
  <2>1. count'[z] = 0 /\ LastOf(Collect(z), count[z])' = 0 /\ LastOf(Collect(z), count[z]) = 0
    BY <1>2, <1>3 DEF LastOf
  <2>2. PartOK(initial[z], z, ledger, args, count[z], Collect(z), merged[z])'
    BY <2>1 DEF PartOK
  <2>3. RecallOK(initial[z], z, ledger, args, states, LastOf(Collect(z), count[z]))'
    <3>1. RecallOK(initial[z], z, ledger, args, states, 0)
      BY <1>3, <2>1
    <3>. QED  BY <1>2, <2>1, <3>1
  <2>. QED  BY <1>2, <1>3, <2>2, <2>3
<1>10. sortedBy' # "none"
  BY <1>2
<1>. QED  BY <1>6, <1>7, <1>8, <1>9, <1>10 DEF EvtInv

LEMMA MergeNextInv ==
  ASSUME EvtInv, NEW s \in Sigs, MergeNext(s)
  PROVE  EvtInv'
<1>1. SUFFICES ASSUME NEW n, n = Len(ledger), NEW c, c = Collect(s), NEW k, k = count[s],
                      NEW a, a = merged[s], NEW p, p = c[k + 1],
                      NEW up, up = MergedArgs(a, ActionOf(p))
               PROVE  EvtInv'
  OBVIOUS
<1>. DEFINE b == ActionOf(p)
<1>2. /\ sortedBy # "none" /\ k < Len(c) /\ s \notin mergeErr
      /\ count' = [count EXCEPT ![s] = k + 1]
      /\ ledger' = ledger /\ initial' = initial /\ current' = current /\ states' = states
      /\ sortedBy' = sortedBy /\ order' = order
  BY <1>1 DEF MergeNext
<1>3. \/ k = 0 /\ merged' = [merged EXCEPT ![s] = b] /\ args' = args /\ mergeErr' = mergeErr
      \/ k > 0 /\ MergeOk(a, b) /\ merged' = [merged EXCEPT ![s] = Merge(a, b)]
               /\ args' = up /\ mergeErr' = mergeErr
      \/ k > 0 /\ ~ MergeOk(a, b) /\ mergeErr' = mergeErr \cup {s} /\ merged' = merged /\ args' = args
  BY <1>1 DEF MergeNext
<1>4. /\ MergeTypeOK /\ Growing /\ WholeArgs(ledger, args)
      /\ InOrder => /\ Straight(order)
                    /\ \A z \in Sigs : /\ PlainOK(initial[z], z, ledger, args, current[z])
                                       /\ RecallOK(initial[z], z, ledger, args, states, LastOf(Collect(z), count[z]))
                                       /\ z \notin mergeErr
                                       /\ PartOK(initial[z], z, ledger, args, count[z], Collect(z), merged[z])
  BY <1>2 DEF EvtInv
<1>5. /\ n \in Nat /\ Len(c) \in 0..n /\ k \in 0..n /\ k + 1 \in 1..Len(c) /\ p \in 1..n
      /\ k > 0 => a.arg \in 1..n
      /\ Events(ledger)
  <2>1. n \in Nat /\ Events(ledger)
    BY <1>1, <1>4, LedgerIs
  <2>2. Len(c) \in 0..n /\ \A i \in 1..Len(c) : c[i] \in 1..n
    BY <1>1, <1>2, <1>4, CollectIs
  <2>3. k \in 0..n /\ (k > 0 => a.arg \in 1..n)
    BY <1>1, <1>4 DEF MergeTypeOK
  <2>4. k + 1 \in 1..Len(c)
    BY <1>2, <2>1, <2>2, <2>3
  <2>. QED  BY <1>1, <2>1, <2>2, <2>3, <2>4
<1>6. b.arg = p /\ b.cmd = ledger[p].cmd /\ b.sig = ledger[p].sig
  BY DEF ActionOf
<1>7. \A z : Collect(z)' = Collect(z)
  BY <1>2 DEF Collect
<1>8. /\ DOMAIN merged' = Sigs /\ merged'[s].arg \in 1..n
      /\ \A z \in Sigs : z # s => merged'[z] = merged[z]
  <2>1. DOMAIN merged = Sigs
    BY <1>4 DEF MergeTypeOK
  <2>. HIDE DEF b
  <2>2. Merge(a, b).arg \in {a.arg, b.arg}
    BY DEF Merge
  <2>. QED  BY <1>1, <1>3, <1>5, <1>6, <2>1, <2>2
<1>9. /\ args = [i \in 1..n |-> args[i]]
      /\ k > 0 => Merges(ledger, args, up, a, p) /\ up = [i \in 1..n |-> up[i]]
  <2>1. args = [i \in 1..n |-> args[i]]
    BY <1>1, <1>4 DEF MergeTypeOK
  <2>2. ASSUME k > 0
        PROVE  Merges(ledger, args, up, a, p) /\ up = [i \in 1..n |-> up[i]]
    <3>. DEFINE f == Override(args[a.arg], args[p])
    <3>1. up = IF ledger[p].cmd = "*" THEN [args EXCEPT ![a.arg] = f] ELSE args
      BY <1>1, <1>6 DEF MergedArgs
    <3>. HIDE DEF f
    <3>2. CASE ledger[p].cmd = "*"
      <4>1. up = [args EXCEPT ![a.arg] = f] /\ a.arg \in 1..n
        BY <1>5, <2>2, <3>1, <3>2
      <4>2. up[a.arg] = f /\ (\A i \in 1..n : i # a.arg => up[i] = args[i]) /\ up = [i \in 1..n |-> up[i]]
        BY <2>1, <4>1
      <4>. QED  BY <1>1, <3>2, <4>2 DEF Merges, Changed, f
    <3>3. CASE ledger[p].cmd # "*"
      BY <2>1, <3>1, <3>3 DEF Merges
    <3>. QED  BY <3>2, <3>3
  <2>. QED  BY <2>1, <2>2
<1>10. WholeArgs(ledger, args)'
  <2>1. CASE args' = args
    BY <1>2, <1>4, <2>1
  <2>2. CASE args' # args
    <3>1. Changed(n, args, args', a.arg, p)
      BY <1>1, <1>3, <1>9, <2>2 DEF Merges
    <3>2. WholeArgs(ledger, args')
      <4>. SUFFICES ASSUME NEW evs, evs = ledger, NEW as, as = args, NEW at, at = args', NEW m, m = a.arg
                    PROVE  WholeArgs(evs, at)
        OBVIOUS
      <4>. QED  BY <1>1, <1>4, <3>1, WholeChanged
    <3>. QED  BY <1>2, <3>2
  <2>. QED  BY <2>1, <2>2
<1>11. MergeTypeOK'
  <2>1. /\ count' \in [Sigs -> 0..n] /\ count'[s] = k + 1
        /\ \A z \in Sigs : z # s => count'[z] = count[z]
    <3>1. count \in [Sigs -> 0..n] /\ k + 1 \in 0..n
      BY <1>1, <1>4, <1>5 DEF MergeTypeOK
    <3>. QED  BY <1>2, <3>1
  <2>2. \A z \in Sigs : IF count'[z] = 0 THEN merged'[z] = NoAction ELSE merged'[z].arg \in 1..n
    <3>1. ASSUME NEW z \in Sigs
          PROVE  IF count'[z] = 0 THEN merged'[z] = NoAction ELSE merged'[z].arg \in 1..n
      <4>1. CASE z = s
        BY <1>5, <1>8, <2>1, <4>1
      <4>2. CASE z # s
        BY <1>1, <1>4, <1>8, <2>1, <4>2 DEF MergeTypeOK
      <4>. QED  BY <4>1, <4>2
    <3>. QED  BY <3>1
  <2>3. mergeErr' \subseteq Sigs
    BY <1>3, <1>4 DEF MergeTypeOK
  <2>4. (IF sortedBy = "none" THEN order = <<>> ELSE order \in Orders)'
    BY <1>2, <1>4 DEF MergeTypeOK, Orders
  <2>5. args' = [i \in 1..n |-> args'[i]]
    BY <1>3, <1>9
  <2>. QED  BY <1>1, <1>2, <1>4, <1>8, <2>1, <2>2, <2>3, <2>4, <2>5 DEF MergeTypeOK
<1>12. ASSUME InOrder, NEW z \in Sigs
       PROVE  /\ PlainOK(initial[z], z, ledger, args, current[z])'
              /\ RecallOK(initial[z], z, ledger, args, states, LastOf(Collect(z), count[z]))'
              /\ z \notin mergeErr'
              /\ PartOK(initial[z], z, ledger, args, count[z], Collect(z), merged[z])'
  <2>1. /\ Straight(order) /\ PlainOK(initial[z], z, ledger, args, current[z])
        /\ RecallOK(initial[z], z, ledger, args, states, LastOf(Collect(z), count[z]))
        /\ PlainOK(initial[s], s, ledger, args, current[s])
        /\ PartOK(initial[z], z, ledger, args, count[z], Collect(z), merged[z])
        /\ PartOK(initial[s], s, ledger, args, k, c, a)
        /\ z \notin mergeErr
    BY <1>1, <1>4, <1>12
  <2>2. Picks(c, s, ledger) /\ Picks(Collect(z), z, ledger)
    BY <1>1, <1>2, <1>4, <2>1, CollectIs
  <2>3. b = ActOf(s, ledger, p)
    <3>1. ledger[p].sig = s
      BY <1>1, <1>5, <2>2 DEF Picks
    <3>. QED  BY <3>1 DEF ActionOf, ActOf
  <2>4. ASSUME k > 0
        PROVE  /\ MergeOk(a, b) /\ args' = up /\ merged'[s] = Merge(a, b) /\ mergeErr' = mergeErr
               /\ PlainOK(initial[s], s, ledger, up, current[s])
               /\ PartOK(initial[s], s, ledger, up, k + 1, c, Merge(a, b))
               /\ z = s => RecallOK(initial[s], s, ledger, up, states, p)
    <3>1. /\ MergeOk(a, b) /\ PlainOK(initial[s], s, ledger, up, current[s])
          /\ PartOK(initial[s], s, ledger, up, k + 1, c, Merge(a, b))
          /\ z = s => RecallOK(initial[s], s, ledger, up, states, p)
      <4>1. SUFFICES ASSUME NEW r, r = initial[s], NEW evs, evs = ledger, NEW as, as = args,
                            NEW cur, cur = current[s], NEW h, h = states, NEW q, q = c[k]
                     PROVE  /\ MergeOk(a, ActOf(s, evs, p)) /\ PlainOK(r, s, evs, up, cur)
                            /\ PartOK(r, s, evs, up, k + 1, c, Merge(a, ActOf(s, evs, p)))
                            /\ z = s => RecallOK(r, s, evs, up, h, p)
        BY <2>3
      <4>2. /\ Events(evs) /\ WholeArgs(evs, as) /\ PlainOK(r, s, evs, as, cur) /\ Picks(c, s, evs)
            /\ PartOK(r, s, evs, as, k, c, a) /\ Merges(evs, as, up, a, p)
        BY <1>4, <1>5, <1>9, <2>1, <2>2, <2>4, <4>1
      <4>3. k \in Nat /\ 0 < k /\ k < Len(c) /\ p = c[k + 1]
        BY <1>1, <1>2, <1>5, <2>4
      <4>4. /\ MergeOk(a, ActOf(s, evs, p)) /\ PlainOK(r, s, evs, up, cur)
            /\ PartOK(r, s, evs, up, k + 1, c, Merge(a, ActOf(s, evs, p)))
            /\ q < p /\ SameElse(s, evs, p, Replay(r, s, evs, as), Replay(r, s, evs, up))
        BY <4>1, <4>2, <4>3, PartNext
      <4>5. ASSUME z = s
            PROVE  RecallOK(r, s, evs, up, h, p)
        <5>1. RecallOK(r, s, evs, as, h, q)
          BY <1>1, <2>1, <2>4, <4>1, <4>5 DEF LastOf
        <5>2. q \in Int /\ p \in Int /\ q <= p /\ Len(evs) \in Nat
          <6>1. k \in 1..Len(c)
            BY <1>5, <2>4
          <6>. QED  BY <1>1, <1>5, <2>2, <4>1, <4>4, <6>1 DEF Picks
        <5>. QED  BY <4>4, <5>1, <5>2, RecallMerged
      <4>. QED  BY <4>4, <4>5
    <3>2. merged' = [merged EXCEPT ![s] = Merge(a, b)] /\ args' = up /\ mergeErr' = mergeErr
      BY <1>3, <2>4, <3>1
    <3>. QED  BY <1>4, <3>1, <3>2 DEF MergeTypeOK
  <2>5. mergeErr' = mergeErr
    BY <1>3, <1>5, <2>4
  <2>6. CASE z = s
    <3>1. count'[z] = k + 1 /\ Collect(z)' = c /\ LastOf(Collect(z), count[z])' = p
      <4>1. count'[z] = k + 1 /\ Collect(z)' = c
        BY <1>1, <1>2, <1>4, <1>7, <2>6 DEF MergeTypeOK
      <4>. QED  BY <1>1, <1>5, <4>1 DEF LastOf
    <3>2. CASE k = 0
      <4>1. args' = args /\ merged'[z] = b
        BY <1>3, <1>4, <2>6, <3>2 DEF MergeTypeOK
      <4>2. PartOK(initial[s], s, ledger, args, 1, c, b)
        <5>1. SUFFICES ASSUME NEW r, r = initial[s], NEW evs, evs = ledger, NEW as, as = args,
                              NEW cur, cur = current[s]
                       PROVE  PartOK(r, s, evs, as, 1, c, ActOf(s, evs, c[1]))
          BY <1>1, <2>3, <3>2
        <5>2. Events(evs) /\ WholeArgs(evs, as) /\ PlainOK(r, s, evs, as, cur) /\ Picks(c, s, evs) /\ 0 < Len(c)
          BY <1>2, <1>4, <1>5, <2>1, <2>2, <3>2, <5>1
        <5>. QED  BY <5>2, PartFirst
      <4>3. RecallOK(initial[s], s, ledger, args, states, p)
        <5>1. SUFFICES ASSUME NEW r, r = initial[s], NEW evs, evs = ledger, NEW as, as = args, NEW h, h = states
                       PROVE  RecallOK(r, s, evs, as, h, p)
          OBVIOUS
        <5>2. RecallOK(r, s, evs, as, h, 0)
          BY <1>1, <2>1, <2>6, <3>2, <5>1 DEF LastOf
        <5>3. SameElse(s, evs, p, Replay(r, s, evs, as), Replay(r, s, evs, as))
          BY DEF SameElse
        <5>4. 0 <= p /\ p \in Int /\ 0 \in Int /\ Len(evs) \in Nat
          BY <1>1, <1>5, <5>1
        <5>. QED  BY <5>2, <5>3, <5>4, RecallMerged
      <4>. QED  BY <1>2, <2>1, <2>5, <2>6, <3>1, <3>2, <4>1, <4>2, <4>3
    <3>3. CASE k > 0
      BY <1>2, <2>1, <2>4, <2>5, <2>6, <3>1, <3>3
    <3>. QED  BY <1>5, <3>2, <3>3
  <2>7. CASE z # s
    <3>1. /\ count'[z] = count[z] /\ Collect(z)' = Collect(z) /\ merged'[z] = merged[z]
          /\ LastOf(Collect(z), count[z])' = LastOf(Collect(z), count[z])
      <4>1. count'[z] = count[z] /\ Collect(z)' = Collect(z) /\ merged'[z] = merged[z]
        BY <1>2, <1>4, <1>7, <1>8, <2>7 DEF MergeTypeOK
      <4>. QED  BY <4>1 DEF LastOf
    <3>2. \A i \in 1..n : ledger[i].sig = z => args'[i] = args[i]
      <4>1. CASE args' = args
        BY <4>1
      <4>2. CASE args' # args
        <5>1. k > 0 /\ Changed(n, args, args', a.arg, p)
          BY <1>1, <1>3, <1>9, <4>2 DEF Merges
        <5>2. ledger[a.arg].sig = s
          BY <2>1, <5>1 DEF PartOK, Means
        <5>. QED  BY <2>7, <5>1, <5>2 DEF Changed
      <4>. QED  BY <4>1, <4>2
    <3>3. /\ PlainOK(initial[z], z, ledger, args', current[z])
          /\ PartOK(initial[z], z, ledger, args', count[z], Collect(z), merged[z])
          /\ RecallOK(initial[z], z, ledger, args', states, LastOf(Collect(z), count[z]))
      <4>1. SUFFICES ASSUME NEW r, r = initial[z], NEW evs, evs = ledger, NEW as, as = args, NEW at, at = args',
                            NEW cur, cur = current[z], NEW l, l = count[z], NEW d, d = Collect(z),
                            NEW m, m = merged[z], NEW h, h = states
                     PROVE  /\ PlainOK(r, z, evs, at, cur) /\ PartOK(r, z, evs, at, l, d, m)
                            /\ RecallOK(r, z, evs, at, h, LastOf(d, l))
        OBVIOUS
      <4>2. /\ Events(evs) /\ PlainOK(r, z, evs, as, cur) /\ Picks(d, z, evs) /\ PartOK(r, z, evs, as, l, d, m)
        BY <1>5, <2>1, <2>2, <4>1
      <4>3. \A i \in 1..Len(evs) : evs[i].sig = z => at[i] = as[i]
        BY <1>1, <3>2, <4>1
      <4>4. /\ PlainOK(r, z, evs, at, cur) /\ PartOK(r, z, evs, at, l, d, m)
            /\ \A q : SameElse(z, evs, q, Replay(r, z, evs, as), Replay(r, z, evs, at))
        BY <4>2, <4>3, PartOther
      <4>5. RecallOK(r, z, evs, as, h, LastOf(d, l))
        BY <2>1, <4>1
      <4>6. LastOf(d, l) \in Int /\ Len(evs) \in Nat
        <5>1. l > 0 => l \in 1..Len(d)
          BY <4>2 DEF PartOK
        <5>2. l \in Nat
          BY <1>4, <1>5, <4>1 DEF MergeTypeOK
        <5>3. \A i \in 1..Len(d) : d[i] \in Int
          BY <4>2 DEF Picks
        <5>. QED  BY <1>1, <1>5, <4>1, <5>1, <5>2, <5>3 DEF LastOf
      <4>7. RecallOK(r, z, evs, at, h, LastOf(d, l))
        <5>1. SUFFICES ASSUME NEW q \in Int, q = LastOf(d, l)
                       PROVE  RecallOK(r, z, evs, at, h, q)
          BY <4>6
        <5>2. RecallOK(r, z, evs, as, h, q)
          BY <4>5, <5>1
        <5>3. SameElse(z, evs, q, Replay(r, z, evs, as), Replay(r, z, evs, at))
          BY <4>4
        <5>4. q <= q /\ Len(evs) \in Nat
          BY <4>6
        <5>. QED  BY <5>2, <5>3, <5>4, RecallMerged
      <4>. QED  BY <4>4, <4>7
    <3>. QED  BY <1>2, <2>1, <2>5, <3>1, <3>3
  <2>. QED  BY <2>6, <2>7
<1>13. InOrder' => InOrder
  BY <1>2 DEF InOrder
<1>14. Growing'
  BY <1>2, <1>4 DEF Growing
<1>15. ASSUME InOrder'
       PROVE  /\ Straight(order)'
              /\ \A z \in Sigs : /\ PlainOK(initial[z], z, ledger, args, current[z])'
                                 /\ RecallOK(initial[z], z, ledger, args, states, LastOf(Collect(z), count[z]))'
                                 /\ z \notin mergeErr'
                                 /\ PartOK(initial[z], z, ledger, args, count[z], Collect(z), merged[z])'
  <2>1. InOrder
    BY <1>13, <1>15
  <2>2. Straight(order)'
    BY <1>2, <1>4, <2>1 DEF Straight
  <2>. QED  BY <1>12, <2>1, <2>2
<1>16. sortedBy' # "none"
  BY <1>2
<1>. HIDE DEF b
<1>. QED  BY <1>10, <1>11, <1>14, <1>15, <1>16 DEF EvtInv

LEMMA MergeStepInv == EvtInv /\ [MergeSteps]_mergeVars => EvtInv'
<1>. SUFFICES ASSUME EvtInv, [MergeSteps]_mergeVars
              PROVE  EvtInv'
  OBVIOUS
<1>1. CASE \E s \in Sigs, r \in NewArgs : Preset(s, r)
  BY <1>1, PresetInv
<1>2. CASE MergePublish
  <2>1. PICK s \in Sigs, joins \in BOOLEAN :
          \/ \E fields \in NewArgs : Publish(s, "+", fields, joins)
          \/ \E fields \in ModArgs : Publish(s, "*", fields, joins)
          \/ Publish(s, "-", <<>>, joins)
    BY <1>2 DEF MergePublish
  <2>2. "+" \in Commands /\ "*" \in Commands /\ "-" \in Commands
    BY DEF Commands
  <2>3. CASE \E fields \in NewArgs : Publish(s, "+", fields, joins)
    BY <2>2, <2>3, PublishInv
  <2>4. CASE \E fields \in ModArgs : Publish(s, "*", fields, joins)
    BY <2>2, <2>4, PublishInv
  <2>5. CASE Publish(s, "-", <<>>, joins)
    BY <2>2, <2>5, PublishInv
  <2>. QED  BY <2>1, <2>3, <2>4, <2>5
<1>3. CASE \E key \in {"id", "rev"} : SortBy(key)
  BY <1>3, SortByInv
<1>4. CASE \E s \in Sigs : MergeNext(s)
  BY <1>4, MergeNextInv
<1>5. CASE UNCHANGED mergeVars
  <2>1. /\ ledger' = ledger /\ args' = args /\ initial' = initial /\ current' = current /\ states' = states
        /\ sortedBy' = sortedBy /\ order' = order /\ merged' = merged /\ count' = count
        /\ mergeErr' = mergeErr
    BY <1>5 DEF mergeVars
  <2>2. MergeTypeOK' /\ Growing' /\ WholeArgs(ledger, args)' /\ (InOrder' <=> InOrder)
        /\ (Straight(order)' <=> Straight(order))
    BY <2>1 DEF EvtInv, MergeTypeOK, Orders, Growing, InOrder, Straight
  <2>3. \A s : Collect(s)' = Collect(s)
    BY <2>1 DEF Collect
  <2>. QED  BY <2>1, <2>2, <2>3 DEF EvtInv
<1>. QED  BY <1>1, <1>2, <1>3, <1>4, <1>5 DEF MergeSteps

\* Every state of the merger is typed; as long as the events are in the ledger's order each is
\* replayed from a record to a record, and what Merge has made of the first of a signature has
\* the effect of them (evt/utl.go).
THEOREM MergeInvariant == MergeSpec => []EvtInv
<1>. QED  BY MergeInitInv, MergeStepInv, PTL DEF MergeSpec

LEMMA EvtInvMeans == EvtInv => MergedMeansAll
<1>. SUFFICES ASSUME EvtInv
              PROVE  MergedMeansAll
  OBVIOUS
<1>1. MergeTypeOK /\ WholeArgs(ledger, args)
  BY DEF EvtInv
<1>2. ASSUME NEW s \in Sigs, InOrder, sortedBy # "none"
      PROVE  s \notin mergeErr
  BY <1>2 DEF EvtInv
<1>3. ASSUME NEW s \in Sigs, InOrder, sortedBy # "none",
             count[s] = Len(Collect(s)), count[s] > 0, ~ Recreated(s), ~ Narrowed(s)
      PROVE  Applied(initial[s], merged[s].cmd, args[merged[s].arg]) = current[s]
  <2>1. SUFFICES ASSUME NEW r, r = initial[s], NEW evs, evs = ledger, NEW as, as = args,
                        NEW cur, cur = current[s], NEW a, a = merged[s], NEW c, c = Collect(s),
                        NEW q, q = c[Len(c)]
                 PROVE  Applied(r, a.cmd, as[a.arg]) = cur
    OBVIOUS
  <2>2. /\ Events(evs) /\ WholeArgs(evs, as) /\ (r = Absent \/ Whole(r))
        /\ Picks(c, s, evs) /\ Len(c) > 0 /\ Len(evs) \in Nat
    <3>1. Straight(order)
      BY <1>3 DEF EvtInv
    <3>2. Picks(Collect(s), s, ledger)
      BY <1>1, <1>3, <3>1, CollectIs
    <3>. QED  BY <1>1, <1>3, <2>1, <3>2, LedgerIs
  <2>3. PlainOK(r, s, evs, as, cur) /\ PartOK(r, s, evs, as, Len(c), c, a)
    BY <1>3, <2>1 DEF EvtInv
  <2>4. Lawful(s, evs, Replay(r, s, evs, as)) /\ Replay(r, s, evs, as)[Len(evs)] = cur
    BY <2>3 DEF PlainOK
  <2>5. Means(r, s, evs, as, Replay(r, s, evs, as), q, a)
    BY <2>1, <2>2, <2>3 DEF PartOK
  <2>6. q \in 1..Len(evs) /\ evs[q].sig = s /\ Quiet(s, evs, q, Len(evs))
    <3>1. Len(c) \in 1..Len(c) /\ q \in 1..Len(evs) /\ \A i \in (q + 1)..Len(evs) : evs[i].sig # s
      BY <2>1, <2>2, PicksEnds
    <3>. QED  BY <2>1, <2>2, <3>1 DEF Picks, Quiet
  <2>7. ~ (r = Absent /\ Recreates(s, evs))
    <3>1. DOMAIN ledger = 1..Len(ledger)
      BY <1>1, OrderIs
    <3>. QED  BY <1>3, <2>1, <3>1 DEF Recreated, Recreates
  <2>8. Keeps(r, cur)
    BY <1>3, <2>1 DEF Narrowed, Keeps
  <2>. QED  BY <2>2, <2>4, <2>5, <2>6, <2>7, <2>8, MeansLast
<1>. QED  BY <1>1, <1>2, <1>3 DEF MergedMeansAll

\* No events a ledger accepts are refused, and the action they are merged to has the effect of
\* all of them, on every signature that is not created anew (CollectAll and Merge).
THEOREM MergedMeansAllEvents == MergeSpec => []MergedMeansAll
<1>. QED  BY MergeInvariant, EvtInvMeans, PTL

LEMMA EvtInvRecreates == EvtInv => RecreatesStates
<1>. SUFFICES ASSUME EvtInv, InOrder, NEW s \in Sigs, NEW i \in 1..Len(ledger), ~ Rewritten(s, i)
              PROVE  Replay(initial[s], s, ledger, args)[i] = states[i][s]
  BY DEF RecreatesStates
<1>1. RecallOK(initial[s], s, ledger, args, states, LastMerged(s))
  BY DEF EvtInv, LastOf, LastMerged
<1>2. ~ Carried(s, ledger, LastMerged(s), i)
  BY DEF Rewritten, Carried, Updates
<1>. QED  BY <1>1, <1>2 DEF RecallOK

\* Merge writes to the arguments of the ledger's own events; the states after all events but
\* those an update was carried back over can still be recreated from them (evt/doc.go:16).
THEOREM MergeRecreatesStates == MergeSpec => []RecreatesStates
<1>. QED  BY MergeInvariant, EvtInvRecreates, PTL

-----------------------------------------------------------------------------
(* The broadcast timer *)

\* The latest broadcast is not ahead of the ledger.
BcastBehind == bcast <= rev

\* An event published at t has a timer that is due in time.
TimerInTime(t) == \E i \in DOMAIN timer : timer[i] = "set" /\ due[i] < Deadline(t)

\* Every event that waits has such a timer, or a broadcast is under way.
InTime == ~stopped => \A t \in unsent : TimerInTime(t) \/ Asked

\* The inductive invariant.
Inv ==
  /\ TypeOK /\ BcastBehind /\ UnsentIsNewer
  /\ UnsentIsTriggered /\ InTime /\ BoundedDelay

USE TimerAssumption

\* A request in the queue stays there when something else is taken or added.
LEMMA AskedKept ==
  ASSUME TypeOK, Asked, timer' = timer,
         \/ mque # <<>> /\ Head(mque) = "pub" /\ mque' = Tail(mque)
         \/ \E m : mque' = Append(mque, m)
         \/ mque' = mque
  PROVE  Asked'
<1>1. CASE \E i \in DOMAIN timer : timer[i] = "fired"
  BY <1>1 DEF Asked
<1>2. CASE \E i \in DOMAIN mque : mque[i] = "_bcast"
  <2>1. PICK i \in DOMAIN mque : mque[i] = "_bcast"
    BY <1>2
  <2>2. CASE mque # <<>> /\ Head(mque) = "pub" /\ mque' = Tail(mque)
    <3>1. i # 1
      BY <2>1, <2>2 DEF TypeOK
    <3>2. i - 1 \in DOMAIN mque' /\ mque'[i - 1] = "_bcast"
      BY <2>1, <2>2, <3>1 DEF TypeOK
    <3> QED BY <3>2 DEF Asked
  <2>3. CASE \E m : mque' = Append(mque, m)
    <3>1. i \in DOMAIN mque' /\ mque'[i] = "_bcast"
      BY <2>1, <2>3 DEF TypeOK
    <3> QED BY <3>1 DEF Asked
  <2>4. CASE mque' = mque
    BY <2>1, <2>4 DEF Asked
  <2> QED BY <2>2, <2>3, <2>4
<1> QED BY <1>1, <1>2 DEF Asked

LEMMA InitInv == Init => Inv
<1> SUFFICES ASSUME Init PROVE Inv
  OBVIOUS
<1>0. now = 0 /\ rev = 0 - Window /\ bcast = 0 - Window /\ npost = 0 /\ stopped = FALSE
  BY DEF Init, Zero
<1>1. TypeOK /\ BcastBehind
  <2>1. timer \in Seq({"set", "stopped", "fired", "done"}) /\ due \in Seq(Nat)
    BY DEF Init
  <2>2. mque \in Seq({"pub", "_bcast"}) /\ Len(mque) <= QueCap /\ Len(due) = Len(timer)
    BY DEF Init
  <2>3. unsent \subseteq Nat
    BY DEF Init
  <2>4. rev \in Int /\ bcast \in Int /\ bcast <= rev
    BY <1>0
  <2>5. stopped \in BOOLEAN
    BY <1>0
  <2> QED BY <1>0, <2>1, <2>2, <2>3, <2>4, <2>5 DEF TypeOK, BcastBehind
<1>2. unsent = {}
  BY DEF Init
<1> QED BY <1>1, <1>2 DEF Inv, UnsentIsNewer, UnsentIsTriggered, InTime, BoundedDelay

\* A step that keeps the clock, the events, the broadcast and the timers keeps the invariant
\* as long as it keeps the requests in the queue.
LEMMA QuietInv ==
  ASSUME Inv, TypeOK', Asked => Asked',
         UNCHANGED <<now, rev, bcast, unsent, timer, due, stopped>>
  PROVE  Inv'
<1>1. (BcastBehind /\ UnsentIsNewer /\ BoundedDelay)'
  BY DEF Inv, BcastBehind, UnsentIsNewer, BoundedDelay, Deadline
<1>2. (UnsentIsTriggered /\ InTime)'
  BY DEF Inv, UnsentIsTriggered, InTime, TimerInTime, Deadline
<1> QED BY <1>1, <1>2 DEF Inv

LEMMA PostInv == Inv /\ Post => Inv'
<1> SUFFICES ASSUME Inv, Post PROVE Inv'
  OBVIOUS
<1>1. TypeOK'
  BY DEF Inv, TypeOK, Post
<1>2. Asked => Asked'
  BY AskedKept DEF Inv, Post
<1> QED BY <1>1, <1>2, QuietInv DEF Post

LEMMA PubInv == Inv /\ HubPub => Inv'
<1> SUFFICES ASSUME Inv, HubPub PROVE Inv'
  OBVIOUS
<1> USE DEF Inv
<1> DEFINE old == IF Stops THEN Stopped ELSE timer
<1>0. Stopped \in Seq({"set", "stopped", "fired", "done"}) /\ Len(Stopped) = Len(timer)
  BY DEF TypeOK, Stopped
<1>1. /\ old \in Seq({"set", "stopped", "fired", "done"}) /\ Len(old) = Len(timer)
      /\ timer' = Append(old, "set")
      /\ due' = Append(due, now + Delay)
  BY <1>0 DEF HubPub, Btrig, TypeOK
<1>2. /\ Len(timer') = Len(timer) + 1 /\ timer'[Len(timer')] = "set"
      /\ due'[Len(timer')] = now + Delay
      /\ \A i \in DOMAIN timer : timer'[i] = old[i] /\ due'[i] = due[i]
      /\ DOMAIN timer = 1..Len(timer) /\ DOMAIN timer' = 1..Len(timer')
  BY <1>1 DEF TypeOK
<1>3. TypeOK'
  <2>1. timer' \in Seq({"set", "stopped", "fired", "done"}) /\ due' \in Seq(Nat) /\ Len(due') = Len(timer')
    BY <1>1 DEF TypeOK
  <2> QED BY <2>1 DEF TypeOK, HubPub, Later
<1>4. (BcastBehind /\ UnsentIsNewer)'
  BY DEF HubPub, Later, TypeOK, BcastBehind, UnsentIsNewer
<1>5. UnsentIsTriggered'
  BY <1>1, <1>2 DEF UnsentIsTriggered, TypeOK
<1>6. InTime'
  <2> SUFFICES ASSUME ~stopped', NEW t \in unsent' PROVE TimerInTime(t)' \/ Asked'
    BY DEF InTime
  <2>1. CASE t = now \/ Stops
    <3>1. now + Delay < Deadline(t)'
      BY <2>1 DEF HubPub, Deadline, Later, Stops, TypeOK
    <3> QED BY <1>2, <3>1 DEF TimerInTime, TypeOK
  <2>2. CASE t \in unsent /\ ~Stops
    <3>1. TimerInTime(t) \/ Asked
      BY <2>2 DEF InTime, HubPub
    <3>2. CASE TimerInTime(t)
      <4>1. PICK i \in DOMAIN timer : timer[i] = "set" /\ due[i] < Deadline(t)
        BY <3>2 DEF TimerInTime
      <4>2. i \in DOMAIN timer' /\ timer'[i] = "set" /\ due'[i] = due[i]
        BY <1>2, <2>2, <4>1 DEF TypeOK
      <4>3. Deadline(t)' = Deadline(t)
        BY DEF HubPub, Deadline
      <4> QED BY <4>1, <4>2, <4>3 DEF TimerInTime
    <3>3. CASE \E i \in DOMAIN timer : timer[i] = "fired"
      <4>1. PICK i \in DOMAIN timer : timer[i] = "fired"
        BY <3>3
      <4>2. i \in DOMAIN timer' /\ timer'[i] = "fired"
        BY <1>2, <2>2, <4>1 DEF TypeOK
      <4> QED BY <4>2 DEF Asked
    <3>4. CASE \E i \in DOMAIN mque : mque[i] = "_bcast"
      <4>1. PICK i \in DOMAIN mque : mque[i] = "_bcast"
        BY <3>4
      <4>2. mque # <<>> /\ Head(mque) = "pub" /\ mque' = Tail(mque)
        BY DEF HubPub
      <4>3. i # 1
        BY <4>1, <4>2 DEF TypeOK
      <4>4. i - 1 \in DOMAIN mque' /\ mque'[i - 1] = "_bcast"
        BY <4>1, <4>2, <4>3 DEF TypeOK
      <4> QED BY <4>4 DEF Asked
    <3> QED BY <3>1, <3>2, <3>3, <3>4 DEF Asked
  <2> QED BY <2>1, <2>2 DEF HubPub
<1>7. BoundedDelay'
  BY DEF HubPub, BoundedDelay, Deadline, Later, TypeOK
<1> QED BY <1>3, <1>4, <1>5, <1>6, <1>7

LEMMA BcastInv == Inv /\ HubBcast => Inv'
<1> SUFFICES ASSUME Inv, HubBcast PROVE Inv'
  OBVIOUS
<1> USE DEF Inv, HubBcast
<1>1. unsent' = {}
  BY DEF UnsentIsNewer
<1>2. TypeOK'
  <2>1. mque' \in Seq({"pub", "_bcast"}) /\ Len(mque') <= QueCap
    BY DEF TypeOK
  <2>2. bcast' \in Int /\ UNCHANGED <<now, rev, timer, due, npost, stopped>>
    BY DEF TypeOK, NewBcast
  <2> QED BY <1>1, <2>1, <2>2 DEF TypeOK
<1>3. BcastBehind'
  BY DEF BcastBehind, NewBcast, TypeOK
<1> QED BY <1>1, <1>2, <1>3 DEF UnsentIsNewer, UnsentIsTriggered, InTime, BoundedDelay

LEMMA FireInv == ASSUME NEW i \in 1..MaxPubs PROVE Inv /\ Fire(i) => Inv'
<1> SUFFICES ASSUME Inv, Fire(i) PROVE Inv'
  OBVIOUS
<1> USE DEF Inv, Fire
<1>1. TypeOK'
  BY DEF TypeOK
<1>2. Asked'
  BY DEF Asked, TypeOK
<1>3. (BcastBehind /\ UnsentIsNewer /\ BoundedDelay)'
  BY DEF BcastBehind, UnsentIsNewer, BoundedDelay, Deadline
<1> QED BY <1>1, <1>2, <1>3 DEF UnsentIsTriggered, InTime

LEMMA RequestInv == ASSUME NEW i \in 1..MaxPubs PROVE Inv /\ Request(i) => Inv'
<1> SUFFICES ASSUME Inv, Request(i) PROVE Inv'
  OBVIOUS
<1> USE DEF Inv, Request
<1>1. TypeOK'
  <2>1. timer' \in Seq({"set", "stopped", "fired", "done"}) /\ Len(timer') = Len(timer)
    BY DEF TypeOK
  <2>2. mque' \in Seq({"pub", "_bcast"}) /\ Len(mque') <= QueCap
    BY DEF TypeOK
  <2> QED BY <2>1, <2>2 DEF TypeOK
<1>2. Asked'
  <2>1. Len(mque) + 1 \in DOMAIN mque' /\ mque'[Len(mque) + 1] = "_bcast"
    BY DEF TypeOK
  <2> QED BY <2>1 DEF Asked
<1>3. (BcastBehind /\ UnsentIsNewer /\ BoundedDelay)'
  BY DEF BcastBehind, UnsentIsNewer, BoundedDelay, Deadline
<1> QED BY <1>1, <1>2, <1>3 DEF UnsentIsTriggered, InTime

LEMMA StopInv == Inv /\ Stop => Inv'
<1> SUFFICES ASSUME Inv, Stop PROVE Inv'
  OBVIOUS
<1> USE DEF Inv, Stop
<1>1. Stopped \in Seq({"set", "stopped", "fired", "done"}) /\ Len(Stopped) = Len(timer)
  BY DEF TypeOK, Stopped
<1>2. TypeOK'
  BY <1>1 DEF TypeOK
<1> QED BY <1>2 DEF BcastBehind, UnsentIsNewer, UnsentIsTriggered, InTime, BoundedDelay

\* Time passes only while no timer is due, so the timer that is due in time has not been
\* reached yet.
LEMMA TickInv == Inv /\ Tick => Inv'
<1> SUFFICES ASSUME Inv, Tick PROVE Inv'
  OBVIOUS
<1> USE DEF Inv, Tick
<1>1. TypeOK'
  BY DEF TypeOK
<1>2. ~Asked
  BY DEF Asked
<1>3. (BcastBehind /\ UnsentIsNewer /\ UnsentIsTriggered)'
  BY <1>2 DEF BcastBehind, UnsentIsNewer, UnsentIsTriggered
<1>4. InTime'
  BY <1>2 DEF InTime, TimerInTime, Deadline
<1>5. BoundedDelay'
  <2> SUFFICES ASSUME ~stopped, NEW t \in unsent PROVE now + 1 < Deadline(t)
    BY DEF BoundedDelay, Deadline
  <2>1. PICK i \in DOMAIN timer : timer[i] = "set" /\ due[i] < Deadline(t)
    BY <1>2 DEF InTime, TimerInTime
  <2>2. now < due[i] /\ due[i] \in Nat
    BY <2>1 DEF TypeOK
  <2>3. Deadline(t) \in Int
    <3>1. t \in Int /\ bcast \in Int /\ Window \in Int /\ Delay \in Int
      BY DEF TypeOK
    <3>2. Later(t, bcast) \in Int
      BY <3>1 DEF Later
    <3> QED BY <3>1, <3>2 DEF Deadline
  <2> QED BY <2>1, <2>2, <2>3 DEF TypeOK
<1> QED BY <1>1, <1>3, <1>4, <1>5

LEMMA StepInv == Inv /\ [Next]_vars => Inv'
<1> SUFFICES ASSUME Inv, [Next]_vars PROVE Inv'
  OBVIOUS
<1>1. CASE UNCHANGED vars
  <2>1. TypeOK' /\ (Asked => Asked')
    BY <1>1 DEF vars, Inv, TypeOK, Asked
  <2> QED BY <1>1, <2>1, QuietInv DEF vars
<1> QED BY <1>1, PostInv, PubInv, BcastInv, FireInv, RequestInv, StopInv, TickInv DEF Next

\* The inductive invariant holds in every reachable state (subs.go:125-150).
THEOREM TimerInvariant == Spec => []Inv
<1>1. Init => Inv
  BY InitInv
<1>2. Inv /\ [Next]_vars => Inv'
  BY StepInv
<1> QED BY <1>1, <1>2, PTL DEF Spec

\* Type correctness: in particular the queue never holds more than it can.
THEOREM TimerTypeOK == Spec => []TypeOK
<1>1. Inv => TypeOK
  BY DEF Inv
<1> QED BY <1>1, TimerInvariant, PTL

\* No event is forgotten, whatever timers were stopped, late or superseded (subs.go:126-132).
THEOREM TimerTriggers == Spec => []UnsentIsTriggered
<1>1. Inv => UnsentIsTriggered
  BY DEF Inv
<1> QED BY <1>1, TimerInvariant, PTL

\* No stream of publications puts off a broadcast beyond the window and the delay together
\* (subs.go:127).
THEOREM TimerBounded == Spec => []BoundedDelay
<1>1. Inv => BoundedDelay
  BY DEF Inv
<1> QED BY <1>1, TimerInvariant, PTL
=============================================================================
