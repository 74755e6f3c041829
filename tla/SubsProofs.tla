----------------------------- MODULE SubsProofs -----------------------------
(***************************************************************************)
(* Proofs about the subscriptions: the inductive invariant of Subs and the *)
(* properties that follow from it, for all connections, topics, keys,      *)
(* watch lists, transactions and bounds, and both loop variable semantics. *)
(***************************************************************************)
EXTENDS Subs, TLAPS, FiniteSetTheorems, SequenceTheorems

-----------------------------------------------------------------------------
(* The operators the operations are built from *)

\* A revision that NextRev assigns is after the last one, whatever the clock says.
LEMMA NextRevAfter ==
  ASSUME NEW last \in Int, NEW rev \in Nat
  PROVE  NextRev(last, rev) \in Int /\ NextRev(last, rev) > last
<1>1. Truncate(rev) \in Int
  BY BoundsAssumption DEF Truncate
<1>2. Milli \in Nat /\ Milli > 0
  BY BoundsAssumption
<1>. QED  BY <1>1, <1>2 DEF NextRev

\* Count is positive exactly for the topics a list names.
LEMMA CountOfTopic ==
  ASSUME NEW ws \in Seq(Watch), NEW t \in Topics
  PROVE  /\ Count(ws, t) \in Nat
         /\ t \in Tops(ws) => Count(ws, t) > 0
         /\ t \notin Tops(ws) => Count(ws, t) = 0
<1>. DEFINE I == {i \in DOMAIN ws : ws[i].top = t}
<1>1. IsFiniteSet(DOMAIN ws)
  <2>1. Len(ws) \in Nat /\ DOMAIN ws = 1..Len(ws)
    BY LenProperties
  <2>. QED  BY <2>1, FS_Interval
<1>2. IsFiniteSet(I) /\ Cardinality(I) \in Nat
  BY <1>1, FS_Subset, FS_CardinalityType
<1>3. t \in Tops(ws) <=> I # {}
  BY DEF Tops
<1>4. Cardinality(I) = 0 <=> I = {}
  BY <1>2, FS_EmptySet
<1>. QED  BY <1>2, <1>3, <1>4 DEF Count

\* The ledger is a sequence of events.
LEMMA LedgerType ==
  ASSUME TypeOK
  PROVE  /\ Len(ledger) \in Nat /\ DOMAIN ledger = 1..Len(ledger)
         /\ \A e \in EvIds : e <= Len(ledger) => e \in DOMAIN ledger
         /\ \A e \in DOMAIN ledger :
              /\ e \in EvIds /\ ledger[e] \in Event
              /\ ledger[e].rev \in Int /\ ledger[e].top \in Topics
              /\ ledger[e].key \in Keys /\ ledger[e].by \in Conns
<1>1. ledger \in Seq(Event) /\ Len(ledger) <= MaxEv
  BY DEF TypeOK
<1>2. Len(ledger) \in Nat /\ DOMAIN ledger = 1..Len(ledger)
  BY <1>1, LenProperties
<1>3. \A e \in 1..Len(ledger) : ledger[e] \in Event
  BY <1>1, ElementOfSeq
<1>4. \A ev \in Event : ev.rev \in Int /\ ev.top \in Topics /\ ev.key \in Keys /\ ev.by \in Conns
  BY DEF Event
<1>5. \A e \in EvIds : e <= Len(ledger) => e \in DOMAIN ledger
  BY <1>2, BoundsAssumption DEF EvIds
<1>6. \A e \in DOMAIN ledger : e \in EvIds
  BY <1>1, <1>2, BoundsAssumption DEF EvIds
<1>. QED  BY <1>2, <1>3, <1>4, <1>5, <1>6

\* The revision of the ledger is a revision, and no event is after it.
LEMMA LedgerRevLatest ==
  ASSUME TypeOK, LedgerOrdered
  PROVE  /\ LedgerRev \in Int /\ LedgerRev >= 0
         /\ \A e \in DOMAIN ledger : ledger[e].rev <= LedgerRev
<1>1. CASE ledger = <<>>
  BY <1>1, LedgerType DEF LedgerRev
<1>2. CASE ledger # <<>>
  <2>1. Len(ledger) \in DOMAIN ledger
    BY <1>2, LedgerType, EmptySeq DEF TypeOK
  <2>. QED  BY <1>2, <2>1, LedgerType DEF LedgerRev, LedgerOrdered
<1>. QED  BY <1>1, <1>2

-----------------------------------------------------------------------------
(* The invariant holds initially and is kept by every operation *)

LEMMA InitInv == Init => Inv
<1>. SUFFICES ASSUME Init PROVE Inv
  OBVIOUS
<1>. USE DEF Init
<1>1. TypeOK
  <2>1. (CHOOSE c \in Conns : TRUE) \in Conns
    BY ConnsAssumption
  <2>2. 0 \in 0..MaxSubs /\ Len(<<>>) <= MaxEv /\ <<>> \in Seq(Event)
    BY BoundsAssumption
  <2>. QED  BY <2>1, <2>2 DEF TypeOK, NoSub
<1>2. LedgerRev = 0 /\ Len(ledger) = 0 /\ DOMAIN ledger = {}
  BY DEF LedgerRev
<1>3. \A s \in SubIds : ~Live(s)
  BY BoundsAssumption DEF Live, SubIds, NoSub
<1>4. \A s \in SubIds, e \in EvIds : bufr[s][e] = 0
  OBVIOUS
<1>5. \A c \in Conns : smap[c] = NoSub /\ \A e \in EvIds : got[c][e] = 0
  OBVIOUS
<1>6. SubscribersOK /\ LedgerAhead
  BY <1>2, <1>4, <1>5 DEF SubscribersOK, LedgerAhead
<1>7. IndexesAgree
  BY DEF IndexesAgree
<1>8. LiveWatches /\ SentUpTo /\ NothingLost
  BY <1>3 DEF LiveWatches, SentUpTo, NothingLost
<1>9. BufferWanted /\ NoEcho /\ AtMostOnce
  BY <1>4, <1>5 DEF BufferWanted, NoEcho, AtMostOnce
<1>10. LedgerOrdered
  BY <1>2 DEF LedgerOrdered
<1>. QED  BY <1>1, <1>6, <1>7, <1>8, <1>9, <1>10 DEF Inv

\* Sub, for a connection that has subscriber s or gets s as a new one.
LEMMA SubWithInv ==
  ASSUME Inv, NEW c \in Conns, NEW ws \in WatchLists, ws # <<>>,
         NEW s \in SubIds, SubWith(c, s, ws),
         \/ smap[c] = NoSub /\ s = nsub + 1 /\ nsub' = s
         \/ smap[c] = s /\ nsub' = nsub
  PROVE  Inv'
<1>. USE DEF Inv
<1>1. ws \in Seq(Watch) /\ Len(ws) \in DOMAIN ws /\ \A i \in DOMAIN ws : ws[i] \in Watch
  <2>1. ws \in Seq(Watch)
    BY InputAssumption
  <2>2. Len(ws) \in Nat /\ DOMAIN ws = 1..Len(ws) /\ Len(ws) # 0
    BY <2>1, LenProperties, EmptySeq
  <2>3. \A i \in 1..Len(ws) : ws[i] \in Watch
    BY <2>1, ElementOfSeq
  <2>. QED  BY <2>1, <2>2, <2>3
<1>2. PICK last \in [Tops(ws) -> DOMAIN ws] :
        /\ watch' = [watch EXCEPT ![s] = [t \in Topics |->
             IF t \in Tops(ws) THEN Stored(ws, last[t]) ELSE @[t]]]
        /\ since' = [since EXCEPT ![s] = [t \in Topics |->
             IF t \in Tops(ws) THEN Len(ledger) ELSE @[t]]]
        /\ owner' = [owner EXCEPT ![s] = c]
        /\ smap' = [smap EXCEPT ![c] = s]
        /\ tmap' = TmapAdded(s, ws)
        /\ bufr' = [bufr EXCEPT ![s] = Filter(@, ws)]
        /\ UNCHANGED <<ledger, srev, bcast, got>>
  BY DEF SubWith
<1>3. \A t \in Tops(ws) : t \in Topics /\ Stored(ws, last[t]) \in Watch
  BY <1>1, <1>2 DEF Tops, Stored, Watch
<1>4. TypeOK'
  <2>1. Len(ledger) \in Nat /\ \A e \in EvIds : Filter(bufr[s], ws)[e] \in Nat
    BY LenProperties DEF TypeOK, Filter
  <2>2. bufr' \in [SubIds -> [EvIds -> Nat]]
    BY <1>2, <2>1 DEF TypeOK, Filter
  <2>3. tmap' \in [Topics -> [SubIds -> Nat]]
    BY <1>2 DEF TypeOK, TmapAdded
  <2>4. nsub' \in 0..MaxSubs
    BY BoundsAssumption DEF TypeOK, SubIds
  <2>5. watch' \in [SubIds -> [Topics -> Watch \cup {NoWatch}]]
    BY <1>2, <1>3 DEF TypeOK
  <2>6. since' \in [SubIds -> [Topics -> Nat]]
    BY <1>2, <2>1 DEF TypeOK
  <2>. QED  BY <1>2, <2>2, <2>3, <2>4, <2>5, <2>6 DEF TypeOK
<1>5. \A x \in SubIds, t \in Topics :
        watch'[x][t] = IF x = s /\ t \in Tops(ws) THEN Stored(ws, last[t]) ELSE watch[x][t]
  BY <1>2 DEF TypeOK
<1>6. \A x \in SubIds, t \in Topics :
        since'[x][t] = IF x = s /\ t \in Tops(ws) THEN Len(ledger) ELSE since[x][t]
  BY <1>2 DEF TypeOK
<1>7. \A x \in SubIds, t \in Topics :
        tmap'[t][x] = IF x = s /\ t \in Tops(ws) /\ watch[x][t] = NoWatch
                        THEN tmap[t][x] + 1 ELSE tmap[t][x]
  BY <1>2 DEF TypeOK, TmapAdded
<1>8. \A x \in SubIds, e \in EvIds :
        bufr'[x][e] = IF x = s /\ e <= Len(ledger) /\ ledger[e].top \in Tops(ws)
                        THEN 0 ELSE bufr[x][e]
  BY <1>2 DEF TypeOK, Filter
<1>9. /\ ledger' = ledger /\ bcast' = bcast /\ got' = got
      /\ \A d \in Conns : smap'[d] = IF d = c THEN s ELSE smap[d]
      /\ \A x \in SubIds : owner'[x] = IF x = s THEN c ELSE owner[x]
  BY <1>2 DEF TypeOK
\* A subscriber that is new has no watch and an empty buffer.
<1>10. smap[c] = NoSub =>
         (\A t \in Topics : watch[s][t] = NoWatch) /\ (\A e \in EvIds : bufr[s][e] = 0)
  <2>1. ASSUME smap[c] = NoSub PROVE s > nsub
    BY <2>1, BoundsAssumption DEF SubIds, NoSub, TypeOK
  <2>. QED  BY <2>1 DEF SubscribersOK
\* The subscriber of another connection is another one.
<1>11. \A d \in Conns : d # c => smap[d] # s
  BY BoundsAssumption DEF SubscribersOK, TypeOK, SubIds, NoSub
<1>12. SubscribersOK'
  <2>1. \A d \in Conns : smap'[d] # NoSub => smap'[d] <= nsub' /\ owner'[smap'[d]] = d
    <3>. SUFFICES ASSUME NEW d \in Conns, smap'[d] # NoSub
                  PROVE  smap'[d] <= nsub' /\ owner'[smap'[d]] = d
      OBVIOUS
    <3>1. CASE d = c
      BY <3>1, <1>9, BoundsAssumption DEF SubscribersOK, TypeOK, SubIds, NoSub
    <3>2. CASE d # c
      <4>1. smap'[d] = smap[d] /\ smap[d] # NoSub /\ smap[d] \in SubIds /\ smap[d] # s
        BY <3>2, <1>9, <1>11 DEF TypeOK
      <4>2. smap[d] <= nsub /\ owner[smap[d]] = d
        BY <4>1 DEF SubscribersOK
      <4>3. nsub <= nsub'
        BY BoundsAssumption DEF TypeOK, SubIds
      <4>. QED  BY <4>1, <4>2, <4>3, <1>9, BoundsAssumption DEF TypeOK, SubIds
    <3>. QED  BY <3>1, <3>2
  <2>2. ASSUME NEW x \in SubIds, x > nsub'
        PROVE  (\A t \in Topics : watch'[x][t] = NoWatch) /\ \A e \in EvIds : bufr'[x][e] = 0
    <3>1. x # s /\ x > nsub
      BY <2>2, BoundsAssumption DEF SubscribersOK, TypeOK, SubIds, NoSub
    <3>. QED  BY <3>1, <1>5, <1>8 DEF SubscribersOK
  <2>. QED  BY <2>1, <2>2 DEF SubscribersOK
<1>13. LedgerRev' = LedgerRev
  BY <1>9 DEF LedgerRev
<1>14. LedgerAhead' /\ LedgerOrdered'
  BY <1>9, <1>13 DEF LedgerAhead, LedgerOrdered
<1>15. IndexesAgree'
  BY <1>3, <1>5, <1>7, NoWatchAssumption DEF IndexesAgree, TypeOK
\* The other live subscribers stay live, and so does s.
<1>16. \A x \in SubIds : x # s => (Live(x)' <=> Live(x))
  <2>. SUFFICES ASSUME NEW x \in SubIds, x # s PROVE Live(x)' <=> Live(x)
    OBVIOUS
  <2>1. x # NoSub
    BY BoundsAssumption DEF SubIds, NoSub
  <2>. QED  BY <2>1, <1>9 DEF Live
<1>17. \E t \in Tops(ws) : t \in Topics
  BY <1>1, <1>3 DEF Tops
<1>18. LiveWatches'
  BY <1>3, <1>5, <1>16, <1>17, NoWatchAssumption DEF LiveWatches
\* What is left in a buffer concerns a topic whose watch has not changed.
<1>19. \A x \in SubIds, e \in EvIds : bufr'[x][e] > 0 =>
         /\ bufr'[x][e] = bufr[x][e] /\ bufr[x][e] > 0
         /\ e \in DOMAIN ledger /\ ledger[e].top \in Topics
         /\ watch'[x][ledger[e].top] = watch[x][ledger[e].top]
  <2>. SUFFICES ASSUME NEW x \in SubIds, NEW e \in EvIds, bufr'[x][e] > 0
                PROVE  /\ bufr'[x][e] = bufr[x][e] /\ bufr[x][e] > 0
                       /\ e \in DOMAIN ledger /\ ledger[e].top \in Topics
                       /\ watch'[x][ledger[e].top] = watch[x][ledger[e].top]
    OBVIOUS
  <2>1. bufr'[x][e] = bufr[x][e] /\ bufr[x][e] > 0
        /\ ~(x = s /\ e <= Len(ledger) /\ ledger[e].top \in Tops(ws))
    BY <1>8
  <2>2. e <= Len(ledger)
    BY <2>1 DEF BufferWanted
  <2>3. e \in DOMAIN ledger /\ ledger[e].top \in Topics
    BY <2>2, LedgerType
  <2>. QED  BY <2>1, <2>2, <2>3, <1>5
<1>20. BufferWanted'
  <2>. SUFFICES ASSUME NEW x \in SubIds, NEW e \in EvIds, bufr'[x][e] > 0
                PROVE  e <= Len(ledger) /\ Accept(x, ledger[e])'
    BY <1>9 DEF BufferWanted, Accept
  <2>1. e <= Len(ledger) /\ Accept(x, ledger[e])
    BY <1>19 DEF BufferWanted
  <2>. QED  BY <2>1, <1>9, <1>19 DEF Accept
<1>21. \A x \in SubIds : x # s \/ smap[c] = s => owner'[x] = owner[x]
  BY <1>9, BoundsAssumption DEF SubscribersOK, SubIds, NoSub
<1>22. NoEcho'
  <2>1. \A x \in SubIds, e \in EvIds : bufr'[x][e] > 0 => owner'[x] = owner[x]
    BY <1>10, <1>19, <1>21
  <2>. QED  BY <2>1, <1>9, <1>19 DEF NoEcho
<1>23. \A x \in SubIds, e \in EvIds : Live(x)' /\ bufr'[x][e] > 0 => Live(x)
  BY <1>10, <1>16, <1>19 DEF Live
<1>24. SentUpTo'
  BY <1>9, <1>19, <1>23 DEF SentUpTo
<1>25. AtMostOnce'
  <2>. SUFFICES ASSUME NEW d \in Conns, NEW e \in EvIds
                PROVE  got'[d][e] + (IF smap'[d] = NoSub THEN 0 ELSE bufr'[smap'[d]][e]) <= 1
    BY DEF AtMostOnce
  <2>1. got[d][e] \in Nat /\ (smap[d] # NoSub => smap[d] \in SubIds)
    BY DEF TypeOK
  <2>2. CASE d = c /\ smap[c] = NoSub
    <3>1. smap'[d] = s /\ bufr'[s][e] = 0
      BY <2>2, <1>8, <1>9, <1>10
    <3>2. got[d][e] <= 1
      BY <2>2, <2>1 DEF AtMostOnce
    <3>. QED  BY <3>1, <3>2, <2>1, <1>9
  <2>3. CASE ~(d = c /\ smap[c] = NoSub)
    <3>1. smap'[d] = smap[d]
      BY <2>3, <1>9
    <3>2. smap[d] # NoSub => bufr'[smap[d]][e] <= bufr[smap[d]][e] /\ bufr'[smap[d]][e] \in Nat
                             /\ bufr[smap[d]][e] \in Nat
      BY <2>1, <1>8 DEF TypeOK
    <3>. QED  BY <2>1, <3>1, <3>2, <1>9 DEF AtMostOnce
  <2>. QED  BY <2>2, <2>3
<1>26. NothingLost'
  <2>. SUFFICES ASSUME NEW x \in SubIds, NEW e \in EvIds, Live(x)', e <= Len(ledger'),
                       e > since'[x][ledger'[e].top], Accept(x, ledger[e])',
                       ledger'[e].by # owner'[x]
                PROVE  bufr'[x][e] + got'[owner'[x]][e] > 0
    BY <1>9 DEF NothingLost, Accept
  <2>1. ledger[e] \in Event /\ ledger[e].top \in Topics
    BY <1>9, LedgerType
  <2>2. ~(x = s /\ ledger[e].top \in Tops(ws))
    BY <2>1, <1>6, <1>9, LedgerType
  <2>3. watch'[x][ledger[e].top] = watch[x][ledger[e].top]
        /\ since'[x][ledger[e].top] = since[x][ledger[e].top] /\ bufr'[x][e] = bufr[x][e]
    BY <2>1, <2>2, <1>5, <1>6, <1>8
  <2>4. Accept(x, ledger[e])
    BY <2>3, <1>9 DEF Accept
  <2>5. x # s \/ smap[c] = s
    BY <2>1, <2>4, <1>10 DEF Accept
  <2>6. Live(x) /\ owner'[x] = owner[x]
    BY <2>5, <1>16, <1>21 DEF Live
  <2>. QED  BY <2>3, <2>4, <2>6, <1>9 DEF NothingLost
<1>. QED  BY <1>4, <1>12, <1>14, <1>15, <1>18, <1>20, <1>22, <1>24, <1>25, <1>26

LEMMA SubInv ==
  ASSUME Inv, NEW c \in Conns, NEW ws \in WatchLists, SubNew(c, ws) \/ SubMore(c, ws)
  PROVE  Inv'
<1>1. CASE SubNew(c, ws)
  <2>1. nsub + 1 \in SubIds
    BY <1>1, BoundsAssumption DEF SubNew, Inv, TypeOK, SubIds
  <2>. QED  BY <1>1, <2>1, SubWithInv DEF SubNew
<1>2. CASE SubMore(c, ws)
  <2>1. smap[c] \in SubIds
    BY <1>2 DEF SubMore, Inv, TypeOK
  <2>. QED  BY <1>2, <2>1, SubWithInv DEF SubMore
<1>. QED  BY <1>1, <1>2

\* Unsub with a list.
LEMMA UnsubSomeInv ==
  ASSUME Inv, NEW c \in Conns, NEW ws \in WatchLists, UnsubSome(c, ws)
  PROVE  Inv'
<1>. USE DEF Inv
<1>. DEFINE s == smap[c]
<1>1. s \in SubIds /\ s # NoSub /\ s <= nsub /\ owner[s] = c
  BY DEF UnsubSome, TypeOK, SubscribersOK
<1>2. ws \in Seq(Watch)
  BY InputAssumption
<1>3. /\ watch' = [watch EXCEPT ![s] = [t \in Topics |-> IF t \in Tops(ws) THEN NoWatch ELSE @[t]]]
      /\ tmap' = TmapRemoved(s, ws)
      /\ smap' = SmapLeft(c, s, ws)
      /\ bufr' = [bufr EXCEPT ![s] = Filter(@, ws)]
      /\ since' = [since EXCEPT ![s] = [t \in Topics |-> IF t \in Tops(ws) THEN 0 ELSE @[t]]]
      /\ UNCHANGED <<ledger, nsub, owner, srev, bcast, got>>
  BY DEF UnsubSome
<1>. HIDE DEF s
<1>4. TypeOK'
  <2>1. \A e \in EvIds : Filter(bufr[s], ws)[e] \in Nat
    BY <1>1 DEF TypeOK, Filter
  <2>2. bufr' \in [SubIds -> [EvIds -> Nat]]
    BY <1>1, <1>3, <2>1 DEF TypeOK, Filter
  <2>3. tmap' \in [Topics -> [SubIds -> Nat]]
    <3>1. \A n, m \in Nat : (IF n > m THEN n - m ELSE 0) \in Nat
      OBVIOUS
    <3>2. \A t \in Topics : Count(ws, t) \in Nat
      BY <1>2, CountOfTopic
    <3>3. \A t \in Topics : [tmap[t] EXCEPT ![s] = IF @ > Count(ws, t) THEN @ - Count(ws, t) ELSE 0]
                            \in [SubIds -> Nat]
      BY <3>1, <3>2, <1>1 DEF TypeOK
    <3>. QED  BY <1>3, <3>3 DEF TmapRemoved
  <2>4. watch' \in [SubIds -> [Topics -> Watch \cup {NoWatch}]]
    BY <1>1, <1>3 DEF TypeOK
  <2>5. smap' \in [Conns -> {NoSub} \cup SubIds]
    BY <1>1, <1>3 DEF TypeOK, SmapLeft
  <2>6. since' \in [SubIds -> [Topics -> Nat]]
    BY <1>1, <1>3 DEF TypeOK
  <2>. QED  BY <1>3, <2>2, <2>3, <2>4, <2>5, <2>6 DEF TypeOK
<1>5. \A x \in SubIds, t \in Topics :
        watch'[x][t] = IF x = s /\ t \in Tops(ws) THEN NoWatch ELSE watch[x][t]
  BY <1>1, <1>3 DEF TypeOK
<1>6. \A x \in SubIds, e \in EvIds :
        bufr'[x][e] = IF x = s /\ e <= Len(ledger) /\ ledger[e].top \in Tops(ws)
                        THEN 0 ELSE bufr[x][e]
  BY <1>1, <1>3 DEF TypeOK, Filter
<1>7. \A d \in Conns : smap'[d] = smap[d] \/ (d = c /\ smap'[d] = NoSub)
  BY <1>1, <1>3 DEF SmapLeft, TypeOK
<1>8. ledger' = ledger /\ nsub' = nsub /\ bcast' = bcast /\ got' = got /\ owner' = owner
  BY <1>3
<1>9. \A x \in SubIds : Live(x)' => Live(x)
  <2>1. \A x \in SubIds : x # NoSub
    BY BoundsAssumption DEF SubIds, NoSub
  <2>. QED  BY <2>1, <1>7 DEF Live
<1>10. SubscribersOK'
  <2>1. \A d \in Conns : smap'[d] # NoSub => smap'[d] = smap[d]
    BY <1>7
  <2>. QED  BY <2>1, <1>5, <1>6, <1>8 DEF SubscribersOK
<1>11. LedgerRev' = LedgerRev
  BY <1>8 DEF LedgerRev
<1>12. LedgerAhead' /\ LedgerOrdered'
  BY <1>8, <1>11 DEF LedgerAhead, LedgerOrdered
<1>13. IndexesAgree'
  <2>. SUFFICES ASSUME NEW t \in Topics, NEW x \in SubIds
                PROVE  tmap'[t][x] = IF watch'[x][t] = NoWatch THEN 0 ELSE 1
    BY DEF IndexesAgree
  <2>1. tmap'[t][x] = IF x = s THEN (IF tmap[t][x] > Count(ws, t)
                                       THEN tmap[t][x] - Count(ws, t) ELSE 0)
                               ELSE tmap[t][x]
    BY <1>1, <1>3 DEF TmapRemoved, TypeOK
  <2>2. tmap[t][x] = IF watch[x][t] = NoWatch THEN 0 ELSE 1
    BY DEF IndexesAgree
  <2>3. /\ Count(ws, t) \in Nat
        /\ t \in Tops(ws) => Count(ws, t) > 0
        /\ t \notin Tops(ws) => Count(ws, t) = 0
    BY <1>2, CountOfTopic
  <2>. QED  BY <2>1, <2>2, <2>3, <1>5
<1>14. LiveWatches'
  <2>. SUFFICES ASSUME NEW x \in SubIds, Live(x)' PROVE \E t \in Topics : watch'[x][t] # NoWatch
    BY DEF LiveWatches
  <2>1. CASE x = s
    <3>1. smap' # [smap EXCEPT ![c] = NoSub]
      <4>1. PICK d \in Conns : smap'[d] = s
        BY <2>1 DEF Live
      <4>2. d = c
        BY <1>1, <1>7, <4>1, BoundsAssumption DEF SubscribersOK, SubIds, NoSub
      <4>. QED  BY <4>1, <4>2, <1>1 DEF TypeOK
    <3>2. \E t \in Topics \ Tops(ws) : watch[s][t] # NoWatch
      BY <1>3, <3>1 DEF SmapLeft
    <3>. QED  BY <2>1, <3>2, <1>5
  <2>2. CASE x # s
    BY <2>2, <1>5, <1>9 DEF LiveWatches
  <2>. QED  BY <2>1, <2>2
<1>15. \A x \in SubIds, e \in EvIds : bufr'[x][e] > 0 =>
         /\ bufr[x][e] > 0 /\ e \in DOMAIN ledger
         /\ watch'[x][ledger[e].top] = watch[x][ledger[e].top]
  <2>. SUFFICES ASSUME NEW x \in SubIds, NEW e \in EvIds, bufr'[x][e] > 0
                PROVE  /\ bufr[x][e] > 0 /\ e \in DOMAIN ledger
                       /\ watch'[x][ledger[e].top] = watch[x][ledger[e].top]
    OBVIOUS
  <2>1. bufr[x][e] > 0 /\ ~(x = s /\ e <= Len(ledger) /\ ledger[e].top \in Tops(ws))
    BY <1>6
  <2>2. e <= Len(ledger)
    BY <2>1 DEF BufferWanted
  <2>3. e \in DOMAIN ledger /\ ledger[e].top \in Topics
    BY <2>2, LedgerType
  <2>. QED  BY <2>1, <2>2, <2>3, <1>5
<1>16. BufferWanted'
  <2>. SUFFICES ASSUME NEW x \in SubIds, NEW e \in EvIds, bufr'[x][e] > 0
                PROVE  e <= Len(ledger) /\ Accept(x, ledger[e])'
    BY <1>8 DEF BufferWanted, Accept
  <2>1. e <= Len(ledger) /\ Accept(x, ledger[e])
    BY <1>15 DEF BufferWanted
  <2>. QED  BY <2>1, <1>8, <1>15 DEF Accept
<1>17. NoEcho' /\ SentUpTo'
  BY <1>8, <1>9, <1>15 DEF NoEcho, SentUpTo
<1>18. AtMostOnce'
  <2>. SUFFICES ASSUME NEW d \in Conns, NEW e \in EvIds
                PROVE  got'[d][e] + (IF smap'[d] = NoSub THEN 0 ELSE bufr'[smap'[d]][e]) <= 1
    BY DEF AtMostOnce
  <2>1. got[d][e] \in Nat /\ (smap[d] # NoSub => smap[d] \in SubIds)
    BY DEF TypeOK
  <2>2. smap[d] # NoSub => bufr'[smap[d]][e] <= bufr[smap[d]][e] /\ bufr'[smap[d]][e] \in Nat
                           /\ bufr[smap[d]][e] \in Nat
    BY <2>1, <1>6 DEF TypeOK
  <2>3. smap'[d] = smap[d] \/ smap'[d] = NoSub
    BY <1>7
  <2>. QED  BY <2>1, <2>2, <2>3, <1>8 DEF AtMostOnce
<1>19. NothingLost'
  <2>. SUFFICES ASSUME NEW x \in SubIds, NEW e \in EvIds, Live(x)', e <= Len(ledger),
                       e > since'[x][ledger[e].top], Accept(x, ledger[e])',
                       ledger[e].by # owner[x]
                PROVE  bufr'[x][e] + got[owner[x]][e] > 0
    BY <1>8 DEF NothingLost, Accept
  <2>1. ledger[e].top \in Topics
    BY LedgerType
  <2>2. ~(x = s /\ ledger[e].top \in Tops(ws))
    BY <1>5, <1>8, <2>1 DEF Accept
  <2>3. watch'[x][ledger[e].top] = watch[x][ledger[e].top] /\ bufr'[x][e] = bufr[x][e]
    BY <2>1, <2>2, <1>5, <1>6
  <2>4. since'[x][ledger[e].top] = since[x][ledger[e].top]
    BY <1>1, <1>3, <2>1, <2>2 DEF TypeOK
  <2>5. Accept(x, ledger[e])
    BY <2>3, <1>8 DEF Accept
  <2>. QED  BY <2>3, <2>4, <2>5, <1>9 DEF NothingLost
<1>. QED  BY <1>4, <1>10, <1>12, <1>13, <1>14, <1>16, <1>17, <1>18, <1>19

\* Unsub with an empty list.
LEMMA UnsubAllInv ==
  ASSUME Inv, NEW c \in Conns, UnsubAll(c)
  PROVE  Inv'
<1>. USE DEF Inv
<1>1. /\ smap' = [smap EXCEPT ![c] = NoSub]
      /\ since' = [since EXCEPT ![smap[c]] = [t \in Topics |-> 0]]
      /\ smap[c] # NoSub
      /\ UNCHANGED <<ledger, nsub, owner, watch, srev, tmap, bufr, bcast, got>>
  BY DEF UnsubAll
<1>2. \A d \in Conns : smap'[d] = IF d = c THEN NoSub ELSE smap[d]
  BY <1>1 DEF TypeOK
<1>3. \A x \in SubIds : Live(x)' => Live(x) /\ since'[x] = since[x]
  <2>. SUFFICES ASSUME NEW x \in SubIds, Live(x)'
                PROVE  Live(x) /\ since'[x] = since[x]
    OBVIOUS
  <2>1. x # NoSub
    BY BoundsAssumption DEF SubIds, NoSub
  <2>2. PICK d \in Conns : smap'[d] = x
    BY DEF Live
  <2>3. d # c /\ smap[d] = x
    BY <2>1, <2>2, <1>2
  <2>4. x # smap[c]
    BY <2>1, <2>3 DEF SubscribersOK
  <2>. QED  BY <2>3, <2>4, <1>1 DEF Live, TypeOK
<1>4. TypeOK'
  <2>1. since' \in [SubIds -> [Topics -> Nat]]
    BY <1>1 DEF TypeOK
  <2>2. smap' \in [Conns -> {NoSub} \cup SubIds]
    BY <1>1 DEF TypeOK
  <2>. QED  BY <1>1, <2>1, <2>2 DEF TypeOK
<1>5. LedgerRev' = LedgerRev
  BY <1>1 DEF LedgerRev
<1>6. SubscribersOK' /\ LedgerAhead' /\ IndexesAgree' /\ LedgerOrdered' /\ NoEcho'
  BY <1>1, <1>2, <1>5 DEF SubscribersOK, LedgerAhead, IndexesAgree, LedgerOrdered, NoEcho
<1>7. LiveWatches' /\ BufferWanted' /\ SentUpTo' /\ NothingLost'
  BY <1>1, <1>3 DEF LiveWatches, BufferWanted, SentUpTo, NothingLost, Accept
<1>8. AtMostOnce'
  <2>. SUFFICES ASSUME NEW d \in Conns, NEW e \in EvIds
                PROVE  got[d][e] + (IF smap'[d] = NoSub THEN 0 ELSE bufr[smap'[d]][e]) <= 1
    BY <1>1 DEF AtMostOnce
  <2>1. got[d][e] \in Nat /\ (smap[d] # NoSub => bufr[smap[d]][e] \in Nat)
    BY DEF TypeOK
  <2>. QED  BY <1>2, <2>1 DEF AtMostOnce
<1>. QED  BY <1>4, <1>6, <1>7, <1>8

\* A transaction is published and shown to the subscribers.
LEMMA PublishInv ==
  ASSUME Inv, NEW c \in Conns, NEW acts \in ActLists, NEW now \in 1..MaxNow,
         Publish(c, acts, now)
  PROVE  Inv'
<1>. USE DEF Inv
<1>. DEFINE n == Len(ledger)
            rev == NextRev(LedgerRev, now)
            evs == [i \in DOMAIN acts |->
                      [rev |-> rev, top |-> acts[i].top, key |-> acts[i].key, by |-> c]]
<1>1. /\ ledger' = ledger \o evs
      /\ bufr' = [x \in SubIds |-> [e \in EvIds |->
           IF e - n \in DOMAIN acts THEN bufr[x][e] + Shown(c, x, evs[e - n]) ELSE bufr[x][e]]]
      /\ n + Len(acts) <= MaxEv
      /\ UNCHANGED <<nsub, owner, watch, srev, smap, tmap, bcast, got, since>>
  BY DEF Publish, subVars, histVars
<1>2. LedgerRev \in Int /\ LedgerRev >= 0 /\ \A e \in DOMAIN ledger : ledger[e].rev <= LedgerRev
  BY LedgerRevLatest
<1>3. rev \in Int /\ rev > LedgerRev
  <2>1. now \in Nat
    BY BoundsAssumption
  <2>. QED  BY <1>2, <2>1, NextRevAfter
<1>. HIDE DEF rev
<1>4. /\ Len(acts) \in Nat /\ Len(acts) > 0 /\ DOMAIN acts = 1..Len(acts)
      /\ \A i \in DOMAIN acts : acts[i].top \in Topics /\ acts[i].key \in Keys
  <2>1. acts \in Seq(Act) /\ acts # <<>>
    BY InputAssumption DEF Publish
  <2>2. \A i \in 1..Len(acts) : acts[i] \in Act
    BY <2>1, ElementOfSeq
  <2>. QED  BY <2>1, <2>2, LenProperties, EmptySeq DEF Act
<1>5. evs \in Seq(Event) /\ Len(evs) = Len(acts) /\ \A i \in DOMAIN acts : evs[i] \in Event
  <2>1. \A i \in DOMAIN acts : evs[i] \in Event
    BY <1>3, <1>4 DEF Event
  <2>. QED  BY <1>4, <2>1, IsASeq, LenProperties
<1>6. n \in Nat /\ DOMAIN ledger = 1..n /\ ledger \in Seq(Event)
  BY LedgerType DEF TypeOK
<1>7. /\ ledger' \in Seq(Event) /\ Len(ledger') = n + Len(acts)
      /\ \A e \in 1..n : ledger'[e] = ledger[e]
      /\ \A e \in n + 1 .. n + Len(acts) : e - n \in DOMAIN acts /\ ledger'[e] = evs[e - n]
  BY <1>1, <1>4, <1>5, <1>6, ConcatProperties
<1>8. \A e \in n + 1 .. n + Len(acts) :
        ledger'[e].rev = rev /\ ledger'[e].top \in Topics /\ ledger'[e].by = c
  <2>1. \A i \in DOMAIN acts : evs[i].rev = rev /\ evs[i].top \in Topics /\ evs[i].by = c
    BY <1>4
  <2>. HIDE DEF evs
  <2>2. ASSUME NEW e \in n + 1 .. n + Len(acts)
        PROVE  ledger'[e].rev = rev /\ ledger'[e].top \in Topics /\ ledger'[e].by = c
    <3>1. e - n \in DOMAIN acts /\ ledger'[e] = evs[e - n]
      BY <1>7
    <3>. QED  BY <3>1, <2>1
  <2>. QED  BY <2>2
<1>. HIDE DEF evs
\* The events from n + 1 on are new: no buffer held one and none was sent.
<1>9. \A e \in EvIds : e > n =>
        /\ \A x \in SubIds : bufr[x][e] = 0
        /\ \A d \in Conns : got[d][e] = 0
  <2>. SUFFICES ASSUME NEW e \in EvIds, e > n
                PROVE  /\ \A x \in SubIds : bufr[x][e] = 0
                       /\ \A d \in Conns : got[d][e] = 0
    OBVIOUS
  <2>1. e \in Nat /\ ~(e <= n)
    BY <1>6, BoundsAssumption DEF EvIds
  <2>2. /\ \A x \in SubIds : bufr[x][e] \in Nat /\ ~(bufr[x][e] > 0)
        /\ \A d \in Conns : got[d][e] \in Nat /\ ~(got[d][e] > 0)
    BY <2>1 DEF BufferWanted, LedgerAhead, TypeOK
  <2>. QED  BY <2>2
<1>10. \A x \in SubIds, e \in EvIds :
         bufr'[x][e] = IF e \in n + 1 .. n + Len(acts) THEN Shown(c, x, ledger'[e]) ELSE bufr[x][e]
  <2>. SUFFICES ASSUME NEW x \in SubIds, NEW e \in EvIds
                PROVE  bufr'[x][e] = IF e \in n + 1 .. n + Len(acts)
                                       THEN Shown(c, x, ledger'[e]) ELSE bufr[x][e]
    OBVIOUS
  <2>1. e \in Nat /\ (e - n \in DOMAIN acts <=> e \in n + 1 .. n + Len(acts))
    BY <1>4, <1>6, BoundsAssumption DEF EvIds
  <2>2. e \in n + 1 .. n + Len(acts) => Shown(c, x, ledger'[e]) \in Nat
    BY <1>8 DEF Shown, TypeOK
  <2>3. CASE e \in n + 1 .. n + Len(acts)
    <3>1. bufr'[x][e] = bufr[x][e] + Shown(c, x, ledger'[e])
      BY <1>1, <1>7, <2>1, <2>3
    <3>2. bufr[x][e] = 0
      BY <1>6, <1>9, <2>3
    <3>. QED  BY <2>2, <2>3, <3>1, <3>2
  <2>4. CASE ~(e \in n + 1 .. n + Len(acts))
    BY <1>1, <2>1, <2>4
  <2>. QED  BY <2>3, <2>4
\* An accepted event of another connection is put into a buffer once, no other one at all.
<1>11. \A x \in SubIds, e \in n + 1 .. n + Len(acts) :
         Shown(c, x, ledger'[e]) =
           IF owner[x] # c /\ Accept(x, ledger'[e]) THEN 1 ELSE 0
  BY <1>8 DEF Shown, Accept, IndexesAgree
<1>12. \A x \in SubIds, e \in EvIds :
         /\ e <= n => bufr'[x][e] = bufr[x][e]
         /\ e > n + Len(acts) => bufr'[x][e] = 0
         /\ e \in n + 1 .. n + Len(acts) =>
              bufr'[x][e] = IF owner[x] # c /\ Accept(x, ledger'[e]) THEN 1 ELSE 0
  BY <1>4, <1>6, <1>9, <1>10, <1>11, BoundsAssumption DEF EvIds
<1>13. \A x \in SubIds, e \in EvIds : Accept(x, ledger[e])' <=> Accept(x, ledger'[e])
  BY <1>1 DEF Accept
<1>14. \A e \in EvIds : e <= n \/ e \in n + 1 .. n + Len(acts) \/ e > n + Len(acts)
  BY <1>4, <1>6, BoundsAssumption DEF EvIds
<1>15. \A e \in EvIds : e <= n => e \in 1..n
  BY <1>6, BoundsAssumption DEF EvIds
<1>16. TypeOK'
  <2>1. bufr' \in [SubIds -> [EvIds -> Nat]]
    <3>1. \A x \in SubIds, e \in EvIds : bufr'[x][e] \in Nat
      <4>1. \A x \in SubIds, e \in EvIds : bufr[x][e] \in Nat
        BY DEF TypeOK
      <4>. QED  BY <1>12, <1>14, <4>1
    <3>. QED  BY <1>1, <3>1
  <2>. QED  BY <1>1, <1>7, <2>1 DEF TypeOK
<1>17. LedgerRev' = rev
  <2>1. ledger' # <<>>
    BY <1>4, <1>6, <1>7, EmptySeq
  <2>2. Len(ledger') \in n + 1 .. n + Len(acts)
    BY <1>4, <1>6, <1>7
  <2>. QED  BY <1>8, <2>1, <2>2 DEF LedgerRev
<1>18. SubscribersOK'
  <2>1. \A x \in SubIds : x > nsub => \A t \in Topics : watch'[x][t] = NoWatch
    BY <1>1 DEF SubscribersOK
  <2>2. ASSUME NEW x \in SubIds, x > nsub, NEW e \in EvIds PROVE bufr'[x][e] = 0
    <3>1. e \in n + 1 .. n + Len(acts) => ~Accept(x, ledger'[e])
      BY <1>8, <2>2 DEF Accept, SubscribersOK
    <3>2. bufr[x][e] = 0
      BY <2>2 DEF SubscribersOK
    <3>. QED  BY <1>12, <1>14, <3>1, <3>2
  <2>. QED  BY <1>1, <2>1, <2>2 DEF SubscribersOK
<1>19. LedgerAhead'
  <2>1. bcast' <= LedgerRev'
    BY <1>1, <1>2, <1>3, <1>17 DEF LedgerAhead, TypeOK
  <2>2. \A d \in Conns, e \in EvIds : got'[d][e] > 0 => e <= Len(ledger')
    <3>. SUFFICES ASSUME NEW d \in Conns, NEW e \in EvIds, got'[d][e] > 0
                  PROVE  e <= Len(ledger')
      OBVIOUS
    <3>1. e <= n /\ e \in Nat
      BY <1>1, BoundsAssumption DEF LedgerAhead, EvIds
    <3>. QED  BY <3>1, <1>4, <1>6, <1>7
  <2>. QED  BY <2>1, <2>2 DEF LedgerAhead
<1>20. IndexesAgree' /\ LiveWatches'
  BY <1>1 DEF IndexesAgree, LiveWatches, Live
<1>21. BufferWanted'
  <2>. SUFFICES ASSUME NEW x \in SubIds, NEW e \in EvIds, bufr'[x][e] > 0
                PROVE  e <= Len(ledger') /\ Accept(x, ledger[e])'
    BY DEF BufferWanted
  <2>1. CASE e <= n
    <3>1. Accept(x, ledger[e]) /\ ledger'[e] = ledger[e]
      BY <2>1, <1>7, <1>12, <1>15 DEF BufferWanted
    <3>2. e <= Len(ledger')
      BY <2>1, <1>4, <1>6, <1>7, BoundsAssumption DEF EvIds
    <3>. QED  BY <3>1, <3>2, <1>13
  <2>2. CASE e \in n + 1 .. n + Len(acts)
    BY <2>2, <1>4, <1>6, <1>7, <1>12, <1>13
  <2>. QED  BY <2>1, <2>2, <1>12, <1>14
<1>22. LedgerOrdered'
  <2>. SUFFICES ASSUME NEW i \in 1 .. n + Len(acts), NEW j \in 1 .. n + Len(acts), i <= j
                PROVE  0 < ledger'[i].rev /\ ledger'[i].rev <= ledger'[j].rev
    <3>1. DOMAIN ledger' = 1 .. n + Len(acts)
      BY <1>7, LenProperties
    <3>. QED  BY <3>1 DEF LedgerOrdered
  <2>1. CASE j <= n
    <3>1. i \in 1..n /\ j \in 1..n
      BY <2>1, <1>4, <1>6
    <3>. QED  BY <3>1, <1>6, <1>7 DEF LedgerOrdered
  <2>2. CASE j > n
    <3>1. j \in n + 1 .. n + Len(acts)
      BY <2>2, <1>4, <1>6
    <3>2. ledger'[j].rev = rev
      BY <3>1, <1>8
    <3>3. CASE i <= n
      <4>1. i \in 1..n
        BY <3>3, <1>4, <1>6
      <4>2. ledger'[i].rev \in Int /\ 0 < ledger'[i].rev /\ ledger'[i].rev <= LedgerRev
        BY <4>1, <1>2, <1>6, <1>7, LedgerType DEF LedgerOrdered
      <4>. QED  BY <3>2, <4>2, <1>2, <1>3
    <3>4. CASE i > n
      <4>1. i \in n + 1 .. n + Len(acts)
        BY <3>4, <1>4, <1>6
      <4>. QED  BY <3>2, <4>1, <1>2, <1>3, <1>8
    <3>. QED  BY <3>3, <3>4, <1>6
  <2>. QED  BY <2>1, <2>2, <1>4, <1>6
<1>23. NoEcho'
  <2>. SUFFICES ASSUME NEW e \in EvIds
                PROVE  /\ \A x \in SubIds : bufr'[x][e] > 0 => ledger'[e].by # owner[x]
                       /\ \A d \in Conns : got[d][e] > 0 => ledger'[e].by # d
    BY <1>1 DEF NoEcho
  <2>1. CASE e <= n
    <3>1. ledger'[e] = ledger[e] /\ \A x \in SubIds : bufr'[x][e] = bufr[x][e]
      BY <2>1, <1>7, <1>12, <1>15
    <3>. QED  BY <3>1 DEF NoEcho
  <2>2. CASE e \in n + 1 .. n + Len(acts)
    <3>1. e > n
      BY <2>2, <1>6
    <3>. QED  BY <2>2, <3>1, <1>8, <1>9, <1>12
  <2>3. CASE e > n + Len(acts)
    <3>1. e > n
      BY <2>3, <1>4, <1>6, BoundsAssumption DEF EvIds
    <3>. QED  BY <2>3, <3>1, <1>9, <1>12
  <2>. QED  BY <2>1, <2>2, <2>3, <1>14
<1>24. SentUpTo'
  <2>. SUFFICES ASSUME NEW x \in SubIds, NEW e \in EvIds, Live(x), bufr'[x][e] > 0
                PROVE  ledger'[e].rev > bcast
    BY <1>1 DEF SentUpTo, Live
  <2>1. CASE e <= n
    BY <2>1, <1>7, <1>12, <1>15 DEF SentUpTo
  <2>2. CASE e \in n + 1 .. n + Len(acts)
    BY <2>2, <1>2, <1>3, <1>8 DEF LedgerAhead, TypeOK
  <2>. QED  BY <2>1, <2>2, <1>12, <1>14
<1>25. AtMostOnce'
  <2>. SUFFICES ASSUME NEW d \in Conns, NEW e \in EvIds
                PROVE  got[d][e] + (IF smap[d] = NoSub THEN 0 ELSE bufr'[smap[d]][e]) <= 1
    BY <1>1 DEF AtMostOnce
  <2>1. got[d][e] \in Nat /\ (smap[d] # NoSub => smap[d] \in SubIds)
    BY DEF TypeOK
  <2>2. CASE e <= n
    BY <2>1, <2>2, <1>12 DEF AtMostOnce
  <2>3. CASE e > n
    <3>1. got[d][e] = 0
      BY <2>3, <1>9
    <3>2. \A x \in SubIds : bufr'[x][e] \in {0, 1}
      BY <2>3, <1>6, <1>12, <1>14, BoundsAssumption DEF EvIds
    <3>. QED  BY <2>1, <3>1, <3>2
  <2>. QED  BY <2>2, <2>3, <1>6, BoundsAssumption DEF EvIds
<1>26. NothingLost'
  <2>. SUFFICES ASSUME NEW x \in SubIds, NEW e \in EvIds, Live(x), e <= Len(ledger'),
                       e > since[x][ledger'[e].top], Accept(x, ledger'[e]),
                       ledger'[e].by # owner[x]
                PROVE  bufr'[x][e] + got[owner[x]][e] > 0
    BY <1>1, <1>13 DEF NothingLost, Live
  <2>1. CASE e <= n
    BY <2>1, <1>7, <1>12, <1>15 DEF NothingLost
  <2>2. CASE e > n
    <3>1. e \in n + 1 .. n + Len(acts)
      BY <2>2, <1>4, <1>6, <1>7, BoundsAssumption DEF EvIds
    <3>2. bufr'[x][e] = 1
      BY <3>1, <1>8, <1>12
    <3>3. got[owner[x]][e] \in Nat
      BY DEF TypeOK
    <3>. QED  BY <3>2, <3>3
  <2>. QED  BY <2>1, <2>2, <1>6, BoundsAssumption DEF EvIds
<1>. QED  BY <1>16, <1>18, <1>19, <1>20, <1>21, <1>22, <1>23, <1>24, <1>25, <1>26

\* The buffers are broadcast.
LEMMA BcastInv ==
  ASSUME Inv, Bcast
  PROVE  Inv'
<1>. USE DEF Inv
<1>1. /\ LedgerRev > bcast /\ bcast' = LedgerRev
      /\ UNCHANGED <<ledger, nsub, owner, watch, smap, tmap, since>>
  BY DEF Bcast
<1>2. \A x \in SubIds : Live(x)' <=> Live(x)
  BY <1>1 DEF Live
<1>3. \A x \in SubIds, e \in EvIds : bufr'[x][e] = IF Live(x) THEN 0 ELSE bufr[x][e]
  BY DEF Bcast, Live, Left
<1>4. \A d \in Conns, e \in EvIds :
        got'[d][e] = got[d][e] + (IF smap[d] = NoSub THEN 0 ELSE bufr[smap[d]][e])
  BY DEF Bcast, TypeOK
\* The subscriber of a connection is live and its own.
<1>5. \A d \in Conns : smap[d] # NoSub =>
        smap[d] \in SubIds /\ Live(smap[d]) /\ owner[smap[d]] = d
  BY DEF Live, TypeOK, SubscribersOK
<1>6. \A d \in Conns, e \in EvIds :
        /\ got'[d][e] \in Nat /\ got'[d][e] <= 1
        /\ smap[d] # NoSub => bufr'[smap[d]][e] = 0
        /\ got'[d][e] > 0 => got[d][e] > 0 \/ (smap[d] # NoSub /\ bufr[smap[d]][e] > 0)
  <2>. SUFFICES ASSUME NEW d \in Conns, NEW e \in EvIds
                PROVE  /\ got'[d][e] \in Nat /\ got'[d][e] <= 1
                       /\ smap[d] # NoSub => bufr'[smap[d]][e] = 0
                       /\ got'[d][e] > 0 =>
                            got[d][e] > 0 \/ (smap[d] # NoSub /\ bufr[smap[d]][e] > 0)
    OBVIOUS
  <2>1. got[d][e] \in Nat /\ (smap[d] # NoSub => bufr[smap[d]][e] \in Nat)
    BY <1>5 DEF TypeOK
  <2>2. got'[d][e] <= 1
    BY <1>4 DEF AtMostOnce
  <2>. QED  BY <2>1, <2>2, <1>3, <1>4, <1>5
<1>7. LedgerRev' = LedgerRev /\ LedgerRev \in Int
  BY <1>1, LedgerRevLatest DEF LedgerRev
<1>8. TypeOK'
  <2>1. bufr' \in [SubIds -> [EvIds -> Nat]]
    BY DEF Bcast, Left, TypeOK
  <2>2. got' \in [Conns -> [EvIds -> Nat]]
    <3>1. \A d \in Conns : got'[d] \in [EvIds -> Nat]
      <4>. SUFFICES ASSUME NEW d \in Conns PROVE got'[d] \in [EvIds -> Nat]
        OBVIOUS
      <4>1. CASE smap[d] = NoSub
        BY <4>1 DEF Bcast, TypeOK
      <4>2. CASE smap[d] # NoSub
        <5>1. got'[d] = [e \in EvIds |-> got[d][e] + bufr[smap[d]][e]]
          BY <4>2 DEF Bcast
        <5>. QED  BY <5>1, <1>6
      <4>. QED  BY <4>1, <4>2
    <3>. QED  BY <3>1 DEF Bcast
  <2>3. srev' \in [SubIds -> Int]
    BY <1>7 DEF Bcast, TypeOK
  <2>. QED  BY <1>1, <1>7, <2>1, <2>2, <2>3 DEF TypeOK
<1>9. SubscribersOK'
  BY <1>1, <1>3 DEF SubscribersOK
<1>10. LedgerAhead'
  <2>1. \A d \in Conns, e \in EvIds : got'[d][e] > 0 => e <= Len(ledger)
    BY <1>5, <1>6 DEF LedgerAhead, BufferWanted
  <2>. QED  BY <2>1, <1>1, <1>7 DEF LedgerAhead
<1>11. IndexesAgree' /\ LiveWatches' /\ LedgerOrdered'
  BY <1>1, <1>2 DEF IndexesAgree, LiveWatches, LedgerOrdered
<1>12. \A x \in SubIds, e \in EvIds :
         bufr'[x][e] > 0 => ~Live(x) /\ bufr[x][e] > 0
  BY <1>3
<1>13. BufferWanted' /\ SentUpTo'
  BY <1>1, <1>2, <1>12 DEF BufferWanted, SentUpTo, Accept
<1>14. NoEcho'
  <2>1. \A d \in Conns, e \in EvIds : got'[d][e] > 0 => ledger[e].by # d
    BY <1>5, <1>6 DEF NoEcho
  <2>. QED  BY <2>1, <1>1, <1>12 DEF NoEcho
<1>15. AtMostOnce'
  BY <1>1, <1>6 DEF AtMostOnce
<1>16. NothingLost'
  <2>. SUFFICES ASSUME NEW x \in SubIds, NEW e \in EvIds, Live(x), e <= Len(ledger),
                       e > since[x][ledger[e].top], Accept(x, ledger[e]),
                       ledger[e].by # owner[x]
                PROVE  bufr'[x][e] + got'[owner[x]][e] > 0
    BY <1>1, <1>2 DEF NothingLost, Accept
  <2>1. bufr[x][e] + got[owner[x]][e] > 0
    BY DEF NothingLost
  <2>2. PICK d \in Conns : smap[d] = x
    BY DEF Live
  <2>3. x # NoSub
    BY BoundsAssumption DEF SubIds, NoSub
  <2>4. owner[x] = d /\ got'[d][e] = got[d][e] + bufr[x][e] /\ bufr'[x][e] = 0
    BY <2>2, <2>3, <1>3, <1>4, <1>5
  <2>5. got[d][e] \in Nat /\ bufr[x][e] \in Nat
    BY DEF TypeOK
  <2>. QED  BY <2>1, <2>4, <2>5
<1>. QED  BY <1>8, <1>9, <1>10, <1>11, <1>13, <1>14, <1>15, <1>16

\* Nothing changes.
LEMMA StutterInv ==
  ASSUME Inv, UNCHANGED vars
  PROVE  Inv'
<1>1. /\ ledger' = ledger /\ nsub' = nsub /\ owner' = owner /\ watch' = watch
      /\ bufr' = bufr /\ srev' = srev /\ smap' = smap /\ tmap' = tmap
      /\ bcast' = bcast /\ got' = got /\ since' = since
  BY DEF vars, subVars, histVars
<1>2. LedgerRev' = LedgerRev /\ \A x \in SubIds : Live(x)' <=> Live(x)
  BY <1>1 DEF LedgerRev, Live
<1>3. TypeOK' /\ SubscribersOK' /\ LedgerAhead'
  BY <1>1, <1>2 DEF Inv, TypeOK, SubscribersOK, LedgerAhead
<1>4. IndexesAgree' /\ LiveWatches' /\ LedgerOrdered' /\ NoEcho' /\ SentUpTo' /\ AtMostOnce'
  BY <1>1, <1>2 DEF Inv, IndexesAgree, LiveWatches, LedgerOrdered, NoEcho, SentUpTo, AtMostOnce
<1>5. BufferWanted' /\ NothingLost'
  BY <1>1, <1>2 DEF Inv, BufferWanted, NothingLost, Accept
<1>. QED  BY <1>3, <1>4, <1>5 DEF Inv

-----------------------------------------------------------------------------
(* The theorems *)

\* The invariant holds in every state of every behaviour.
THEOREM SubsInvariant == Spec => []Inv
<1>1. Inv /\ [Next]_vars => Inv'
  <2>. SUFFICES ASSUME Inv, [Next]_vars PROVE Inv'
    OBVIOUS
  <2>1. ASSUME NEW c \in Conns, NEW ws \in WatchLists, SubNew(c, ws) \/ SubMore(c, ws)
        PROVE  Inv'
    BY <2>1, SubInv
  <2>2. ASSUME NEW c \in Conns, NEW ws \in WatchLists, UnsubSome(c, ws)
        PROVE  Inv'
    BY <2>2, UnsubSomeInv
  <2>3. ASSUME NEW c \in Conns, UnsubAll(c)
        PROVE  Inv'
    BY <2>3, UnsubAllInv
  <2>4. ASSUME NEW c \in Conns, NEW acts \in ActLists, NEW now \in 1..MaxNow,
               Publish(c, acts, now)
        PROVE  Inv'
    BY <2>4, PublishInv
  <2>5. CASE Bcast
    BY <2>5, BcastInv
  <2>6. CASE UNCHANGED vars
    BY <2>6, StutterInv
  <2>. QED  BY <2>1, <2>2, <2>3, <2>4, <2>5, <2>6 DEF Next
<1>. QED  BY InitInv, <1>1, PTL DEF Spec

\* The state always has its type.
THEOREM SubsTypeOK == Spec => []TypeOK
<1>1. Inv => TypeOK
  BY DEF Inv
<1>. QED  BY SubsInvariant, <1>1, PTL

\* The index by topic and the watches of the subscribers agree after any sequence of Sub
\* and Unsub calls, duplicates and empty lists included (subs.go:85-91 and 108-117).
THEOREM SubsIndexesAgree == Spec => []IndexesAgree
<1>1. Inv => IndexesAgree
  BY DEF Inv
<1>. QED  BY SubsInvariant, <1>1, PTL

\* No event that a subscriber waits for is lost, and none is sent twice (subs.go:60-72 and
\* 136-144).
THEOREM SubsExactlyOnce == Spec => [](NothingLost /\ AtMostOnce)
<1>1. Inv => NothingLost /\ AtMostOnce
  BY DEF Inv
<1>. QED  BY SubsInvariant, <1>1, PTL

\* What waits in a buffer is wanted, is newer than the latest broadcast and is not the
\* subscriber's own.
THEOREM SubsBuffers == Spec => [](BufferWanted /\ SentUpTo /\ NoEcho)
<1>1. Inv => BufferWanted /\ SentUpTo /\ NoEcho
  BY DEF Inv
<1>. QED  BY SubsInvariant, <1>1, PTL
=============================================================================
