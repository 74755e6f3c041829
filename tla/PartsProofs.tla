----------------------------- MODULE PartsProofs -----------------------------
(***************************************************************************)
(* Proofs about three parts that do not depend on each other.              *)
(*                                                                         *)
(* The request map: for all connections, tokens, channel capacities and    *)
(* bounds a response goes to the connection that asked, and a request is   *)
(* answered once and waits no longer than that.                            *)
(*                                                                         *)
(* The access policy: for all names, actions, rules and stacks the answer  *)
(* is the one the memberships call for.  A walk looks at roles one by one  *)
(* and in the end has looked at every role the user has, though it may     *)
(* look at some of them repeatedly and the roles it is at may be members   *)
(* of each other.                                                          *)
(*                                                                         *)
(* The recorded history: for all models, schemas, project files and        *)
(* numbers of recordings, and wherever recording fails or dies, records    *)
(* have successive versions, a recorded version of a node means one        *)
(* definition for ever and grows by one with it, a record is whole, and a  *)
(* history that can be read is continued from its last record.             *)
(***************************************************************************)
EXTENDS RequestMap, Policy, History, TLAPS, SequenceTheorems, FiniteSetTheorems

-----------------------------------------------------------------------------
(* The request map: the inductive invariant *)

\* The map has the requests that were noted, under the ids they were noted by.
Noted ==
    /\ last = Len(noted)
    /\ \A id \in DOMAIN m : m[id] = noted[id]

\* The response that is sent is to a request that waits, and once it is sent it is delivered.
Sending ==
    /\ sending # 0 => sending \in DOMAIN m
    /\ sent => sending # 0 /\ sending \in AnsweredIds

ReqInv == ReqTypeOK /\ Noted /\ Sending /\ AnswersOwn /\ WaitsForAnswer

Replies == [id : Ids, tok : Tokens]

-----------------------------------------------------------------------------
(* Delivered responses *)

\* The delivered responses of a connection are a sequence of responses.
LEMMA DeliveredType ==
  ASSUME ReqTypeOK, NEW c \in Requesters
  PROVE  /\ received[c] \in Seq(Replies) /\ channel[c] \in Seq(Replies)
         /\ Delivered(c) \in Seq(Replies)
         /\ Len(Delivered(c)) \in Nat
         /\ \A i \in 1..Len(Delivered(c)) : Delivered(c)[i] \in Replies
<1>1. received[c] \in Seq(Replies) /\ channel[c] \in Seq(Replies)
  BY DEF ReqTypeOK, Replies
<1>2. Delivered(c) \in Seq(Replies)
  BY <1>1, ConcatProperties DEF Delivered
<1>3. Len(Delivered(c)) \in Nat /\ \A i \in 1..Len(Delivered(c)) : Delivered(c)[i] \in Replies
  BY <1>2, LenProperties, ElementOfSeq
<1>. QED  BY <1>1, <1>2, <1>3

\* Taking the head of the channel delivers nothing new.
LEMMA TakeDelivers ==
  ASSUME NEW S, NEW r \in Seq(S), NEW q \in Seq(S), q # <<>>
  PROVE  Append(r, Head(q)) \o Tail(q) = r \o q
<1>1. Head(q) \in S /\ Tail(q) \in Seq(S) /\ q = <<Head(q)>> \o Tail(q)
  BY HeadTailProperties, SMT
<1>2. <<Head(q)>> \in Seq(S)
  BY <1>1
<1>3. Append(r, Head(q)) = r \o <<Head(q)>>
  BY <1>1, AppendIsConcat
<1>. QED  BY <1>1, <1>2, <1>3, ConcatAssociative

\* A response put into the channel is the last one delivered.
LEMMA SendDelivers ==
  ASSUME NEW S, NEW r \in Seq(S), NEW q \in Seq(S), NEW e \in S
  PROVE  r \o Append(q, e) = Append(r \o q, e)
<1>1. <<e>> \in Seq(S) /\ r \o q \in Seq(S)
  BY ConcatProperties
<1>2. Append(q, e) = q \o <<e>> /\ Append(r \o q, e) = (r \o q) \o <<e>>
  BY <1>1, AppendIsConcat
<1>. QED  BY <1>1, <1>2, ConcatAssociative

\* The delivered responses s of c answer its own requests, each once.
Own(s, c) ==
    \A i \in 1..Len(s) :
       /\ s[i].id \in 1..Len(noted)
       /\ noted[s[i].id] = [conn |-> c, tok |-> s[i].tok]
       /\ \A j \in 1..Len(s) : i # j => s[j].id # s[i].id

LEMMA OwnIsAll == AnswersOwn <=> \A c \in Requesters : Own(Delivered(c), c)
BY DEF AnswersOwn, Own

\* They still do with one more, to a request of its own that was not answered.
LEMMA OwnAppend ==
  ASSUME NEW c, NEW s \in Seq(Replies), NEW e \in Replies, Own(s, c),
         e.id \in 1..Len(noted), noted[e.id] = [conn |-> c, tok |-> e.tok],
         \A i \in 1..Len(s) : s[i].id # e.id
  PROVE  Own(Append(s, e), c)
<1>. DEFINE t == Append(s, e)
<1>1. /\ Len(s) \in Nat /\ Len(t) = Len(s) + 1 /\ t[Len(s) + 1] = e
      /\ \A i \in 1..Len(s) : t[i] = s[i]
  BY AppendProperties, LenProperties
<1>. HIDE DEF t
<1>2. \A i \in 1..Len(t) :
         \/ i \in 1..Len(s) /\ t[i] = s[i]
         \/ i = Len(s) + 1 /\ t[i] = e
  <2>1. \A i \in 1..Len(t) : i \in 1..Len(s) \/ i = Len(s) + 1
    BY <1>1
  <2>. QED  BY <1>1, <2>1
<1>3. ASSUME NEW i \in 1..Len(t)
      PROVE  t[i].id \in 1..Len(noted) /\ noted[t[i].id] = [conn |-> c, tok |-> t[i].tok]
  BY <1>2 DEF Own
<1>4. ASSUME NEW i \in 1..Len(t), NEW j \in 1..Len(t), i # j
      PROVE  t[j].id # t[i].id
  <2>1. CASE t[i] = s[i] /\ i \in 1..Len(s) /\ t[j] = s[j] /\ j \in 1..Len(s)
    BY <1>4, <2>1 DEF Own
  <2>2. CASE t[i] = e \/ t[j] = e
    BY <1>2, <1>4, <2>2
  <2>. QED  BY <1>2, <2>1, <2>2
<1>5. Own(t, c)
  BY <1>3, <1>4 DEF Own
<1>. QED  BY <1>5 DEF t

\* An answered request was noted.
LEMMA AnsweredWasNoted ==
  ASSUME AnswersOwn, NEW id \in AnsweredIds
  PROVE  id \in 1..Len(noted)
<1>1. PICK c \in Requesters : \E i \in 1..Len(Delivered(c)) : id = Delivered(c)[i].id
  BY DEF AnsweredIds
<1>. QED  BY <1>1 DEF AnswersOwn

\* What is delivered decides on the answered ids and with the notes on AnswersOwn.
LEMMA SameDelivered ==
  ASSUME \A c \in Requesters : Delivered(c)' = Delivered(c)
  PROVE  /\ AnsweredIds' = AnsweredIds
         /\ AnswersOwn /\ noted' = noted => AnswersOwn'
BY DEF AnsweredIds, AnswersOwn

LEMMA QuietDelivered ==
  ASSUME UNCHANGED <<channel, received>>
  PROVE  \A c \in Requesters : Delivered(c)' = Delivered(c)
BY DEF Delivered

-----------------------------------------------------------------------------
(* The invariant holds initially and is kept by every operation *)

LEMMA ReqInitInv == ReqInit => ReqInv
<1> SUFFICES ASSUME ReqInit PROVE ReqInv
  OBVIOUS
<1>1. DOMAIN m = {} /\ Len(noted) = 0
  BY DEF ReqInit
<1>2. \A c \in Requesters : Delivered(c) = <<>> /\ Len(Delivered(c)) = 0
  BY DEF ReqInit, Delivered
<1>3. AnsweredIds = {}
  BY <1>2 DEF AnsweredIds
<1>4. ReqTypeOK
  <2>1. /\ last \in 0..MaxNotes /\ sending \in 0..MaxNotes /\ arrived \in 0..MaxResponses
        /\ DOMAIN m \subseteq Ids /\ \A id \in DOMAIN m : m[id] \in Req
    BY <1>1, RequestMapAssumption DEF ReqInit
  <2>2. /\ channel \in [Requesters -> Seq([id : Ids, tok : Tokens])]
        /\ received \in [Requesters -> Seq([id : Ids, tok : Tokens])]
    BY EmptySeq DEF ReqInit
  <2>3. noted \in Seq(Req) /\ sent \in BOOLEAN
    BY EmptySeq DEF ReqInit
  <2>. QED  BY <2>1, <2>2, <2>3 DEF ReqTypeOK
<1>5. AnswersOwn
  BY <1>2 DEF AnswersOwn
<1>6. WaitsForAnswer
  BY <1>1, <1>3 DEF WaitsForAnswer, ReqInit
<1>. QED  BY <1>1, <1>4, <1>5, <1>6 DEF ReqInv, Noted, Sending, ReqInit

LEMMA NoteInv ==
  ASSUME ReqInv, NEW c \in Requesters, NEW tok \in Tokens, Note(c, tok)
  PROVE  ReqInv'
<1>. DEFINE new == [conn |-> c, tok |-> tok]
<1>. USE DEF Note, ReqInv
<1>1. /\ noted \in Seq(Req) /\ new \in Req /\ last = Len(noted) /\ last \in Nat
      /\ last' = last + 1 /\ last' \in Ids
  BY RequestMapAssumption DEF ReqTypeOK, Req, Noted, Ids
<1>2. /\ noted' \in Seq(Req) /\ Len(noted') = last'
      /\ noted'[last'] = new /\ \A id \in 1..Len(noted) : noted'[id] = noted[id]
  BY <1>1, AppendProperties
<1>3. DOMAIN m \subseteq 1..Len(noted)
  BY AnsweredWasNoted, <1>1 DEF WaitsForAnswer, Sending
<1>4. /\ DOMAIN m' = DOMAIN m \cup {last'} /\ m'[last'] = new
      /\ \A id \in DOMAIN m : id # last' /\ m'[id] = m[id]
  BY <1>1, <1>3
<1>5. \A d \in Requesters : Delivered(d)' = Delivered(d)
  BY QuietDelivered
<1>6. ReqTypeOK'
  <2>1. last' \in 0..MaxNotes /\ DOMAIN m' \subseteq Ids /\ \A id \in DOMAIN m' : m'[id] \in Req
    BY <1>1, <1>4 DEF ReqTypeOK, Ids
  <2>. QED  BY <1>2, <2>1 DEF ReqTypeOK
<1>7. Noted'
  BY <1>2, <1>3, <1>4 DEF Noted
<1>8. Sending'
  BY <1>4, <1>5, SameDelivered DEF Sending
<1>9. AnswersOwn'
  BY <1>1, <1>2, <1>5 DEF AnswersOwn
<1>10. WaitsForAnswer'
  <2>1. AnsweredIds' = AnsweredIds /\ last' \notin AnsweredIds /\ ~sent
    BY <1>1, <1>5, SameDelivered, AnsweredWasNoted DEF Sending
  <2>2. 1..Len(noted') = (1..Len(noted)) \cup {last'}
    BY <1>1, <1>2
  <2>. QED  BY <1>4, <2>1, <2>2 DEF WaitsForAnswer
<1>. QED  BY <1>6, <1>7, <1>8, <1>9, <1>10

LEMMA ResponseInv ==
  ASSUME ReqInv, NEW id \in Ids \cup {Junk}, Response(id)
  PROVE  ReqInv'
<1>. USE DEF Response, ReqInv
<1>1. \A c \in Requesters : Delivered(c)' = Delivered(c)
  BY QuietDelivered
<1>2. ~sent /\ ~sent'
  BY DEF Sending
<1>3. ReqTypeOK'
  <2>1. sending' \in 0..MaxNotes /\ arrived' \in 0..MaxResponses
    BY RequestMapAssumption DEF ReqTypeOK, Ids
  <2>. QED  BY <2>1 DEF ReqTypeOK
<1>4. Noted' /\ Sending'
  BY <1>2 DEF Noted, Sending
<1>5. AnswersOwn' /\ WaitsForAnswer'
  BY <1>1, <1>2, SameDelivered DEF WaitsForAnswer
<1>. QED  BY <1>3, <1>4, <1>5

LEMMA SendInv ==
  ASSUME ReqInv, Send
  PROVE  ReqInv'
<1>. USE DEF Send, ReqInv
<1>0. ReqTypeOK /\ AnswersOwn /\ m[sending] \in Req
  BY DEF Sending, ReqTypeOK
<1>c. PICK c \in Requesters : c = m[sending].conn
  BY <1>0 DEF Req
<1>. DEFINE reply == Reply(sending, m[sending].tok)
            n == Len(Delivered(c))
<1>1. /\ sending \in DOMAIN m /\ sending \in Ids /\ c = m[sending].conn /\ c \in Requesters /\ m[sending].tok \in Tokens
      /\ m[sending] = [conn |-> c, tok |-> m[sending].tok] /\ m[sending] = noted[sending]
  BY <1>c DEF Sending, ReqTypeOK, Req, Noted
<1>2. reply \in Replies /\ reply.id = sending /\ reply.tok = m[sending].tok
  BY <1>1 DEF Replies, Reply
<1>3. sending \in 1..Len(noted) /\ sending \notin AnsweredIds
  BY <1>1 DEF WaitsForAnswer
<1>4. /\ channel' = [channel EXCEPT ![c] = Append(@, reply)]
      /\ channel'[c] = Append(channel[c], reply)
      /\ \A d \in Requesters : d # c => channel'[d] = channel[d]
  BY <1>1 DEF ReqTypeOK
<1>5. Delivered(c)' = Append(Delivered(c), reply)
  <2>1. received[c] \in Seq(Replies) /\ channel[c] \in Seq(Replies)
    BY <1>1, DeliveredType
  <2>2. received[c] \o Append(channel[c], reply) = Append(received[c] \o channel[c], reply)
    <3>1. \A r, q \in Seq(Replies), e \in Replies : r \o Append(q, e) = Append(r \o q, e)
      BY SendDelivers
    <3>. QED  BY <1>2, <2>1, <3>1
  <2>. QED  BY <1>4, <2>2 DEF Delivered
<1>6. \A d \in Requesters : d # c => Delivered(d)' = Delivered(d)
  BY <1>4 DEF Delivered
<1>7. /\ n \in Nat /\ Len(Delivered(c)') = n + 1 /\ Delivered(c)'[n + 1] = reply
      /\ \A i \in 1..n : Delivered(c)'[i] = Delivered(c)[i]
  <2>1. Delivered(c) \in Seq(Replies) /\ n \in Nat
    BY <1>0, DeliveredType
  <2>. HIDE DEF reply, Send, ReqInv
  <2>. QED  BY <1>2, <1>5, <2>1, AppendProperties
<1>8. ReqTypeOK'
  <2>1. Append(channel[c], reply) \in Seq(Replies)
    BY <1>0, <1>2, DeliveredType, AppendProperties
  <2>. HIDE DEF reply
  <2>2. channel' \in [Requesters -> Seq(Replies)]
    BY <1>0, <1>4, <2>1 DEF ReqTypeOK, Replies
  <2>. QED  BY <2>2 DEF ReqTypeOK, Replies
<1>9. AnsweredIds' = AnsweredIds \cup {sending}
  <2>. DEFINE Of(d) == {Delivered(d)[i].id : i \in 1..Len(Delivered(d))}
  <2>1. Of(c)' = Of(c) \cup {sending}
    BY <1>2, <1>7
  <2>2. \A d \in Requesters : d # c => Of(d)' = Of(d)
    BY <1>6
  <2>3. AnsweredIds = UNION {Of(d) : d \in Requesters}
    BY DEF AnsweredIds
  <2>4. AnsweredIds' = UNION {Of(d)' : d \in Requesters}
    BY DEF AnsweredIds
  <2>. HIDE DEF Of
  <2>. QED  BY <1>1, <2>1, <2>2, <2>3, <2>4
<1>10. Noted' /\ Sending'
  BY <1>1, <1>9 DEF Noted, Sending
<1>11. AnswersOwn'
  <2>. HIDE DEF reply, n, Send, ReqInv
  <2>1. \A d \in Requesters : Own(Delivered(d), d)
    BY <1>0, OwnIsAll
  <2>2. \A i \in 1..n : Delivered(c)[i].id # sending
    BY <1>1, <1>3 DEF n, AnsweredIds
  <2>3. Own(Append(Delivered(c), reply), c)
    BY <1>0, <1>1, <1>2, <1>3, <2>1, <2>2, DeliveredType, OwnAppend DEF n
  <2>4. \A d \in Requesters : Own(Delivered(d)', d)
    <3>1. Own(Delivered(c)', c)
      BY <1>5, <2>3
    <3>2. ASSUME NEW d \in Requesters, d # c PROVE Own(Delivered(d)', d)
      BY <1>6, <2>1, <3>2
    <3>. QED  BY <3>1, <3>2
  <2>5. noted' = noted
    BY DEF Send
  <2>. QED  BY <2>4, <2>5 DEF AnswersOwn, Own
<1>12. WaitsForAnswer'
  BY <1>3, <1>9 DEF WaitsForAnswer
<1>. QED  BY <1>8, <1>10, <1>11, <1>12

LEMMA DeleteInv ==
  ASSUME ReqInv, Delete
  PROVE  ReqInv'
<1>. USE DEF Delete, ReqInv
<1>1. \A c \in Requesters : Delivered(c)' = Delivered(c)
  BY QuietDelivered
<1>2. DOMAIN m' = DOMAIN m \ {sending} /\ \A id \in DOMAIN m' : m'[id] = m[id]
  OBVIOUS
<1>3. ReqTypeOK'
  <2>1. sending' \in 0..MaxNotes /\ DOMAIN m' \subseteq Ids /\ \A id \in DOMAIN m' : m'[id] \in Req
    BY <1>2, RequestMapAssumption DEF ReqTypeOK
  <2>2. sent' \in BOOLEAN
    OBVIOUS
  <2>. QED  BY <2>1, <2>2 DEF ReqTypeOK
<1>4. Noted' /\ Sending'
  BY <1>2 DEF Noted, Sending
<1>5. AnswersOwn' /\ WaitsForAnswer'
  BY <1>1, <1>2, SameDelivered DEF WaitsForAnswer, Sending
<1>. QED  BY <1>3, <1>4, <1>5

LEMMA TakeInv ==
  ASSUME ReqInv, NEW c \in Requesters, Take(c)
  PROVE  ReqInv'
<1>. USE DEF Take, ReqInv
<1>1. /\ received[c] \in Seq(Replies) /\ channel[c] \in Seq(Replies)
      /\ received'[c] = Append(received[c], Head(channel[c])) /\ channel'[c] = Tail(channel[c])
      /\ \A d \in Requesters : d # c => received'[d] = received[d] /\ channel'[d] = channel[d]
  BY DeliveredType DEF ReqTypeOK
<1>2. \A d \in Requesters : Delivered(d)' = Delivered(d)
  <2>1. Append(received[c], Head(channel[c])) \o Tail(channel[c]) = received[c] \o channel[c]
    BY <1>1, TakeDelivers
  <2>. QED  BY <1>1, <2>1 DEF Delivered
<1>3. ReqTypeOK'
  <2>1. Tail(channel[c]) \in Seq(Replies) /\ Append(received[c], Head(channel[c])) \in Seq(Replies)
    BY <1>1, HeadTailProperties, AppendProperties
  <2>. QED  BY <2>1 DEF ReqTypeOK, Replies
<1>4. Noted' /\ Sending'
  BY <1>2, SameDelivered DEF Noted, Sending
<1>5. AnswersOwn' /\ WaitsForAnswer'
  BY <1>2, SameDelivered DEF WaitsForAnswer
<1>. QED  BY <1>3, <1>4, <1>5

LEMMA ReqStepInv == ReqInv /\ [ReqNext]_reqVars => ReqInv'
<1> SUFFICES ASSUME ReqInv, [ReqNext]_reqVars PROVE ReqInv'
  OBVIOUS
<1>1. CASE UNCHANGED reqVars
  <2>1. \A c \in Requesters : Delivered(c)' = Delivered(c)
    BY <1>1, QuietDelivered DEF reqVars
  <2>2. ReqTypeOK' /\ Noted' /\ Sending'
    BY <1>1, <2>1, SameDelivered DEF reqVars, ReqInv, ReqTypeOK, Noted, Sending
  <2>. QED  BY <1>1, <2>1, <2>2, SameDelivered DEF reqVars, ReqInv, WaitsForAnswer
<1>. QED  BY <1>1, NoteInv, ResponseInv, SendInv, DeleteInv, TakeInv DEF ReqNext

\* The inductive invariant holds in every reachable state (reqmap.go:14-41).
THEOREM RequestMapInvariant == ReqSpec => []ReqInv
<1>1. ReqInit => ReqInv
  BY ReqInitInv
<1>2. ReqInv /\ [ReqNext]_reqVars => ReqInv'
  BY ReqStepInv
<1>. QED  BY <1>1, <1>2, PTL DEF ReqSpec

\* A response reaches the connection that made the request, with that request's token, and a
\* request is answered once, however many responses arrive and in which order (reqmap.go:23).
THEOREM RequestsAnsweredOwn == ReqSpec => []AnswersOwn
<1>1. ReqInv => AnswersOwn
  BY DEF ReqInv
<1>. QED  BY <1>1, RequestMapInvariant, PTL

\* A request waits in the map from its note until its response was sent (reqmap.go:40).
THEOREM RequestsWait == ReqSpec => []WaitsForAnswer
<1>1. ReqInv => WaitsForAnswer
  BY DEF ReqInv
<1>. QED  BY <1>1, RequestMapInvariant, PTL

-----------------------------------------------------------------------------
(* The policy: roles by membership *)

Roles == [PolNames -> Role]

\* The groups of a role are names.
LEMMA GroupsType ==
  ASSUME NEW r \in Roles, NEW n \in PolNames
  PROVE  /\ Len(r[n].groups) \in Nat
         /\ \A i \in 1..Len(r[n].groups) : r[n].groups[i] \in PolNames
<1>1. r[n].groups \in Seq(PolNames)
  BY DEF Roles, Role
<1>. QED  BY <1>1, LenProperties, ElementOfSeq

\* Every name has itself.
LEMMA HasSelf ==
  ASSUME NEW r, NEW n \in PolNames
  PROVE  n \in Has(r, n)
BY DEF Has

\* With a role come its groups.
LEMMA HasGroups ==
  ASSUME NEW r \in Roles, NEW n \in PolNames, NEW k \in Has(r, n),
         NEW i \in 1..Len(r[k].groups)
  PROVE  r[k].groups[i] \in Has(r, n)
<1>1. k \in PolNames /\ r[k].groups[i] \in PolNames
  BY GroupsType DEF Has
<1>2. ASSUME NEW S \in SUBSET PolNames, n \in S, Closed(r, S)
      PROVE  r[k].groups[i] \in S
  BY <1>2 DEF Has, Closed
<1>. QED  BY <1>1, <1>2 DEF Has

\* A name has nothing but itself and what its groups have.
LEMMA HasSplit ==
  ASSUME NEW r \in Roles, NEW n \in PolNames, NEW k \in Has(r, n)
  PROVE  k = n \/ \E i \in 1..Len(r[n].groups) : k \in Has(r, r[n].groups[i])
<1>. DEFINE S == {v \in PolNames : v = n \/ \E i \in 1..Len(r[n].groups) : v \in Has(r, r[n].groups[i])}
<1>1. ASSUME NEW v \in S, NEW j \in 1..Len(r[v].groups)
      PROVE  r[v].groups[j] \in S
  <2>1. r[v].groups[j] \in PolNames
    BY GroupsType
  <2>2. CASE v = n
    BY <2>1, <2>2, HasSelf
  <2>3. ASSUME NEW i \in 1..Len(r[n].groups), v \in Has(r, r[n].groups[i])
        PROVE  r[v].groups[j] \in S
    <3>1. r[n].groups[i] \in PolNames
      BY GroupsType
    <3>2. r[v].groups[j] \in Has(r, r[n].groups[i])
      BY <2>3, <3>1, HasGroups
    <3>. QED  BY <2>1, <3>2
  <2>. QED  BY <2>2, <2>3
<1>2. Closed(r, S) /\ n \in S /\ S \in SUBSET PolNames
  BY <1>1 DEF Closed
<1>3. k \in S
  BY <1>2 DEF Has
<1>. QED  BY <1>3

-----------------------------------------------------------------------------
(* What the frames of a walk know *)

Walks == {"allowed", "denied"}
Lists(r, w, n) == IF w = "allowed" THEN r[n].allow ELSE r[n].deny

\* No role that n has lists the action.
Clean(r, w, act, n) == \A k \in Has(r, n) : act \notin Lists(r, w, k)

\* A frame is at a role the user has, and past that role's own list and its first groups.
FrameOK(r, w, q, f, past) ==
    /\ f.role \in Has(r, q.user)
    /\ f.next > 0 => q.action \notin Lists(r, w, f.role)
    /\ f.next <= Len(r[f.role].groups) + 1
    /\ \A j \in 1..Len(r[f.role].groups) : j < past => Clean(r, w, q.action, r[f.role].groups[j])

\* The last frame is past the groups before its next; the others wait for the group before it.
Past(s, k) == IF k = Len(s) THEN s[k].next ELSE s[k].next - 1
StackOK(r, w, q, s) ==
    /\ s # <<>> => s[1].role = q.user
    /\ \A k \in 1..Len(s) : FrameOK(r, w, q, s[k], Past(s, k))
    /\ \A k \in 1..Len(s) : k < Len(s) =>
          /\ s[k].next - 1 \in 1..Len(r[s[k].role].groups)
          /\ s[k + 1].role = r[s[k].role].groups[s[k].next - 1]

\* A stack that is not empty has a last frame.
LEMMA TopType ==
  ASSUME NEW s \in Seq(Frame), s # <<>>
  PROVE  /\ Len(s) \in Nat \ {0} /\ Len(s) \in 1..Len(s) /\ 1 \in 1..Len(s)
         /\ \A k \in 1..Len(s) : s[k] \in Frame /\ s[k].role \in PolNames /\ s[k].next \in Nat
<1>1. Len(s) \in Nat \ {0}
  BY LenProperties, EmptySeq
<1>2. \A k \in 1..Len(s) : s[k] \in Frame
  BY ElementOfSeq
<1>. QED  BY <1>1, <1>2 DEF Frame

\* A walk starts at the user.
LEMMA EnterStack ==
  ASSUME NEW r \in Roles, NEW w \in Walks, NEW q \in Request
  PROVE  StackOK(r, w, q, <<Enter(q.user)>>) /\ <<Enter(q.user)>> \in Seq(Frame)
<1>. DEFINE f == Enter(q.user)
<1>1. q.user \in PolNames /\ q.user \in Has(r, q.user) /\ Len(r[q.user].groups) \in Nat
  BY HasSelf, GroupsType DEF Request
<1>2. f \in Frame /\ f.role = q.user /\ f.next = 0
  BY <1>1 DEF Frame, Enter
<1>3. FrameOK(r, w, q, f, 0)
  BY <1>1, <1>2 DEF FrameOK
<1>. HIDE DEF f
<1>4. <<f>> \in Seq(Frame) /\ Len(<<f>>) = 1 /\ <<f>>[1] = f
  BY <1>2
<1>5. Past(<<f>>, 1) = 0
  BY <1>2, <1>4 DEF Past
<1>6. StackOK(r, w, q, <<f>>)
  BY <1>2, <1>3, <1>4, <1>5 DEF StackOK
<1>. QED  BY <1>4, <1>6 DEF f

\* The last frame passes its role's own list.
LEMMA ScanStack ==
  ASSUME NEW r \in Roles, NEW w \in Walks, NEW q \in Request, NEW s \in Seq(Frame), s # <<>>,
         StackOK(r, w, q, s), s[Len(s)].next = 0,
         q.action \notin Lists(r, w, s[Len(s)].role)
  PROVE  LET t == [s EXCEPT ![Len(s)].next = 1] IN StackOK(r, w, q, t) /\ t \in Seq(Frame)
<1>. DEFINE n == Len(s)
            t == [s EXCEPT ![n].next = 1]
<1>1. /\ n \in Nat \ {0} /\ n \in 1..n /\ 1 \in 1..n
      /\ \A k \in 1..n : s[k] \in Frame /\ s[k].role \in PolNames /\ s[k].next \in Nat
  BY TopType
<1>2. /\ t \in Seq(Frame) /\ Len(t) = n /\ t[n].role = s[n].role /\ t[n].next = 1
      /\ \A k \in 1..n : k # n => t[k] = s[k]
  BY <1>1 DEF Frame
<1>. HIDE DEF t, n
<1>3. \A k \in 1..n : t[k].role = s[k].role
  BY <1>1, <1>2
<1>4. FrameOK(r, w, q, t[n], Past(t, n))
  <2>1. Past(t, n) = 1 /\ Len(r[t[n].role].groups) \in Nat
    BY <1>1, <1>2, GroupsType DEF Past
  <2>2. FrameOK(r, w, q, s[n], Past(s, n))
    BY <1>1 DEF StackOK, n
  <2>. QED  BY <1>1, <1>2, <2>1, <2>2 DEF FrameOK, n
<1>5. ASSUME NEW k \in 1..n, k # n
      PROVE  FrameOK(r, w, q, t[k], Past(t, k))
  <2>1. FrameOK(r, w, q, s[k], Past(s, k)) /\ t[k] = s[k]
    BY <1>2, <1>5 DEF StackOK, n
  <2>2. Past(t, k) = Past(s, k)
    BY <1>1, <1>2, <1>5, <2>1 DEF Past, n
  <2>. QED  BY <2>1, <2>2
<1>6. StackOK(r, w, q, t)
  <2>1. t # <<>> => t[1].role = q.user
    BY <1>1, <1>3 DEF StackOK
  <2>2. ASSUME NEW k \in 1..n, k < n
        PROVE  /\ t[k].next - 1 \in 1..Len(r[t[k].role].groups)
               /\ t[k + 1].role = r[t[k].role].groups[t[k].next - 1]
    <3>1. k + 1 \in 1..n /\ k # n
      BY <1>1, <2>2
    <3>. QED  BY <1>2, <1>3, <2>2, <3>1 DEF StackOK, n
  <2>. QED  BY <1>2, <1>4, <1>5, <2>1, <2>2 DEF StackOK
<1>. QED  BY <1>2, <1>6 DEF t, n

\* The last frame goes to its next group, a role the user has too.
LEMMA DescendStack ==
  ASSUME NEW r \in Roles, NEW w \in Walks, NEW q \in Request, NEW s \in Seq(Frame), s # <<>>,
         StackOK(r, w, q, s), s[Len(s)].next \in 1..Len(r[s[Len(s)].role].groups)
  PROVE  LET g == r[s[Len(s)].role].groups[s[Len(s)].next]
             t == Append([s EXCEPT ![Len(s)].next = @ + 1], Enter(g))
         IN  StackOK(r, w, q, t) /\ t \in Seq(Frame)
<1>. DEFINE n == Len(s)
            g == r[s[n].role].groups[s[n].next]
            u == [s EXCEPT ![n].next = @ + 1]
            t == Append(u, Enter(g))
<1>1. /\ n \in Nat \ {0} /\ n \in 1..n /\ 1 \in 1..n
      /\ \A k \in 1..n : s[k] \in Frame /\ s[k].role \in PolNames /\ s[k].next \in Nat
  BY TopType
<1>2. FrameOK(r, w, q, s[n], s[n].next)
  BY <1>1 DEF StackOK, Past
<1>3. g \in PolNames /\ g \in Has(r, q.user)
  <2>1. q.user \in PolNames /\ s[n].role \in Has(r, q.user)
    BY <1>2 DEF FrameOK, Request
  <2>. QED  BY <1>1, <2>1, GroupsType, HasGroups
<1>4. Enter(g) \in Frame /\ Enter(g).role = g /\ Enter(g).next = 0
  BY <1>3 DEF Enter, Frame
<1>5. /\ u \in Seq(Frame) /\ Len(u) = n /\ u[n].role = s[n].role /\ u[n].next = s[n].next + 1
      /\ \A k \in 1..n : k # n => u[k] = s[k]
  BY <1>1 DEF Frame
<1>. HIDE DEF u
<1>6. /\ t \in Seq(Frame) /\ Len(t) = n + 1 /\ t[n + 1] = Enter(g)
      /\ \A k \in 1..n : t[k] = u[k]
  <2>. HIDE DEF g
  <2>. QED  BY <1>4, <1>5, AppendProperties
<1>. HIDE DEF t
<1>7. \A k \in 1..n : t[k].role = s[k].role /\ (k # n => t[k] = s[k])
  BY <1>5, <1>6
<1>8. t[n].next = s[n].next + 1 /\ Past(t, n) = s[n].next
  BY <1>1, <1>5, <1>6 DEF Past
<1>9. FrameOK(r, w, q, t[n + 1], Past(t, n + 1))
  <2>1. Past(t, n + 1) = 0 /\ Len(r[g].groups) \in Nat
    BY <1>3, <1>4, <1>6, GroupsType DEF Past
  <2>2. /\ t[n + 1].role = g /\ t[n + 1].next = 0
        /\ \A j \in 1..Len(r[g].groups) : j >= 1
    <3>. HIDE DEF g
    <3>1. t[n + 1].role = g /\ t[n + 1].next = 0
      BY <1>4, <1>6
    <3>2. \A j \in 1..Len(r[g].groups) : j >= 1
      BY <2>1
    <3>. QED  BY <3>1, <3>2
  <2>. HIDE DEF g
  <2>. QED  BY <1>3, <2>1, <2>2 DEF FrameOK
<1>10. FrameOK(r, w, q, t[n], Past(t, n))
  <2>1. s[n].next \in 1..Len(r[t[n].role].groups) /\ Len(r[t[n].role].groups) \in Nat
    BY <1>1, <1>7, GroupsType
  <2>2. t[n].next <= Len(r[t[n].role].groups) + 1
    BY <1>1, <1>8, <2>1
  <2>3. t[n].role = s[n].role /\ s[n].next > 0
    BY <1>1, <1>7, <2>1
  <2>. QED  BY <1>2, <1>8, <2>2, <2>3 DEF FrameOK
<1>11. ASSUME NEW k \in 1..n, k # n
       PROVE  FrameOK(r, w, q, t[k], Past(t, k))
  <2>1. FrameOK(r, w, q, s[k], Past(s, k)) /\ t[k] = s[k]
    BY <1>7, <1>11 DEF StackOK
  <2>2. Past(t, k) = Past(s, k)
    BY <1>1, <1>6, <1>11, <2>1 DEF Past
  <2>. QED  BY <2>1, <2>2
<1>12. StackOK(r, w, q, t)
  <2>1. t[1].role = q.user
    BY <1>1, <1>7 DEF StackOK
  <2>2. \A k \in 1..Len(t) : FrameOK(r, w, q, t[k], Past(t, k))
    <3>1. \A k \in 1..Len(t) : k = n + 1 \/ k \in 1..n
      BY <1>1, <1>6
    <3>. QED  BY <1>9, <1>10, <1>11, <3>1
  <2>3. /\ t[n].next - 1 \in 1..Len(r[t[n].role].groups)
        /\ t[n + 1].role = r[t[n].role].groups[t[n].next - 1]
    <3>1. t[n].next - 1 = s[n].next
      BY <1>1, <1>8
    <3>. QED  BY <1>1, <1>4, <1>6, <1>7, <3>1
  <2>4. ASSUME NEW k \in 1..n, k # n
        PROVE  /\ t[k].next - 1 \in 1..Len(r[t[k].role].groups)
               /\ t[k + 1].role = r[t[k].role].groups[t[k].next - 1]
    <3>1. k < n /\ k + 1 \in 1..n
      BY <1>1, <2>4
    <3>2. /\ s[k].next - 1 \in 1..Len(r[s[k].role].groups)
          /\ s[k + 1].role = r[s[k].role].groups[s[k].next - 1]
      BY <3>1 DEF StackOK
    <3>. QED  BY <1>7, <2>4, <3>1, <3>2
  <2>5. \A k \in 1..Len(t) : k < Len(t) => k = n \/ (k \in 1..n /\ k # n)
    BY <1>1, <1>6
  <2>. QED  BY <2>1, <2>2, <2>3, <2>4, <2>5 DEF StackOK
<1>. QED  BY <1>6, <1>12 DEF t, u

\* A frame that is past all groups leaves nothing to look at.
LEMMA ReturnClean ==
  ASSUME NEW r \in Roles, NEW w \in Walks, NEW q \in Request, NEW f \in Frame,
         FrameOK(r, w, q, f, f.next), f.next > Len(r[f.role].groups)
  PROVE  Clean(r, w, q.action, f.role)
<1>1. f.role \in PolNames /\ f.next \in Nat /\ Len(r[f.role].groups) \in Nat
  BY GroupsType DEF Frame
<1>2. /\ q.action \notin Lists(r, w, f.role)
      /\ \A j \in 1..Len(r[f.role].groups) : Clean(r, w, q.action, r[f.role].groups[j])
  BY <1>1 DEF FrameOK
<1>3. SUFFICES ASSUME NEW k \in Has(r, f.role) PROVE q.action \notin Lists(r, w, k)
  BY DEF Clean
<1>4. k = f.role \/ \E i \in 1..Len(r[f.role].groups) : k \in Has(r, r[f.role].groups[i])
  BY <1>1, HasSplit
<1>. QED  BY <1>2, <1>4 DEF Clean

\* When the last frame returns, the one below it is past one more group.
LEMMA ReturnStack ==
  ASSUME NEW r \in Roles, NEW w \in Walks, NEW q \in Request, NEW s \in Seq(Frame), Len(s) > 1,
         StackOK(r, w, q, s), s[Len(s)].next > Len(r[s[Len(s)].role].groups)
  PROVE  LET t == SubSeq(s, 1, Len(s) - 1) IN t # <<>> /\ StackOK(r, w, q, t) /\ t \in Seq(Frame)
<1>. DEFINE n == Len(s)
            v == n - 1
            t == SubSeq(s, 1, n - 1)
<1>1. /\ n \in Nat \ {0} /\ n \in 1..n /\ 1 \in 1..n
      /\ \A k \in 1..n : s[k] \in Frame /\ s[k].role \in PolNames /\ s[k].next \in Nat
  BY TopType, EmptySeq
<1>2. v \in 1..n /\ v \in Nat \ {0} /\ v < n /\ v + 1 = n /\ v # n /\ n = Len(s)
  BY <1>1
<1>3. t \in Seq(Frame) /\ Len(t) = v /\ \A k \in 1..v : t[k] = s[k]
  <2>1. t = SubSeq(s, 1, v)
    OBVIOUS
  <2>. HIDE DEF t, v, n
  <2>2. \A k \in 1..v : s[k] \in Frame
    BY <1>1, <1>2
  <2>3. /\ SubSeq(s, 1, v) \in Seq(Frame) /\ Len(SubSeq(s, 1, v)) = v - 1 + 1
        /\ \A k \in 1..(v - 1 + 1) : SubSeq(s, 1, v)[k] = s[1 + k - 1]
    BY <1>2, <2>2, SubSeqProperties
  <2>. QED  BY <1>2, <2>1, <2>3
<1>. HIDE DEF t, v, n
<1>4. t # <<>> /\ t[1].role = q.user
  <2>1. s[1].role = q.user
    BY <1>1, <1>2, EmptySeq DEF StackOK
  <2>. QED  BY <1>2, <1>3, <2>1, EmptySeq
<1>5. Clean(r, w, q.action, s[n].role)
  BY <1>1, <1>2, ReturnClean DEF StackOK, Past
<1>6. FrameOK(r, w, q, t[v], Past(t, v))
  <2>1. FrameOK(r, w, q, s[v], s[v].next - 1) /\ s[n].role = r[s[v].role].groups[s[v].next - 1]
    <3>1. Past(s, v) = s[v].next - 1
      BY <1>2 DEF Past
    <3>2. FrameOK(r, w, q, s[v], Past(s, v)) /\ s[v + 1].role = r[s[v].role].groups[s[v].next - 1]
      BY <1>2 DEF StackOK
    <3>. QED  BY <1>2, <3>1, <3>2
  <2>2. t[v] = s[v] /\ Past(t, v) = s[v].next
    BY <1>2, <1>3 DEF Past
  <2>3. ASSUME NEW j \in 1..Len(r[s[v].role].groups), j < s[v].next
        PROVE  Clean(r, w, q.action, r[s[v].role].groups[j])
    <3>1. CASE j < s[v].next - 1
      BY <2>1, <3>1 DEF FrameOK
    <3>2. CASE j = s[v].next - 1
      BY <1>5, <2>1, <3>2
    <3>3. j \in Nat /\ s[v].next \in Nat
      BY <1>1, <1>2, GroupsType
    <3>4. j < s[v].next - 1 \/ j = s[v].next - 1
      BY <2>3, <3>3
    <3>. QED  BY <3>1, <3>2, <3>4
  <2>. QED  BY <2>1, <2>2, <2>3 DEF FrameOK
<1>7. ASSUME NEW k \in 1..v, k # v
      PROVE  FrameOK(r, w, q, t[k], Past(t, k))
  <2>1. k \in 1..n /\ k # n /\ k < n
    BY <1>1, <1>2, <1>7
  <2>2. FrameOK(r, w, q, s[k], Past(s, k)) /\ t[k] = s[k]
    BY <1>2, <1>3, <2>1 DEF StackOK
  <2>3. Past(t, k) = Past(s, k)
    BY <1>2, <1>3, <1>7, <2>1, <2>2 DEF Past
  <2>. QED  BY <2>2, <2>3
<1>8. ASSUME NEW k \in 1..v, k < v
      PROVE  /\ t[k].next - 1 \in 1..Len(r[t[k].role].groups)
             /\ t[k + 1].role = r[t[k].role].groups[t[k].next - 1]
  <2>1. k \in 1..n /\ k < n /\ k + 1 \in 1..v
    BY <1>1, <1>2, <1>8
  <2>2. t[k] = s[k] /\ t[k + 1] = s[k + 1]
    BY <1>3, <2>1
  <2>. QED  BY <1>2, <2>1, <2>2 DEF StackOK
<1>9. StackOK(r, w, q, t)
  BY <1>3, <1>4, <1>6, <1>7, <1>8 DEF StackOK
<1>. QED  BY <1>3, <1>4, <1>9 DEF t, n

-----------------------------------------------------------------------------
(* The invariant holds initially and is kept by every step *)

PolInv ==
    /\ PolTypeOK
    /\ walk \in Walks =>
          /\ answer = ""
          /\ asked.user \in known
          /\ stack # <<>> /\ StackOK(role, walk, asked, stack)
          /\ walk = "allowed" => ~role[asked.user].def
          /\ walk = "denied" => role[asked.user].def \/ Allowed(asked.user, asked.action)
    /\ walk = "build" => answer = "" /\ stack = <<>>
    /\ AnswersRight

\* Without an answer the answer is not wrong.
LEMMA NoAnswer == answer = "" => AnswersRight
BY DEF AnswersRight

LEMMA PolInitInv == PolInit => PolInv
<1> SUFFICES ASSUME PolInit PROVE PolInv
  OBVIOUS
<1>1. asked \in Request
  <2>1. \E q : q \in Request
    <3>1. PICK n \in PolNames, act \in PolActions : TRUE
      BY PolAssumption
    <3>2. [user |-> n, action |-> act] \in Request
      BY DEF Request
    <3>. QED  BY <3>2
  <2>. QED  BY <2>1 DEF PolInit
<1>2. NewRole \in Role
  BY EmptySeq DEF NewRole, Role
<1>3. PolTypeOK
  <2>1. role \in [PolNames -> Role] /\ stack \in Seq(Frame)
    BY <1>2, EmptySeq DEF PolInit
  <2>2. known \subseteq PolNames /\ calls \in 0..PolCalls
    <3>1. known = {} /\ calls = 0
      BY DEF PolInit
    <3>. QED  BY <3>1, PolAssumption
  <2>3. walk = "build" /\ answer = ""
    BY DEF PolInit
  <2>. QED  BY <1>1, <2>1, <2>2, <2>3 DEF PolTypeOK
<1>. QED  BY <1>3, NoAnswer DEF PolInit, PolInv, Walks

\* Building keeps the rules rules.
LEMMA BuildInv ==
  ASSUME PolInv, PolBuild
  PROVE  PolInv'
<1>1. PICK n \in PolNames :
         \/ \E dflt \in BOOLEAN : AddRole(n, dflt)
         \/ \E group \in PolNames : AddMember(n, group)
         \/ \E act \in PolActions : Allow(n, act) \/ Deny(n, act)
  BY DEF PolBuild
<1>2. \E names \in SUBSET PolNames : Building(names)
  BY <1>1 DEF AddRole, AddMember, Allow, Deny
<1>3. /\ walk = "build" /\ UNCHANGED <<walk, asked, stack, answer>>
      /\ known' \subseteq PolNames /\ calls' \in 0..PolCalls
  <2>1. PICK names \in SUBSET PolNames : Building(names)
    BY <1>2
  <2>2. known \subseteq PolNames /\ calls \in 0..PolCalls
    BY DEF PolInv, PolTypeOK
  <2>3. calls' \in 0..PolCalls
    BY <2>1, <2>2, PolAssumption DEF Building
  <2>. QED  BY <2>1, <2>2, <2>3 DEF Building
<1>4. role \in [PolNames -> Role] /\ role[n] \in Role
  BY DEF PolInv, PolTypeOK
<1>5. role' \in [PolNames -> Role]
  <2>1. ASSUME NEW dflt \in BOOLEAN, AddRole(n, dflt)
        PROVE  role' \in [PolNames -> Role]
    BY <1>4, <2>1 DEF AddRole, Role
  <2>2. ASSUME NEW group \in PolNames, AddMember(n, group)
        PROVE  role' \in [PolNames -> Role]
    <3>1. Append(role[n].groups, group) \in Seq(PolNames)
      BY <1>4, <2>2, AppendProperties DEF Role
    <3>. QED  BY <1>4, <2>2, <3>1 DEF AddMember, Role
  <2>3. ASSUME NEW act \in PolActions, Allow(n, act) \/ Deny(n, act)
        PROVE  role' \in [PolNames -> Role]
    <3>1. CASE Allow(n, act)
      BY <1>4, <3>1 DEF Allow, Role
    <3>2. CASE Deny(n, act)
      BY <1>4, <3>2 DEF Deny, Role
    <3>. QED  BY <2>3, <3>1, <3>2
  <2>. QED  BY <1>1, <2>1, <2>2, <2>3
<1>6. PolTypeOK'
  BY <1>3, <1>5 DEF PolInv, PolTypeOK
<1>7. answer' = ""
  BY <1>3 DEF PolInv
<1>. QED  BY <1>3, <1>6, <1>7 DEF PolInv, Walks, AnswersRight

LEMMA PoliceInv ==
  ASSUME PolInv, NEW user \in PolNames, NEW act \in PolActions, Police(user, act)
  PROVE  PolInv'
<1>1. PolTypeOK /\ walk = "build" /\ answer = "" /\ stack = <<>>
  BY DEF PolInv, Police
<1>2. /\ asked' = [user |-> user, action |-> act] /\ asked' \in Request
      /\ asked'.user = user /\ asked'.action = act
      /\ UNCHANGED <<known, role, calls>> /\ role \in Roles
  BY <1>1 DEF Police, Request, PolTypeOK, Roles
<1>3. CASE user \notin known
  <2>1. walk' = "done" /\ answer' = "unknown" /\ stack' = <<>>
    BY <1>1, <1>3 DEF Police
  <2>2. PolTypeOK'
    BY <1>1, <1>2, <2>1 DEF PolTypeOK, Answers
  <2>. QED  BY <1>2, <1>3, <2>1, <2>2 DEF PolInv, Walks, AnswersRight
<1>4. CASE user \in known
  <2>1. /\ walk' = IF role[user].def THEN "denied" ELSE "allowed"
        /\ stack' = <<Enter(user)>> /\ answer' = ""
    BY <1>1, <1>4 DEF Police
  <2>2. walk' \in Walks
    BY <2>1 DEF Walks
  <2>3. StackOK(role, walk', asked', stack') /\ stack' \in Seq(Frame) /\ stack' # <<>>
    BY <1>2, <2>1, <2>2, EnterStack
  <2>4. PolTypeOK'
    BY <1>1, <1>2, <2>1, <2>2, <2>3 DEF PolTypeOK, Walks
  <2>5. walk' = "allowed" => ~role[user].def
    BY <2>1
  <2>6. walk' = "denied" => role[user].def
    BY <2>1
  <2>. QED  BY <1>2, <1>4, <2>1, <2>2, <2>3, <2>4, <2>5, <2>6 DEF PolInv, Walks, AnswersRight
<1>. QED  BY <1>3, <1>4

\* A walk that found the action or knows that no role the user has lists it returns rightly.
LEMMA ReturnedInv ==
  ASSUME PolInv, Walking, NEW found \in BOOLEAN, Returned(found),
         UNCHANGED <<known, role, calls, asked>>,
         found <=> \E k \in Has(role, asked.user) : asked.action \in Lists(role, walk, k)
  PROVE  PolInv'
<1>. DEFINE u == asked.user
            may == role[u].def \/ Allowed(u, asked.action)
<1>1. /\ PolTypeOK /\ asked \in Request /\ u \in known /\ role \in Roles
      /\ walk \in Walks /\ answer = ""
      /\ walk = "allowed" => ~role[u].def
      /\ walk = "denied" => may
  BY DEF PolInv, PolTypeOK, Walking, Walks, Roles
<1>2. walk = "allowed" => (found <=> Allowed(u, asked.action))
  BY DEF Lists, Allowed
<1>3. walk = "denied" => (found <=> Denied(u, asked.action))
  BY DEF Lists, Denied
<1>4. CASE walk = "allowed" /\ found
  <2>1. walk' = "denied" /\ stack' = <<Enter(u)>> /\ answer' = "" /\ UNCHANGED <<known, role, calls, asked>>
    BY <1>1, <1>4 DEF Returned
  <2>2. StackOK(role, walk', asked, stack') /\ stack' \in Seq(Frame) /\ stack' # <<>>
    BY <1>1, <2>1, EnterStack DEF Walks
  <2>3. PolTypeOK'
    BY <1>1, <2>1, <2>2 DEF PolTypeOK
  <2>4. Allowed(u, asked.action)
    BY <1>2, <1>4
  <2>. QED  BY <1>1, <2>1, <2>2, <2>3, <2>4 DEF PolInv, Walks, AnswersRight, Allowed
<1>5. CASE ~(walk = "allowed" /\ found)
  <2>1. \E a \in Answers \ {"overflow"} :
           /\ Answer(a)
           /\ a = "not allowed" => ~may
           /\ a = "denied" => may /\ Denied(u, asked.action)
           /\ a = "ok" => may /\ ~Denied(u, asked.action)
           /\ a # "unknown"
    <3>1. CASE walk = "allowed"
      <4>1. Answer("not allowed") /\ ~may
        BY <1>1, <1>2, <1>5, <3>1 DEF Returned
      <4>. QED  BY <4>1 DEF Answers
    <3>2. CASE walk = "denied" /\ found
      <4>1. Answer("denied") /\ may /\ Denied(u, asked.action)
        BY <1>1, <1>3, <3>2 DEF Returned
      <4>. QED  BY <4>1 DEF Answers
    <3>3. CASE walk = "denied" /\ ~found
      <4>1. Answer("ok") /\ may /\ ~Denied(u, asked.action)
        BY <1>1, <1>3, <3>3 DEF Returned
      <4>. QED  BY <4>1 DEF Answers
    <3>. QED  BY <1>1, <3>1, <3>2, <3>3 DEF Walks
  <2>2. answer' \in Answers /\ walk' = "done" /\ stack' = <<>>
    BY <2>1 DEF Answer
  <2>3. PolTypeOK'
    <3>1. stack' \in Seq(Frame)
      BY <2>2, EmptySeq
    <3>. QED  BY <1>1, <2>2, <3>1 DEF PolTypeOK
  <2>4. AnswersRight'
    BY <1>1, <2>1 DEF AnswersRight, Answer, Allowed, Denied
  <2>. QED  BY <2>2, <2>3, <2>4 DEF PolInv, Walks
<1>. QED  BY <1>4, <1>5

\* The walk overflows the stack and answers nothing about the user.
LEMMA OverflowInv ==
  ASSUME PolInv, Answer("overflow"), UNCHANGED <<known, role, calls, asked>>
  PROVE  PolInv'
<1>1. PolTypeOK'
  <2>1. stack' \in Seq(Frame) /\ walk' = "done" /\ answer' \in Answers
    BY EmptySeq DEF Answer, Answers
  <2>. QED  BY <2>1 DEF PolInv, PolTypeOK
<1>. QED  BY <1>1 DEF PolInv, Walks, Answer, AnswersRight

\* The walk goes on with another stack.
LEMMA StackInv ==
  ASSUME PolInv, Walking, UNCHANGED <<known, role, calls, walk, asked, answer>>,
         stack' # <<>>, stack' \in Seq(Frame), StackOK(role, walk, asked, stack')
  PROVE  PolInv'
<1>1. PolTypeOK'
  BY DEF PolInv, PolTypeOK
<1>2. walk \in Walks /\ answer = ""
  BY DEF Walking, Walks, PolInv
<1>. QED  BY <1>1, <1>2 DEF PolInv, Walks, Allowed, AnswersRight

\* What a walk that runs knows of its stack.
LEMMA WalkTop ==
  ASSUME PolInv, Walking
  PROVE  /\ role \in Roles /\ walk \in Walks /\ asked \in Request
         /\ stack \in Seq(Frame) /\ stack # <<>> /\ StackOK(role, walk, asked, stack)
         /\ Len(stack) \in 1..Len(stack) /\ Top \in Frame
         /\ FrameOK(role, walk, asked, Top, Top.next)
         /\ \A n : Listed(n) = Lists(role, walk, n)
<1>1. /\ role \in Roles /\ walk \in Walks /\ asked \in Request
      /\ stack \in Seq(Frame) /\ stack # <<>> /\ StackOK(role, walk, asked, stack)
  BY DEF PolInv, PolTypeOK, Walking, Walks, Roles
<1>2. Len(stack) \in 1..Len(stack) /\ Top \in Frame
  BY <1>1, TopType DEF Top
<1>3. FrameOK(role, walk, asked, Top, Top.next)
  BY <1>1, <1>2 DEF StackOK, Past, Top
<1>4. \A n : Listed(n) = Lists(role, walk, n)
  BY DEF Listed, Lists
<1>. QED  BY <1>1, <1>2, <1>3, <1>4

LEMMA ScanInv ==
  ASSUME PolInv, Scan
  PROVE  PolInv'
<1>1. Walking /\ Top.next = 0 /\ UNCHANGED <<known, role, calls, asked>>
  BY DEF Scan
<1>2. CASE asked.action \in Listed(Top.role) /\ Returned(TRUE)
  <2>1. \E k \in Has(role, asked.user) : asked.action \in Lists(role, walk, k)
    BY <1>1, <1>2, WalkTop DEF FrameOK
  <2>. QED  BY <1>1, <1>2, <2>1, ReturnedInv
<1>3. CASE /\ asked.action \notin Listed(Top.role)
           /\ stack' = [stack EXCEPT ![Len(stack)].next = 1]
           /\ UNCHANGED <<walk, answer>>
  <2>1. stack' # <<>> /\ stack' \in Seq(Frame) /\ StackOK(role, walk, asked, stack')
    <3>1. asked.action \notin Lists(role, walk, stack[Len(stack)].role)
      BY <1>1, <1>3, WalkTop DEF Top
    <3>2. StackOK(role, walk, asked, stack') /\ stack' \in Seq(Frame)
      BY <1>1, <1>3, <3>1, WalkTop, ScanStack DEF Top
    <3>3. Len(stack') = Len(stack)
      BY <1>1, <1>3, WalkTop
    <3>. QED  BY <1>1, <3>2, <3>3, WalkTop, EmptySeq
  <2>. QED  BY <1>1, <1>3, <2>1, StackInv
<1>. QED  BY <1>2, <1>3 DEF Scan

LEMMA DescendInv ==
  ASSUME PolInv, Descend
  PROVE  PolInv'
<1>1. /\ Walking /\ Top.next \in 1..Len(role[Top.role].groups)
      /\ UNCHANGED <<known, role, calls, asked>>
  BY DEF Descend
<1>2. CASE Answer("overflow")
  BY <1>1, <1>2, OverflowInv
<1>3. CASE /\ stack' = Append([stack EXCEPT ![Len(stack)].next = @ + 1],
                              Enter(role[Top.role].groups[Top.next]))
           /\ UNCHANGED <<walk, answer>>
  <2>1. StackOK(role, walk, asked, stack') /\ stack' \in Seq(Frame)
    BY <1>1, <1>3, WalkTop, DescendStack DEF Top
  <2>2. stack' # <<>>
    <3>1. Len([stack EXCEPT ![Len(stack)].next = @ + 1]) \in Nat
      BY <1>1, WalkTop, LenProperties
    <3>2. Len(stack') = Len([stack EXCEPT ![Len(stack)].next = @ + 1]) + 1
      BY <1>3
    <3>. QED  BY <3>1, <3>2, EmptySeq
  <2>. QED  BY <1>1, <1>3, <2>1, <2>2, StackInv
<1>. QED  BY <1>2, <1>3 DEF Descend

LEMMA ReturnInv ==
  ASSUME PolInv, Return
  PROVE  PolInv'
<1>1. /\ Walking /\ Top.next > Len(role[Top.role].groups)
      /\ UNCHANGED <<known, role, calls, asked>>
  BY DEF Return
<1>2. CASE Len(stack) = 1 /\ Returned(FALSE)
  <2>1. Top.role = asked.user
    BY <1>1, <1>2, WalkTop DEF StackOK, Top
  <2>2. Clean(role, walk, asked.action, asked.user)
    BY <1>1, <2>1, WalkTop, ReturnClean
  <2>. QED  BY <1>1, <1>2, <2>2, ReturnedInv DEF Clean
<1>3. CASE Len(stack) > 1 /\ stack' = Popped /\ UNCHANGED <<walk, answer>>
  <2>1. stack' # <<>> /\ StackOK(role, walk, asked, stack') /\ stack' \in Seq(Frame)
    BY <1>1, <1>3, WalkTop, ReturnStack DEF Popped, Top
  <2>. QED  BY <1>1, <1>3, <2>1, StackInv
<1>. QED  BY <1>2, <1>3 DEF Return

LEMMA PolStepInv == PolInv /\ [PolNext]_polVars => PolInv'
<1> SUFFICES ASSUME PolInv, [PolNext]_polVars PROVE PolInv'
  OBVIOUS
<1>1. CASE UNCHANGED polVars
  <2>1. PolTypeOK'
    BY <1>1 DEF polVars, PolInv, PolTypeOK
  <2>. QED  BY <1>1, <2>1 DEF polVars, PolInv, Walks, AnswersRight, Allowed, Denied
<1>. QED  BY <1>1, BuildInv, PoliceInv, ScanInv, DescendInv, ReturnInv DEF PolNext, PolPolice

\* The inductive invariant holds in every reachable state (policy.go:16-92).
THEOREM PolicyInvariant == PolSpec => []PolInv
<1>1. PolInit => PolInv
  BY PolInitInv
<1>2. PolInv /\ [PolNext]_polVars => PolInv'
  BY PolStepInv
<1>. QED  BY <1>1, <1>2, PTL DEF PolSpec

\* Whatever roles, memberships, and allowed and denied actions the rules are built from, and
\* also if roles are members of each other, Police answers what the memberships call for
\* (policy.go:36-48).
THEOREM PolicyAnswersRight == PolSpec => []AnswersRight
<1>1. PolInv => AnswersRight
  BY DEF PolInv
<1>. QED  BY <1>1, PolicyInvariant, PTL

-----------------------------------------------------------------------------
(* When the stack is exhausted *)

\* Each role on the stack is had by every role below it.
Reaches(r, s) == \A i, j \in 1..Len(s) : i <= j => s[j].role \in Has(r, s[i].role)

\* The roles of s are those at the bottom of a stack, or it is one longer.
LEMMA ReachesPrefix ==
  ASSUME NEW r, NEW s, NEW t, Reaches(r, s), Len(t) \in Nat, Len(s) \in Nat, Len(t) <= Len(s),
         \A k \in 1..Len(t) : t[k].role = s[k].role
  PROVE  Reaches(r, t)
<1>1. \A k \in 1..Len(t) : k \in 1..Len(s)
  OBVIOUS
<1>. QED  BY <1>1 DEF Reaches

LEMMA ReachesNext ==
  ASSUME NEW r \in Roles, NEW s \in Seq(Frame), NEW t \in Seq(Frame), s # <<>>, Reaches(r, s),
         Len(t) = Len(s) + 1, \A k \in 1..Len(s) : t[k].role = s[k].role,
         NEW e \in 1..Len(r[s[Len(s)].role].groups),
         t[Len(s) + 1].role = r[s[Len(s)].role].groups[e]
  PROVE  Reaches(r, t)
<1>. DEFINE n == Len(s)
            g == r[s[n].role].groups[e]
<1>1. n \in Nat \ {0} /\ n \in 1..n /\ \A k \in 1..n : s[k].role \in PolNames
  BY TopType
<1>2. g \in PolNames
  BY <1>1, GroupsType
<1>3. \A i \in 1..n : g \in Has(r, s[i].role)
  <2>1. ASSUME NEW i \in 1..n PROVE g \in Has(r, s[i].role)
    <3>1. s[n].role \in Has(r, s[i].role) /\ s[i].role \in PolNames
      BY <1>1 DEF Reaches
    <3>. QED  BY <3>1, HasGroups
  <2>. QED  BY <2>1
<1>4. g \in Has(r, g)
  <2>. HIDE DEF g
  <2>. QED  BY <1>2, HasSelf
<1>. HIDE DEF n, g
<1>5. t[n + 1].role = g /\ Len(t) = n + 1 /\ \A k \in 1..n : t[k].role = s[k].role
  BY DEF n, g
<1>6. \A k \in 1..(n + 1) : k \in 1..n \/ k = n + 1
  BY <1>1
<1>7. ASSUME NEW i \in 1..(n + 1), NEW j \in 1..(n + 1), i <= j
      PROVE  t[j].role \in Has(r, t[i].role)
  <2>1. CASE j \in 1..n
    <3>1. i \in 1..n
      BY <1>1, <1>7, <2>1
    <3>2. s[j].role \in Has(r, s[i].role)
      BY <1>7, <2>1, <3>1 DEF Reaches, n
    <3>. QED  BY <1>5, <2>1, <3>1, <3>2
  <2>2. CASE j = n + 1 /\ i \in 1..n
    BY <1>3, <1>5, <2>2
  <2>3. CASE j = n + 1 /\ i = n + 1
    BY <1>4, <1>5, <2>3
  <2>. QED  BY <1>6, <2>1, <2>2, <2>3
<1>. QED  BY <1>5, <1>7 DEF Reaches

\* A stack with a frame for every name, and one more name to go to, has a name twice.
LEMMA OverflowCyclic ==
  ASSUME IsFiniteSet(PolNames), Cardinality(PolNames) <= PolDepth,
         PolInv, Walking, Reaches(role, stack),
         Top.next \in 1..Len(role[Top.role].groups), Len(stack) >= PolDepth
  PROVE  Cyclic(asked.user)
<1>. DEFINE n == Len(stack)
            g == role[Top.role].groups[Top.next]
            f == [k \in 1..(n + 1) |-> IF k = n + 1 THEN g ELSE stack[k].role]
<1>1. /\ role \in Roles /\ asked \in Request /\ stack \in Seq(Frame) /\ stack # <<>>
      /\ StackOK(role, walk, asked, stack)
  BY WalkTop
<1>2. /\ n \in Nat \ {0} /\ n \in 1..n /\ \A k \in 1..n : stack[k].role \in PolNames
      /\ Top = stack[n]
  BY <1>1, TopType DEF Top
<1>3. g \in PolNames
  BY <1>1, <1>2, GroupsType
<1>4. f \in [1..(n + 1) -> PolNames]
  <2>. HIDE DEF g, n
  <2>1. \A k \in 1..(n + 1) : k = n + 1 \/ k \in 1..n
    BY <1>2
  <2>. QED  BY <1>2, <1>3, <2>1
\* The roles in order, and how one leads to the next.
<1>5. f[n + 1] = g /\ \A k \in 1..n : f[k] = stack[k].role
  <2>. HIDE DEF g, n
  <2>1. n + 1 \in 1..(n + 1) /\ \A k \in 1..n : k \in 1..(n + 1) /\ k # n + 1
    BY <1>2
  <2>. QED  BY <2>1
<1>. HIDE DEF f
<1>6. ASSUME NEW i \in 1..n
      PROVE  \E e \in 1..Len(role[f[i]].groups) : f[i + 1] = role[f[i]].groups[e]
  <2>1. CASE i = n
    <3>1. f[i] = Top.role /\ f[i + 1] = role[Top.role].groups[Top.next]
      BY <1>2, <1>5, <2>1
    <3>. QED  BY <3>1
  <2>2. CASE i # n
    <3>1. i < n /\ i + 1 \in 1..n
      BY <1>2, <2>2
    <3>2. /\ stack[i].next - 1 \in 1..Len(role[stack[i].role].groups)
          /\ stack[i + 1].role = role[stack[i].role].groups[stack[i].next - 1]
      BY <1>1, <3>1 DEF StackOK
    <3>3. f[i] = stack[i].role /\ f[i + 1] = stack[i + 1].role
      BY <1>5, <3>1
    <3>. QED  BY <3>2, <3>3
  <2>. QED  BY <2>1, <2>2
<1>7. ASSUME NEW i \in 1..(n + 1), NEW j \in 1..(n + 1), i <= j
      PROVE  f[j] \in Has(role, f[i])
  <2>. HIDE DEF n, g
  <2>1. CASE j # n + 1
    <3>1. i \in 1..n /\ j \in 1..n
      BY <1>2, <1>7, <2>1
    <3>2. stack[j].role \in Has(role, stack[i].role)
      BY <1>7, <3>1 DEF Reaches, n
    <3>. QED  BY <1>5, <3>1, <3>2
  <2>2. CASE j = n + 1 /\ i # n + 1
    <3>1. i \in 1..n /\ i <= n
      BY <1>2, <2>2
    <3>2. stack[n].role \in Has(role, stack[i].role)
      BY <1>2, <3>1 DEF Reaches, n
    <3>3. stack[i].role \in PolNames /\ stack[n].role = Top.role
      BY <1>2, <3>1
    <3>4. g \in Has(role, stack[i].role)
      BY <1>1, <3>2, <3>3, HasGroups DEF g
    <3>. QED  BY <1>5, <2>2, <3>1, <3>4
  <2>3. CASE j = n + 1 /\ i = n + 1
    BY <1>3, <1>5, <2>3, HasSelf
  <2>. QED  BY <2>1, <2>2, <2>3
\* More places than names.
<1>8. \E x, y \in 1..(n + 1) : x # y /\ f[x] = f[y]
  <2>. HIDE DEF n, g
  <2>1. IsFiniteSet(1..(n + 1)) /\ Cardinality(1..(n + 1)) = n + 1
    <3>. DEFINE b == n + 1
    <3>1. 1 \in Int /\ b \in Int /\ ~(1 > b) /\ b - 1 + 1 = b
      BY <1>2
    <3>. HIDE DEF b
    <3>2. IsFiniteSet(1..b) /\ Cardinality(1..b) = b
      BY <3>1, FS_Interval
    <3>. QED  BY <3>2 DEF b
  <2>2. Cardinality(PolNames) \in Nat
    BY FS_CardinalityType
  <2>3. n >= PolDepth
    BY DEF n
  <2>4. Cardinality(PolNames) < n + 1
    BY <1>2, <2>2, <2>3, PolAssumption
  <2>5. Cardinality(PolNames) < Cardinality(1..(n + 1))
    BY <2>1, <2>4
  <2>. QED  BY <1>4, <2>1, <2>5, FS_PigeonHole
<1>9. PICK i \in 1..n, j \in 1..(n + 1) : i < j /\ f[i] = f[j]
  <2>. HIDE DEF n, g
  <2>1. PICK x \in 1..(n + 1), y \in 1..(n + 1) : x # y /\ f[x] = f[y]
    BY <1>8
  <2>2. CASE x < y
    <3>1. x \in 1..n
      BY <1>2, <2>2
    <3>. QED  BY <2>1, <2>2, <3>1
  <2>3. CASE y < x
    <3>1. y \in 1..n
      BY <1>2, <2>3
    <3>. QED  BY <2>1, <2>3, <3>1
  <2>. QED  BY <1>2, <2>1, <2>2, <2>3
<1>10. f[i] \in Has(role, asked.user)
  <2>1. FrameOK(role, walk, asked, stack[i], Past(stack, i))
    BY <1>1 DEF StackOK
  <2>. QED  BY <1>5, <2>1 DEF FrameOK
<1>11. PICK e \in 1..Len(role[f[i]].groups) : f[i + 1] = role[f[i]].groups[e]
  BY <1>6
<1>12. f[j] \in Has(role, f[i + 1])
  <2>1. i + 1 \in 1..(n + 1) /\ i + 1 <= j
    BY <1>2, <1>9
  <2>. QED  BY <1>7, <2>1
<1>13. f[i] \in Has(role, role[f[i]].groups[e])
  BY <1>9, <1>11, <1>12
<1>. QED  BY <1>10, <1>13 DEF Cyclic

\* The invariant that a walk's roles lead to each other.
OverInv ==
    /\ PolInv
    /\ walk \in Walks => Reaches(role, stack)
    /\ OverflowsOnlyByCycles

\* A walk that starts is at one role.
LEMMA ReachesEnter ==
  ASSUME NEW r \in Roles, NEW n \in PolNames
  PROVE  Reaches(r, <<Enter(n)>>)
<1>. DEFINE f == Enter(n)
<1>1. f.role \in Has(r, f.role)
  BY HasSelf DEF Enter
<1>. HIDE DEF f
<1>2. Len(<<f>>) = 1 /\ <<f>>[1] = f
  OBVIOUS
<1>3. Reaches(r, <<f>>)
  BY <1>1, <1>2 DEF Reaches
<1>. QED  BY <1>3 DEF f

LEMMA ReturnedReaches ==
  ASSUME OverInv, Walking, NEW found \in BOOLEAN, Returned(found),
         UNCHANGED <<known, role, calls, asked>>
  PROVE  (walk' \in Walks => Reaches(role, stack')) /\ answer' # "overflow"
<1>1. role \in Roles /\ asked.user \in PolNames /\ answer = ""
  BY DEF OverInv, PolInv, PolTypeOK, Roles, Request, Walking, Walks
<1>2. Reaches(role, <<Enter(asked.user)>>)
  BY <1>1, ReachesEnter
<1>. QED  BY <1>1, <1>2 DEF Returned, Answer, Walks

LEMMA OverStep ==
  ASSUME IsFiniteSet(PolNames), Cardinality(PolNames) <= PolDepth, OverInv, [PolNext]_polVars
  PROVE  OverInv'
<1>. DEFINE Goal == (walk' \in Walks => Reaches(role', stack')) /\ (answer' = "overflow" => Cyclic(asked.user)')
<1>1. PolInv'
  BY PolStepInv DEF OverInv
<1>2. SUFFICES Goal
  BY <1>1 DEF OverInv, OverflowsOnlyByCycles
<1>3. /\ walk \in Walks => answer = ""
      /\ walk = "build" => answer = ""
      /\ role \in Roles /\ asked.user \in PolNames
  BY DEF OverInv, PolInv, PolTypeOK, Roles, Request
<1>4. CASE UNCHANGED polVars
  BY <1>4 DEF polVars, OverInv, OverflowsOnlyByCycles, Cyclic
<1>5. CASE PolBuild
  <2>1. walk' = "build" /\ answer' = answer /\ walk = "build"
    BY <1>5 DEF PolBuild, AddRole, AddMember, Allow, Deny, Building
  <2>. QED  BY <1>3, <2>1 DEF Walks
<1>6. ASSUME NEW user \in PolNames, NEW act \in PolActions, Police(user, act)
      PROVE  Goal
  <2>1. role' = role /\ answer' # "overflow"
    BY <1>3, <1>6 DEF Police
  <2>2. walk' \in Walks => stack' = <<Enter(user)>>
    BY <1>6 DEF Police, Walks
  <2>. QED  BY <1>3, <2>1, <2>2, ReachesEnter
<1>7. CASE Walking /\ UNCHANGED <<known, role, calls, asked>> /\ \E found \in BOOLEAN : Returned(found)
  <2>1. (walk' \in Walks => Reaches(role, stack')) /\ answer' # "overflow"
    BY <1>7, ReturnedReaches
  <2>. QED  BY <1>7, <2>1
<1>8. ASSUME Walking, UNCHANGED <<known, role, calls, asked, walk, answer>>, Reaches(role, stack')
      PROVE  Goal
  BY <1>3, <1>8 DEF Walking, Walks
<1>9. ASSUME Walking
      PROVE  /\ stack \in Seq(Frame) /\ stack # <<>> /\ Reaches(role, stack)
             /\ Len(stack) \in Nat \ {0} /\ Len(stack) \in 1..Len(stack)
             /\ \A k \in 1..Len(stack) : stack[k] \in Frame
  <2>1. stack \in Seq(Frame) /\ stack # <<>> /\ Reaches(role, stack)
    BY <1>9, WalkTop DEF OverInv, Walking, Walks
  <2>. QED  BY <2>1, TopType
<1>10. CASE Scan
  <2>1. CASE Returned(TRUE)
    BY <1>7, <1>10, <2>1 DEF Scan
  <2>2. CASE stack' = [stack EXCEPT ![Len(stack)].next = 1] /\ UNCHANGED <<walk, answer>>
    <3>1. Len(stack') = Len(stack) /\ \A k \in 1..Len(stack) : stack'[k].role = stack[k].role
      BY <1>9, <1>10, <2>2 DEF Scan, Frame
    <3>2. Reaches(role, stack')
      BY <1>9, <1>10, <3>1, ReachesPrefix DEF Scan
    <3>. QED  BY <1>8, <1>10, <2>2, <3>2 DEF Scan
  <2>. QED  BY <1>10, <2>1, <2>2 DEF Scan
<1>11. CASE Descend
  <2>. DEFINE n == Len(stack)
              u == [stack EXCEPT ![n].next = @ + 1]
              g == role[Top.role].groups[Top.next]
  <2>1. /\ Walking /\ Top.next \in 1..Len(role[Top.role].groups)
        /\ UNCHANGED <<known, role, calls, asked>> /\ Top = stack[n]
    BY <1>11 DEF Descend, Top
  <2>2. CASE n >= PolDepth /\ Answer("overflow")
    <3>1. Cyclic(asked.user)
      BY <1>9, <2>1, <2>2, OverflowCyclic DEF OverInv
    <3>2. walk' \notin Walks
      BY <2>2 DEF Answer, Walks
    <3>. QED  BY <2>1, <3>1, <3>2 DEF Cyclic
  <2>3. CASE stack' = Append(u, Enter(g)) /\ UNCHANGED <<walk, answer>>
    <3>1. u \in Seq(Frame) /\ Len(u) = n /\ \A k \in 1..n : u[k].role = stack[k].role
      BY <1>9, <2>1 DEF Frame
    <3>2. Enter(g) \in Frame /\ Enter(g).role = g
      <4>1. Top.role \in PolNames
        BY <1>9, <2>1 DEF Frame
      <4>2. g \in PolNames
        BY <1>3, <2>1, <4>1, GroupsType
      <4>. HIDE DEF g
      <4>. QED  BY <4>2 DEF Enter, Frame
    <3>3. /\ stack' \in Seq(Frame) /\ Len(stack') = n + 1
          /\ \A k \in 1..n : stack'[k].role = stack[k].role
          /\ stack'[n + 1].role = g
      <4>. HIDE DEF u, g, n
      <4>. QED  BY <2>3, <3>1, <3>2, AppendProperties
    <3>4. Reaches(role, stack')
      <4>. DEFINE s == stack
                  t == stack'
                  r == role
                  e == Top.next
      <4>1. /\ r \in Roles /\ s \in Seq(Frame) /\ t \in Seq(Frame) /\ s # <<>> /\ Reaches(r, s)
            /\ Len(t) = Len(s) + 1 /\ \A k \in 1..Len(s) : t[k].role = s[k].role
            /\ e \in 1..Len(r[s[Len(s)].role].groups)
            /\ t[Len(s) + 1].role = r[s[Len(s)].role].groups[e]
        BY <1>3, <1>9, <2>1, <3>3
      <4>. HIDE DEF s, t, r, e
      <4>2. Reaches(r, t)
        BY <4>1, ReachesNext
      <4>. QED  BY <4>2 DEF r, t
    <3>. QED  BY <1>8, <2>1, <2>3, <3>4
  <2>. QED  BY <1>11, <2>2, <2>3 DEF Descend
<1>12. CASE Return
  <2>1. CASE Returned(FALSE)
    BY <1>7, <1>12, <2>1 DEF Return
  <2>2. CASE Len(stack) > 1 /\ stack' = Popped /\ UNCHANGED <<walk, answer>>
    <3>. DEFINE v == Len(stack) - 1
    <3>1. Walking /\ v \in Nat /\ 1 <= v /\ v < Len(stack) /\ stack' = SubSeq(stack, 1, v)
      BY <1>9, <1>12, <2>2 DEF Return, Popped
    <3>. HIDE DEF v
    <3>2. Len(stack') = v /\ \A k \in 1..v : stack'[k] = stack[k]
      <4>1. \A k \in 1..v : stack[k] \in Frame
        BY <1>9, <3>1
      <4>2. /\ Len(SubSeq(stack, 1, v)) = v - 1 + 1
            /\ \A k \in 1..(v - 1 + 1) : SubSeq(stack, 1, v)[k] = stack[1 + k - 1]
        BY <3>1, <4>1, SubSeqProperties
      <4>. QED  BY <3>1, <4>2
    <3>3. Reaches(role, stack')
      <4>. DEFINE s == stack
                  t == stack'
      <4>1. /\ Reaches(role, s) /\ Len(t) \in Nat /\ Len(s) \in Nat /\ Len(t) <= Len(s)
            /\ \A k \in 1..Len(t) : t[k].role = s[k].role
        BY <1>9, <3>1, <3>2
      <4>. HIDE DEF s, t
      <4>2. Reaches(role, t)
        BY <4>1, ReachesPrefix
      <4>. QED  BY <4>2 DEF t
    <3>. QED  BY <1>8, <1>12, <2>2, <3>3 DEF Return
  <2>. QED  BY <1>12, <2>1, <2>2 DEF Return
<1>. QED  BY <1>4, <1>5, <1>6, <1>10, <1>11, <1>12 DEF PolNext, PolPolice

\* Given room for a call per name, a walk only exhausts the stack if the user has a role that
\* is a member of itself: whoever keeps memberships free of cycles always gets an answer
\* (policy.go:66-92).
THEOREM PolicyOverflowsOnlyByCycles ==
  ASSUME IsFiniteSet(PolNames), Cardinality(PolNames) <= PolDepth
  PROVE  PolSpec => []OverflowsOnlyByCycles
<1>1. PolInit => OverInv
  <2>1. PolInit => walk = "build" /\ answer = ""
    BY DEF PolInit
  <2>. QED  BY <2>1, PolInitInv DEF OverInv, Walks, OverflowsOnlyByCycles
<1>2. OverInv /\ [PolNext]_polVars => OverInv'
  BY OverStep
<1>3. OverInv => OverflowsOnlyByCycles
  BY DEF OverInv
<1>. QED  BY <1>1, <1>2, <1>3, PTL DEF PolSpec
-----------------------------------------------------------------------------
(* The recorded history *)

Hashes  == Defs \cup ModelHashes
Rec     == [mf : {None, Broken} \cup Manifest, pr : {None, Broken} \cup Projects]
Session == [def : Projects, last : Manifest, mf : Manifest]

-----------------------------------------------------------------------------
(* Hashes and versions *)

LEMMA HashType ==
  ASSUME NEW p \in Project
  PROVE  /\ NodesOf(p) \subseteq Nodes
         /\ \A n \in NodesOf(p) : NodeHash(p, n) \in Hashes
         /\ ProjHash(p) \in ProjNames \X SchemaHashes
<1>1. /\ p.name \in ProjNames /\ Defined(p) \subseteq Models
      /\ \A k \in Defined(p) : p.models[k] \in Defs /\ SchemaOf[k] \in Schemas
  BY NodesAssumption DEF Project, Defined
<1>2. NodesOf(p) \subseteq Nodes
  BY <1>1 DEF NodesOf, Nodes
<1>3. ASSUME NEW n \in Schemas
      PROVE  NodeHash(p, n) \in ModelHashes
  <2>. DEFINE S == {x \in Defined(p) : SchemaOf[x] = n}
              h == [k \in S |-> p.models[k]]
  <2>1. S \in SUBSET Models
    BY <1>1
  <2>2. h \in [S -> Defs]
    BY <1>1
  <2>3. NodeHash(p, n) = h
    BY NodesAssumption, <1>3 DEF NodeHash
  <2>. HIDE DEF S, h
  <2>. QED  BY <2>1, <2>2, <2>3 DEF ModelHashes
<1>4. ASSUME NEW n \in NodesOf(p)
      PROVE  NodeHash(p, n) \in Hashes
  <2>1. CASE n \in Models
    <3>1. n \in Defined(p)
      BY <1>1, <2>1, NodesAssumption DEF NodesOf
    <3>. QED  BY <1>1, <2>1, <3>1 DEF NodeHash, Hashes
  <2>2. CASE n \in Schemas
    BY <1>3, <2>2 DEF Hashes
  <2>. QED  BY <1>2, <2>1, <2>2 DEF Nodes
<1>5. ProjHash(p) \in ProjNames \X SchemaHashes
  <2>. DEFINE S == NodesOf(p) \cap Schemas
              h == [s \in S |-> NodeHash(p, s)]
  <2>1. S \in SUBSET Schemas /\ h \in [S -> ModelHashes]
    BY <1>3
  <2>2. ProjHash(p) = <<p.name, h>>
    BY DEF ProjHash
  <2>. HIDE DEF S, h
  <2>3. h \in SchemaHashes
    BY <2>1 DEF SchemaHashes
  <2>. QED  BY <1>1, <2>2, <2>3
<1>. QED  BY <1>2, <1>4, <1>5

\* A version that was recorded or is new has its number, and is followed by the next.
LEMMA NextVersionIs ==
  ASSUME NEW v \in Entry \cup {None}, NEW h \in Hashes
  PROVE  /\ NextVersion(v, h) \in Entry /\ NextVersion(v, h).hash = h
         /\ Follows(v, NextVersion(v, h))
<1>1. None \notin Entry
  BY NoneAssumption
<1>2. CASE v = None
  BY <1>1, <1>2, HistoryAssumption DEF NextVersion, Entry, Hashes, Follows
<1>3. CASE v # None
  <2>1. v \in Entry /\ v.vers \in Nat /\ v.vers + 1 \in Nat \ {0}
    BY <1>3 DEF Entry
  <2>2. CASE v.hash = h
    BY <1>1, <1>3, <2>1, <2>2 DEF NextVersion, Follows
  <2>3. CASE v.hash # h
    <3>1. NextVersion(v, h) = [vers |-> v.vers + 1, date |-> 0, hash |-> h]
      BY <1>3, <2>3 DEF NextVersion
    <3>2. NextVersion(v, h) \in Entry
      BY <2>1, <3>1, HistoryAssumption DEF Entry, Hashes
    <3>. QED  BY <1>1, <2>3, <3>1, <3>2 DEF Follows
  <2>. QED  BY <2>2, <2>3
<1>. QED  BY <1>2, <1>3

LEMMA EmptyType ==
  Empty \in Manifest /\ Empty.vers = 0 /\ \A n \in Nodes : Empty.nodes[n] = None
BY HistoryAssumption DEF Empty, Manifest

\* An updated manifest describes the project and follows the one before it.
LEMMA UpdateIs ==
  ASSUME NEW mf \in Manifest, NEW p \in Project
  PROVE  LET u == Update(mf, p) IN
         /\ u \in Manifest /\ Describes(u, p)
         /\ \A n \in Nodes : Follows(mf.nodes[n], u.nodes[n])
         /\ u.vers \in {mf.vers, mf.vers + 1} /\ u.vers \in Nat \ {0}
<1>. DEFINE u  == Update(mf, p)
            h  == ProjHash(p)
            pv == NextVersion(FirstOf(mf), h)
            nv == [n \in Nodes |->
                     IF n \in NodesOf(p) THEN NextVersion(mf.nodes[n], NodeHash(p, n)) ELSE mf.nodes[n]]
<1>1. u = [name |-> p.name, vers |-> pv.vers, date |-> pv.date, hash |-> pv.hash, nodes |-> nv]
  BY DEF Update
<1>2. /\ mf.vers \in Nat /\ mf.date \in 0..MaxRec /\ p.name \in ProjNames
      /\ \A n \in Nodes : mf.nodes[n] \in Entry \cup {None}
  BY DEF Manifest, Project
<1>3. /\ NodesOf(p) \subseteq Nodes /\ h \in ProjNames \X SchemaHashes
      /\ \A n \in NodesOf(p) : NodeHash(p, n) \in Hashes
  BY HashType
<1>. HIDE DEF h
<1>4. /\ pv.vers \in Nat \ {0} /\ pv.vers \in {mf.vers, mf.vers + 1} /\ pv.date \in 0..MaxRec
      /\ pv.hash = h
  <2>1. CASE FirstOf(mf) = None
    <3>1. mf.vers = 0 \/ None = [vers |-> mf.vers, date |-> mf.date, hash |-> mf.hash]
      BY <2>1 DEF FirstOf
    <3>2. pv = [vers |-> 1, date |-> 0, hash |-> h]
      BY <2>1 DEF NextVersion
    <3>3. [vers |-> mf.vers, date |-> mf.date, hash |-> mf.hash] \in FirstEntry
      BY DEF Manifest, FirstEntry
    <3>4. mf.vers = 0
      BY <3>1, <3>3, NoneAssumption
    <3>. QED  BY <1>2, <3>2, <3>4, HistoryAssumption
  <2>2. CASE FirstOf(mf) # None
    <3>1. mf.vers # 0 /\ FirstOf(mf) = [vers |-> mf.vers, date |-> mf.date, hash |-> mf.hash]
      BY <2>2 DEF FirstOf
    <3>2. \/ pv = FirstOf(mf) /\ mf.hash = h
          \/ pv = [vers |-> mf.vers + 1, date |-> 0, hash |-> h]
      BY <2>2, <3>1 DEF NextVersion
    <3>. QED  BY <1>2, <3>1, <3>2, HistoryAssumption
  <2>. QED  BY <2>1, <2>2
<1>. HIDE DEF pv
<1>5. ASSUME NEW n \in Nodes
      PROVE  /\ nv[n] \in Entry \cup {None} /\ Follows(mf.nodes[n], nv[n])
             /\ n \in NodesOf(p) => nv[n] # None /\ nv[n].hash = NodeHash(p, n)
  <2>1. CASE n \in NodesOf(p)
    <3>1. nv[n] = NextVersion(mf.nodes[n], NodeHash(p, n))
      BY <2>1
    <3>2. /\ nv[n] \in Entry /\ nv[n].hash = NodeHash(p, n) /\ Follows(mf.nodes[n], nv[n])
      BY <1>2, <1>3, <2>1, <3>1, NextVersionIs
    <3>. QED  BY <3>2, NoneAssumption
  <2>2. CASE n \notin NodesOf(p)
    <3>1. nv[n] = mf.nodes[n]
      BY <2>2
    <3>. QED  BY <1>2, <2>2, <3>1 DEF Follows
  <2>. QED  BY <2>1, <2>2
<1>6. nv \in [Nodes -> Entry \cup {None}]
  BY <1>5
<1>. HIDE DEF nv
<1>7. u \in Manifest
  BY <1>1, <1>2, <1>3, <1>4, <1>6 DEF Manifest
<1>8. u.nodes = nv /\ u.hash = h /\ u.vers = pv.vers
  BY <1>1, <1>4
<1>. HIDE DEF u
<1>9. Describes(u, p)
  BY <1>3, <1>5, <1>8 DEF Describes, h
<1>10. \A n \in Nodes : Follows(mf.nodes[n], u.nodes[n])
  BY <1>5, <1>8
<1>. QED  BY <1>4, <1>7, <1>8, <1>9, <1>10 DEF u

\* The dates of changed versions are all that the recording changes.
LEMMA DatedIs ==
  ASSUME NEW mf \in Manifest, NEW old \in Manifest, NEW t \in 0..MaxRec, mf.vers # old.vers,
         NEW d, d = Dated(mf, old, t)
  PROVE  /\ d \in Manifest
         /\ \A n \in Nodes : /\ mf.nodes[n] # None =>
                                  d.nodes[n] # None /\ d.nodes[n].hash = mf.nodes[n].hash
                             /\ Follows(old.nodes[n], mf.nodes[n]) =>
                                  Follows(old.nodes[n], d.nodes[n])
<1>. DEFINE nv == [n \in Nodes |-> IF Diff(mf, old, n) \in {"+", "*"}
                                   THEN [mf.nodes[n] EXCEPT !.date = t] ELSE mf.nodes[n]]
<1>1. /\ \A n \in Nodes : mf.nodes[n] \in Entry \cup {None} /\ old.nodes[n] \in Entry \cup {None}
  BY DEF Manifest
<1>2. DiffFirst(mf, old) # " "
  BY DEF DiffFirst
<1>3. d = [mf EXCEPT !.date = t, !.nodes = nv]
  BY <1>2 DEF Dated
<1>4. ASSUME NEW n \in Nodes
      PROVE  /\ nv[n] \in Entry \cup {None}
             /\ mf.nodes[n] # None => nv[n] # None /\ nv[n].hash = mf.nodes[n].hash
             /\ Follows(old.nodes[n], mf.nodes[n]) => Follows(old.nodes[n], nv[n])
  <2>. DEFINE v == old.nodes[n]
              w == mf.nodes[n]
  <2>1. CASE Diff(mf, old, n) \in {"+", "*"}
    <3>1. w # None /\ (v = None \/ w.vers # v.vers)
      BY <2>1 DEF Diff
    <3>2. nv[n] = [w EXCEPT !.date = t] /\ w \in Entry
      BY <1>1, <2>1, <3>1
    <3>3. nv[n] \in Entry /\ nv[n].hash = w.hash /\ nv[n].vers = w.vers
      BY <3>2 DEF Entry
    <3>4. nv[n] # None
      BY <3>3, NoneAssumption
    <3>. QED  BY <3>1, <3>3, <3>4 DEF Follows
  <2>2. CASE Diff(mf, old, n) \notin {"+", "*"}
    BY <1>1, <2>2
  <2>. QED  BY <2>1, <2>2
<1>5. nv \in [Nodes -> Entry \cup {None}]
  BY <1>4
<1>. HIDE DEF nv
<1>6. d \in Manifest
  BY <1>3, <1>5 DEF Manifest
<1>7. d.nodes = nv
  BY <1>3
<1>. QED  BY <1>4, <1>6, <1>7

LEMMA DatedFirst ==
  ASSUME NEW mf \in Manifest, NEW old \in Manifest, NEW t \in 0..MaxRec, mf.vers # old.vers
  PROVE  /\ Dated(mf, old, t).vers = mf.vers
         /\ Dated(mf, old, t).hash = mf.hash
         /\ Dated(mf, old, t).date = t
<1>. DEFINE nv == [n \in Nodes |-> IF Diff(mf, old, n) \in {"+", "*"}
                                   THEN [mf.nodes[n] EXCEPT !.date = t] ELSE mf.nodes[n]]
<1>1. DiffFirst(mf, old) # " "
  BY DEF DiffFirst
<1>2. Dated(mf, old, t) = [mf EXCEPT !.date = t, !.nodes = nv]
  BY <1>1 DEF Dated
<1>. HIDE DEF nv
<1>. QED  BY <1>2 DEF Manifest

-----------------------------------------------------------------------------
(* Records *)

\* What RecordsInOrder says of the records.
Successive ==
  \A i \in Recorded :
    /\ recs[i].mf.vers = recs[1].mf.vers + i - 1
    /\ recs[1].mf.vers \in 1..recs[1].mf.date

RecsOK == Successive /\ RecordsAreWhole /\ Chained

LEMMA InvParts == Inv <=> TypeOK /\ RecsOK /\ SessionOK /\ FileOK
BY DEF Inv, RecordsInOrder, RecsOK, Successive

LEMMA RecsType ==
  ASSUME TypeOK
  PROVE  /\ recs \in Seq(Rec) /\ Len(recs) \in Nat /\ DOMAIN recs = 1..Len(recs)
         /\ \A i \in 1..Len(recs) : recs[i] \in Rec
         /\ \A i \in Recorded : i \in 1..Len(recs) /\ recs[i].mf \in Manifest
         /\ \A i \in 1..Len(recs) : recs[i].mf \in Manifest => i \in Recorded
         /\ recs = <<>> <=> Len(recs) = 0
<1>1. recs \in Seq(Rec)
  BY DEF TypeOK, Rec
<1>2. /\ Len(recs) \in Nat /\ DOMAIN recs = 1..Len(recs)
      /\ \A i \in 1..Len(recs) : recs[i] \in Rec
      /\ recs = <<>> <=> Len(recs) = 0
  BY <1>1, LenProperties, ElementOfSeq, EmptySeq
<1>3. \A i \in Recorded : i \in 1..Len(recs) /\ recs[i].mf \in Manifest
  BY <1>2 DEF Recorded, Rec
<1>4. \A i \in 1..Len(recs) : recs[i].mf \in Manifest => i \in Recorded
  BY <1>2, NoneAssumption DEF Recorded
<1>. QED  BY <1>1, <1>2, <1>3, <1>4

\* The manifest of the record that a session begins with.
LastOf == IF Before = 0 THEN Empty ELSE recs[Before].mf

\* If all records are complete, the latest version is the last record's.
LEMMA LastRecIs ==
  ASSUME TypeOK, Successive, \A i \in DOMAIN recs : i \in Recorded
  PROVE  LastRec = IF recs = <<>> THEN Empty ELSE recs[Len(recs)].mf
<1>1. CASE recs = <<>>
  BY <1>1 DEF LastRec
<1>2. CASE recs # <<>>
  <2>. DEFINE N == Len(recs)
              IsLast(i) == \A j \in DOMAIN recs : recs[j].mf.vers <= recs[i].mf.vers
  <2>1. N \in Nat \ {0} /\ DOMAIN recs = 1..N /\ N \in DOMAIN recs /\ 1 \in DOMAIN recs
    BY <1>2, RecsType
  <2>2. recs[1].mf.vers \in Nat
    BY <2>1, RecsType DEF Manifest
  <2>3. \A i \in 1..N : recs[i].mf.vers = recs[1].mf.vers + i - 1
    BY <2>1 DEF Successive
  <2>. HIDE DEF N
  <2>4. IsLast(N)
    BY <2>1, <2>2, <2>3
  <2>5. \A i \in DOMAIN recs : IsLast(i) => i = N
    <3>1. ASSUME NEW i \in 1..N, recs[N].mf.vers <= recs[i].mf.vers
          PROVE  i = N
      BY <2>1, <2>2, <2>3, <3>1
    <3>. QED  BY <2>1, <3>1
  <2>. DEFINE c == CHOOSE i \in DOMAIN recs : IsLast(i)
  <2>6. LastRec = recs[c].mf
    BY <1>2 DEF LastRec
  <2>. HIDE DEF IsLast
  <2>7. c \in DOMAIN recs /\ IsLast(c)
    BY <2>1, <2>4
  <2>8. c = N
    BY <2>5, <2>7
  <2>. HIDE DEF c
  <2>. QED  BY <1>2, <2>6, <2>8 DEF N
<1>. QED  BY <1>1, <1>2

\* A step that leaves the records alone.
LEMMA SameRecs ==
  ASSUME RecsOK, recs' = recs, cut => cut'
  PROVE  RecsOK' /\ Recorded' = Recorded
<1>1. Recorded' = Recorded
  BY DEF Recorded
<1>. QED  BY <1>1 DEF RecsOK, Successive, RecordsAreWhole, Chained

\* The manifest to be written to a new record fits behind the records before it.
Fits(mf, k) ==
  /\ mf \in Manifest
  /\ \A i \in 1..k : i \in Recorded
  /\ IF k = 0 THEN mf.vers \in 1..mf.date
     ELSE /\ mf.vers = recs[k].mf.vers + 1
          /\ ~cut => \A n \in Nodes : Follows(recs[k].mf.nodes[n], mf.nodes[n])

\* What follows a version comes later than all the versions before it.
LEMMA LaterFollows ==
  ASSUME NEW u \in Entry \cup {None}, NEW v \in Entry \cup {None}, NEW w \in Entry \cup {None},
         Later(u, v), Follows(v, w)
  PROVE  Later(u, w)
<1>1. u # None => u.vers \in Nat /\ v # None /\ v.vers \in Nat /\ w # None /\ w.vers \in Nat
  BY DEF Entry, Later, Follows
<1>. QED  BY <1>1 DEF Later, Follows

LEMMA LaterSelf ==
  ASSUME NEW v \in Entry \cup {None}
  PROVE  Later(v, v)
BY DEF Later, Entry

\* The last record gets its manifest, or does not.
LEMMA LastRecorded ==
  ASSUME TypeOK, RecsOK, NEW x \in {None, Broken} \cup Manifest, recs # <<>>, cut' = cut,
         recs' = [recs EXCEPT ![Len(recs)].mf = x], Len(recs) \notin Recorded,
         recs[Len(recs)].pr = None, x \in Manifest => Fits(x, Len(recs) - 1)
  PROVE  /\ RecsOK' /\ recs' \in Seq(Rec) /\ Len(recs') = Len(recs)
         /\ recs'[Len(recs)].mf = x /\ recs'[Len(recs)].pr = recs[Len(recs)].pr
         /\ \A i \in 1..(Len(recs) - 1) : recs'[i] = recs[i]
         /\ Recorded' = IF x \in Manifest THEN Recorded \cup {Len(recs)} ELSE Recorded
<1>. DEFINE N == Len(recs)
<1>1. /\ recs \in Seq(Rec) /\ N \in Nat \ {0} /\ DOMAIN recs = 1..N /\ N \in 1..N
      /\ \A i \in 1..N : recs[i] \in Rec
      /\ \A i \in Recorded : i \in 1..N /\ recs[i].mf \in Manifest
  BY RecsType
<1>2. [recs[N] EXCEPT !.mf = x] \in Rec
  BY <1>1 DEF Rec
<1>3. /\ recs' \in Seq(Rec) /\ Len(recs') = N
      /\ \A i \in 1..N : i # N => recs'[i] = recs[i]
      /\ recs'[N] = [recs[N] EXCEPT !.mf = x]
  BY <1>1, <1>2, ExceptSeq
<1>4. recs'[N].mf = x /\ recs'[N].pr = recs[N].pr
  BY <1>1, <1>3 DEF Rec
<1>. HIDE DEF N
<1>5. DOMAIN recs' = 1..N
  BY <1>3, LenProperties
<1>6. Recorded' = IF x \in Manifest THEN Recorded \cup {N} ELSE Recorded
  <2>1. x \in Manifest <=> x \notin {None, Broken}
    BY NoneAssumption
  <2>2. \A i \in 1..N : i # N => (i \in Recorded' <=> i \in Recorded)
    BY <1>1, <1>3, <1>5 DEF Recorded
  <2>3. N \in Recorded' <=> x \in Manifest
    BY <1>1, <1>4, <1>5, <2>1 DEF Recorded
  <2>4. Recorded \subseteq 1..N /\ Recorded' \subseteq 1..N
    BY <1>1, <1>5 DEF Recorded
  <2>5. N \notin Recorded /\ N \in 1..N
    BY <1>1 DEF N
  <2>6. CASE x \in Manifest
    BY <2>2, <2>3, <2>4, <2>5, <2>6
  <2>7. CASE x \notin Manifest
    <3>1. \A i \in Recorded : i \in 1..N /\ i # N
      BY <2>4, <2>5
    <3>2. \A i \in Recorded' : i \in 1..N /\ i # N
      BY <2>3, <2>4, <2>7
    <3>3. Recorded' = Recorded
      BY <2>2, <3>1, <3>2
    <3>. QED  BY <2>7, <3>3
  <2>. QED  BY <2>6, <2>7
<1>7. \A i \in Recorded : i \in 1..(N - 1) /\ i \in Nat /\ recs'[i] = recs[i]
  BY <1>1, <1>3 DEF N
<1>8. CASE x \notin Manifest
  <2>1. Recorded' = Recorded
    BY <1>6, <1>8
  <2>2. Successive'
    <3>1. ASSUME NEW i \in Recorded
          PROVE  recs'[1] = recs[1]
      BY <1>1, <1>3, <1>7
    <3>. QED  BY <1>7, <2>1, <3>1 DEF RecsOK, Successive
  <2>3. RecordsAreWhole'
    BY <1>7, <2>1 DEF RecsOK, RecordsAreWhole
  <2>4. Chained'
    BY <1>3, <1>5, <1>7, <1>1, <2>1 DEF RecsOK, Chained, N
  <2>. QED  BY <1>3, <1>4, <1>6, <2>2, <2>3, <2>4 DEF RecsOK, N
<1>9. CASE x \in Manifest
  <2>1. Recorded' = Recorded \cup {N} /\ Fits(x, N - 1)
    BY <1>6, <1>9 DEF N
  <2>2. Successive'
    <3>1. CASE N = 1
      BY <1>4, <1>7, <2>1, <3>1 DEF Successive, Fits, Manifest
    <3>2. CASE N # 1
      <4>1. N - 1 \in 1..(N - 1) /\ 1 \in 1..(N - 1) /\ recs'[1] = recs[1]
        BY <1>1, <1>3, <3>2
      <4>2. N - 1 \in Recorded /\ 1 \in Recorded
        BY <2>1, <4>1 DEF Fits
      <4>3. x.vers = recs[N - 1].mf.vers + 1 /\ recs[N - 1].mf.vers = recs[1].mf.vers + (N - 1) - 1
        <5>1. N - 1 # 0
          BY <1>1, <3>2
        <5>2. x.vers = recs[N - 1].mf.vers + 1
          BY <2>1, <5>1 DEF Fits
        <5>3. recs[N - 1].mf.vers = recs[1].mf.vers + (N - 1) - 1
          BY <4>2 DEF RecsOK, Successive
        <5>. QED  BY <5>2, <5>3
      <4>4. recs[1].mf.vers \in Nat /\ recs[1].mf.vers \in 1..recs[1].mf.date
        BY <1>1, <4>2 DEF Manifest, RecsOK, Successive
      <4>5. x.vers = recs[1].mf.vers + N - 1
        <5>. DEFINE a == recs[1].mf.vers
                    y == recs[N - 1].mf.vers
        <5>1. a \in Nat /\ N \in Nat /\ y = a + (N - 1) - 1 /\ x.vers = y + 1
          BY <1>1, <4>3, <4>4
        <5>. HIDE DEF a, y
        <5>2. y + 1 = a + N - 1
          BY <5>1
        <5>. QED  BY <5>1, <5>2 DEF a
      <4>. QED  BY <1>4, <1>7, <2>1, <4>1, <4>4, <4>5 DEF RecsOK, Successive
    <3>. QED  BY <3>1, <3>2
  <2>3. RecordsAreWhole'
    BY <1>4, <1>7, <2>1 DEF RecsOK, RecordsAreWhole, N
  <2>4. \A i \in DOMAIN recs' : i < Len(recs') => i \in Recorded'
    BY <1>1, <1>3, <1>5, <2>1 DEF RecsOK, Chained, N
  <2>5. ASSUME NEW i \in Recorded', NEW j \in Recorded', NEW n \in Nodes, i <= j, ~cut
        PROVE  Later(recs'[i].mf.nodes[n], recs'[j].mf.nodes[n])
    <3>1. CASE i \in Recorded /\ j \in Recorded
      BY <1>7, <2>5, <3>1 DEF RecsOK, Chained
    <3>2. CASE i = N /\ j = N
      BY <1>4, <1>9, <3>2, LaterSelf DEF Manifest
    <3>3. CASE i \in Recorded /\ j = N
      <4>1. i \in 1..(N - 1) /\ N # 1 /\ N - 1 # 0 /\ N - 1 \in 1..(N - 1) /\ i <= N - 1
        BY <1>1, <1>7, <3>3
      <4>2. N - 1 \in Recorded
        BY <2>1, <4>1 DEF Fits
      <4>3. Later(recs[i].mf.nodes[n], recs[N - 1].mf.nodes[n])
        BY <2>5, <3>3, <4>1, <4>2 DEF RecsOK, Chained
      <4>4. Follows(recs[N - 1].mf.nodes[n], x.nodes[n])
        BY <2>1, <2>5, <4>1 DEF Fits
      <4>5. /\ recs[i].mf.nodes[n] \in Entry \cup {None} /\ x.nodes[n] \in Entry \cup {None}
            /\ recs[N - 1].mf.nodes[n] \in Entry \cup {None}
        BY <1>1, <1>9, <3>3, <4>2 DEF Manifest
      <4>. QED  BY <1>4, <1>7, <3>3, <4>3, <4>4, <4>5, LaterFollows
    <3>4. CASE i = N /\ j \in Recorded
      BY <1>1, <1>7, <2>5, <3>4
    <3>. QED  BY <2>1, <3>1, <3>2, <3>3, <3>4
  <2>6. ASSUME NEW i \in Recorded', NEW n \in Nodes, i + 1 \in Recorded', ~cut
        PROVE  Follows(recs'[i].mf.nodes[n], recs'[i + 1].mf.nodes[n])
    <3>1. i \in Recorded
      BY <1>1, <1>7, <2>1, <2>6
    <3>2. CASE i + 1 \in Recorded
      BY <1>7, <2>6, <3>1, <3>2 DEF RecsOK, Chained
    <3>3. CASE i + 1 = N
      <4>1. i = N - 1 /\ N - 1 # 0
        BY <1>1, <1>7, <3>1, <3>3
      <4>. QED  BY <1>4, <1>7, <2>1, <2>6, <3>1, <3>3, <4>1 DEF Fits
    <3>. QED  BY <2>1, <2>6, <3>2, <3>3
  <2>7. Chained'
    BY <2>4, <2>5, <2>6 DEF Chained
  <2>. QED  BY <1>3, <1>4, <1>6, <2>2, <2>3, <2>7 DEF RecsOK, N
<1>. QED  BY <1>8, <1>9

\* The last record gets its project, or does not.
LEMMA LastProject ==
  ASSUME TypeOK, RecsOK, NEW x \in {None, Broken} \cup Projects, recs # <<>>, cut' = cut,
         recs' = [recs EXCEPT ![Len(recs)].pr = x],
         Len(recs) \in Recorded /\ x \notin {None, Broken} => Describes(recs[Len(recs)].mf, x)
  PROVE  /\ RecsOK' /\ recs' \in Seq(Rec) /\ Len(recs') = Len(recs) /\ Recorded' = Recorded
         /\ \A i \in 1..Len(recs) : recs'[i].mf = recs[i].mf
<1>. DEFINE N == Len(recs)
<1>1. /\ recs \in Seq(Rec) /\ N \in Nat \ {0} /\ DOMAIN recs = 1..N /\ N \in 1..N
      /\ \A i \in 1..N : recs[i] \in Rec
  BY RecsType
<1>2. [recs[N] EXCEPT !.pr = x] \in Rec
  BY <1>1 DEF Rec
<1>3. /\ recs' \in Seq(Rec) /\ Len(recs') = N
      /\ \A i \in 1..N : i # N => recs'[i] = recs[i]
      /\ recs'[N] = [recs[N] EXCEPT !.pr = x]
  BY <1>1, <1>2, ExceptSeq
<1>4. recs'[N].mf = recs[N].mf /\ recs'[N].pr = x
  BY <1>1, <1>3 DEF Rec
<1>. HIDE DEF N
<1>5. \A i \in 1..N : recs'[i].mf = recs[i].mf
  BY <1>3, <1>4
<1>6. DOMAIN recs' = 1..N
  BY <1>3, LenProperties
<1>7. Recorded' = Recorded /\ Recorded \subseteq 1..N /\ (Recorded # {} => 1 \in 1..N)
  BY <1>1, <1>5, <1>6 DEF Recorded
<1>8. Successive'
  BY <1>5, <1>7 DEF RecsOK, Successive
<1>9. Chained'
  <2>1. \A i \in Recorded : recs'[i].mf = recs[i].mf
    BY <1>5, <1>7
  <2>. QED  BY <1>1, <1>3, <1>6, <1>7, <2>1 DEF RecsOK, Chained, N
<1>10. RecordsAreWhole'
  <2>1. ASSUME NEW i \in Recorded', recs'[i].pr \notin {None, Broken}
        PROVE  /\ recs'[i].mf.hash = ProjHash(recs'[i].pr)
               /\ \A n \in NodesOf(recs'[i].pr) :
                    recs'[i].mf.nodes[n].hash = NodeHash(recs'[i].pr, n)
    <3>1. CASE i = N
      BY <1>4, <1>7, <2>1, <3>1 DEF Describes, N
    <3>2. CASE i # N
      BY <1>3, <1>7, <2>1, <3>2 DEF RecsOK, RecordsAreWhole
    <3>. QED  BY <3>1, <3>2
  <2>. QED  BY <2>1 DEF RecordsAreWhole
<1>. QED  BY <1>3, <1>5, <1>7, <1>8, <1>9, <1>10 DEF RecsOK, N
-----------------------------------------------------------------------------
(* Sessions *)

LEMMA SessionType ==
  ASSUME TypeOK
  PROVE  /\ pc # "idle" => /\ sess \in Session /\ sess.def \in Projects /\ sess.def \in Project
                           /\ sess.last \in Manifest /\ sess.mf \in Manifest
                           /\ sess.mf.vers \in Nat /\ sess.last.vers \in Nat
         /\ def \in Projects /\ def \in Project /\ Loaded \in {Broken} \cup Manifest
         /\ clock \in Nat
BY EmptyType, ProjectsAssumption, HistoryAssumption DEF TypeOK, Session, Loaded, Manifest

\* A session does not begin with a record that is not complete.
LEMMA ReadableIs ==
  ASSUME TypeOK, RecsOK, Readable
  PROVE  /\ \A i \in 1..Len(recs) : i \in Recorded
         /\ LastRec = (IF recs = <<>> THEN Empty ELSE recs[Len(recs)].mf)
         /\ LastRec \in Manifest /\ Loaded \in Manifest
         /\ recs # <<>> => LastRec.vers \in Nat \ {0} /\ Len(recs) \in Recorded
<1>1. DOMAIN recs = 1..Len(recs) /\ Len(recs) \in Nat /\ (recs # <<>> => Len(recs) \in 1..Len(recs) /\ 1 \in 1..Len(recs))
  BY RecsType
<1>2. \A i \in 1..Len(recs) : i \in Recorded
  BY <1>1 DEF Readable, Recorded
<1>3. LastRec = IF recs = <<>> THEN Empty ELSE recs[Len(recs)].mf
  BY <1>1, <1>2, LastRecIs DEF RecsOK
<1>4. LastRec \in Manifest
  BY <1>1, <1>2, <1>3, RecsType, EmptyType
<1>5. recs # <<>> => LastRec.vers \in Nat \ {0}
  <2>1. SUFFICES ASSUME recs # <<>> PROVE LastRec.vers \in Nat \ {0}
    OBVIOUS
  <2>. DEFINE a == recs[1].mf.vers
  <2>2. LastRec.vers = a + Len(recs) - 1 /\ a \in Nat /\ a \in 1..recs[1].mf.date
    BY <1>1, <1>2, <1>3, <2>1, RecsType DEF RecsOK, Successive, Manifest
  <2>3. recs[1].mf.date \in Int
    BY <1>1, <1>2, <2>1, RecsType DEF Manifest
  <2>. HIDE DEF a
  <2>. QED  BY <1>1, <2>1, <2>2, <2>3
<1>6. Loaded \in Manifest
  BY EmptyType DEF TypeOK, Readable, Loaded
<1>. QED  BY <1>1, <1>2, <1>3, <1>4, <1>5, <1>6

\* What is left of a manifest that was written has no version, or all there is of the
\* project's; and it is all there is if nothing was cut off.
LEMMA LeftIs ==
  ASSUME NEW mf \in Manifest, NEW x \in Manifest, Left(x, mf)
  PROVE  x.vers \in {0, mf.vers} /\ (~cut => x \in {mf, Empty})
<1>1. Empty.vers = 0 /\ x # Broken
  BY NoneAssumption DEF Empty
<1>. QED  BY <1>1 DEF Left

\* A history that can be read and has records is continued from the last version, and if
\* nothing was cut off from the last record.
LEMMA BaseIs ==
  ASSUME TypeOK, RecsOK, SessionOK, FileOK, Readable, recs # <<>>
  PROVE  Base.vers = LastRec.vers /\ (~cut => Base = LastRec)
<1>1. CASE Loaded.vers = 0
  BY <1>1 DEF Base
<1>2. CASE Loaded.vers # 0
  <2>1. /\ mfile \in Manifest /\ Loaded = mfile /\ mfile.vers = LastRec.vers
        /\ LastRec = recs[Len(recs)].mf /\ Len(recs) \in Recorded /\ LastRec.vers \in Nat \ {0}
        /\ LastRec \in Manifest /\ Base = Loaded
    BY <1>2, EmptyType, ReadableIs DEF Base, Readable, Loaded, TypeOK
  <2>2. CASE pc \in {"idle", "ready", "manifest"}
    <3>1. mfile.vers \in {0, LastRec.vers + 1} \/ Left(mfile, LastRec)
      BY <2>1, <2>2 DEF FileOK
    <3>2. Left(mfile, LastRec)
      BY <2>1, <3>1
    <3>. QED  BY <2>1, <3>2, LeftIs DEF Empty
  <2>3. CASE pc = "folder"
    <3>1. Left(mfile, sess.mf) /\ sess.mf.vers # sess.last.vers /\ sess.mf \in Manifest
      BY <2>3, SessionType DEF SessionOK
    <3>2. Before = Len(recs) /\ Len(recs) # 0
      BY <2>3, RecsType DEF Before
    <3>3. sess.last = LastRec
      BY <2>1, <2>3, <3>2 DEF SessionOK
    <3>4. mfile.vers \in {0, sess.mf.vers}
      BY <2>1, <3>1, LeftIs
    <3>. QED  BY <2>1, <3>1, <3>3, <3>4
  <2>4. CASE pc = "recmf"
    <3>1. recs[Len(recs)].mf = None
      BY <2>4 DEF SessionOK
    <3>. QED  BY <2>1, <3>1 DEF Recorded
  <2>5. CASE pc = "recpr"
    <3>1. Left(mfile, sess.mf) /\ recs[Len(recs)].mf \in {sess.mf, Broken} /\ sess.mf \in Manifest
      BY <2>5, SessionType DEF SessionOK
    <3>2. LastRec = sess.mf
      BY <2>1, <3>1 DEF Recorded
    <3>. QED  BY <2>1, <3>1, <3>2, LeftIs DEF Empty
  <2>. QED  BY <2>2, <2>3, <2>4, <2>5 DEF TypeOK
<1>. QED  BY <1>1, <1>2

-----------------------------------------------------------------------------
(* Every step keeps the invariant *)

LEMMA ReadHistoryInv ==
  ASSUME Inv, ReadHistory
  PROVE  Inv'
<1>. USE InvParts
<1>1. /\ pc = "idle" /\ Readable /\ pc' = "ready" /\ UNCHANGED <<def, hdir, mfile, recs, clock, cut>>
      /\ sess' = [def |-> def, last |-> LastRec, mf |-> Update(Base, def)]
  BY DEF ReadHistory
<1>2. RecsOK' /\ Recorded' = Recorded
  BY <1>1, SameRecs
<1>3. /\ \A i \in 1..Len(recs) : i \in Recorded
      /\ LastRec = (IF recs = <<>> THEN Empty ELSE recs[Len(recs)].mf)
      /\ LastRec \in Manifest /\ Loaded \in Manifest
  BY <1>1, ReadableIs
<1>4. /\ recs # <<>> => Base.vers = LastRec.vers /\ (~cut => Base = LastRec)
      /\ recs = <<>> => Base = Loaded /\ LastRec = Empty
  BY <1>1, <1>3, BaseIs DEF Base
<1>5. Base \in Manifest /\ Base.vers \in Nat /\ def \in Project /\ def \in Projects
  BY <1>3, SessionType DEF Base, Manifest
<1>. DEFINE u == Update(Base, def)
<1>6. /\ u \in Manifest /\ Describes(u, def)
      /\ \A n \in Nodes : Follows(Base.nodes[n], u.nodes[n])
      /\ u.vers \in {Base.vers, Base.vers + 1} /\ u.vers \in Nat \ {0}
  BY <1>5, UpdateIs
<1>. HIDE DEF u
<1>7. sess'.def = def /\ sess'.last = LastRec /\ sess'.mf = u /\ sess' \in Session
  BY <1>1, <1>3, <1>5, <1>6 DEF Session, u
<1>8. TypeOK'
  BY <1>1, <1>7 DEF TypeOK, Session
<1>9. Before' = Len(recs) /\ (Len(recs) = 0 <=> recs = <<>>)
  BY <1>1, RecsType DEF Before
<1>10. ~cut => \A n \in Nodes : Follows(LastRec.nodes[n], u.nodes[n])
  BY <1>4, <1>6, EmptyType DEF Follows
<1>11. recs = <<>> => u.vers \in 1..(clock + 1)
  <2>1. recs = <<>> => Base.vers <= clock
    <3>1. clock \in Nat
      BY SessionType
    <3>2. mfile # None => Loaded = mfile /\ mfile \in Manifest
      BY <1>3 DEF Loaded
    <3>. QED  BY <1>4, <3>1, <3>2, EmptyType DEF FileOK, Loaded
  <2>2. clock \in Nat
    BY SessionType
  <2>. QED  BY <1>5, <1>6, <2>1, <2>2
<1>12. SessionOK'
  <2>1. \A i \in 1..Before' : i \in Recorded'
    BY <1>2, <1>3, <1>9
  <2>2. sess'.last = IF Before' = 0 THEN Empty ELSE recs'[Before'].mf
    BY <1>1, <1>3, <1>7, <1>9
  <2>3. IF Before' = 0 THEN sess'.mf.vers \in 1..(clock' + 1)
                       ELSE sess'.mf.vers \in {sess'.last.vers, sess'.last.vers + 1}
    BY <1>1, <1>4, <1>6, <1>7, <1>9, <1>11
  <2>. QED  BY <1>1, <1>6, <1>7, <1>10, <2>1, <2>2, <2>3 DEF SessionOK, Describes
<1>13. FileOK'
  BY <1>1, <1>2 DEF FileOK, Left
<1>14. Inv' <=> TypeOK' /\ RecsOK' /\ SessionOK' /\ FileOK'
  BY DEF Inv, RecordsInOrder, RecsOK, Successive
<1>. QED  BY <1>2, <1>8, <1>12, <1>13, <1>14

LEMMA NoChangesInv ==
  ASSUME Inv, NoChanges
  PROVE  Inv'
<1>1. /\ pc = "ready" /\ pc' = "idle" /\ sess' = None /\ UNCHANGED <<def, hdir, mfile, recs, clock, cut>>
  BY DEF NoChanges
<1>2. RecsOK' /\ Recorded' = Recorded
  BY <1>1, InvParts, SameRecs
<1>3. TypeOK' /\ FileOK' /\ SessionOK'
  BY <1>1, <1>2, InvParts DEF TypeOK, FileOK, SessionOK, Left
<1>. QED  BY <1>2, <1>3 DEF Inv, RecordsInOrder, RecsOK, Successive

LEMMA CommitInv ==
  ASSUME Inv, Commit
  PROVE  Inv'
<1>. USE InvParts
<1>1. /\ pc = "ready" /\ clock < MaxRec /\ sess.mf.vers # sess.last.vers
      /\ hdir' = TRUE /\ clock' = clock + 1 /\ pc' = "manifest"
      /\ sess' = [sess EXCEPT !.mf = Dated(sess.mf, sess.last, clock')]
      /\ UNCHANGED <<def, mfile, recs, cut>>
  BY DEF Commit
<1>2. RecsOK' /\ Recorded' = Recorded
  BY <1>1, SameRecs
<1>3. clock \in Nat /\ clock' \in 0..MaxRec
  BY <1>1, SessionType, HistoryAssumption
<1>4. sess \in Session /\ sess.last \in Manifest /\ sess.mf \in Manifest
  BY <1>1, SessionType
<1>. DEFINE d == Dated(sess.mf, sess.last, clock')
            a == sess.mf
            b == sess.last
            t == clock'
<1>5. /\ d \in Manifest /\ d.vers = a.vers /\ d.hash = a.hash /\ d.date = t
      /\ \A n \in Nodes : /\ a.nodes[n] # None =>
                              d.nodes[n] # None /\ d.nodes[n].hash = a.nodes[n].hash
                          /\ Follows(b.nodes[n], a.nodes[n]) => Follows(b.nodes[n], d.nodes[n])
  <2>1. a \in Manifest /\ b \in Manifest /\ t \in 0..MaxRec /\ a.vers # b.vers
    BY <1>1, <1>3, <1>4
  <2>2. d = Dated(a, b, t)
    OBVIOUS
  <2>. HIDE DEF d, a, b, t
  <2>3. d \in Manifest
    BY <2>1, <2>2, DatedIs
  <2>4. d.vers = a.vers /\ d.hash = a.hash /\ d.date = t
    BY <2>1, <2>2, DatedFirst
  <2>5. ASSUME NEW n \in Nodes
        PROVE  /\ a.nodes[n] # None => d.nodes[n] # None /\ d.nodes[n].hash = a.nodes[n].hash
               /\ Follows(b.nodes[n], a.nodes[n]) => Follows(b.nodes[n], d.nodes[n])
    BY <2>1, <2>2, DatedIs
  <2>. QED  BY <2>3, <2>4, <2>5
<1>. HIDE DEF d
<1>6. sess'.def = sess.def /\ sess'.last = sess.last /\ sess'.mf = d /\ sess' \in Session
  BY <1>1, <1>4, <1>5 DEF Session, d
<1>7. TypeOK'
  BY <1>1, <1>3, <1>6 DEF TypeOK, Session
<1>8. Before' = Before
  BY <1>1 DEF Before
<1>9. SessionOK'
  <2>1. Describes(d, sess.def)
    <3>1. sess.def \in Project
      BY <1>1, SessionType
    <3>2. NodesOf(sess.def) \subseteq Nodes
      BY <3>1, HashType
    <3>3. Describes(a, sess.def)
      BY <1>1 DEF SessionOK
    <3>. HIDE DEF a, b, t
    <3>4. d.hash = ProjHash(sess.def)
      BY <1>5, <3>3 DEF Describes
    <3>5. ASSUME NEW n \in NodesOf(sess.def)
          PROVE  d.nodes[n] # None /\ d.nodes[n].hash = NodeHash(sess.def, n)
      <4>1. n \in Nodes /\ a.nodes[n] # None /\ a.nodes[n].hash = NodeHash(sess.def, n)
        BY <3>2, <3>3 DEF Describes
      <4>. QED  BY <1>5, <4>1
    <3>. QED  BY <3>4, <3>5 DEF Describes
  <2>2. ASSUME ~cut, NEW n \in Nodes PROVE Follows(sess.last.nodes[n], d.nodes[n])
    <3>1. Follows(b.nodes[n], a.nodes[n])
      BY <1>1, <2>2 DEF SessionOK
    <3>2. Follows(b.nodes[n], d.nodes[n])
      <4>. HIDE DEF a, b, t
      <4>. QED  BY <1>5, <3>1
    <3>. QED  BY <3>2
  <2>3. IF Before = 0 THEN d.vers \in 1..d.date ELSE d.vers \in {sess.last.vers, sess.last.vers + 1}
    BY <1>1, <1>5 DEF SessionOK
  <2>4. /\ \A i \in 1..Before : i \in Recorded
        /\ sess.last = IF Before = 0 THEN Empty ELSE recs[Before].mf
    BY <1>1 DEF SessionOK
  <2>5. d.vers # sess.last.vers /\ d.date = clock'
    BY <1>1, <1>5
  <2>. HIDE DEF a, b, t
  <2>. QED  BY <1>1, <1>2, <1>6, <1>8, <2>1, <2>2, <2>3, <2>4, <2>5 DEF SessionOK
<1>10. FileOK'
  <2>1. mfile \in Manifest /\ recs = <<>> => mfile.vers <= clock'
    <3>1. mfile \in Manifest => mfile.vers \in Nat
      BY DEF Manifest
    <3>. QED  BY <1>1, <1>3, <3>1 DEF FileOK
  <2>. QED  BY <1>1, <1>2, <2>1 DEF FileOK, Left
<1>. QED  BY <1>2, <1>7, <1>9, <1>10 DEF Inv, RecordsInOrder, RecsOK, Successive

\* A manifest.json that was partly written cannot be read, has no version, or has all there
\* is of the project's.
LEMMA PartialIs ==
  ASSUME NEW mf \in Manifest, NEW x \in Partial(mf)
  PROVE  x \in {Broken, Empty} \/ (x \in Manifest /\ x.vers = mf.vers)
<1>1. CASE x \in {Broken, Empty}
  BY <1>1
<1>2. CASE x \notin {Broken, Empty}
  <2>1. PICK k \in 0..Len(NodeOrder) :
          x = [mf EXCEPT !.nodes = [n \in Nodes |->
                 IF \E i \in 1..k : NodeOrder[i] = n THEN mf.nodes[n] ELSE None]]
    BY <1>2 DEF Partial
  <2>. DEFINE nv == [n \in Nodes |-> IF \E i \in 1..k : NodeOrder[i] = n THEN mf.nodes[n] ELSE None]
  <2>2. nv \in [Nodes -> Entry \cup {None}]
    BY DEF Manifest
  <2>3. x = [mf EXCEPT !.nodes = nv]
    BY <2>1
  <2>. HIDE DEF nv
  <2>. QED  BY <2>2, <2>3 DEF Manifest
<1>. QED  BY <1>1, <1>2

LEMMA WriteManifestInv ==
  ASSUME Inv, WriteManifest
  PROVE  Inv'
<1>. USE InvParts
<1>1. /\ pc = "manifest" /\ mfile' \in {sess.mf} \cup Partial(sess.mf) /\ pc' = "folder"
      /\ cut' = (cut \/ mfile' \notin {sess.mf, Broken, Empty})
      /\ UNCHANGED <<def, hdir, recs, sess, clock>>
  BY DEF WriteManifest, Written
<1>2. RecsOK' /\ Recorded' = Recorded
  BY <1>1, SameRecs
<1>3. /\ sess \in Session /\ sess.mf \in Manifest /\ sess.mf.vers \in Nat /\ clock \in Nat
      /\ Empty \in Manifest /\ Empty.vers = 0
  BY <1>1, EmptyType, SessionType DEF Empty
<1>4. mfile' \in {sess.mf, Broken, Empty} \/ (mfile' \in Manifest /\ mfile'.vers = sess.mf.vers)
  BY <1>1, <1>3, PartialIs
<1>5. TypeOK'
  BY <1>1, <1>3, <1>4 DEF TypeOK
<1>6. Before' = Before /\ (recs = <<>> => Before = 0)
  BY <1>1, RecsType DEF Before
<1>7. SessionOK'
  <2>1. Left(mfile, sess.mf)'
    BY <1>1, <1>4 DEF Left
  <2>. QED  BY <1>1, <1>2, <1>6, <2>1 DEF SessionOK, Describes
<1>8. FileOK'
  <2>1. recs = <<>> => sess.mf.vers \in 1..sess.mf.date /\ sess.mf.date = clock
    BY <1>1, <1>6 DEF SessionOK
  <2>2. mfile' \in Manifest => mfile'.vers \in {0, sess.mf.vers}
    BY <1>3, <1>4, NoneAssumption
  <2>. QED  BY <1>1, <1>3, <2>1, <2>2 DEF FileOK
<1>. QED  BY <1>2, <1>5, <1>7, <1>8 DEF Inv, RecordsInOrder, RecsOK, Successive

\* A folder that is made for a record has no manifest yet.
LEMMA FolderMade ==
  ASSUME TypeOK, RecsOK, \A i \in 1..Len(recs) : i \in Recorded, cut' = cut,
         recs' = Append(recs, [mf |-> None, pr |-> None])
  PROVE  /\ RecsOK' /\ recs' \in Seq(Rec) /\ Len(recs') = Len(recs) + 1
         /\ Recorded' = Recorded
         /\ \A i \in 1..Len(recs) : recs'[i] = recs[i]
         /\ recs'[Len(recs) + 1] = [mf |-> None, pr |-> None]
<1>. DEFINE N == Len(recs)
            r == [mf |-> None, pr |-> None]
<1>1. /\ recs \in Seq(Rec) /\ N \in Nat /\ DOMAIN recs = 1..N /\ r \in Rec
      /\ \A i \in Recorded : i \in 1..N
  BY RecsType DEF Rec
<1>2. /\ recs' \in Seq(Rec) /\ Len(recs') = N + 1 /\ recs'[N + 1] = r
      /\ \A i \in 1..N : recs'[i] = recs[i]
  BY <1>1, AppendProperties
<1>3. r.mf = None /\ r.pr = None
  OBVIOUS
<1>. HIDE DEF N, r
<1>4. DOMAIN recs' = 1..(N + 1)
  BY <1>2, LenProperties
<1>5. Recorded' = Recorded
  <2>1. \A i \in 1..(N + 1) : i \in 1..N \/ i = N + 1
    BY <1>1
  <2>2. ASSUME NEW i \in Recorded' PROVE i \in Recorded
    BY <1>1, <1>2, <1>3, <1>4, <2>1 DEF Recorded
  <2>3. ASSUME NEW i \in Recorded PROVE i \in Recorded'
    BY <1>1, <1>2, <1>4 DEF Recorded
  <2>. QED  BY <2>2, <2>3
<1>6. \A i \in Recorded : recs'[i] = recs[i] /\ recs'[1] = recs[1]
  BY <1>1, <1>2
<1>7. Successive' /\ RecordsAreWhole'
  BY <1>5, <1>6 DEF RecsOK, Successive, RecordsAreWhole
<1>8. Chained'
  <2>1. \A i \in DOMAIN recs' : i < Len(recs') => i \in Recorded'
    BY <1>1, <1>2, <1>4, <1>5 DEF N
  <2>2. ~cut => \A i, j \in Recorded', n \in Nodes :
          i <= j => Later(recs'[i].mf.nodes[n], recs'[j].mf.nodes[n])
    BY <1>5, <1>6 DEF RecsOK, Chained
  <2>3. ~cut => \A i \in Recorded', n \in Nodes :
          i + 1 \in Recorded' => Follows(recs'[i].mf.nodes[n], recs'[i + 1].mf.nodes[n])
    BY <1>5, <1>6 DEF RecsOK, Chained
  <2>. QED  BY <2>1, <2>2, <2>3 DEF Chained
<1>. QED  BY <1>2, <1>5, <1>7, <1>8 DEF RecsOK, N, r

LEMMA MakeFolderInv ==
  ASSUME Inv, MakeFolder
  PROVE  Inv'
<1>. USE InvParts
<1>1. /\ pc = "folder" /\ pc' = "recmf" /\ recs' = Append(recs, [mf |-> None, pr |-> None])
      /\ UNCHANGED <<def, hdir, mfile, sess, clock, cut>>
  BY DEF MakeFolder
<1>2. Len(recs) \in Nat /\ Before = Len(recs)
  BY <1>1, RecsType DEF Before
<1>3. \A i \in 1..Len(recs) : i \in Recorded
  BY <1>1, <1>2 DEF SessionOK
<1>4. /\ RecsOK' /\ recs' \in Seq(Rec) /\ Len(recs') = Len(recs) + 1 /\ Recorded' = Recorded
      /\ \A i \in 1..Len(recs) : recs'[i] = recs[i]
      /\ recs'[Len(recs) + 1] = [mf |-> None, pr |-> None]
  BY <1>1, <1>3, FolderMade
<1>5. TypeOK'
  BY <1>1, <1>4 DEF TypeOK, Rec
<1>6. Before' = Before /\ (Before # 0 => Before \in 1..Len(recs))
  BY <1>1, <1>2, <1>4 DEF Before
<1>7. SessionOK'
  <2>1. sess.last = IF Before' = 0 THEN Empty ELSE recs'[Before'].mf
    BY <1>1, <1>4, <1>6 DEF SessionOK
  <2>2. recs'[Len(recs')].mf = None /\ Before' \in Nat
    BY <1>2, <1>4, <1>6
  <2>3. \A i \in 1..Before' : i \in Recorded'
    BY <1>1, <1>4, <1>6 DEF SessionOK
  <2>4. Left(mfile, sess.mf)'
    BY <1>1 DEF SessionOK, Left
  <2>. QED  BY <1>1, <1>6, <2>1, <2>2, <2>3, <2>4 DEF SessionOK, Describes
<1>8. FileOK'
  BY <1>1, <1>2, <1>4, EmptySeq DEF FileOK
<1>. QED  BY <1>4, <1>5, <1>7, <1>8 DEF Inv, RecordsInOrder, RecsOK, Successive

\* The manifest of a session that writes to a new record fits behind the others.
LEMMA SessionFits ==
  ASSUME TypeOK, SessionOK, pc \in {"manifest", "folder", "recmf"}
  PROVE  /\ Fits(sess.mf, Before) /\ sess.mf.date = clock
         /\ Before = 0 => sess.mf.vers <= clock
<1>1. /\ sess.mf \in Manifest /\ sess.last \in Manifest /\ clock \in Nat
      /\ sess.mf.vers \in Nat /\ sess.last.vers \in Nat
  BY SessionType
<1>2. /\ \A i \in 1..Before : i \in Recorded
      /\ sess.last = (IF Before = 0 THEN Empty ELSE recs[Before].mf)
      /\ ~cut => \A n \in Nodes : Follows(sess.last.nodes[n], sess.mf.nodes[n])
      /\ sess.mf.vers # sess.last.vers /\ sess.mf.date = clock
      /\ Before = 0 => sess.mf.vers \in 1..sess.mf.date
      /\ Before # 0 => sess.mf.vers \in {sess.last.vers, sess.last.vers + 1}
  BY DEF SessionOK
<1>. QED  BY <1>1, <1>2 DEF Fits

LEMMA WriteRecManifestInv ==
  ASSUME Inv, WriteRecManifest
  PROVE  Inv'
<1>. USE InvParts
<1>1. /\ pc = "recmf" /\ pc' = "recpr"
      /\ UNCHANGED <<def, hdir, mfile, sess, clock, cut>>
  BY DEF WriteRecManifest
<1>10. PICK x \in {sess.mf, Broken} : recs' = [recs EXCEPT ![Len(recs)].mf = x]
  BY DEF WriteRecManifest, Written
<1>2. /\ Len(recs) \in Nat /\ Before = Len(recs) - 1 /\ Before \in Nat /\ recs # <<>>
      /\ Len(recs) \in 1..Len(recs) /\ recs[Len(recs)].mf = None /\ recs[Len(recs)].pr = None
  BY <1>1, RecsType DEF Before, SessionOK
<1>3. Fits(sess.mf, Len(recs) - 1) /\ sess.mf \in Manifest
  BY <1>1, <1>2, SessionFits, SessionType
<1>4. Len(recs) \notin Recorded
  BY <1>2 DEF Recorded
<1>5. /\ RecsOK' /\ recs' \in Seq(Rec) /\ Len(recs') = Len(recs)
      /\ recs'[Len(recs)].mf = x
      /\ \A i \in 1..(Len(recs) - 1) : recs'[i] = recs[i]
      /\ Recorded \subseteq Recorded'
  <2>1. Broken \notin Manifest /\ x \in {None, Broken} \cup Manifest
    BY <1>3, NoneAssumption
  <2>2. x \in Manifest => Fits(x, Len(recs) - 1)
    BY <1>3, <2>1
  <2>. QED  BY <1>1, <1>2, <1>4, <1>10, <2>1, <2>2, LastRecorded
<1>6. TypeOK'
  BY <1>1, <1>5 DEF TypeOK, Rec
<1>7. Before' = Before /\ (Before # 0 => Before \in 1..(Len(recs) - 1))
  BY <1>1, <1>2, <1>5 DEF Before
<1>8. SessionOK'
  <2>1. sess.last = IF Before' = 0 THEN Empty ELSE recs'[Before'].mf
    BY <1>1, <1>5, <1>7 DEF SessionOK
  <2>2. recs'[Len(recs')].mf \in {sess.mf, Broken} /\ Before' \in Nat
    BY <1>2, <1>5, <1>7, <1>10
  <2>3. \A i \in 1..Before' : i \in Recorded'
    BY <1>1, <1>5, <1>7 DEF SessionOK
  <2>4. Left(mfile, sess.mf)'
    BY <1>1 DEF SessionOK, Left
  <2>. QED  BY <1>1, <1>7, <2>1, <2>2, <2>3, <2>4 DEF SessionOK, Describes
<1>9. FileOK'
  BY <1>1, <1>2, <1>5, <1>6, EmptySeq DEF FileOK, TypeOK
<1>. QED  BY <1>5, <1>6, <1>8, <1>9 DEF Inv, RecordsInOrder, RecsOK, Successive

\* A session that is over leaves the manifest.json of its record.
LEMMA RecordedFile ==
  ASSUME TypeOK, SessionOK, pc = "recpr", Len(recs) \in Recorded
  PROVE  recs[Len(recs)].mf = sess.mf /\ Left(mfile, recs[Len(recs)].mf)
<1>1. recs[Len(recs)].mf \in {sess.mf, Broken} /\ Left(mfile, sess.mf)
  BY DEF SessionOK
<1>. QED  BY <1>1 DEF Recorded

LEMMA WriteRecProjectInv ==
  ASSUME Inv, WriteRecProject
  PROVE  Inv'
<1>. USE InvParts
<1>1. /\ pc = "recpr" /\ pc' = "idle"
      /\ sess' = None /\ UNCHANGED <<def, hdir, mfile, clock, cut>>
  BY DEF WriteRecProject
<1>2. PICK x \in {sess.def, Broken} : recs' = [recs EXCEPT ![Len(recs)].pr = x]
  BY DEF WriteRecProject, Written
<1>3. /\ Len(recs) \in Nat /\ recs # <<>> /\ Len(recs) \in 1..Len(recs)
      /\ Describes(sess.mf, sess.def) /\ sess.def \in Projects
  BY <1>1, RecsType, SessionType DEF Before, SessionOK
<1>4. /\ RecsOK' /\ recs' \in Seq(Rec) /\ Len(recs') = Len(recs) /\ Recorded' = Recorded
      /\ \A i \in 1..Len(recs) : recs'[i].mf = recs[i].mf
  BY <1>1, <1>2, <1>3, RecordedFile, LastProject
<1>5. TypeOK' /\ SessionOK'
  BY <1>1, <1>4 DEF TypeOK, Rec, SessionOK
<1>6. FileOK'
  BY <1>1, <1>3, <1>4, EmptySeq, RecordedFile DEF FileOK, Left
<1>. QED  BY <1>4, <1>5, <1>6 DEF Inv, RecordsInOrder, RecsOK, Successive

LEMMA FailInv ==
  ASSUME Inv, Fail
  PROVE  Inv'
<1>. USE InvParts
<1>1. /\ pc \in {"manifest", "folder", "recmf", "recpr"} /\ pc' = "idle" /\ sess' = None
      /\ UNCHANGED <<def, hdir, clock, cut>>
  BY DEF Fail, TypeOK
<1>2. SessionOK'
  BY <1>1 DEF SessionOK
<1>3. ASSUME TypeOK', RecsOK', FileOK' PROVE Inv'
  BY <1>2, <1>3 DEF Inv, RecordsInOrder, RecsOK, Successive
<1>4. /\ sess.mf \in Manifest /\ sess.mf.vers \in Nat /\ sess.last.vers \in Nat /\ clock \in Nat
  BY <1>1, SessionType
<1>5. /\ Len(recs) \in Nat /\ (recs = <<>> <=> Len(recs) = 0)
      /\ recs # <<>> => Len(recs) \in 1..Len(recs)
  BY RecsType
\* The file that the tool has written, or begun to, is of the version after the records.
<1>6. ASSUME pc \in {"manifest", "folder"}
      PROVE  /\ recs = <<>> => sess.mf.vers <= clock
             /\ recs # <<>> => sess.mf.vers = recs[Len(recs)].mf.vers + 1
  <2>1. Before = Len(recs)
    BY <1>6 DEF Before
  <2>. QED  BY <1>5, <1>6, <2>1, SessionFits DEF Fits
<1>7. CASE pc = "manifest"
  <2>1. recs' = recs /\ mfile' \in {mfile} \cup Partial(sess.mf)
    BY <1>7 DEF Fail
  <2>2. RecsOK' /\ Recorded' = Recorded
    BY <1>1, <2>1, SameRecs
  <2>3. mfile' = mfile \/ mfile' = Broken \/ (mfile' \in Manifest /\ mfile'.vers \in {0, sess.mf.vers})
    BY <1>4, <2>1, EmptyType, PartialIs DEF Empty
  <2>4. TypeOK'
    BY <1>1, <2>1, <2>3 DEF TypeOK
  <2>5. FileOK'
    <3>1. CASE mfile' = mfile
      BY <1>1, <1>7, <2>1, <2>2, <3>1 DEF FileOK, Left
    <3>2. CASE mfile' = Broken
      BY <3>2, NoneAssumption DEF FileOK
    <3>3. CASE mfile' \in Manifest /\ mfile'.vers \in {0, sess.mf.vers}
      BY <1>1, <1>4, <1>6, <1>7, <2>1, <3>3 DEF FileOK
    <3>. QED  BY <2>3, <3>1, <3>2, <3>3
  <2>. QED  BY <1>3, <2>2, <2>4, <2>5
<1>8. CASE pc = "folder"
  <2>1. recs' = recs /\ mfile' = mfile /\ (mfile \in Manifest => mfile.vers \in {0, sess.mf.vers})
    BY <1>4, <1>8, LeftIs DEF Fail, SessionOK
  <2>2. RecsOK' /\ Recorded' = Recorded
    BY <1>1, <2>1, SameRecs
  <2>3. TypeOK'
    BY <1>1, <2>1 DEF TypeOK
  <2>4. FileOK'
    BY <1>1, <1>4, <1>6, <1>8, <2>1 DEF FileOK
  <2>. QED  BY <1>3, <2>2, <2>3, <2>4
<1>9. CASE pc = "recmf"
  <2>1. /\ Before = Len(recs) - 1 /\ Before \in Nat /\ recs # <<>>
        /\ recs[Len(recs)] = [mf |-> None, pr |-> None]
        /\ Len(recs) \notin Recorded
    BY <1>5, <1>9 DEF Before, SessionOK, Recorded
  <2>2. PICK x \in {None, Broken} : recs' = [recs EXCEPT ![Len(recs)].mf = x]
    BY <1>9 DEF Fail
  <2>3. /\ RecsOK' /\ recs' \in Seq(Rec) /\ Len(recs') = Len(recs) /\ Recorded' = Recorded
    <3>1. x \notin Manifest
      BY NoneAssumption
    <3>2. recs[Len(recs)].pr = None
      BY <2>1
    <3>. QED  BY <1>1, <2>1, <2>2, <3>1, <3>2, LastRecorded
  <2>4. mfile' = mfile
    BY <1>9 DEF Fail
  <2>5. TypeOK'
    BY <1>1, <2>3, <2>4 DEF TypeOK, Rec
  <2>6. FileOK'
    BY <1>5, <2>1, <2>3, EmptySeq DEF FileOK
  <2>. QED  BY <1>3, <2>3, <2>5, <2>6
<1>10. CASE pc = "recpr"
  <2>1. recs # <<>>
    BY <1>5, <1>10 DEF Before, SessionOK
  <2>2. PICK x \in {None, Broken} : recs' = [recs EXCEPT ![Len(recs)].pr = x]
    BY <1>10 DEF Fail
  <2>3. /\ RecsOK' /\ recs' \in Seq(Rec) /\ Len(recs') = Len(recs) /\ Recorded' = Recorded
        /\ \A i \in 1..Len(recs) : recs'[i].mf = recs[i].mf
    BY <1>1, <2>1, <2>2, LastProject
  <2>4. mfile' = mfile
    BY <1>10 DEF Fail
  <2>5. TypeOK'
    BY <1>1, <2>3, <2>4 DEF TypeOK, Rec
  <2>6. FileOK'
    BY <1>1, <1>5, <1>10, <2>1, <2>3, <2>4, EmptySeq, RecordedFile DEF FileOK, Left
  <2>. QED  BY <1>3, <2>3, <2>5, <2>6
<1>. QED  BY <1>1, <1>7, <1>8, <1>9, <1>10

LEMMA EditInv ==
  ASSUME Inv, Edit
  PROVE  Inv'
<1>1. def' \in Projects /\ UNCHANGED <<hdir, mfile, recs, sess, pc, clock, cut>>
  BY DEF Edit
<1>2. Recorded' = Recorded /\ Before' = Before /\ RecsOK'
  BY <1>1, InvParts, SameRecs DEF Recorded, Before
<1>3. TypeOK' /\ SessionOK' /\ FileOK'
  BY <1>1, <1>2, InvParts DEF TypeOK, SessionOK, FileOK, Left
<1>. QED  BY <1>2, <1>3 DEF Inv, RecordsInOrder, RecsOK, Successive

LEMMA StutterInv ==
  ASSUME Inv, UNCHANGED vars
  PROVE  Inv'
<1>1. UNCHANGED <<def, hdir, mfile, recs, sess, pc, clock, cut>>
  BY DEF vars
<1>2. Recorded' = Recorded /\ Before' = Before /\ RecsOK'
  BY <1>1, InvParts, SameRecs DEF Recorded, Before
<1>3. TypeOK' /\ SessionOK' /\ FileOK'
  BY <1>1, <1>2, InvParts DEF TypeOK, SessionOK, FileOK, Left
<1>. QED  BY <1>2, <1>3 DEF Inv, RecordsInOrder, RecsOK, Successive

LEMMA InitInv ==
  ASSUME Init
  PROVE  Inv
<1>1. /\ def \in Projects /\ hdir = FALSE /\ mfile = None /\ recs = <<>> /\ sess = None
      /\ pc = "idle" /\ clock = 0 /\ cut = FALSE
  BY DEF Init
<1>2. recs \in Seq(Rec) /\ DOMAIN recs = {} /\ Len(recs) = 0
  BY <1>1
<1>3. TypeOK
  <2>1. 0 \in 0..MaxRec /\ None \in {None, Broken} \cup Manifest /\ FALSE \in BOOLEAN
    BY HistoryAssumption
  <2>. QED  BY <1>1, <1>2, <2>1 DEF TypeOK, Rec
<1>4. Recorded = {}
  BY <1>2 DEF Recorded
<1>5. RecsOK
  BY <1>2, <1>4 DEF RecsOK, Successive, RecordsAreWhole, Chained
<1>6. SessionOK /\ FileOK
  BY <1>1, NoneAssumption DEF SessionOK, FileOK
<1>. QED  BY <1>3, <1>5, <1>6, InvParts

-----------------------------------------------------------------------------
(* Theorems *)

\* No step of the developer or of the tool, whether it succeeds, fails, dies, or leaves an
\* incomplete file without noticing, leads out of the invariant: of the records only the last
\* may be incomplete, a manifest.json that can be read is what is left of the last record's or
\* ahead of the records by one, and while it has not lost versions unnoticed, the records form
\* a chain and the tool works on what follows the last (history.go:107-179, 259-311,
\* dataset.go:278-299).
THEOREM HistoryInvariant == Spec => []Inv
<1>1. Init => Inv
  BY InitInv
<1>2. Inv /\ [Next]_vars => Inv'
  <2>. SUFFICES ASSUME Inv, [Next]_vars PROVE Inv'
    OBVIOUS
  <2>1. CASE ReadHistory
    BY <2>1, ReadHistoryInv
  <2>2. CASE NoChanges
    BY <2>2, NoChangesInv
  <2>3. CASE Commit
    BY <2>3, CommitInv
  <2>4. CASE WriteManifest
    BY <2>4, WriteManifestInv
  <2>5. CASE MakeFolder
    BY <2>5, MakeFolderInv
  <2>6. CASE WriteRecManifest
    BY <2>6, WriteRecManifestInv
  <2>7. CASE WriteRecProject
    BY <2>7, WriteRecProjectInv
  <2>8. CASE Fail
    BY <2>8, FailInv
  <2>9. CASE Edit
    BY <2>9, EditInv
  <2>10. CASE UNCHANGED vars
    BY <2>10, StutterInv
  <2>. QED  BY <2>1, <2>2, <2>3, <2>4, <2>5, <2>6, <2>7, <2>8, <2>9, <2>10 DEF Next
<1>. QED  BY <1>1, <1>2, PTL DEF Spec

\* Records have successive versions, whatever was edited meanwhile and whatever failed
\* (doc.go:5, history.go:162-172).
THEOREM HistoryRecordsInOrder == Spec => []RecordsInOrder
<1>1. Inv => RecordsInOrder
  BY DEF Inv
<1>. QED  BY <1>1, HistoryInvariant, PTL

\* The manifest of a record is that of the project in it, also if the project file was
\* edited while it was recorded (history.go:296-305).
THEOREM HistoryRecordsAreWhole == Spec => []RecordsAreWhole
<1>1. Inv => RecordsAreWhole
  BY DEF Inv
<1>. QED  BY <1>1, HistoryInvariant, PTL

\* A recorded version of a node means one definition and one date for ever: nodes that are
\* not defined any more keep their version, and one that is defined again continues from it
\* (version.go:58-69, 83-116), while manifest.json has not lost versions unnoticed.
THEOREM HistoryVersionsIdentify == Spec => []VersionsIdentify
<1>1. ASSUME Inv PROVE VersionsIdentify
  <2>. USE InvParts, <1>1
  <2>1. SUFFICES ASSUME ~cut, NEW i \in Recorded, NEW j \in Recorded, NEW n \in Nodes,
                        recs[i].mf.nodes[n] # None, recs[j].mf.nodes[n] # None,
                        recs[i].mf.nodes[n].vers = recs[j].mf.nodes[n].vers
                 PROVE  recs[i].mf.nodes[n] = recs[j].mf.nodes[n]
    BY DEF VersionsIdentify
  <2>2. i \in Int /\ j \in Int
    BY RecsType
  <2>3. i <= j => Later(recs[i].mf.nodes[n], recs[j].mf.nodes[n])
    BY <2>1 DEF RecsOK, Chained
  <2>4. j <= i => Later(recs[j].mf.nodes[n], recs[i].mf.nodes[n])
    BY <2>1 DEF RecsOK, Chained
  <2>5. CASE i <= j
    BY <2>1, <2>3, <2>5 DEF Later
  <2>6. CASE j <= i
    BY <2>1, <2>4, <2>6 DEF Later
  <2>. QED  BY <2>2, <2>5, <2>6
<1>. QED  BY <1>1, HistoryInvariant, PTL

\* From one record to the next the version of a node stays if its definition does and grows
\* by one otherwise (doc.go:5-9, version.go:71-81), while manifest.json has not lost versions
\* unnoticed.
THEOREM HistoryVersionsGrowByOne == Spec => []VersionsGrowByOne
<1>1. ASSUME Inv PROVE VersionsGrowByOne
  <2>1. SUFFICES ASSUME ~cut, NEW i \in Recorded, i + 1 \in Recorded, NEW n \in Nodes,
                        recs[i].mf.nodes[n] # None
                 PROVE  /\ recs[i + 1].mf.nodes[n] # None
                        /\ recs[i + 1].mf.nodes[n].vers =
                             IF recs[i].mf.nodes[n].hash = recs[i + 1].mf.nodes[n].hash
                             THEN recs[i].mf.nodes[n].vers ELSE recs[i].mf.nodes[n].vers + 1
    BY DEF VersionsGrowByOne
  <2>2. Follows(recs[i].mf.nodes[n], recs[i + 1].mf.nodes[n])
    BY <1>1, <2>1, InvParts DEF RecsOK, Chained
  <2>. QED  BY <2>1, <2>2 DEF Follows
<1>. QED  BY <1>1, HistoryInvariant, PTL

\* A history that can be read is continued from its last record: a manifest.json that was
\* written for a recording that failed is refused or ignored (history.go:165-173), while it
\* has not lost versions unnoticed.
THEOREM HistoryContinuesLastRecord == Spec => []ContinuesLastRecord
<1>1. ASSUME Inv PROVE ContinuesLastRecord
  <2>. USE InvParts, <1>1
  <2>. QED  BY BaseIs DEF ContinuesLastRecord
<1>. QED  BY <1>1, HistoryInvariant, PTL
=============================================================================
