----------------------------- MODULE RequestMap -----------------------------
(***************************************************************************)
(* hub/reqmap.go: a service that forwards requests to another server notes *)
(* each under a token of its own, and the response with that token goes to *)
(* the connection that made the request, with the request's token.         *)
(*                                                                         *)
(* Note and Response are called by one goroutine (nothing is locked), so a *)
(* Response that waits for room in a channel keeps every other call from   *)
(* starting; the owners of the connections take messages at any time.      *)
(* Responses come from the other server: twice, out of order, with tokens  *)
(* that were never noted.                                                  *)
(***************************************************************************)
EXTENDS Integers, Sequences, FiniteSets

CONSTANTS
    Requesters,     \* the connections requests come from
    Tokens,         \* the tokens they use; two requests may have the same
    ChanCap,        \* capacity of a connection's channel
    MaxNotes,       \* bound: requests that are noted
    MaxResponses    \* bound: responses that arrive

ASSUME RequestMapAssumption ==
    ChanCap \in Nat \ {0} /\ MaxNotes \in Nat /\ MaxResponses \in Nat

VARIABLES
    last,       \* RequestMap.last
    m,          \* RequestMap.m: id -> the connection and token of its request
    sending,    \* the id whose response is sent, 0 if no Response runs
    sent,       \* TRUE once that response is in the channel
    channel,    \* connection -> the responses in its channel
    received,   \* connection -> the responses its owner took
    noted,      \* history: every request, by id
    arrived     \* how many responses arrived

reqVars == <<last, m, sending, sent, channel, received, noted, arrived>>

Ids == 1..MaxNotes
Junk == MaxNotes + 1    \* a token that is empty or no number
Req == [conn : Requesters, tok : Tokens]
Reply(id, tok) == [id |-> id, tok |-> tok]

ReqInit ==
    /\ last = 0
    /\ m = <<>>
    /\ sending = 0 /\ sent = FALSE
    /\ channel = [c \in Requesters |-> <<>>]
    /\ received = [c \in Requesters |-> <<>>]
    /\ noted = <<>>
    /\ arrived = 0

(* Mutant: ids are counted by the requests that wait.                      *)
NoteReuses(c, tok) ==
    /\ sending = 0 /\ last < MaxNotes
    /\ last' = Cardinality(DOMAIN m) + 1
    /\ m' = [id \in DOMAIN m \cup {last'} |->
                IF id = last' THEN [conn |-> c, tok |-> tok] ELSE m[id]]
    /\ noted' = Append(noted, [conn |-> c, tok |-> tok])
    /\ UNCHANGED <<sending, sent, channel, received, arrived>>

Note(c, tok) ==
    /\ sending = 0 /\ last < MaxNotes
    /\ last' = last + 1
    /\ m' = [id \in DOMAIN m \cup {last'} |->
                IF id = last' THEN [conn |-> c, tok |-> tok] ELSE m[id]]
    /\ noted' = Append(noted, [conn |-> c, tok |-> tok])
    /\ UNCHANGED <<sending, sent, channel, received, arrived>>

(* Response up to the send: a token that is no number, or the number of no *)
(* request that waits, is an error.                                        *)
Response(id) ==
    /\ sending = 0 /\ arrived < MaxResponses
    /\ arrived' = arrived + 1
    /\ sending' = IF id \in DOMAIN m THEN id ELSE 0
    /\ UNCHANGED <<last, m, sent, channel, received, noted>>

Send ==
    /\ sending # 0 /\ ~sent
    /\ Len(channel[m[sending].conn]) < ChanCap
    /\ channel' = [channel EXCEPT ![m[sending].conn] = Append(@, Reply(sending, m[sending].tok))]
    /\ sent' = TRUE
    /\ UNCHANGED <<last, m, sending, received, noted, arrived>>

(* Mutant: the request stays in the map.                                   *)
DeleteNot ==
    /\ sending # 0 /\ sent
    /\ sending' = 0 /\ sent' = FALSE
    /\ UNCHANGED <<last, m, channel, received, noted, arrived>>

Delete ==
    /\ sending # 0 /\ sent
    /\ m' = [id \in DOMAIN m \ {sending} |-> m[id]]
    /\ sending' = 0 /\ sent' = FALSE
    /\ UNCHANGED <<last, channel, received, noted, arrived>>

Take(c) ==
    /\ channel[c] # <<>>
    /\ received' = [received EXCEPT ![c] = Append(@, Head(channel[c]))]
    /\ channel' = [channel EXCEPT ![c] = Tail(@)]
    /\ UNCHANGED <<last, m, sending, sent, noted, arrived>>

ReqNext ==
    \/ \E c \in Requesters, tok \in Tokens : Note(c, tok)
    \/ \E id \in Ids \cup {Junk} : Response(id)
    \/ Send
    \/ Delete
    \/ \E c \in Requesters : Take(c)

ReqSpec == ReqInit /\ [][ReqNext]_reqVars

-----------------------------------------------------------------------------
ReqTypeOK ==
    /\ last \in 0..MaxNotes
    /\ DOMAIN m \subseteq Ids /\ \A id \in DOMAIN m : m[id] \in Req
    /\ sending \in 0..MaxNotes /\ sent \in BOOLEAN
    /\ channel \in [Requesters -> Seq([id : Ids, tok : Tokens])]
    /\ received \in [Requesters -> Seq([id : Ids, tok : Tokens])]
    /\ noted \in Seq(Req)
    /\ arrived \in 0..MaxResponses

Delivered(c) == received[c] \o channel[c]

(* A response reaches the connection whose request it answers, with the    *)
(* token that connection gave the request, and however often responses     *)
(* arrive, a request is answered once (reqmap.go:23).                      *)
AnswersOwn ==
    \A c \in Requesters : \A i \in 1..Len(Delivered(c)) :
       LET r == Delivered(c)[i]
       IN /\ r.id \in 1..Len(noted)
          /\ noted[r.id] = [conn |-> c, tok |-> r.tok]
          /\ \A j \in 1..Len(Delivered(c)) : i # j => Delivered(c)[j].id # r.id

(* A request waits in the map from its note to its response, no longer:    *)
(* the ids in the map are those without a delivered response, but for the  *)
(* one whose response is being deleted.                                    *)
AnsweredIds == UNION {{Delivered(c)[i].id : i \in 1..Len(Delivered(c))} : c \in Requesters}
WaitsForAnswer ==
    DOMAIN m = (1..Len(noted) \ AnsweredIds) \cup (IF sent THEN {sending} ELSE {})
=============================================================================
