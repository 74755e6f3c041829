------------------------------- MODULE Policy -------------------------------
(***************************************************************************)
(* pol: a role based access policy.  Rules are built by calls that add     *)
(* roles, memberships, and allowed and denied actions; Police then answers *)
(* whether a user may execute an action.  The answer is computed by two    *)
(* recursive walks over the groups of the user, one for the allowed and    *)
(* one for the denied actions; the walks are modelled call by call, with   *)
(* the goroutine's stack as part of the state, because nothing keeps roles *)
(* from being members of each other.                                       *)
(***************************************************************************)
EXTENDS Integers, Sequences

CONSTANTS
    PolNames,       \* names of roles, groups and users
    PolActions,     \* actions that are policed
    PolCalls,       \* bound: how many calls build the rules
    PolDepth        \* bound: calls of a walk the stack has room for

ASSUME PolAssumption ==
    /\ PolNames # {} /\ PolActions # {}
    /\ PolCalls \in Nat /\ PolDepth \in Nat \ {0}

VARIABLES
    known,      \* the names Rules.roles has a role for
    role,       \* name -> role; of a name not known, the role it would get
    calls,      \* calls that built the rules so far
    walk,       \* "build", "allowed" or "denied" (the walk that runs) or "done"
    asked,      \* the arguments of Police, once it is called
    stack,      \* frames of the walk: the role, and the group that is next
    answer      \* what Police returned, or "" so far

polVars == <<known, role, calls, walk, asked, stack, answer>>

Answers == {"unknown", "not allowed", "denied", "ok", "overflow"}
Role == [def : BOOLEAN, allow : SUBSET PolActions, deny : SUBSET PolActions,
         groups : Seq(PolNames)]
Frame == [role : PolNames, next : Nat]
Request == [user : PolNames, action : PolActions]

NewRole == [def |-> FALSE, allow |-> {}, deny |-> {}, groups |-> <<>>]
Enter(n) == [role |-> n, next |-> 0]
Top == stack[Len(stack)]
Popped == SubSeq(stack, 1, Len(stack) - 1)
Listed(n) == IF walk = "allowed" THEN role[n].allow ELSE role[n].deny

PolInit ==
    /\ known = {}
    /\ role = [n \in PolNames |-> NewRole]
    /\ calls = 0
    /\ walk = "build"
    /\ asked = CHOOSE r \in Request : TRUE
    /\ stack = <<>>
    /\ answer = ""

-----------------------------------------------------------------------------
(* the rules *)

Building(names) ==
    /\ walk = "build"
    /\ calls < PolCalls
    /\ calls' = calls + 1
    /\ known' = known \cup names
    /\ UNCHANGED <<walk, asked, stack, answer>>

AddRole(n, def) ==
    /\ Building({n})
    /\ role' = [role EXCEPT ![n].def = def]

AddMember(n, group) ==
    /\ Building({n, group})
    /\ role' = [role EXCEPT ![n].groups = Append(@, group)]

Allow(n, act) ==
    /\ Building({n})
    /\ role' = [role EXCEPT ![n].allow = @ \cup {act}]

Deny(n, act) ==
    /\ Building({n})
    /\ role' = [role EXCEPT ![n].deny = @ \cup {act}]

-----------------------------------------------------------------------------
(* Police and its two walks *)

Police(user, act) ==
    /\ walk = "build"
    /\ asked' = [user |-> user, action |-> act]
    /\ \/ /\ user \notin known
          /\ walk' = "done"
          /\ answer' = "unknown"
          /\ UNCHANGED stack
       \/ /\ user \in known
          /\ walk' = IF role[user].def THEN "denied" ELSE "allowed"
          /\ stack' = <<Enter(user)>>
          /\ UNCHANGED answer
    /\ UNCHANGED <<known, role, calls>>

Answer(a) ==
    /\ answer' = a
    /\ walk' = "done"
    /\ stack' = <<>>

(* Mutant: what is allowed is not asked to be denied.                      *)
ReturnedAtOnce(found) ==
    \/ walk = "allowed" /\ found /\ Answer("ok")
    \/ walk = "allowed" /\ ~found /\ Answer("not allowed")
    \/ walk = "denied" /\ found /\ Answer("denied")
    \/ walk = "denied" /\ ~found /\ Answer("ok")

(* A walk returned to Police, with the result found.                       *)
Returned(found) ==
    \/ /\ walk = "allowed" /\ found
       /\ walk' = "denied"
       /\ stack' = <<Enter(asked.user)>>
       /\ answer' = answer
    \/ walk = "allowed" /\ ~found /\ Answer("not allowed")
    \/ walk = "denied" /\ found /\ Answer("denied")
    \/ walk = "denied" /\ ~found /\ Answer("ok")

Walking == walk \in {"allowed", "denied"}

(* A call looks at the role's own list first; true returns from all calls. *)
Scan ==
    /\ Walking /\ Top.next = 0
    /\ \/ asked.action \in Listed(Top.role) /\ Returned(TRUE)
       \/ /\ asked.action \notin Listed(Top.role)
          /\ stack' = [stack EXCEPT ![Len(stack)].next = 1]
          /\ UNCHANGED <<walk, answer>>
    /\ UNCHANGED <<known, role, calls, asked>>

(* Mutant: it calls itself for the same role.                              *)
DescendSame ==
    /\ Walking /\ Top.next \in 1..Len(role[Top.role].groups)
    /\ \/ Len(stack) >= PolDepth /\ Answer("overflow")
       \/ /\ Len(stack) < PolDepth
          /\ stack' = Append([stack EXCEPT ![Len(stack)].next = @ + 1], Enter(Top.role))
          /\ UNCHANGED <<walk, answer>>
    /\ UNCHANGED <<known, role, calls, asked>>

(* It then calls itself for the next group.                                *)
Descend ==
    /\ Walking /\ Top.next \in 1..Len(role[Top.role].groups)
    /\ \/ Len(stack) >= PolDepth /\ Answer("overflow")
       \/ /\ Len(stack) < PolDepth
          /\ stack' = Append([stack EXCEPT ![Len(stack)].next = @ + 1],
                             Enter(role[Top.role].groups[Top.next]))
          /\ UNCHANGED <<walk, answer>>
    /\ UNCHANGED <<known, role, calls, asked>>

(* It returns false after the last group.                                  *)
Return ==
    /\ Walking /\ Top.next > Len(role[Top.role].groups)
    /\ \/ Len(stack) = 1 /\ Returned(FALSE)
       \/ /\ Len(stack) > 1
          /\ stack' = Popped
          /\ UNCHANGED <<walk, answer>>
    /\ UNCHANGED <<known, role, calls, asked>>

PolBuild ==
    \E n \in PolNames :
       \/ \E def \in BOOLEAN : AddRole(n, def)
       \/ \E group \in PolNames : AddMember(n, group)
       \/ \E act \in PolActions : Allow(n, act) \/ Deny(n, act)

PolPolice == \E user \in PolNames, act \in PolActions : Police(user, act)

PolNext == PolBuild \/ PolPolice \/ Scan \/ Descend \/ Return
PolSpec == PolInit /\ [][PolNext]_polVars

-----------------------------------------------------------------------------
PolTypeOK ==
    /\ known \subseteq PolNames
    /\ role \in [PolNames -> Role]
    /\ calls \in 0..PolCalls
    /\ walk \in {"build", "allowed", "denied", "done"}
    /\ asked \in Request
    /\ stack \in Seq(Frame)
    /\ answer \in Answers \cup {""}

(* The names a name has by membership: those in every set of names that    *)
(* has it and, with a name, all its groups.                                *)
Closed(roles, S) ==
    \A n \in S : \A i \in 1..Len(roles[n].groups) : roles[n].groups[i] \in S
Has(roles, n) ==
    {m \in PolNames : \A S \in SUBSET PolNames : n \in S /\ Closed(roles, S) => m \in S}

Allowed(n, act) == \E m \in Has(role, n) : act \in role[m].allow
Denied(n, act)  == \E m \in Has(role, n) : act \in role[m].deny
Cyclic(n) ==
    \E m \in Has(role, n) :
       \E i \in 1..Len(role[m].groups) : m \in Has(role, role[m].groups[i])

(* Every answer is the one the memberships call for: a user whose role is  *)
(* not open by default is allowed what it or one of its groups, directly   *)
(* or not, is allowed, and nobody is allowed what one of its groups is     *)
(* denied.                                                                 *)
AnswersRight ==
    LET u == asked.user  act == asked.action
        may == role[u].def \/ Allowed(u, act)
    IN /\ answer = "unknown" => u \notin known
       /\ answer = "not allowed" => u \in known /\ ~may
       /\ answer = "denied" => u \in known /\ may /\ Denied(u, act)
       /\ answer = "ok" => u \in known /\ may /\ ~Denied(u, act)

(* With room for a call per name the stack is only exhausted by roles that *)
(* are members of themselves.                                              *)
OverflowsOnlyByCycles ==
    answer = "overflow" => Cyclic(asked.user)
=============================================================================
