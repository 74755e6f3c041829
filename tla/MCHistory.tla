----------------------------- MODULE MCHistory -----------------------------
(* Instances of History for TLC. *)
EXTENDS History, TLC

CONSTANTS m1, m2, s1, s2, p1, p2, d1, d2

\* Two models in schemas of their own.
MCSchemaOf  == m1 :> s1 @@ m2 :> s2
MCNodeOrder == <<s1, m1, s2, m2>>

\* The first model may change, both may come and go, and the project may be renamed: every
\* edit does some of this.
P(p, x, y) == [name |-> p, models |-> m1 :> x @@ m2 :> y]
MCProjects == {P(p1, d1, d1), P(p1, d2, NoDef), P(p2, NoDef, d1)}
=============================================================================
