--------------------------- MODULE MCSubsSlices ---------------------------
(* Instances of SubsSlices for TLC. *)
EXTENDS SubsSlices

CONSTANTS c1, c2, a, b, k1, k2

W(t, r, ids) == [top |-> t, rev |-> r, ids |-> ids]
A(t, k) == [top |-> t, key |-> k]

\* A topic from a later revision on, and two topics, one of which is named twice.
MCWatchLists == {<<W(a, 3, {})>>, <<W(b, 0, {}), W(a, 0, {}), W(b, 0, {k1})>>}

\* Two events in one transaction, and one event.
MCActLists == {<<A(a, k1), A(b, k2)>>, <<A(b, k1)>>}

\* Connections are alike.
ConnSymmetry == Permutations(Conns)
=============================================================================
