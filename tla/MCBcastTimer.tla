--------------------------- MODULE MCBcastTimer ---------------------------
(* Instances of BcastTimer for TLC. *)
EXTENDS BcastTimer
=============================================================================
