----------------------------- MODULE MCHubConns -----------------------------
(* Instances of HubConns for TLC; the configurations give all values. *)
EXTENDS HubConns
=============================================================================
