------------------------- MODULE MCNetworkClient -------------------------
(* Instances of NetworkClient for TLC. *)
EXTENDS NetworkClient
=============================================================================
