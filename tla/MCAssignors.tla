---------------------------- MODULE MCAssignors ----------------------------
(* Instances of Assignors for TLC. *)
EXTENDS Assignors
=============================================================================
