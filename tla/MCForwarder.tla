----------------------------- MODULE MCForwarder -----------------------------
(***************************************************************************)
(* Instances of Forwarder for TLC.  Slots are interchangeable, so runs that *)
(* check no liveness reduce by their permutations.                          *)
(***************************************************************************)
EXTENDS Forwarder, TLC

SlotSymmetry == Permutations(Slot)
=============================================================================
