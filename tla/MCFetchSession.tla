--------------------------- MODULE MCFetchSession ---------------------------
(***************************************************************************)
(* Instances of FetchSession for TLC.                                       *)
(***************************************************************************)
EXTENDS FetchSession
=============================================================================
