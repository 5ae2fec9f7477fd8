------------------------------ MODULE MCFetcher ------------------------------
(***************************************************************************)
(* Instances of Fetcher for TLC: brokers are interchangeable.               *)
(***************************************************************************)
EXTENDS Fetcher, TLC

NodeSymmetry == Permutations(Node)
=============================================================================
