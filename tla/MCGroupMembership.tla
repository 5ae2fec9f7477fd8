------------------------- MODULE MCGroupMembership -------------------------
(***************************************************************************)
(* Instances of GroupMembership for TLC.                                    *)
(***************************************************************************)
EXTENDS GroupMembership

CONSTANT Busy      \* the one member whose application does more than poll

AllCalls == {"commit", "commit_async", "unsubscribe", "timeout"}
BusyCalls == [m \in Member |-> IF m = Busy THEN AllCalls ELSE {}]
NoCalls == [m \in Member |-> {}]
=============================================================================
