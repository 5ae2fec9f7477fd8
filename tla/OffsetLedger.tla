----------------------------- MODULE OffsetLedger -----------------------------
(***************************************************************************)
(* What the forwarder promises about its stored offset, and no more.  Some  *)
(* offsets are accounted for; the stored offset may be set, back or forth,  *)
(* to any offset up to which every offset from 1 on is accounted for.       *)
(* This is delivery at least once: a stored offset is a promise about all   *)
(* that is below it.                                                        *)
(***************************************************************************)
EXTENDS Integers

CONSTANTS MaxOffset

VARIABLES
  covered,        \* offsets accounted for, which they stay
  committed       \* the stored offset; -1 before the first

Offset == 0 .. MaxOffset - 1

Init == covered = {} /\ committed = -1

\* Offsets are posted, found unfit for posting, or given up.
Cover(S) ==
  /\ covered' = covered \cup S
  /\ UNCHANGED committed

Commit(n) ==
  /\ 1 .. n \subseteq covered
  /\ committed' = n
  /\ UNCHANGED covered

Next ==
  \/ \E S \in SUBSET Offset : Cover(S)
  \/ \E n \in Offset : Commit(n)

Spec == Init /\ [][Next]_<<covered, committed>>
=============================================================================
