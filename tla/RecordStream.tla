----------------------------- MODULE RecordStream -----------------------------
(***************************************************************************)
(* What iterating over a KafkaConsumer promises for one partition, and what *)
(* Forwarder takes it to be: a cursor that the caller sets, that hands out  *)
(* the records one after the other, and that leaves this order only when    *)
(* the broker no longer has, or does not yet have, the record it is at.     *)
(* When several brokers may answer for one cursor (Repeats) it may go back   *)
(* to what it has handed out, and then leaves nothing out from there.       *)
(***************************************************************************)
EXTENDS Integers

CONSTANTS
  Unset,            \* no cursor: it is being looked up
  Repeats           \* may it hand out a record again?

VARIABLES
  first, end,       \* the partition holds the offsets first .. end - 1
  cursor,           \* the offset to be handed out next
  out,              \* the offset handed out last
  asked             \* how often the caller moved the cursor

vars == <<first, end, cursor, out, asked>>

Init == /\ first = 0 /\ end = 0
        /\ cursor = Unset /\ out = Unset
        /\ asked = 0

\* The partition grows at its end and expires at its start.
Partition ==
  /\ first' \in Nat /\ end' \in Nat
  /\ first <= first' /\ end <= end' /\ first' <= end'
  /\ UNCHANGED <<cursor, out, asked>>

\* The caller seeks, to an offset or to one that has to be looked up.
Seek ==
  /\ asked' = asked + 1
  /\ cursor' \in Nat \cup {Unset}
  /\ UNCHANGED <<first, end, out>>

Read ==
  /\ cursor \in Nat /\ cursor < end
  /\ out' = cursor /\ cursor' = cursor + 1
  /\ UNCHANGED <<first, end, asked>>

\* A record below the cursor is handed out, and the cursor follows it.
Repeat ==
  /\ Repeats /\ cursor \in Nat
  /\ out' \in 0 .. cursor - 1 /\ cursor' = out' + 1
  /\ UNCHANGED <<first, end, asked>>

\* The broker rejects the cursor: the record there has expired, or nothing
\* has been read since the caller moved it to where there is none yet.
Lose ==
  /\ cursor \in Nat
  /\ cursor < first \/ cursor # out + 1
  /\ cursor' = Unset
  /\ UNCHANGED <<first, end, out, asked>>

Locate ==
  /\ cursor = Unset
  /\ cursor' \in 0 .. end
  /\ UNCHANGED <<first, end, out, asked>>

Next == Partition \/ Seek \/ Read \/ Repeat \/ Lose \/ Locate
Spec == Init /\ [][Next]_vars
=============================================================================
