---------------------------- MODULE ForwarderProofs ----------------------------
(***************************************************************************)
(* For every number of instances, every limit and every bound: the stored   *)
(* offset never passes an unaccounted record, overlapping invocations never *)
(* move it below the low water mark, the forwarder implements the offset    *)
(* ledger, executions that follow each other deliver nothing twice, and     *)
(* what the stored offset has passed can be read back. The last part is     *)
(* about Conversion, which is of the same execution and shares no variable. *)
(***************************************************************************)
EXTENDS Forwarder, Conversion, TLAPS

Holding == {"saveOriginal", "saveDatadog", "send", "updateOffset"}
Reading == Holding \cup {"readEnd", "consume"}

\* What is known of an invocation between reading the offset and storing it.
Started(i) ==
  run[i].pc \in Reading => 1 .. run[i].prev \subseteq Covered

\* The batch has offsets of the log, the last of them not below `prev`, and
\* leaves out only what was jumped over.
BatchSound(i) ==
  /\ \A o \in Batch(i) : o < LogEnd
  /\ run[i].prev + 1 .. NextOffset(i) - 1 \subseteq Batch(i) \cup lost
  /\ run[i].prev < NextOffset(i)

\* The consumer is in the log or waits for a reset, and what lies between the
\* batch and its position was jumped over.
PositionSound(i) ==
  run[i].pc = "consume" =>
    /\ Buffered(i) => run[i].avail <= LogEnd
    /\ run[i].pos # Awaiting =>
         /\ run[i].prev <= run[i].pos
         /\ NextOffset(i) .. run[i].pos - 1 \subseteq lost

\* Before the offset is read there is nothing in `prev` and `messages`.
Fresh(i) ==
  run[i].pc \in {"idle", "readOffset", "initOffset"} =>
    run[i].prev = 0 /\ run[i].msgs = <<>>

\* The batch is posted before its offset is stored.
Posted(i) == run[i].pc = "updateOffset" => Batch(i) \subseteq Covered

NonEmpty(i) == run[i].pc \in Holding => run[i].msgs # <<>>

PrevInLog(i) == run[i].prev = 0 \/ run[i].prev < LogEnd
SavedInLog   == saved <= 0 \/ saved < LogEnd

LocalInv(i) ==
  /\ Fresh(i)
  /\ PrevInLog(i)
  /\ Started(i)
  /\ BatchSound(i)
  /\ PositionSound(i)
  /\ Posted(i)

TypeInv == TypeOK /\ \A i \in Slot : NonEmpty(i)

IInv ==
  /\ TypeInv
  /\ SavedInLog
  /\ CommittedIsCovered
  /\ \A i \in Slot : LocalInv(i)

-----------------------------------------------------------------------------
(* Sequences of offsets                                                     *)

LEMMA AppendFacts ==
  ASSUME NEW S, NEW s \in Seq(S), NEW e \in S
  PROVE  /\ Append(s, e) \in Seq(S)
         /\ Append(s, e) # <<>>
         /\ Last(Append(s, e)) = e
         /\ Range(Append(s, e)) = Range(s) \cup {e}
<1>1. /\ Append(s, e) \in Seq(S)
      /\ Len(Append(s, e)) = Len(s) + 1
      /\ Append(s, e)[Len(s) + 1] = e
      /\ \A k \in 1 .. Len(s) : Append(s, e)[k] = s[k]
  OBVIOUS
<1>2. Len(s) \in Nat /\ DOMAIN s = 1 .. Len(s)
      /\ DOMAIN Append(s, e) = 1 .. Len(s) + 1
  OBVIOUS
<1>3. Range(Append(s, e)) = Range(s) \cup {e}
  BY <1>1, <1>2 DEF Range
<1>4. Append(s, e) # <<>>
  <2>1. Len(<<>>) = 0 /\ Len(Append(s, e)) # 0
    BY <1>1, <1>2
  <2> QED
    BY <2>1
<1>5. Last(Append(s, e)) = e
  BY <1>1 DEF Last
<1> QED
  BY <1>1, <1>3, <1>4, <1>5

LEMMA LastFacts ==
  ASSUME NEW S, NEW s \in Seq(S), s # <<>>
  PROVE  Last(s) \in S /\ Last(s) \in Range(s)
<1>1. Len(s) \in 1 .. Len(s) /\ DOMAIN s = 1 .. Len(s)
  OBVIOUS
<1> QED
  BY <1>1 DEF Last, Range

LEMMA RangeFacts ==
  ASSUME NEW S, NEW s \in Seq(S)
  PROVE  Range(s) \subseteq S
BY DEF Range

-----------------------------------------------------------------------------
(* Types                                                                    *)

LEMMA IdleType == Idle \in Invocation
BY BoundAssumption DEF Idle, Invocation, Stage, Offset

\* A step that only changes the invocation of one instance keeps the types
\* of all of them.
LEMMA RunTyped ==
  ASSUME TypeInv, NEW i \in Slot, NEW r \in Invocation,
         r.pc \in Holding => r.msgs # <<>>,
         run' = [run EXCEPT ![i] = r]
  PROVE  run' \in [Slot -> Invocation] /\ (\A j \in Slot : NonEmpty(j))'
<1>1. run \in [Slot -> Invocation]
  BY DEF TypeInv, TypeOK
<1>2. \A j \in Slot : run'[j] = IF j = i THEN r ELSE run[j]
  BY <1>1
<1>3. run' \in [Slot -> Invocation]
  BY <1>1
<1>4. \A j \in Slot : (run'[j].pc \in Holding => run'[j].msgs # <<>>)
  BY <1>2 DEF TypeInv, NonEmpty
<1> QED
  BY <1>3, <1>4 DEF NonEmpty

\* The next stage of the same invocation.
LEMMA GotoTyped ==
  ASSUME TypeInv, NEW i \in Slot, NEW stage \in Stage, Goto(i, stage),
         stage \in Holding => run[i].msgs # <<>>
  PROVE  run' \in [Slot -> Invocation] /\ (\A j \in Slot : NonEmpty(j))'
<1> DEFINE r == [run[i] EXCEPT !.pc = stage]
<1>1. run[i] \in Invocation
  BY DEF TypeInv, TypeOK
<1>2. r \in Invocation /\ r.pc = stage /\ r.msgs = run[i].msgs
  BY <1>1 DEF Invocation
<1>3. run' = [run EXCEPT ![i] = r]
  BY DEF Goto
<1> HIDE DEF r
<1> QED
  BY <1>2, <1>3, RunTyped

\* The end of an invocation.
LEMMA ReturnTyped ==
  ASSUME TypeInv, NEW i \in Slot, Return(i)
  PROVE  run' \in [Slot -> Invocation] /\ (\A j \in Slot : NonEmpty(j))'
<1>1. Idle \in Invocation /\ Idle.pc \notin Holding
  BY IdleType DEF Idle, Holding
<1> QED
  BY <1>1, RunTyped DEF Return

LEMMA PutAnsweredTyped ==
  ASSUME TypeInv, NEW i \in Slot, NEW stage \in Stage, PutAnswered(i, stage),
         stage \in Holding => run[i].msgs # <<>>
  PROVE  /\ run' \in [Slot -> Invocation] /\ (\A j \in Slot : NonEmpty(j))'
         /\ faults' \in 0 .. MaxFaults
<1>1. faults \in 0 .. MaxFaults /\ MaxFaults \in Nat
  BY BoundAssumption DEF TypeInv, TypeOK
<1>2. faults' \in 0 .. MaxFaults
  BY <1>1 DEF PutAnswered, SpendFault
<1> QED
  BY <1>2, GotoTyped, ReturnTyped DEF PutAnswered

LEMMA ConsumedTyped ==
  ASSUME TypeInv, NEW i \in Slot, NEW msgs \in Seq(Offset), msgs # <<>>,
         Consumed(i, msgs)
  PROVE  run' \in [Slot -> Invocation] /\ (\A j \in Slot : NonEmpty(j))'
<1> DEFINE r == [run[i] EXCEPT !.pc = "saveOriginal", !.msgs = msgs,
                               !.leo = 0, !.pos = 0, !.avail = 0]
<1>1. run[i] \in Invocation
  BY DEF TypeInv, TypeOK
<1>2. /\ "saveOriginal" \in Stage
      /\ 0 \in 0 .. MaxOffset /\ 0 \in -1 .. MaxOffset
  BY BoundAssumption DEF Stage
<1>3. r \in Invocation /\ r.msgs = msgs
  BY <1>1, <1>2 DEF Invocation
<1>4. run' = [run EXCEPT ![i] = r]
  BY DEF Consumed
<1> HIDE DEF r
<1> QED
  BY <1>3, <1>4, RunTyped

\* What is typed and only read by the steps of an invocation.
LEMMA LocalTypes ==
  ASSUME TypeInv, NEW i \in Slot
  PROVE  /\ run[i] \in Invocation
         /\ run[i].pc \in Stage
         /\ run[i].id \in 0 .. MaxId
         /\ run[i].prev \in Offset
         /\ run[i].leo \in 0 .. MaxOffset
         /\ run[i].msgs \in Seq(Offset)
         /\ run[i].pos \in -1 .. MaxOffset
         /\ run[i].avail \in -1 .. MaxOffset
         /\ LogEnd \in 0 .. MaxOffset
         /\ Batch(i) \subseteq Offset
         /\ NextOffset(i) \in 1 .. MaxOffset
<1>1. run[i] \in Invocation
  BY DEF TypeInv, TypeOK
<1>2. /\ run[i].pc \in Stage /\ run[i].id \in 0 .. MaxId
      /\ run[i].prev \in Offset /\ run[i].leo \in 0 .. MaxOffset
      /\ run[i].msgs \in Seq(Offset) /\ run[i].pos \in -1 .. MaxOffset
      /\ run[i].avail \in -1 .. MaxOffset
  BY <1>1 DEF Invocation
<1>3. LogEnd \in 0 .. MaxOffset
  BY BoundAssumption DEF TypeInv, TypeOK, LogEnd
<1>4. Batch(i) \subseteq Offset
  BY <1>2, RangeFacts DEF Batch
<1>5. run[i].msgs # <<>> => Last(run[i].msgs) \in Offset
  BY <1>2, LastFacts
<1>6. NextOffset(i) \in 1 .. MaxOffset
  <2>1. \A n \in Offset : n + 1 \in 1 .. MaxOffset
    BY BoundAssumption DEF Offset
  <2>2. CASE run[i].msgs = <<>>
    BY <1>2, <2>1, <2>2 DEF NextOffset
  <2>3. CASE run[i].msgs # <<>>
    BY <1>5, <2>1, <2>3 DEF NextOffset
  <2> QED  BY <2>2, <2>3
<1> QED
  BY <1>1, <1>2, <1>3, <1>4, <1>6

LEMMA TypeStep == TypeInv /\ [Next]_vars => TypeInv'
<1> SUFFICES ASSUME TypeInv, [Next]_vars
             PROVE  TypeInv'
  OBVIOUS
<1> USE DEF TypeInv
<1>ty. TypeOK
  OBVIOUS
<1>b. MaxFaults \in Nat /\ MaxOffset \in Nat \ {0} /\ MaxId \in Nat \ {0}
      /\ MaxDelivery \in Nat \ {0}
  BY BoundAssumption
<1>1. ASSUME NEW k \in Kind, Produce(k)
      PROVE  TypeInv'
  <2>1. log' \in Seq(Kind) /\ Len(log') <= MaxOffset
    BY <1>1, <1>ty, <1>b DEF Produce, TypeOK, LogEnd
  <2> QED
    BY <1>1, <1>ty, <2>1 DEF Produce, TypeOK, NonEmpty, starts, audit, sink
<1>2. ASSUME NEW n \in 1 .. MaxOffset, Expire(n)
      PROVE  TypeInv'
  BY <1>2, <1>ty, <1>b DEF Expire, TypeOK, NonEmpty, starts, audit, sink
<1>3. ASSUME NEW i \in Slot, Start(i)
      PROVE  TypeInv'
  <2>1. PICK t \in 1 .. MaxId :
          /\ clock' = t
          /\ together' = (together \/ \E j \in Slot : ~At(j, "idle"))
          /\ run' = [run EXCEPT ![i].pc = "readOffset", ![i].id = t]
    BY <1>3 DEF Start
  <2> DEFINE r == [run[i] EXCEPT !.pc = "readOffset", !.id = t]
  <2>2. t \in 0 .. MaxId
    BY <1>b
  <2>3. r \in Invocation /\ r.pc \notin Holding
    BY <2>2, LocalTypes DEF Invocation, Stage, Holding
  <2>4. run' = [run EXCEPT ![i] = r]
    BY <2>1
  <2> HIDE DEF r
  <2>5. run' \in [Slot -> Invocation] /\ (\A j \in Slot : NonEmpty(j))'
    BY <2>3, <2>4, RunTyped
  <2>6. together' \in BOOLEAN
    BY <2>1, Zenon
  <2> QED
    BY <1>3, <1>ty, <2>1, <2>2, <2>5, <2>6 DEF Start, TypeOK, topic, starts, audit, sink
<1>4. ASSUME NEW i \in Slot, ReadOffset(i)
      PROVE  TypeInv'
  <2>1. run' \in [Slot -> Invocation] /\ (\A j \in Slot : NonEmpty(j))'
    <3>1. CASE saved = Absent
      <4>1. "initOffset" \in Stage /\ "initOffset" \notin Holding
        BY DEF Stage, Holding
      <4> QED
        BY <1>4, <3>1, <4>1, GotoTyped DEF ReadOffset
    <3>2. CASE saved # Absent
      <4> DEFINE r == [run[i] EXCEPT !.pc = "readEnd", !.prev = saved]
      <4>1. saved \in Offset
        BY <1>ty, <3>2 DEF TypeOK
      <4>2. r \in Invocation /\ r.pc \notin Holding
        BY <4>1, LocalTypes DEF Invocation, Stage, Holding
      <4>3. run' = [run EXCEPT ![i] = r]
        BY <1>4, <3>2 DEF ReadOffset
      <4> HIDE DEF r
      <4> QED
        BY <4>2, <4>3, RunTyped
    <3> QED
      BY <3>1, <3>2
  <2> QED
    BY <1>4, <1>ty, <2>1 DEF ReadOffset, TypeOK, topic, starts, audit, sink
<1>5. ASSUME NEW i \in Slot, InitOffset(i)
      PROVE  TypeInv'
  <2>1. "readEnd" \in Stage /\ "readEnd" \notin Holding
    BY DEF Stage, Holding
  <2>2. /\ run' \in [Slot -> Invocation] /\ (\A j \in Slot : NonEmpty(j))'
        /\ faults' \in 0 .. MaxFaults
    BY <1>5, <2>1, PutAnsweredTyped DEF InitOffset
  <2>3. saved' \in Offset
    BY <1>5, <1>b DEF InitOffset, Offset
  <2> QED
    BY <1>5, <1>ty, <2>2, <2>3 DEF InitOffset, TypeOK, topic, starts, audit, sink
<1>6. ASSUME NEW i \in Slot, ReadEnd(i)
      PROVE  TypeInv'
  <2> DEFINE r == [run[i] EXCEPT !.pc = "consume", !.leo = LogEnd,
                     !.pos = run[i].prev + 1, !.avail = run[i].prev + 1]
  <2>1. /\ run[i].prev + 1 \in -1 .. MaxOffset
        /\ "consume" \in Stage /\ "consume" \notin Holding
    BY <1>b, LocalTypes DEF Offset, Stage, Holding
  <2>2. r \in Invocation /\ r.pc \notin Holding
    BY <2>1, LocalTypes DEF Invocation
  <2>3. run' = [run EXCEPT ![i] = r]
    BY <1>6 DEF ReadEnd, ConsumeFrom
  <2> HIDE DEF r
  <2>4. run' \in [Slot -> Invocation] /\ (\A j \in Slot : NonEmpty(j))'
    BY <2>2, <2>3, RunTyped
  <2> QED
    BY <1>6, <1>ty, <2>4 DEF ReadEnd, ConsumeFrom, TypeOK, topic, starts, audit, sink
<1>7. ASSUME NEW i \in Slot, Fetch(i)
      PROVE  TypeInv'
  <2>1. PICK e \in run[i].pos + 1 .. LogEnd :
          run' = [run EXCEPT ![i].avail = e]
    BY <1>7 DEF Fetch
  <2> DEFINE r == [run[i] EXCEPT !.avail = e]
  <2>2. e \in -1 .. MaxOffset
    BY <1>b, <2>1, LocalTypes
  <2>3. r \in Invocation /\ r.pc \notin Holding
    BY <1>7, <2>2, LocalTypes DEF Invocation, Fetch, At, Holding
  <2>4. run' = [run EXCEPT ![i] = r]
    BY <2>1
  <2> HIDE DEF r
  <2>5. run' \in [Slot -> Invocation] /\ (\A j \in Slot : NonEmpty(j))'
    BY <2>3, <2>4, RunTyped
  <2> QED
    BY <1>7, <1>ty, <2>5 DEF Fetch, TypeOK, topic, starts, audit, sink
<1>8. ASSUME NEW i \in Slot, DecodeRaises(i)
      PROVE  TypeInv'
  <2>1. run' \in [Slot -> Invocation] /\ (\A j \in Slot : NonEmpty(j))'
    BY <1>8, ReturnTyped DEF DecodeRaises
  <2> QED
    BY <1>8, <1>ty, <2>1 DEF DecodeRaises, TypeOK, topic, starts, audit, sink
<1>9. ASSUME NEW i \in Slot, OutOfRange(i)
      PROVE  TypeInv'
  <2> DEFINE r == [run[i] EXCEPT !.pos = Awaiting, !.avail = Awaiting]
  <2>1. Awaiting \in -1 .. MaxOffset
    BY <1>b DEF Awaiting
  <2>2. r \in Invocation /\ r.pc \notin Holding
    BY <1>9, <2>1, LocalTypes DEF Invocation, OutOfRange, At, Holding
  <2>3. run' = [run EXCEPT ![i] = r]
    BY <1>9 DEF OutOfRange
  <2> HIDE DEF r
  <2>4. run' \in [Slot -> Invocation] /\ (\A j \in Slot : NonEmpty(j))'
    BY <2>2, <2>3, RunTyped
  <2> QED
    BY <1>9, <1>ty, <2>4 DEF OutOfRange, TypeOK, topic, starts, audit, sink
<1>10. ASSUME NEW i \in Slot, ResetPosition(i)
       PROVE  TypeInv'
  <2> DEFINE r == [run[i] EXCEPT !.pos = LogEnd, !.avail = LogEnd]
  <2>1. LogEnd \in -1 .. MaxOffset
    BY <1>b, LocalTypes
  <2>2. r \in Invocation /\ r.pc \notin Holding
    BY <1>10, <2>1, LocalTypes DEF Invocation, ResetPosition, At, Holding
  <2>3. run' = [run EXCEPT ![i] = r]
    BY <1>10 DEF ResetPosition
  <2> HIDE DEF r
  <2>4. run' \in [Slot -> Invocation] /\ (\A j \in Slot : NonEmpty(j))'
    BY <2>2, <2>3, RunTyped
  <2>5. NextOffset(i) .. LogEnd - 1 \subseteq Offset
    BY <1>b, LocalTypes DEF Offset
  <2>6. lost' \in SUBSET Offset
    BY <1>10, <1>ty, <2>5 DEF ResetPosition, TypeOK
  <2> QED
    BY <1>10, <1>ty, <2>4, <2>6 DEF ResetPosition, TypeOK, topic, starts, audit, sink
<1>11. ASSUME NEW i \in Slot, Yield(i)
       PROVE  TypeInv'
  <2> DEFINE msgs == Append(run[i].msgs, run[i].pos)
             r == [run[i] EXCEPT !.msgs = msgs, !.pos = run[i].pos + 1]
  <2>1. run[i].pos \in Offset /\ run[i].pos + 1 \in -1 .. MaxOffset
    <3>1. run[i].pos \in -1 .. MaxOffset /\ run[i].avail \in -1 .. MaxOffset
      BY LocalTypes
    <3>2. run[i].pos # -1 /\ run[i].pos < run[i].avail
      BY <1>11 DEF Yield, Buffered, Awaiting
    <3> QED
      BY <1>b, <3>1, <3>2 DEF Offset
  <2>2. msgs \in Seq(Offset) /\ msgs # <<>>
    BY <2>1, LocalTypes, AppendFacts, SMTT(30)
  <2>3. run' \in [Slot -> Invocation] /\ (\A j \in Slot : NonEmpty(j))'
    <3>1. CASE Consumed(i, msgs)
      <4> HIDE DEF msgs
      <4> QED
        BY <2>2, <3>1, ConsumedTyped
    <3>2. CASE run' = [run EXCEPT ![i].msgs = msgs, ![i].pos = run[i].pos + 1]
      <4> HIDE DEF msgs
      <4>1. r \in Invocation /\ r.pc = run[i].pc
        BY <2>1, <2>2, LocalTypes DEF Invocation
      <4>2. r.pc \notin Holding
        BY <1>11, <4>1 DEF Yield, At, Holding
      <4>3. run' = [run EXCEPT ![i] = r]
        BY <3>2
      <4> HIDE DEF r
      <4> QED
        BY <4>1, <4>2, <4>3, RunTyped
    <3> QED
      BY <1>11, <3>1, <3>2 DEF Yield
  <2> QED
    BY <1>11, <1>ty, <2>3 DEF Yield, TypeOK, topic, starts, audit, sink
<1>12. ASSUME NEW i \in Slot, Timeout(i)
       PROVE  TypeInv'
  <2>1. run' \in [Slot -> Invocation] /\ (\A j \in Slot : NonEmpty(j))'
    BY <1>12, LocalTypes, ReturnTyped, ConsumedTyped DEF Timeout
  <2> QED
    BY <1>12, <1>ty, <2>1 DEF Timeout, TypeOK, topic, starts, audit, sink
<1>13. ASSUME NEW i \in Slot, SaveOriginal(i)
       PROVE  TypeInv'
  <2>1. "saveDatadog" \in Stage /\ run[i].msgs # <<>>
    BY <1>13 DEF Stage, SaveOriginal, At, NonEmpty, Holding
  <2>2. /\ run' \in [Slot -> Invocation] /\ (\A j \in Slot : NonEmpty(j))'
        /\ faults' \in 0 .. MaxFaults
    BY <1>13, <2>1, PutAnsweredTyped DEF SaveOriginal
  <2>3. original' \in [1 .. MaxId -> SUBSET Offset]
    BY <1>13, <1>ty, LocalTypes DEF SaveOriginal, TypeOK
  <2> QED
    BY <1>13, <1>ty, <2>2, <2>3 DEF SaveOriginal, TypeOK, topic, starts, sink
<1>14. ASSUME NEW i \in Slot, SaveDatadog(i)
       PROVE  TypeInv'
  <2>1. "send" \in Stage /\ run[i].msgs # <<>>
    BY <1>14 DEF Stage, SaveDatadog, At, NonEmpty, Holding
  <2>2. /\ run' \in [Slot -> Invocation] /\ (\A j \in Slot : NonEmpty(j))'
        /\ faults' \in 0 .. MaxFaults
    BY <1>14, <2>1, PutAnsweredTyped DEF SaveDatadog
  <2>3. Convertible(Batch(i)) \in SUBSET Offset
    BY LocalTypes DEF Convertible
  <2>4. datadog' \in [1 .. MaxId -> SUBSET Offset]
    BY <1>14, <1>ty, <2>3 DEF SaveDatadog, TypeOK
  <2> QED
    BY <1>14, <1>ty, <2>2, <2>4 DEF SaveDatadog, TypeOK, topic, starts, sink
<1>15. ASSUME NEW i \in Slot, ConvertRaises(i)
       PROVE  TypeInv'
  <2>1. run' \in [Slot -> Invocation] /\ (\A j \in Slot : NonEmpty(j))'
    BY <1>15, ReturnTyped DEF ConvertRaises
  <2> QED
    BY <1>15, <1>ty, <2>1 DEF ConvertRaises, TypeOK, topic, starts, audit, sink
<1>16. ASSUME NEW i \in Slot, Send(i)
       PROVE  TypeInv'
  <2>1. "updateOffset" \in Stage /\ run[i].msgs # <<>>
    BY <1>16 DEF Stage, Send, At, NonEmpty, Holding
  <2>2. run' \in [Slot -> Invocation] /\ (\A j \in Slot : NonEmpty(j))'
    BY <1>16, <2>1, GotoTyped DEF Send
  <2>3. Convertible(Batch(i)) \in SUBSET Offset
    BY LocalTypes DEF Convertible
  <2>4. /\ delivered' \in [Offset -> 0 .. MaxDelivery]
        /\ dropped' \in SUBSET Offset
        /\ faults' \in 0 .. MaxFaults
    <3>1. /\ delivered \in [Offset -> 0 .. MaxDelivery]
          /\ dropped \in SUBSET Offset /\ faults \in 0 .. MaxFaults
      BY <1>ty DEF TypeOK
    <3> QED
      BY <1>16, <1>b, <2>3, <3>1 DEF Send, SpendFault
  <2> QED
    BY <1>16, <1>ty, <2>2, <2>4 DEF Send, TypeOK, topic, starts, audit
<1>17. ASSUME NEW i \in Slot, UpdateOffset(i)
       PROVE  TypeInv'
  <2>1. run' \in [Slot -> Invocation] /\ (\A j \in Slot : NonEmpty(j))'
    BY <1>17, ReturnTyped DEF UpdateOffset
  <2>2. run[i].msgs # <<>>
    BY <1>17 DEF UpdateOffset, At, NonEmpty, Holding
  <2>3. saved' \in Offset
    BY <1>17, <2>2, LocalTypes, LastFacts DEF UpdateOffset
  <2> QED
    BY <1>17, <1>ty, <2>1, <2>3 DEF UpdateOffset, TypeOK, topic, starts, audit, sink
<1>18. ASSUME NEW i \in Slot, Abandon(i)
       PROVE  TypeInv'
  <2>1. run' \in [Slot -> Invocation] /\ (\A j \in Slot : NonEmpty(j))'
    BY <1>18, ReturnTyped DEF Abandon
  <2> QED
    BY <1>18, <1>ty, <1>b, <2>1 DEF Abandon, SpendFault, TypeOK, topic, starts, audit, sink
<1>19. CASE UNCHANGED vars
  BY <1>19, <1>ty DEF vars, topic, starts, audit, sink, TypeOK, NonEmpty
<1> QED
  BY <1>1, <1>2, <1>3, <1>4, <1>5, <1>6, <1>7, <1>8, <1>9, <1>10, <1>11, <1>12,
     <1>13, <1>14, <1>15, <1>16, <1>17, <1>18, <1>19
     DEF Next, Step, Consume

LEMMA TypeInit == Init => TypeInv
<1> SUFFICES ASSUME Init
             PROVE  TypeInv
  OBVIOUS
<1>1. \A i \in Slot : run[i] = Idle
  BY DEF Init
<1>2. run \in [Slot -> Invocation]
  BY IdleType DEF Init
<1>3. log \in Seq(Kind) /\ Len(log) = 0
  BY DEF Init
<1>4. TypeOK
  <2>1. together \in BOOLEAN
    BY Zenon DEF Init
  <2> QED
    BY <1>2, <1>3, <2>1, BoundAssumption DEF Init, TypeOK, Absent
<1>5. \A i \in Slot : NonEmpty(i)
  BY <1>1 DEF NonEmpty, Idle, Holding
<1> QED
  BY <1>4, <1>5 DEF TypeInv

\* Every variable keeps its type: the offset stored and the offsets of a
\* batch stay within the log's range however many invocations interleave.
THEOREM TypeCorrect == Spec => []TypeOK
<1>1. TypeInv => TypeOK
  BY DEF TypeInv
<1> QED
  BY <1>1, TypeInit, TypeStep, PTL DEF Spec

-----------------------------------------------------------------------------
(* What every step keeps                                                    *)

Grows ==
  /\ Covered \subseteq Covered'
  /\ lost \subseteq lost'
  /\ LogEnd \in Nat /\ LogEnd' \in Nat /\ LogEnd <= LogEnd'

\* No step takes back what is accounted for, and the log only grows.
LEMMA GrowsStep == TypeInv /\ [Next]_vars => Grows
<1> SUFFICES ASSUME TypeInv, [Next]_vars
             PROVE  Grows
  OBVIOUS
<1>1. /\ log \in Seq(Kind) /\ LogEnd \in Nat
      /\ delivered \in [Offset -> 0 .. MaxDelivery] /\ MaxDelivery \in Nat \ {0}
  BY BoundAssumption DEF TypeInv, TypeOK, LogEnd
<1>2. \/ UNCHANGED log
      \/ \E k \in Kind : log' = Append(log, k)
  BY ZenonT(60) DEF Next, Step, Consume, vars, topic, Produce, Expire, Start, ReadOffset,
         InitOffset, ReadEnd, ConsumeFrom, Fetch, DecodeRaises, OutOfRange,
         ResetPosition, Yield, Timeout, SaveOriginal, SaveDatadog, Send,
         ConvertRaises, UpdateOffset, Abandon
<1>3. /\ LogEnd' \in Nat /\ LogEnd <= LogEnd'
      /\ \A o \in Offset : o < LogEnd => KindAt(o)' = KindAt(o)
  BY <1>1, <1>2 DEF LogEnd, KindAt, Offset
<1>4. PassedOver \subseteq PassedOver'
  <2>1. ASSUME NEW o \in Offset, o < LogEnd, KindAt(o) \in Skipped
        PROVE  o < LogEnd' /\ KindAt(o)' \in Skipped
    BY <1>1, <1>3, <2>1, BoundAssumption DEF Offset
  <2> QED
    BY <2>1 DEF PassedOver
<1>5. lost \subseteq lost' /\ dropped \subseteq dropped'
  BY ZenonT(40) DEF Next, Step, Consume, vars, topic, sink, Produce, Expire, Start,
         ReadOffset, InitOffset, ReadEnd, ConsumeFrom, Fetch, DecodeRaises,
         OutOfRange, ResetPosition, Yield, Timeout, SaveOriginal, SaveDatadog,
         Send, ConvertRaises, UpdateOffset, Abandon
<1>6. \/ UNCHANGED delivered
      \/ \E i \in Slot :
           delivered' = [o \in Offset |->
                           IF /\ o \in Convertible(Batch(i))
                              /\ delivered[o] < MaxDelivery
                           THEN delivered[o] + 1 ELSE delivered[o]]
  BY ZenonT(40) DEF Next, Step, Consume, vars, topic, sink, Produce, Expire, Start,
         ReadOffset, InitOffset, ReadEnd, ConsumeFrom, Fetch, DecodeRaises,
         OutOfRange, ResetPosition, Yield, Timeout, SaveOriginal, SaveDatadog,
         Send, ConvertRaises, UpdateOffset, Abandon
<1>7. \A o \in Offset : delivered[o] > 0 => delivered'[o] > 0
  BY <1>1, <1>6
<1>8. Covered \subseteq Covered'
  BY <1>4, <1>5, <1>7 DEF Covered, Attempted
<1> QED
  BY <1>1, <1>3, <1>5, <1>8 DEF Grows

\* An invocation that takes no step stays sound.
LEMMA LocalStable ==
  ASSUME TypeInv, Grows, NEW j \in Slot, run'[j] = run[j], LocalInv(j)
  PROVE  LocalInv(j)'
<1>1. /\ Batch(j)' = Batch(j) /\ NextOffset(j)' = NextOffset(j)
      /\ Buffered(j)' = Buffered(j)
  BY DEF Batch, NextOffset, Buffered
<1>2. /\ run[j].prev \in Int /\ run[j].avail \in Int
      /\ Batch(j) \subseteq Int /\ LogEnd \in Nat /\ LogEnd' \in Nat
      /\ LogEnd <= LogEnd'
  BY LocalTypes DEF Offset, Grows
<1>3. PrevInLog(j)' /\ Fresh(j)'
  BY <1>2 DEF PrevInLog, Fresh, LocalInv
<1>4. Started(j)'
  BY DEF Started, LocalInv, Grows
<1>5. BatchSound(j)'
  <2>1. \A o \in Batch(j) : o < LogEnd'
    BY <1>2 DEF BatchSound, LocalInv
  <2> QED
    BY <1>1, <2>1 DEF BatchSound, LocalInv, Grows
<1>6. PositionSound(j)'
  <2>1. run[j].avail <= LogEnd => run[j].avail <= LogEnd'
    BY <1>2
  <2> QED
    BY <1>1, <2>1 DEF PositionSound, LocalInv, Grows
<1>7. Posted(j)'
  BY <1>1 DEF Posted, LocalInv, Grows
<1> QED
  BY <1>3, <1>4, <1>5, <1>6, <1>7 DEF LocalInv

\* A free instance is sound.
LEMMA IdleLocal ==
  ASSUME NEW i \in Slot, run'[i] = Idle
  PROVE  LocalInv(i)'
<1>1. /\ run'[i].pc = "idle" /\ run'[i].prev = 0 /\ run'[i].msgs = <<>>
  BY DEF Idle
<1>2. Batch(i)' = {} /\ NextOffset(i)' = 1
  BY <1>1 DEF Batch, NextOffset, Range
<1> QED
  BY <1>1, <1>2 DEF LocalInv, Fresh, PrevInLog, Started, BatchSound,
                    PositionSound, Posted, Reading, Holding

\* Going on to a stage other than the consumption keeps an invocation sound.
LEMMA GotoLocal ==
  ASSUME TypeInv, Grows, NEW i \in Slot, NEW stage \in Stage \ {"consume"},
         LocalInv(i), Goto(i, stage),
         stage \in Reading => 1 .. run[i].prev \subseteq Covered,
         stage = "initOffset" => run[i].pc = "readOffset",
         stage \notin {"idle", "readOffset"},
         stage \in Holding => run[i].msgs # <<>>,
         stage = "updateOffset" => Batch(i) \subseteq Covered'
  PROVE  LocalInv(i)'
<1>1. /\ run'[i].pc = stage /\ run'[i].prev = run[i].prev
      /\ run'[i].msgs = run[i].msgs
  BY LocalTypes DEF Goto, TypeInv, TypeOK, Invocation
<1>2. Batch(i)' = Batch(i) /\ NextOffset(i)' = NextOffset(i)
  BY <1>1 DEF Batch, NextOffset
<1>3. /\ run[i].prev \in Int /\ Batch(i) \subseteq Int
      /\ LogEnd \in Nat /\ LogEnd' \in Nat /\ LogEnd <= LogEnd'
  BY LocalTypes DEF Offset, Grows
<1>4. PrevInLog(i)' /\ Fresh(i)'
  BY <1>1, <1>3 DEF PrevInLog, Fresh, LocalInv
<1>5. Started(i)'
  BY <1>1 DEF Started, Grows
<1>6. BatchSound(i)'
  <2>1. \A o \in Batch(i) : o < LogEnd'
    BY <1>3 DEF BatchSound, LocalInv
  <2> QED
    BY <1>1, <1>2, <2>1 DEF BatchSound, LocalInv, Grows
<1>7. PositionSound(i)'
  BY <1>1 DEF PositionSound
<1>8. Posted(i)'
  BY <1>1, <1>2 DEF Posted
<1> QED
  BY <1>4, <1>5, <1>6, <1>7, <1>8 DEF LocalInv

LEMMA PutAnsweredLocal ==
  ASSUME TypeInv, Grows, NEW i \in Slot, NEW stage \in Stage \ {"consume"},
         LocalInv(i), PutAnswered(i, stage),
         stage \in Reading => 1 .. run[i].prev \subseteq Covered,
         stage = "initOffset" => run[i].pc = "readOffset",
         stage \notin {"idle", "readOffset"},
         stage \in Holding => run[i].msgs # <<>>,
         stage = "updateOffset" => Batch(i) \subseteq Covered'
  PROVE  LocalInv(i)'
<1>1. CASE Goto(i, stage)
  BY <1>1, GotoLocal
<1>2. CASE Return(i)
  <2>1. run'[i] = Idle
    BY <1>2 DEF Return, TypeInv, TypeOK
  <2> QED
    BY <2>1, IdleLocal
<1> QED
  BY <1>1, <1>2 DEF PutAnswered

\* When the consumption ends, the batch is sound if it was before.
LEMMA ConsumedLocal ==
  ASSUME TypeInv, Grows, NEW i \in Slot, NEW msgs \in Seq(Offset),
         msgs # <<>>, Consumed(i, msgs), PrevInLog(i),
         1 .. run[i].prev \subseteq Covered,
         \A o \in Range(msgs) : o < LogEnd,
         run[i].prev + 1 .. Last(msgs) \subseteq Range(msgs) \cup lost,
         run[i].prev <= Last(msgs)
  PROVE  LocalInv(i)'
<1>1. /\ run'[i].pc = "saveOriginal" /\ run'[i].prev = run[i].prev
      /\ run'[i].msgs = msgs
  BY LocalTypes DEF Consumed, TypeInv, TypeOK, Invocation
<1>2. Batch(i)' = Range(msgs) /\ NextOffset(i)' = Last(msgs) + 1
  BY <1>1 DEF Batch, NextOffset
<1>3. /\ run[i].prev \in Int /\ Range(msgs) \subseteq Int
      /\ LogEnd \in Nat /\ LogEnd' \in Nat /\ LogEnd <= LogEnd'
      /\ Last(msgs) \in Int
  <2>1. Last(msgs) \in Offset /\ Range(msgs) \subseteq Offset
    BY LastFacts, RangeFacts
  <2>2. Offset \subseteq Int /\ run[i].prev \in Offset
    BY LocalTypes DEF Offset
  <2> QED
    BY <2>1, <2>2 DEF Grows
<1>4. PrevInLog(i)' /\ Fresh(i)'
  BY <1>1, <1>3 DEF PrevInLog, Fresh
<1>5. Started(i)'
  BY <1>1 DEF Started, Grows
<1>6. BatchSound(i)'
  <2>1. \A o \in Range(msgs) : o < LogEnd'
    BY <1>3
  <2>2. /\ NextOffset(i)' - 1 = Last(msgs)
        /\ run[i].prev < NextOffset(i)'
    BY <1>2, <1>3
  <2>3. run[i].prev + 1 .. Last(msgs) \subseteq Range(msgs) \cup lost'
    BY DEF Grows
  <2> QED
    BY <1>1, <1>2, <2>1, <2>2, <2>3 DEF BatchSound
<1>7. PositionSound(i)' /\ Posted(i)'
  BY <1>1 DEF PositionSound, Posted
<1> QED
  BY <1>4, <1>5, <1>6, <1>7 DEF LocalInv

\* A step of one instance leaves the others alone.
LEMMA Frame ==
  ASSUME TypeInv, NEW i \in Slot, Start(i) \/ Step(i) \/ Abandon(i),
         NEW j \in Slot \ {i}
  PROVE  run'[j] = run[j]
BY DEF TypeInv, TypeOK, Step, Consume, Start, ReadOffset, InitOffset, ReadEnd,
       ConsumeFrom, Fetch, DecodeRaises, OutOfRange, ResetPosition, Yield,
       Timeout, SaveOriginal, SaveDatadog, Send, ConvertRaises, UpdateOffset,
       Abandon, Goto, Return, PutAnswered, Consumed

\* The step of an instance keeps its own invocation sound.
LEMMA LocalStep ==
  ASSUME IInv, Grows, NEW i \in Slot, Start(i) \/ Step(i) \/ Abandon(i)
  PROVE  LocalInv(i)'
<1> USE DEF IInv
<1>t. /\ TypeInv /\ TypeOK /\ LocalInv(i) /\ NonEmpty(i)
      /\ run \in [Slot -> Invocation] /\ run[i] \in Invocation
  BY DEF TypeInv, TypeOK
<1>l. /\ run[i].prev \in Offset /\ run[i].leo \in 0 .. MaxOffset
      /\ run[i].msgs \in Seq(Offset) /\ run[i].pos \in -1 .. MaxOffset
      /\ run[i].avail \in -1 .. MaxOffset /\ LogEnd \in 0 .. MaxOffset
      /\ Batch(i) \subseteq Offset /\ NextOffset(i) \in 1 .. MaxOffset
      /\ Offset \subseteq Int /\ MaxOffset \in Nat
      /\ LogEnd' \in Nat /\ LogEnd <= LogEnd'
  BY <1>t, LocalTypes, BoundAssumption DEF Offset, Grows
<1>n. /\ run[i].prev \in Nat /\ run[i].pos \in Int /\ run[i].avail \in Int
      /\ LogEnd \in Nat /\ NextOffset(i) \in Nat
  BY <1>l DEF Offset
<1>r. Return(i) => LocalInv(i)'
  <2>1. Return(i) => run'[i] = Idle
    BY <1>t DEF Return
  <2> QED
    BY <2>1, IdleLocal
<1>1. CASE Start(i)
  <2>1. PICK t \in 1 .. MaxId :
          run' = [run EXCEPT ![i].pc = "readOffset", ![i].id = t]
    BY <1>1 DEF Start
  <2>2. /\ run'[i].pc = "readOffset" /\ run'[i].prev = run[i].prev
        /\ run'[i].msgs = run[i].msgs
    BY <1>t, <2>1 DEF Invocation
  <2>3. Batch(i)' = Batch(i) /\ NextOffset(i)' = NextOffset(i)
    BY <2>2 DEF Batch, NextOffset
  <2>4. LogEnd' = LogEnd /\ lost' = lost
    BY <1>1 DEF Start, topic, LogEnd
  <2> QED
    BY <1>1, <1>t, <2>2, <2>3, <2>4
       DEF LocalInv, Fresh, PrevInLog, Started, BatchSound, PositionSound,
           Posted, At, Start, Reading, Holding
<1>2. CASE ReadOffset(i)
  <2>1. CASE saved = Absent
    <3>1. "initOffset" \in Stage \ {"consume"} /\ "initOffset" \notin Reading
          /\ "initOffset" \notin Holding
      BY DEF Stage, Reading, Holding
    <3> QED
      BY <1>2, <1>t, <2>1, <3>1, GotoLocal DEF ReadOffset, At
  <2>2. CASE saved # Absent
    <3>1. /\ run'[i].pc = "readEnd" /\ run'[i].prev = saved
          /\ run'[i].msgs = run[i].msgs
      BY <1>2, <1>t, <2>2 DEF ReadOffset, Invocation
    <3>2. LogEnd' = LogEnd /\ lost' = lost /\ Covered \subseteq Covered'
      BY <1>2 DEF ReadOffset, topic, LogEnd, Grows
    <3>3. saved \in Offset
      BY <1>t, <2>2 DEF TypeOK
    <3>4. run[i].msgs = <<>>
      BY <1>2, <1>t DEF ReadOffset, At, LocalInv, Fresh
    <3>5. Batch(i)' = {} /\ NextOffset(i)' = saved + 1
      BY <3>1, <3>4 DEF Batch, NextOffset, Range
    <3>6. PrevInLog(i)'
      BY <1>l, <3>1, <3>2, <3>3 DEF PrevInLog, SavedInLog, Offset
    <3>7. Started(i)'
      BY <3>1, <3>2 DEF Started, CommittedIsCovered
    <3>8. BatchSound(i)'
      BY <1>l, <3>1, <3>3, <3>5 DEF BatchSound
    <3> QED
      BY <3>1, <3>6, <3>7, <3>8 DEF LocalInv, Fresh, PositionSound, Posted
  <2> QED
    BY <2>1, <2>2
<1>3. CASE InitOffset(i)
  <2>1. /\ "readEnd" \in Stage \ {"consume"} /\ run[i].prev = 0
        /\ "readEnd" \notin Holding
    BY <1>3, <1>t DEF InitOffset, At, LocalInv, Fresh, Stage, Holding
  <2>2. 1 .. run[i].prev \subseteq Covered
    BY <2>1
  <2> QED
    BY <1>3, <1>t, <2>1, <2>2, PutAnsweredLocal DEF InitOffset
<1>4. CASE ReadEnd(i)
  <2>1. /\ run'[i].pc = "consume" /\ run'[i].prev = run[i].prev
        /\ run'[i].msgs = run[i].msgs
        /\ run'[i].pos = run[i].prev + 1 /\ run'[i].avail = run[i].prev + 1
    BY <1>4, <1>t DEF ReadEnd, ConsumeFrom, Invocation
  <2>2. /\ Batch(i)' = Batch(i) /\ NextOffset(i)' = NextOffset(i)
        /\ ~Buffered(i)'
    BY <1>n, <2>1 DEF Batch, NextOffset, Buffered
  <2>3. LogEnd' = LogEnd /\ lost' = lost /\ Covered \subseteq Covered'
    BY <1>4 DEF ReadEnd, ConsumeFrom, topic, LogEnd, Grows
  <2>4. 1 .. run[i].prev \subseteq Covered
    BY <1>4, <1>t DEF ReadEnd, ConsumeFrom, At, LocalInv, Started, Reading
  <2>5. run[i].prev < NextOffset(i)
    BY <1>t DEF LocalInv, BatchSound
  <2>6. /\ NextOffset(i) .. run'[i].pos - 1 = {}
        /\ run'[i].prev <= run'[i].pos
    BY <1>n, <2>1, <2>5
  <2>7. PositionSound(i)'
    BY <2>2, <2>6 DEF PositionSound
  <2> QED
    BY <1>t, <2>1, <2>2, <2>3, <2>4, <2>7
       DEF LocalInv, Fresh, PrevInLog, Started, BatchSound, Posted
<1>5. CASE Fetch(i)
  <2>1. PICK e \in run[i].pos + 1 .. LogEnd :
          run' = [run EXCEPT ![i].avail = e]
    BY <1>5 DEF Fetch
  <2>2. /\ run'[i].pc = run[i].pc /\ run'[i].prev = run[i].prev
        /\ run'[i].msgs = run[i].msgs /\ run'[i].pos = run[i].pos
        /\ run'[i].avail <= LogEnd /\ run[i].pc = "consume"
    BY <1>5, <1>t, <1>l, <2>1 DEF Invocation, Fetch, At
  <2>3. Batch(i)' = Batch(i) /\ NextOffset(i)' = NextOffset(i)
    BY <2>2 DEF Batch, NextOffset
  <2>4. LogEnd' = LogEnd /\ lost' = lost /\ Covered \subseteq Covered'
    BY <1>5 DEF Fetch, topic, LogEnd, Grows
  <2> QED
    BY <1>t, <2>2, <2>3, <2>4
       DEF LocalInv, Fresh, PrevInLog, Started, BatchSound, PositionSound,
           Posted
<1>6. CASE OutOfRange(i)
  <2>1. /\ run'[i].pc = run[i].pc /\ run'[i].prev = run[i].prev
        /\ run'[i].msgs = run[i].msgs /\ run'[i].pos = Awaiting
        /\ run[i].pc = "consume"
    BY <1>6, <1>t DEF Invocation, OutOfRange, At
  <2>2. /\ Batch(i)' = Batch(i) /\ NextOffset(i)' = NextOffset(i)
        /\ ~Buffered(i)'
    BY <2>1 DEF Batch, NextOffset, Buffered
  <2>3. LogEnd' = LogEnd /\ lost' = lost /\ Covered \subseteq Covered'
    BY <1>6 DEF OutOfRange, topic, LogEnd, Grows
  <2> QED
    BY <1>t, <2>1, <2>2, <2>3
       DEF LocalInv, Fresh, PrevInLog, Started, BatchSound, PositionSound,
           Posted
<1>7. CASE ResetPosition(i)
  <2>1. /\ run'[i].pc = run[i].pc /\ run'[i].prev = run[i].prev
        /\ run'[i].msgs = run[i].msgs /\ run[i].pc = "consume"
        /\ run'[i].pos = LogEnd /\ run'[i].avail = LogEnd
    BY <1>7, <1>t DEF Invocation, ResetPosition, At
  <2>2. Batch(i)' = Batch(i) /\ NextOffset(i)' = NextOffset(i)
    BY <2>1 DEF Batch, NextOffset
  <2>3. /\ LogEnd' = LogEnd /\ lost \subseteq lost'
        /\ NextOffset(i) .. LogEnd - 1 \subseteq lost'
        /\ Covered \subseteq Covered'
    BY <1>7 DEF ResetPosition, topic, LogEnd, Grows
  <2>4. run[i].prev <= LogEnd
    BY <1>t, <1>l DEF LocalInv, PrevInLog, Offset
  <2>5. PositionSound(i)'
    BY <1>l, <2>1, <2>2, <2>3, <2>4 DEF PositionSound
  <2> QED
    BY <1>t, <2>1, <2>2, <2>3, <2>5
       DEF LocalInv, Fresh, PrevInLog, Started, BatchSound, Posted
<1>8. CASE Yield(i)
  <2> DEFINE o == run[i].pos
             msgs == Append(run[i].msgs, o)
  <2>1. /\ run[i].pc = "consume" /\ Buffered(i)
        /\ 1 .. run[i].prev \subseteq Covered
    BY <1>8, <1>t DEF Yield, At, LocalInv, Started, Reading
  <2>2. o \in Offset /\ o < LogEnd
    BY <1>t, <1>l, <2>1 DEF Buffered, Awaiting, LocalInv, PositionSound, Offset
  <2>3. /\ msgs \in Seq(Offset) /\ msgs # <<>> /\ Last(msgs) = o
        /\ Range(msgs) = Batch(i) \cup {o}
    BY <1>l, <2>2, AppendFacts, SMTT(30) DEF Batch
  <2>4. /\ run[i].prev <= o
        /\ NextOffset(i) .. o - 1 \subseteq lost
    BY <1>t, <2>1 DEF LocalInv, PositionSound, Buffered
  <2>5. run[i].prev + 1 .. o \subseteq Range(msgs) \cup lost
    <3>1. ASSUME NEW x \in run[i].prev + 1 .. o
          PROVE  x \in Range(msgs) \cup lost
      <4>1. \/ x \in run[i].prev + 1 .. NextOffset(i) - 1
            \/ x \in NextOffset(i) .. o - 1
            \/ x = o
        BY <1>l, <2>2
      <4> QED
        BY <1>t, <2>3, <2>4, <4>1 DEF LocalInv, BatchSound
    <3> QED
      BY <3>1
  <2>6. \A x \in Range(msgs) : x < LogEnd
    BY <1>t, <2>2, <2>3 DEF LocalInv, BatchSound
  <2>7. PrevInLog(i)
    BY <1>t DEF LocalInv
  <2>8. CASE Consumed(i, msgs)
    <3> HIDE DEF msgs, o
    <3> QED
      BY <1>t, <2>1, <2>3, <2>4, <2>5, <2>6, <2>7, <2>8, ConsumedLocal
  <2>9. CASE run' = [run EXCEPT ![i].msgs = msgs, ![i].pos = o + 1]
    <3>1. /\ run'[i].pc = "consume" /\ run'[i].prev = run[i].prev
          /\ run'[i].msgs = msgs /\ run'[i].pos = o + 1
          /\ run'[i].avail = run[i].avail
      BY <1>t, <2>1, <2>9 DEF Invocation
    <3> HIDE DEF msgs
    <3>2. Batch(i)' = Batch(i) \cup {o} /\ NextOffset(i)' = o + 1
      BY <2>3, <3>1 DEF Batch, NextOffset
    <3>3. LogEnd' = LogEnd /\ lost' = lost /\ Covered \subseteq Covered'
      BY <1>8 DEF Yield, topic, LogEnd, Grows
    <3>4. BatchSound(i)'
      <4>1. NextOffset(i)' - 1 = o /\ run'[i].prev < NextOffset(i)'
        BY <1>n, <2>4, <3>1, <3>2
      <4>2. /\ \A x \in Batch(i)' : x < LogEnd
            /\ run[i].prev + 1 .. o \subseteq Batch(i)' \cup lost
        BY <2>3, <2>5, <2>6, <3>2
      <4> QED
        BY <3>1, <3>3, <4>1, <4>2 DEF BatchSound
    <3>5. PositionSound(i)'
      <4>1. run[i].avail <= LogEnd
        BY <1>t, <2>1 DEF LocalInv, PositionSound
      <4>2. /\ run'[i].prev <= run'[i].pos
            /\ NextOffset(i)' .. run'[i].pos - 1 = {}
        BY <1>n, <2>4, <3>1, <3>2
      <4> QED
        BY <3>1, <3>3, <4>1, <4>2 DEF PositionSound
    <3> QED
      BY <2>1, <2>7, <3>1, <3>3, <3>4, <3>5
         DEF LocalInv, Fresh, PrevInLog, Started, Posted
  <2> QED
    BY <1>8, <2>8, <2>9 DEF Yield
<1>9. CASE Timeout(i)
  <2>1. CASE run[i].msgs = <<>>
    BY <1>9, <1>r, <2>1 DEF Timeout
  <2>2. CASE run[i].msgs # <<>>
    <3>1. Consumed(i, run[i].msgs)
      BY <1>9, <2>2 DEF Timeout
    <3>2. NextOffset(i) = Last(run[i].msgs) + 1
          /\ Last(run[i].msgs) \in Int
      BY <1>l, <2>2, LastFacts DEF NextOffset
    <3>3. /\ \A o \in Range(run[i].msgs) : o < LogEnd
          /\ run[i].prev + 1 .. NextOffset(i) - 1
               \subseteq Range(run[i].msgs) \cup lost
          /\ run[i].prev < NextOffset(i) /\ PrevInLog(i)
      BY <1>t DEF LocalInv, BatchSound, Batch
    <3>4. /\ NextOffset(i) - 1 = Last(run[i].msgs)
          /\ run[i].prev <= Last(run[i].msgs)
      BY <1>n, <3>2, <3>3
    <3>5. 1 .. run[i].prev \subseteq Covered
      BY <1>9, <1>t DEF Timeout, At, LocalInv, Started, Reading
    <3> QED
      BY <1>t, <1>l, <2>2, <3>1, <3>3, <3>4, <3>5, ConsumedLocal
  <2> QED
    BY <2>1, <2>2
<1>10. ASSUME run[i].pc \in Holding
       PROVE  1 .. run[i].prev \subseteq Covered /\ run[i].msgs # <<>>
  BY <1>10, <1>t DEF LocalInv, Started, Reading, NonEmpty
<1>11. CASE SaveOriginal(i)
  <2>1. run[i].pc \in Holding /\ "saveDatadog" \in Stage \ {"consume"}
    BY <1>11 DEF SaveOriginal, At, Holding, Stage
  <2> QED
    BY <1>11, <1>t, <1>10, <2>1, PutAnsweredLocal DEF SaveOriginal
<1>12. CASE SaveDatadog(i)
  <2>1. run[i].pc \in Holding /\ "send" \in Stage \ {"consume"}
    BY <1>12 DEF SaveDatadog, At, Holding, Stage
  <2> QED
    BY <1>12, <1>t, <1>10, <2>1, PutAnsweredLocal DEF SaveDatadog
<1>13. CASE Send(i)
  <2>1. run[i].pc \in Holding /\ "updateOffset" \in Stage \ {"consume"}
    BY <1>13 DEF Send, At, Holding, Stage
  <2>2. Convertible(Batch(i)) \subseteq Attempted'
    <3>1. CASE dropped' = dropped \cup Convertible(Batch(i))
      BY <3>1 DEF Attempted
    <3>2. CASE delivered' = [o \in Offset |->
                               IF /\ o \in Convertible(Batch(i))
                                  /\ delivered[o] < MaxDelivery
                               THEN delivered[o] + 1 ELSE delivered[o]]
      <4>1. \A o \in Offset : delivered[o] \in 0 .. MaxDelivery
        BY <1>t DEF TypeOK
      <4>2. ASSUME NEW o \in Convertible(Batch(i))
            PROVE  o \in Offset /\ delivered'[o] > 0
        <5>1. o \in Offset
          BY <1>l DEF Convertible
        <5>2. delivered'[o] = IF delivered[o] < MaxDelivery
                                THEN delivered[o] + 1 ELSE delivered[o]
          BY <3>2, <5>1
        <5> QED
          BY <4>1, <5>1, <5>2, BoundAssumption
      <4> QED
        BY <4>2 DEF Attempted
    <3> QED
      BY <1>13, <3>1, <3>2 DEF Send
  <2>3. Batch(i) \ Convertible(Batch(i)) \subseteq PassedOver
    BY <1>t, <1>l DEF Convertible, PassedOver, LocalInv, BatchSound
  <2>4. PassedOver' = PassedOver
    BY <1>13 DEF Send, topic, PassedOver, LogEnd, KindAt
  <2>5. Batch(i) \subseteq Covered'
    BY <2>2, <2>3, <2>4 DEF Covered
  <2> QED
    BY <1>13, <1>t, <1>10, <2>1, <2>5, GotoLocal DEF Send
<1> QED
  BY <1>r, <1>1, <1>2, <1>3, <1>4, <1>5, <1>6, <1>7, <1>8, <1>9, <1>11, <1>12,
     <1>13 DEF Step, Consume, DecodeRaises, ConvertRaises, UpdateOffset, Abandon

-----------------------------------------------------------------------------
(* The stored offset                                                        *)

\* The offset is only ever set by the two puts: to 0 after a 404, or to the
\* end of a batch all of which, like all before it, is accounted for.
LEMMA SavedStep ==
  ASSUME IInv, [Next]_vars, saved' # saved
  PROVE  \E i \in Slot :
           \/ InitOffset(i) /\ saved' = 0
           \/ /\ UpdateOffset(i)
              /\ saved' = Last(run[i].msgs) /\ saved' \in Batch(i)
              /\ run[i].prev <= saved'
              /\ 1 .. saved' \subseteq Covered
<1>1. PICK i \in Slot : InitOffset(i) \/ UpdateOffset(i)
  BY DEF Next, Step, Consume, vars, Produce, Expire, Start, ReadOffset,
         ReadEnd, ConsumeFrom, Fetch, DecodeRaises, OutOfRange, ResetPosition,
         Yield, Timeout, SaveOriginal, SaveDatadog, Send, ConvertRaises, Abandon
<1>2. CASE InitOffset(i)
  BY <1>2 DEF InitOffset
<1>3. CASE UpdateOffset(i)
  <2>1. /\ saved' = Last(run[i].msgs) /\ run[i].pc = "updateOffset"
        /\ run[i].msgs # <<>> /\ run[i].msgs \in Seq(Offset)
    BY <1>3, LocalTypes
       DEF UpdateOffset, At, IInv, TypeInv, NonEmpty, Holding
  <2>2. saved' \in Batch(i) /\ saved' \in Offset
    BY <2>1, LastFacts DEF Batch
  <2>3. /\ 1 .. run[i].prev \subseteq Covered
        /\ run[i].prev + 1 .. NextOffset(i) - 1 \subseteq Batch(i) \cup lost
        /\ run[i].prev < NextOffset(i)
        /\ Batch(i) \subseteq Covered
    BY <2>1 DEF IInv, LocalInv, Started, BatchSound, Posted, Reading, Holding
  <2>4. /\ NextOffset(i) = saved' + 1 /\ NextOffset(i) \in Int
        /\ saved' \in Nat /\ run[i].prev \in Nat
    BY <2>1, <2>2, LocalTypes DEF NextOffset, Offset, IInv
  <2>5. run[i].prev <= saved' /\ NextOffset(i) - 1 = saved'
    <3>1. run[i].prev < NextOffset(i)
      BY <2>3
    <3>2. \A p, n, s \in Int : p < n /\ n = s + 1 => p <= s /\ n - 1 = s
      OBVIOUS
    <3>3. saved' \in Int /\ run[i].prev \in Int
      BY <2>4
    <3> QED
      BY <2>4, <3>1, <3>2, <3>3
  <2>6. 1 .. saved' \subseteq Covered
    <3>1. ASSUME NEW x \in 1 .. saved'
          PROVE  x \in Covered
      <4>1. x \in 1 .. run[i].prev \/ x \in run[i].prev + 1 .. saved'
        BY <2>4
      <4> QED
        BY <2>3, <2>5, <4>1 DEF Covered
    <3> QED
      BY <3>1
  <2> QED
    BY <1>3, <2>1, <2>2, <2>5, <2>6
<1> QED
  BY <1>1, <1>2, <1>3

\* How an invocation's starting point changes.
LEMMA PrevStep ==
  ASSUME IInv, NEW j \in Slot, Start(j) \/ Step(j) \/ Abandon(j), PastRead(j)'
  PROVE  \/ ReadOffset(j) /\ saved = Absent
         \/ run'[j].pc = "readEnd" /\ run'[j].prev = saved
         \/ InitOffset(j) /\ run'[j].prev = 0
         \/ /\ PastRead(j) /\ ~At(j, "initOffset") /\ ~At(j, "initOffset")'
            /\ run'[j].prev = run[j].prev
<1>1. run \in [Slot -> Invocation] /\ run[j] \in Invocation
  BY DEF IInv, TypeInv, TypeOK
<1>2. ~Return(j)
  BY <1>1 DEF Return, PastRead, Idle
<1>3. CASE Start(j)
  BY <1>1, <1>3, ZenonT(40) DEF Start, PastRead, Invocation
<1>4. CASE ReadOffset(j)
  BY <1>1, <1>4 DEF ReadOffset, Invocation
<1>5. CASE InitOffset(j)
  <2>1. run[j].prev = 0
    BY <1>5 DEF InitOffset, At, IInv, LocalInv, Fresh
  <2>2. run'[j].prev = run[j].prev
    BY <1>1, <1>2, <1>5 DEF InitOffset, PutAnswered, Goto, Invocation
  <2> QED
    BY <1>5, <2>1, <2>2
<1>6. CASE ReadEnd(j) \/ Fetch(j) \/ OutOfRange(j) \/ ResetPosition(j) \/ Yield(j)
  <2>1. /\ run[j].pc \in {"readEnd", "consume"}
        /\ run'[j].pc \in {"consume", "saveOriginal"}
        /\ run'[j].prev = run[j].prev
    BY <1>1, <1>6 DEF ReadEnd, ConsumeFrom, Fetch, OutOfRange, ResetPosition,
                      Yield, Consumed, At, Invocation
  <2> QED
    BY <2>1 DEF PastRead, At
<1>7. CASE Timeout(j) \/ SaveOriginal(j) \/ SaveDatadog(j) \/ Send(j)
  <2>1. /\ run[j].pc \in {"consume", "saveOriginal", "saveDatadog", "send"}
        /\ run'[j].pc \in Holding
        /\ run'[j].prev = run[j].prev
    BY <1>1, <1>2, <1>7
       DEF Timeout, SaveOriginal, SaveDatadog, Send, PutAnswered, Goto,
           Consumed, At, Invocation, Holding
  <2> QED
    BY <2>1 DEF PastRead, At, Holding
<1> QED
  BY <1>2, <1>3, <1>4, <1>5, <1>6, <1>7
     DEF Step, Consume, DecodeRaises, ConvertRaises, UpdateOffset, Abandon

LEMMA InvInit == Init => IInv
<1> SUFFICES ASSUME Init
             PROVE  IInv
  OBVIOUS
<1>1. saved = -1
  BY DEF Init, Absent
<1>2. SavedInLog /\ CommittedIsCovered
  BY <1>1 DEF SavedInLog, CommittedIsCovered
<1>3. ASSUME NEW i \in Slot
      PROVE  LocalInv(i)
  <2>1. run[i].pc = "idle" /\ run[i].prev = 0 /\ run[i].msgs = <<>>
    BY DEF Init, Idle
  <2>2. Batch(i) = {} /\ NextOffset(i) = 1
    BY <2>1 DEF Batch, NextOffset, Range
  <2> QED
    BY <2>1, <2>2 DEF LocalInv, Fresh, PrevInLog, Started, BatchSound,
                      PositionSound, Posted, Reading, Holding
<1> QED
  BY <1>2, <1>3, TypeInit DEF IInv

LEMMA InvStep == IInv /\ [Next]_vars => IInv'
<1> SUFFICES ASSUME IInv, [Next]_vars
             PROVE  IInv'
  OBVIOUS
<1>1. TypeInv /\ TypeInv' /\ Grows
  BY TypeStep, GrowsStep DEF IInv
<1>2. SavedInLog' /\ CommittedIsCovered'
  <2>1. CASE saved' = saved
    <3>1. saved \in Int
      BY <1>1, BoundAssumption DEF TypeInv, TypeOK, Offset, Absent
    <3> QED
      BY <1>1, <2>1, <3>1 DEF IInv, SavedInLog, CommittedIsCovered, Grows
  <2>2. CASE saved' # saved
    <3>1. PICK i \in Slot :
            \/ InitOffset(i) /\ saved' = 0
            \/ /\ UpdateOffset(i)
               /\ saved' = Last(run[i].msgs) /\ saved' \in Batch(i)
               /\ run[i].prev <= saved'
               /\ 1 .. saved' \subseteq Covered
      BY <2>2, SavedStep
    <3>2. CASE saved' = 0
      BY <3>2 DEF SavedInLog, CommittedIsCovered
    <3>3. CASE saved' \in Batch(i) /\ 1 .. saved' \subseteq Covered
      <4>1. saved' < LogEnd /\ saved' \in Int
        BY <1>1, <3>3, LocalTypes DEF IInv, LocalInv, BatchSound, Offset
      <4>2. saved' < LogEnd'
        BY <1>1, <4>1 DEF Grows
      <4> QED
        BY <1>1, <3>3, <4>2 DEF SavedInLog, CommittedIsCovered, Grows
    <3> QED
      BY <3>1, <3>2, <3>3
  <2> QED
    BY <2>1, <2>2
<1>3. ASSUME NEW j \in Slot
      PROVE  LocalInv(j)'
  <2>1. CASE UNCHANGED run
    BY <1>1, <2>1, LocalStable DEF IInv
  <2>2. ASSUME NEW i \in Slot, Start(i) \/ Step(i) \/ Abandon(i)
        PROVE  LocalInv(j)'
    <3>1. CASE j = i
      BY <1>1, <2>2, <3>1, LocalStep
    <3>2. CASE j # i
      <4>1. run'[j] = run[j]
        BY <1>1, <2>2, <3>2, Frame
      <4> QED
        BY <1>1, <4>1, LocalStable DEF IInv
    <3> QED
      BY <3>1, <3>2
  <2> QED
    BY <2>1, <2>2 DEF Next, Produce, Expire, vars
<1> QED
  BY <1>1, <1>2, <1>3 DEF IInv

LEMMA Inductive == Spec => []IInv
BY InvInit, InvStep, PTL DEF Spec

\* At least once: no interleaving of invocations, deaths, lost answers,
\* failed posts and retention brings the stored offset past a record that
\* was not posted, passed over by the conversion, or jumped over.
THEOREM AtLeastOnce == Spec => []CommittedIsCovered
<1>1. IInv => CommittedIsCovered
  BY DEF IInv
<1> QED
  BY <1>1, Inductive, PTL

\* Overlapping invocations move the stored offset back no further than the
\* least offset from which any of them, or the next one, starts.
THEOREM LowWater == Spec => LowWaterNeverFalls
<1>1. ASSUME IInv, [Next]_vars, NEW n \in Offset, IsLow(n)
      PROVE  IsLow(n)'
  <2>1. /\ TypeInv /\ TypeOK /\ n \in Nat /\ n <= saved
        /\ saved \in Int
    <3>1. TypeInv /\ TypeOK /\ saved \in Offset \cup {-1}
      BY <1>1 DEF IInv, TypeInv, TypeOK, Absent
    <3>2. n \in Nat /\ n <= saved
      BY <1>1 DEF IsLow, Offset
    <3> QED
      BY <3>1, <3>2, BoundAssumption DEF Offset
  <2>2. ASSUME NEW i \in Slot, InitOffset(i)
        PROVE  n = 0
    BY <1>1, <2>1, <2>2 DEF InitOffset, At, IsLow, PastRead, Floor
  <2>3. n <= saved'
    <3>1. CASE saved' = saved
      BY <2>1, <3>1
    <3>2. CASE saved' # saved
      <4>1. PICK i \in Slot :
              \/ InitOffset(i) /\ saved' = 0
              \/ /\ UpdateOffset(i)
                 /\ saved' = Last(run[i].msgs) /\ saved' \in Batch(i)
                 /\ run[i].prev <= saved'
                 /\ 1 .. saved' \subseteq Covered
        BY <1>1, <3>2, SavedStep
      <4>2. CASE InitOffset(i) /\ saved' = 0
        BY <2>2, <4>2
      <4>3. CASE /\ UpdateOffset(i) /\ saved' \in Batch(i)
                 /\ run[i].prev <= saved'
        <5>1. n <= run[i].prev
          BY <1>1, <4>3 DEF IsLow, PastRead, Floor, UpdateOffset, At
        <5>2. saved' \in Int /\ run[i].prev \in Int
          BY <2>1, <4>3, LocalTypes DEF Offset
        <5> QED
          BY <2>1, <4>3, <5>1, <5>2
      <4> QED
        BY <4>1, <4>2, <4>3
    <3> QED
      BY <3>1, <3>2
  <2>4. ASSUME NEW j \in Slot, PastRead(j)'
        PROVE  n <= Floor(j)'
    <3>1. CASE run'[j] = run[j]
      BY <1>1, <2>4, <3>1 DEF IsLow, PastRead, Floor, At
    <3>2. CASE Start(j) \/ Step(j) \/ Abandon(j)
      <4>1. CASE ReadOffset(j) /\ saved = Absent
        BY <2>1, <4>1 DEF Absent
      <4>2. CASE run'[j].pc = "readEnd" /\ run'[j].prev = saved
        BY <2>1, <4>2 DEF Floor, At
      <4>3. CASE InitOffset(j) /\ run'[j].prev = 0
        BY <2>2, <4>3 DEF Floor
      <4>4. CASE /\ PastRead(j) /\ ~At(j, "initOffset") /\ ~At(j, "initOffset")'
                 /\ run'[j].prev = run[j].prev
        BY <1>1, <4>4 DEF IsLow, Floor
      <4> QED
        BY <1>1, <2>4, <3>2, <4>1, <4>2, <4>3, <4>4, PrevStep
    <3>3. UNCHANGED run \/ \E i \in Slot : Start(i) \/ Step(i) \/ Abandon(i)
      BY <1>1 DEF Next, Produce, Expire, vars
    <3> QED
      BY <2>1, <3>1, <3>2, <3>3, Frame
  <2> QED
    BY <2>3, <2>4 DEF IsLow
<1>2. IInv /\ [Next]_vars
        => [\A n \in Offset : IsLow(n) => IsLow(n)']_vars
  BY <1>1
<1> QED
  BY <1>2, Inductive, PTL DEF Spec, LowWaterNeverFalls

-----------------------------------------------------------------------------
(* The offset ledger                                                        *)

\* Every step is a step of the ledger: it accounts for more offsets, or
\* stores an offset up to which all are accounted for, or neither.
THEOREM Refinement == Spec => ImplementsLedger
<1>1. Init => Ledger!Init
  <2> SUFFICES ASSUME Init
               PROVE  Ledger!Init
    OBVIOUS
  <2>1. LogEnd = 0 /\ \A o \in Offset : delivered[o] = 0
    BY DEF Init, LogEnd
  <2>2. Attempted = {}
    BY <2>1 DEF Attempted, Init
  <2>3. PassedOver = {}
    BY <2>1, BoundAssumption DEF PassedOver, Offset
  <2> QED
    BY <2>2, <2>3 DEF Ledger!Init, Init, Covered, Absent
<1>2. IInv /\ IInv' /\ [Next]_vars => [Ledger!Next]_<<Covered, saved>>
  <2> SUFFICES ASSUME IInv, IInv', [Next]_vars
               PROVE  [Ledger!Next]_<<Covered, saved>>
    OBVIOUS
  <2>1. Covered \subseteq Covered' /\ Covered' \subseteq Offset
    <3>1. lost' \subseteq Offset /\ dropped' \subseteq Offset
      BY DEF IInv, TypeInv, TypeOK
    <3>2. Covered' \subseteq Offset
      BY <3>1 DEF Covered, Attempted, PassedOver
    <3> QED
      BY <3>2, GrowsStep DEF IInv, Grows
  <2>2. CASE saved' = saved
    <3>1. Covered' \in SUBSET Ledger!Offset
      BY <2>1 DEF Ledger!Offset, Offset
    <3>2. Covered' = Covered \cup Covered'
      BY <2>1
    <3> QED
      BY <2>2, <3>1, <3>2 DEF Ledger!Next, Ledger!Cover
  <2>3. CASE saved' # saved
    <3>1. PICK i \in Slot :
            \/ InitOffset(i) /\ saved' = 0
            \/ /\ UpdateOffset(i)
               /\ saved' = Last(run[i].msgs) /\ saved' \in Batch(i)
               /\ run[i].prev <= saved'
               /\ 1 .. saved' \subseteq Covered
      BY <2>3, SavedStep
    <3>2. 1 .. saved' \subseteq Covered
      BY <3>1
    <3>3. Covered' = Covered
      BY <3>1 DEF InitOffset, UpdateOffset, topic, sink, Covered, Attempted,
                  PassedOver, LogEnd, KindAt
    <3>4. saved' \in Ledger!Offset
      <4>1. saved' \in Offset \cup {-1}
        BY DEF IInv, TypeInv, TypeOK, Absent
      <4>2. saved' # -1
        BY <3>1, LocalTypes DEF IInv, Offset
      <4> QED
        BY <4>1, <4>2 DEF Ledger!Offset, Offset
    <3> QED
      BY <3>2, <3>3, <3>4 DEF Ledger!Next, Ledger!Commit
  <2> QED
    BY <2>2, <2>3
<1> QED
  BY <1>1, <1>2, Inductive, PTL DEF Spec, ImplementsLedger, Ledger!Spec

-----------------------------------------------------------------------------
(* Executions that follow each other                                         *)

\* The starting point of an invocation is what the store holds.
Current(i) ==
  /\ run[i].pc = "initOffset" => saved = Absent
  /\ PastRead(i) /\ run[i].pc # "initOffset" => run[i].prev = saved

\* At most one invocation is under way, and it knows what the store holds.
Lone ==
  /\ \A i \in Slot : Current(i)
  /\ \A i, j \in Slot : ~At(i, "idle") /\ ~At(j, "idle") => i = j

LEMMA CurrentStep ==
  ASSUME IInv, [Next]_vars, NEW i \in Slot, Current(i),
         \A j \in Slot : At(j, "idle") \/ j = i
  PROVE  saved' >= saved /\ Current(i)'
<1>1. saved \in Int /\ saved >= -1
  BY BoundAssumption DEF IInv, TypeInv, TypeOK, Offset, Absent
<1>2. CASE saved' # saved
  <2>1. \/ InitOffset(i) /\ saved' = 0
        \/ UpdateOffset(i) /\ run[i].prev <= saved'
    BY <1>2, SavedStep DEF InitOffset, UpdateOffset, At
  <2>2. CASE InitOffset(i) /\ saved' = 0
    <3>1. saved = Absent /\ run[i].prev = 0
      BY <2>2 DEF InitOffset, At, Current, IInv, LocalInv, Fresh
    <3>2. run'[i].pc = "idle" \/ (run'[i].pc = "readEnd" /\ run'[i].prev = 0)
      BY <2>2, <3>1
         DEF InitOffset, PutAnswered, Goto, Return, Idle, IInv, TypeInv,
             TypeOK, Invocation
    <3> QED
      BY <2>2, <3>1, <3>2 DEF Current, PastRead, Absent
  <2>3. CASE UpdateOffset(i) /\ run[i].prev <= saved'
    <3>1. run[i].prev = saved
      BY <2>3 DEF UpdateOffset, At, Current, PastRead
    <3>2. run'[i].pc = "idle"
      BY <2>3 DEF UpdateOffset, Return, Idle, IInv, TypeInv, TypeOK
    <3>3. saved' \in Int
      BY TypeStep, BoundAssumption DEF IInv, TypeInv, TypeOK, Offset, Absent
    <3> QED
      BY <1>1, <2>3, <3>1, <3>2, <3>3 DEF Current, PastRead
  <2> QED
    BY <2>1, <2>2, <2>3
<1>3. CASE saved' = saved
  <2>1. CASE run'[i] = run[i]
    BY <1>1, <1>3, <2>1 DEF Current, PastRead
  <2>2. CASE Start(i) \/ Step(i) \/ Abandon(i)
    <3>1. CASE ~PastRead(i)'
      BY <1>1, <1>3, <3>1 DEF Current, PastRead
    <3>2. CASE ReadOffset(i) /\ saved = Absent
      <4>1. run'[i].pc = "initOffset"
        BY <3>2 DEF ReadOffset, Goto, IInv, TypeInv, TypeOK, Invocation
      <4> QED
        BY <1>1, <1>3, <3>2, <4>1 DEF Current
    <3>3. CASE run'[i].pc = "readEnd" /\ run'[i].prev = saved
      BY <1>1, <1>3, <3>3 DEF Current
    <3>4. CASE InitOffset(i) /\ run'[i].prev = 0
      BY <1>3, <3>4 DEF InitOffset, At, Current, Absent
    <3>5. CASE /\ PastRead(i) /\ ~At(i, "initOffset") /\ ~At(i, "initOffset")'
               /\ run'[i].prev = run[i].prev
      BY <1>1, <1>3, <3>5 DEF Current, At
    <3> QED
      BY <2>2, <3>1, <3>2, <3>3, <3>4, <3>5, PrevStep
  <2>3. UNCHANGED run \/ \E j \in Slot : Start(j) \/ Step(j) \/ Abandon(j)
    BY DEF Next, Produce, Expire, vars
  <2> QED
    BY <2>1, <2>2, <2>3, Frame DEF IInv
<1> QED
  BY <1>2, <1>3

\* Whoever is under way was so before, or has just started.
LEMMA UnderWayStep ==
  ASSUME IInv, [Next]_vars, NEW i \in Slot, ~At(i, "idle")'
  PROVE  ~At(i, "idle") \/ Start(i)
<1>1. CASE run'[i] = run[i]
  BY <1>1 DEF At
<1>2. CASE Step(i) \/ Abandon(i)
  BY <1>2, Zenon
     DEF Step, Consume, Abandon, ReadOffset, InitOffset, ReadEnd, ConsumeFrom,
         Fetch, DecodeRaises, OutOfRange, ResetPosition, Yield, Timeout,
         SaveOriginal, SaveDatadog, ConvertRaises, Send, UpdateOffset, At
<1>3. UNCHANGED run \/ \E j \in Slot : Start(j) \/ Step(j) \/ Abandon(j)
  BY DEF Next, Produce, Expire, vars
<1> QED
  BY <1>1, <1>2, <1>3, Frame DEF IInv

\* Executions that have overlapped once have done so for good.
LEMMA TogetherStep ==
  ASSUME [Next]_vars, ~together'
  PROVE  ~together
BY ZenonT(40)
   DEF Next, Step, Consume, vars, starts, Produce, Expire, Start, ReadOffset,
       InitOffset, ReadEnd, ConsumeFrom, Fetch, DecodeRaises, OutOfRange,
       ResetPosition, Yield, Timeout, SaveOriginal, SaveDatadog, ConvertRaises,
       Send, UpdateOffset, Abandon

\* Nobody has overlapped yet: what holds of the one under way goes on holding,
\* and the stored offset does not fall.
LEMMA LoneStep ==
  ASSUME IInv, [Next]_vars, ~together => Lone, ~together'
  PROVE  Lone' /\ saved' >= saved
<1>1. \A k \in Slot : Start(k) => ~together /\ \A j \in Slot : At(j, "idle")
  BY DEF Start
<1>2. ~together
  BY TogetherStep
<1>3. Lone
  BY <1>2
<1>4. ASSUME NEW i \in Slot, NEW j \in Slot, ~At(i, "idle")', ~At(j, "idle")'
      PROVE  i = j
  <2>1. CASE Start(i)
    <3>1. \A k \in Slot : At(k, "idle")
      BY <1>1, <2>1
    <3>2. CASE i # j
      <4>1. run'[j] = run[j]
        BY <2>1, <3>2 DEF Start, IInv, TypeInv, TypeOK
      <4> QED
        BY <1>4, <3>1, <4>1 DEF At
    <3> QED
      BY <3>2
  <2>2. CASE Start(j)
    <3>1. \A k \in Slot : At(k, "idle")
      BY <1>1, <2>2
    <3>2. CASE i # j
      <4>1. run'[i] = run[i]
        BY <2>2, <3>2 DEF Start, IInv, TypeInv, TypeOK
      <4> QED
        BY <1>4, <3>1, <4>1 DEF At
    <3> QED
      BY <3>2
  <2>3. CASE ~At(i, "idle") /\ ~At(j, "idle")
    BY <1>3, <2>3 DEF Lone
  <2> QED
    BY <1>4, <2>1, <2>2, <2>3, UnderWayStep
<1>5. ASSUME NEW i \in Slot
      PROVE  Current(i)'
  <2>1. CASE \A j \in Slot : At(j, "idle") \/ j = i
    BY <1>3, <2>1, CurrentStep DEF Lone
  <2>2. CASE \E j \in Slot : ~At(j, "idle") /\ j # i
    <3>1. At(i, "idle") /\ ~Start(i)
      BY <1>1, <1>3, <2>2 DEF Lone
    <3>2. At(i, "idle")'
      BY <3>1, UnderWayStep
    <3> QED
      BY <3>2 DEF Current, PastRead, At
  <2> QED
    BY <2>1, <2>2
<1>6. saved' >= saved
  <2>1. CASE saved' = saved
    BY <2>1, BoundAssumption DEF IInv, TypeInv, TypeOK, Offset, Absent
  <2>2. CASE saved' # saved
    <3>1. PICK i \in Slot : ~At(i, "idle")
      BY <2>2, SavedStep DEF InitOffset, UpdateOffset, At
    <3>2. \A j \in Slot : At(j, "idle") \/ j = i
      BY <1>3, <3>1 DEF Lone
    <3> QED
      BY <1>3, <3>2, CurrentStep DEF Lone
  <2> QED
    BY <2>1, <2>2
<1> QED
  BY <1>4, <1>5, <1>6 DEF Lone

\* As long as invocations follow each other the stored offset never moves
\* back, whatever they meet and whatever fails.
THEOREM Sequential == Spec => SavedNeverFallsAlone
<1>1. Init => (~together => Lone)
  BY DEF Init, Lone, Current, PastRead, Idle, At
<1>2. IInv /\ [Next]_vars /\ (~together => Lone)
        => (~together => Lone)' /\ [~together' => saved' >= saved]_vars
  BY LoneStep
<1> QED
  BY <1>1, <1>2, Inductive, PTL DEF Spec, SavedNeverFallsAlone

-----------------------------------------------------------------------------
(* No record twice                                                           *)

\* What was delivered is in the log, below the stored offset or in the batch
\* whose offset is about to be stored.
SentOnce(o) ==
  delivered[o] > 0 =>
    /\ delivered[o] = 1
    /\ o < LogEnd
    /\ \/ o <= saved
       \/ \E i \in Slot : run[i].pc = "updateOffset" /\ o \in Batch(i)

BeforeSend == {"consume", "saveOriginal", "saveDatadog", "send"}

\* A batch ascends, and before it is posted neither its records nor those
\* from the consumer's position on have been delivered.
Unsent(i) ==
  /\ \A o \in Batch(i) : o < NextOffset(i)
  /\ run[i].pc = "readEnd" => run[i].msgs = <<>>
  /\ run[i].pc \in BeforeSend => \A o \in Batch(i) : delivered[o] = 0
  /\ run[i].pc = "consume" /\ run[i].pos # Awaiting =>
       /\ run[i].msgs = <<>> \/ NextOffset(i) <= run[i].pos
       /\ \A o \in Offset : o >= run[i].pos => delivered[o] = 0

OnceInv ==
  /\ \A o \in Offset : SentOnce(o)
  /\ \A i \in Slot : Unsent(i)

LEMMA FaultStep ==
  ASSUME TypeInv, [Next]_vars, faults' = 0
  PROVE  faults = 0 /\ \A i \in Slot : ~Abandon(i)
<1>1. faults \in Nat
  BY BoundAssumption DEF TypeInv, TypeOK
<1>2. \A i \in Slot : ~Abandon(i)
  BY <1>1 DEF Abandon, SpendFault
<1>3. faults' = faults \/ SpendFault
  BY ZenonT(40)
     DEF Next, Step, Consume, vars, Produce, Expire, Start, ReadOffset,
         InitOffset, PutAnswered, ReadEnd, ConsumeFrom, Fetch, DecodeRaises,
         OutOfRange, ResetPosition, Yield, Timeout, SaveOriginal, SaveDatadog,
         ConvertRaises, Send, UpdateOffset, Abandon
<1> QED
  BY <1>1, <1>2, <1>3 DEF SpendFault

\* Without faults a record is delivered by the post of its batch only.
LEMMA DeliveredStep ==
  ASSUME TypeInv, [Next]_vars, faults' = 0
  PROVE  \/ delivered' = delivered
         \/ \E i \in Slot :
              /\ Send(i)
              /\ \A o \in Offset :
                   \/ delivered'[o] = delivered[o]
                   \/ /\ o \in Batch(i)
                      /\ delivered'[o] = delivered[o] + 1
<1>1. \/ delivered' = delivered
      \/ \E i \in Slot :
           /\ Send(i)
           /\ delivered' = [o \in Offset |->
                              IF /\ o \in Convertible(Batch(i))
                                 /\ delivered[o] < MaxDelivery
                              THEN delivered[o] + 1 ELSE delivered[o]]
  BY ZenonT(40)
     DEF Next, Step, Consume, vars, sink, Produce, Expire, Start, ReadOffset,
         InitOffset, ReadEnd, ConsumeFrom, Fetch, DecodeRaises, OutOfRange,
         ResetPosition, Yield, Timeout, SaveOriginal, SaveDatadog,
         ConvertRaises, Send, UpdateOffset, Abandon
<1> QED
  BY <1>1 DEF Convertible

\* An execution goes on with its own batch, or is at the end of it.
LEMMA SentStep ==
  ASSUME IInv, Lone, OnceInv, [Next]_vars, ~together', faults' = 0,
         saved' >= saved, NEW o \in Offset
  PROVE  SentOnce(o)'
<1>t. /\ TypeInv /\ o \in Nat /\ saved \in Int /\ LogEnd \in Nat
      /\ LogEnd' \in Nat /\ LogEnd <= LogEnd' /\ saved' \in Int
      /\ delivered[o] \in Nat
  <2>1. TypeInv /\ TypeInv'
    BY TypeStep DEF IInv
  <2>2. saved \in Offset \cup {-1} /\ saved' \in Offset \cup {-1}
    BY <2>1 DEF TypeInv, TypeOK, Absent
  <2>3. delivered[o] \in 0 .. MaxDelivery
    BY <2>1 DEF TypeInv, TypeOK
  <2>4. LogEnd \in Nat /\ LogEnd' \in Nat /\ LogEnd <= LogEnd'
    BY <2>1, GrowsStep DEF Grows
  <2> QED
    BY <2>1, <2>2, <2>3, <2>4, BoundAssumption DEF Offset
<1>1. ASSUME NEW i \in Slot, Send(i)
      PROVE  /\ run[i].pc = "send" /\ run'[i].pc = "updateOffset"
             /\ Batch(i)' = Batch(i) /\ saved' = saved
  BY <1>t, <1>1 DEF Send, At, Goto, Batch, TypeInv, TypeOK, Invocation
<1>2. CASE delivered'[o] # delivered[o]
  <2>1. PICK i \in Slot : /\ Send(i) /\ o \in Batch(i)
                          /\ delivered'[o] = delivered[o] + 1
    BY <1>t, <1>2, DeliveredStep
  <2>2. delivered[o] = 0 /\ o < LogEnd
    BY <1>1, <2>1 DEF OnceInv, Unsent, BeforeSend, IInv, LocalInv, BatchSound
  <2> QED
    BY <1>t, <1>1, <2>1, <2>2 DEF SentOnce
<1>3. CASE delivered'[o] = delivered[o] /\ delivered[o] > 0
  <2>1. /\ delivered[o] = 1 /\ o < LogEnd'
        /\ \/ o <= saved
           \/ \E i \in Slot : run[i].pc = "updateOffset" /\ o \in Batch(i)
    BY <1>t, <1>3 DEF OnceInv, SentOnce
  <2>2. CASE o <= saved
    BY <1>t, <1>3, <2>1, <2>2 DEF SentOnce
  <2>3. ASSUME NEW i \in Slot, run[i].pc = "updateOffset", o \in Batch(i)
        PROVE  SentOnce(o)'
    <3>1. CASE run'[i] = run[i]
      BY <1>3, <2>1, <2>3, <3>1 DEF SentOnce, Batch
    <3>2. CASE UpdateOffset(i)
      <4>1. run[i].msgs # <<>>
        BY <1>t, <2>3 DEF TypeInv, NonEmpty, Holding
      <4>2. NextOffset(i) = saved' + 1
        BY <3>2, <4>1 DEF NextOffset, UpdateOffset
      <4>3. o < NextOffset(i)
        BY <2>3 DEF OnceInv, Unsent
      <4>4. o <= saved'
        <5>1. o < saved' + 1
          BY <4>2, <4>3
        <5>2. \A p, q \in Int : p < q + 1 => p <= q
          OBVIOUS
        <5>3. o \in Int /\ saved' \in Int
          BY <1>t
        <5> QED
          BY <5>1, <5>2, <5>3
      <4> QED
        BY <1>3, <2>1, <4>4 DEF SentOnce
    <3>3. run'[i] = run[i] \/ UpdateOffset(i)
      <4>1. CASE Start(i) \/ Step(i)
        BY <2>3, <4>1
           DEF Start, Step, Consume, ReadOffset, InitOffset, ReadEnd,
               ConsumeFrom, Fetch, DecodeRaises, OutOfRange, ResetPosition,
               Yield, Timeout, SaveOriginal, SaveDatadog, ConvertRaises, Send, At
      <4>2. ~Abandon(i)
        BY <1>t, FaultStep
      <4>3. UNCHANGED run \/ \E j \in Slot : Start(j) \/ Step(j) \/ Abandon(j)
        BY DEF Next, Produce, Expire, vars
      <4> QED
        BY <1>t, <4>1, <4>2, <4>3, Frame
    <3> QED
      BY <3>1, <3>2, <3>3
  <2> QED
    BY <2>1, <2>2, <2>3
<1>4. CASE delivered'[o] = delivered[o] /\ ~(delivered[o] > 0)
  BY <1>4 DEF SentOnce
<1> QED
  BY <1>2, <1>3, <1>4

\* An instance without a batch has nothing to answer for.
LEMMA IdleUnsent ==
  ASSUME NEW j \in Slot, run'[j].msgs = <<>>, run'[j].pc # "consume"
  PROVE  Unsent(j)'
<1>1. Batch(j)' = {}
  BY DEF Batch, Range
<1> QED
  BY <1>1 DEF Unsent


\* The step of an instance keeps its batch undelivered until it is posted.
LEMMA UnsentStep ==
  ASSUME IInv, Lone, OnceInv, [Next]_vars, ~together', faults' = 0,
         saved' >= saved, NEW j \in Slot, Start(j) \/ Step(j)
  PROVE  Unsent(j)'
<1>t. /\ TypeInv /\ Unsent(j) /\ LocalInv(j) /\ TypeOK /\ NonEmpty(j)
      /\ run \in [Slot -> Invocation] /\ run[j] \in Invocation
  BY DEF IInv, TypeInv, TypeOK, OnceInv
<1>l. /\ run[j].prev \in Nat /\ run[j].pos \in Int /\ LogEnd \in Nat
      /\ NextOffset(j) \in Nat /\ Batch(j) \subseteq Offset
      /\ Offset \subseteq Nat /\ run[j].msgs \in Seq(Offset)
  BY <1>t, LocalTypes, BoundAssumption DEF Offset
<1>r. Return(j) => Unsent(j)'
  <2>1. Return(j) => run'[j].msgs = <<>> /\ run'[j].pc = "idle"
    BY <1>t DEF Return, Idle
  <2> QED
    BY <2>1, IdleUnsent
<1>k. ASSUME NEW k \in Slot, k # j
      PROVE  ~At(j, "idle") => run[k].pc = "idle"
  BY <1>k DEF Lone, At
<1>1. CASE Start(j) \/ ReadOffset(j) \/ InitOffset(j)
  <2>1. run[j].pc \in {"idle", "readOffset", "initOffset"}
    BY <1>1 DEF Start, ReadOffset, InitOffset, At
  <2>2. run[j].msgs = <<>>
    BY <1>t, <2>1 DEF LocalInv, Fresh
  <2>3. run'[j].msgs = <<>> /\ run'[j].pc # "consume"
    BY <1>t, <1>1, <2>2
       DEF Start, ReadOffset, InitOffset, PutAnswered, Goto, Return, Idle,
           Invocation
  <2> QED
    BY <2>3, IdleUnsent
<1>2. CASE ReadEnd(j)
  <2>1. /\ run[j].pc = "readEnd" /\ run'[j].pc = "consume"
        /\ run'[j].msgs = run[j].msgs /\ run'[j].pos = run[j].prev + 1
        /\ delivered' = delivered
    BY <1>t, <1>2 DEF ReadEnd, ConsumeFrom, At, Invocation, sink
  <2>2. run'[j].msgs = <<>> /\ Batch(j)' = {}
    BY <1>t, <2>1 DEF Unsent, Batch, Range
  <2>3. run[j].prev = saved
    BY <2>1 DEF Lone, Current, PastRead
  <2>4. ASSUME NEW o \in Offset, o >= run'[j].pos
        PROVE  delivered[o] = 0
    <3>1. \A k \in Slot : run[k].pc # "updateOffset"
      BY <1>k, <2>1 DEF At
    <3>2. ~(o <= saved)
      BY <1>l, <2>1, <2>3, <2>4
    <3>3. ~(delivered[o] > 0)
      BY <3>1, <3>2 DEF OnceInv, SentOnce
    <3>4. delivered[o] \in Nat
      BY <1>t, BoundAssumption DEF TypeOK
    <3> QED
      BY <3>3, <3>4
  <2> QED
    BY <2>1, <2>2, <2>4 DEF Unsent
<1>3. CASE Fetch(j) \/ OutOfRange(j)
  <2>1. /\ run[j].pc = "consume" /\ run'[j].pc = "consume"
        /\ run'[j].msgs = run[j].msgs /\ run'[j].prev = run[j].prev
        /\ delivered' = delivered /\ run'[j].pos \in {run[j].pos, Awaiting}
    BY <1>t, <1>3 DEF Fetch, OutOfRange, At, Invocation, sink
  <2>2. Batch(j)' = Batch(j) /\ NextOffset(j)' = NextOffset(j)
    BY <2>1 DEF Batch, NextOffset
  <2> QED
    BY <1>t, <2>1, <2>2 DEF Unsent, BeforeSend
<1>4. CASE ResetPosition(j)
  <2>1. /\ run[j].pc = "consume" /\ run'[j].pc = "consume"
        /\ run'[j].msgs = run[j].msgs /\ run'[j].prev = run[j].prev
        /\ delivered' = delivered /\ run'[j].pos = LogEnd
    BY <1>t, <1>4 DEF ResetPosition, At, Invocation, sink
  <2>2. Batch(j)' = Batch(j) /\ NextOffset(j)' = NextOffset(j)
    BY <2>1 DEF Batch, NextOffset
  <2>3. run[j].msgs = <<>> \/ NextOffset(j) <= LogEnd
    <3>1. CASE run[j].msgs # <<>>
      <4>1. Last(run[j].msgs) \in Batch(j)
        BY <1>l, <3>1, LastFacts DEF Batch
      <4>2. Last(run[j].msgs) < LogEnd
        BY <1>t, <4>1 DEF LocalInv, BatchSound
      <4>3. Last(run[j].msgs) \in Nat /\ NextOffset(j) = Last(run[j].msgs) + 1
        BY <1>l, <3>1, <4>1 DEF NextOffset
      <4> QED
        BY <1>l, <4>2, <4>3
    <3> QED
      BY <3>1
  <2>4. ASSUME NEW o \in Offset, o >= LogEnd
        PROVE  delivered[o] = 0
    <3>1. ~(o < LogEnd)
      BY <1>l, <2>4
    <3>2. ~(delivered[o] > 0) /\ delivered[o] \in Nat
      BY <1>t, <3>1, BoundAssumption DEF OnceInv, SentOnce, TypeOK
    <3> QED
      BY <3>2
  <2> QED
    BY <1>t, <2>1, <2>2, <2>3, <2>4 DEF Unsent, BeforeSend
<1>5. CASE Yield(j)
  <2> DEFINE o == run[j].pos
             msgs == Append(run[j].msgs, o)
  <2>1. /\ run[j].pc = "consume" /\ Buffered(j) /\ delivered' = delivered
    BY <1>5 DEF Yield, At, sink
  <2>2. o \in Offset /\ o # Awaiting
    BY <1>t, LocalTypes, BoundAssumption, <2>1
       DEF Buffered, Awaiting, LocalInv, PositionSound, Offset
  <2>3. /\ msgs # <<>> /\ Last(msgs) = o /\ Range(msgs) = Batch(j) \cup {o}
    BY <1>l, <2>2, AppendFacts, SMTT(30) DEF Batch
  <2>4. /\ run'[j].msgs = msgs
        /\ \/ run'[j].pc = "saveOriginal"
           \/ run'[j].pc = "consume" /\ run'[j].pos = o + 1
    BY <1>t, <1>5, <2>1 DEF Yield, Consumed, Invocation
  <2> HIDE DEF msgs
  <2>5. Batch(j)' = Batch(j) \cup {o} /\ NextOffset(j)' = o + 1
    BY <2>3, <2>4 DEF Batch, NextOffset
  <2>6. /\ delivered[o] = 0
        /\ \A x \in Offset : x >= o + 1 => delivered[x] = 0
    <3>1. \A x \in Offset : x >= o => delivered[x] = 0
      BY <1>t, <2>1, <2>2 DEF Unsent
    <3>2. o \in Nat /\ \A x \in Offset : x >= o + 1 => x >= o
      BY <1>l, <2>2
    <3> QED
      BY <2>2, <3>1, <3>2
  <2>7. \A x \in Batch(j) : x < o + 1
    <3>1. run[j].msgs = <<>> => Batch(j) = {}
      BY DEF Batch, Range
    <3>2. \A x \in Batch(j) : x < NextOffset(j) /\ x \in Nat
      BY <1>t, <1>l DEF Unsent
    <3>3. Batch(j) = {} \/ NextOffset(j) <= o
      BY <1>t, <2>1, <2>2, <3>1 DEF Unsent
    <3> QED
      BY <1>l, <3>2, <3>3
  <2>8. \A x \in Batch(j) : delivered[x] = 0
    BY <1>t, <2>1 DEF Unsent, BeforeSend
  <2>9. o < o + 1 /\ o + 1 <= o + 1
    BY <1>l
  <2> HIDE DEF o
  <2> QED
    BY <2>1, <2>4, <2>5, <2>6, <2>7, <2>8, <2>9 DEF Unsent
<1>6. CASE Timeout(j)
  <2>1. CASE run[j].msgs = <<>>
    BY <1>r, <1>6, <2>1 DEF Timeout
  <2>2. CASE run[j].msgs # <<>>
    <3>1. /\ run[j].pc = "consume" /\ run'[j].pc = "saveOriginal"
          /\ run'[j].msgs = run[j].msgs /\ delivered' = delivered
      BY <1>t, <1>6, <2>2 DEF Timeout, Consumed, At, Invocation, sink
    <3>2. Batch(j)' = Batch(j) /\ NextOffset(j)' = NextOffset(j)
      BY <2>2, <3>1 DEF Batch, NextOffset
    <3> QED
      BY <1>t, <3>1, <3>2 DEF Unsent, BeforeSend
  <2> QED
    BY <2>1, <2>2
<1>7. CASE (SaveOriginal(j) \/ SaveDatadog(j)) /\ ~Return(j)
  <2>1. /\ run[j].pc \in {"saveOriginal", "saveDatadog"}
        /\ run'[j].pc \in {"saveDatadog", "send"}
        /\ run'[j].msgs = run[j].msgs /\ run'[j].prev = run[j].prev
        /\ delivered' = delivered
    BY <1>t, <1>7
       DEF SaveOriginal, SaveDatadog, PutAnswered, Goto, At, Invocation, sink
  <2>2. Batch(j)' = Batch(j) /\ NextOffset(j)' = NextOffset(j)
    BY <2>1 DEF Batch, NextOffset
  <2> QED
    BY <1>t, <2>1, <2>2 DEF Unsent, BeforeSend
<1>8. CASE Send(j)
  <2>1. /\ run'[j].pc = "updateOffset" /\ run'[j].msgs = run[j].msgs
        /\ run'[j].prev = run[j].prev
    BY <1>t, <1>8 DEF Send, Goto, Invocation
  <2>2. Batch(j)' = Batch(j) /\ NextOffset(j)' = NextOffset(j)
    BY <2>1 DEF Batch, NextOffset
  <2> QED
    BY <1>t, <2>1, <2>2 DEF Unsent, BeforeSend
<1> QED
  BY <1>r, <1>1, <1>2, <1>3, <1>4, <1>5, <1>6, <1>7, <1>8
     DEF Step, Consume, DecodeRaises, ConvertRaises, UpdateOffset

\* The instances that take no step are free, or the step is nobody's.
LEMMA OnceStep ==
  ASSUME IInv, Lone, OnceInv, [Next]_vars, ~together', faults' = 0,
         saved' >= saved
  PROVE  OnceInv'
<1>t. TypeInv
  BY DEF IInv
<1>1. ASSUME NEW j \in Slot
      PROVE  Unsent(j)'
  <2>1. CASE run'[j] = run[j] /\ delivered' = delivered
    <3>1. Batch(j)' = Batch(j) /\ NextOffset(j)' = NextOffset(j)
      BY <2>1 DEF Batch, NextOffset
    <3> QED
      BY <2>1, <3>1 DEF OnceInv, Unsent
  <2>2. CASE Start(j) \/ Step(j)
    BY <2>2, UnsentStep
  <2>3. ~Abandon(j)
    BY <1>t, FaultStep
  <2>4. ASSUME NEW i \in Slot, Send(i), i # j, run'[j] = run[j]
        PROVE  Unsent(j)'
    <3>1. run[j].pc = "idle"
      BY <2>4 DEF Send, At, Lone
    <3>2. run[j].msgs = <<>>
      BY <3>1 DEF IInv, LocalInv, Fresh
    <3> QED
      BY <2>4, <3>1, <3>2, IdleUnsent
  <2>5. \/ UNCHANGED run \/ Start(j) \/ Step(j) \/ Abandon(j)
        \/ \E i \in Slot : i # j /\ (Start(i) \/ Step(i) \/ Abandon(i))
    BY DEF Next, Produce, Expire, vars
  <2>6. run'[j] = run[j] \/ Start(j) \/ Step(j) \/ Abandon(j)
    BY <1>t, <2>5, Frame
  <2>7. CASE run'[j] = run[j] /\ delivered' # delivered
    <3>1. PICK i \in Slot : Send(i)
      BY <1>t, <2>7, DeliveredStep
    <3> QED
      BY <2>2, <2>4, <2>7, <3>1 DEF Step
  <2> QED
    BY <2>1, <2>2, <2>3, <2>6, <2>7
<1>2. \A o \in Offset : SentOnce(o)'
  BY SentStep
<1> QED
  BY <1>1, <1>2 DEF OnceInv

\* As long as executions follow each other and nothing fails, no record is
\* delivered twice: each execution starts behind all that was delivered.
THEOREM OnceAlone == Spec => []AtMostOnceAlone
<1> DEFINE Calm == ~together /\ faults = 0
<1>1. Init => (~together => Lone) /\ (Calm => OnceInv)
  <2> SUFFICES ASSUME Init
               PROVE  (~together => Lone) /\ OnceInv
    OBVIOUS
  <2>1. ~together => Lone
    BY DEF Init, Lone, Current, PastRead, Idle, At
  <2>2. /\ \A o \in Offset : delivered[o] = 0
        /\ \A i \in Slot : run[i].pc = "idle" /\ run[i].msgs = <<>>
    BY DEF Init, Idle
  <2>3. \A i \in Slot : Batch(i) = {}
    BY <2>2 DEF Batch, Range
  <2> QED
    BY <2>1, <2>2, <2>3 DEF OnceInv, SentOnce, Unsent
<1>2. IInv /\ [Next]_vars /\ (~together => Lone) /\ (Calm => OnceInv)
        => (~together => Lone)' /\ (Calm => OnceInv)'
  <2> SUFFICES ASSUME IInv, [Next]_vars, ~together => Lone, Calm => OnceInv
               PROVE  (~together => Lone)' /\ (Calm => OnceInv)'
    OBVIOUS
  <2>1. ~together' => Lone' /\ saved' >= saved /\ ~together
    BY LoneStep, TogetherStep
  <2>2. faults' = 0 => faults = 0
    BY FaultStep DEF IInv
  <2>3. ~together' /\ faults' = 0 => OnceInv'
    BY <2>1, <2>2, OnceStep
  <2> QED
    BY <2>1, <2>3
<1>3. (Calm => OnceInv) /\ IInv => AtMostOnceAlone
  <2>1. ASSUME OnceInv, IInv, NEW o \in Offset
        PROVE  delivered[o] <= 1
    <3>1. delivered[o] \in Nat
      BY <2>1, BoundAssumption DEF IInv, TypeInv, TypeOK
    <3> QED
      BY <2>1, <3>1 DEF OnceInv, SentOnce
  <2> QED
    BY <2>1 DEF AtMostOnceAlone
<1> QED
  BY <1>1, <1>2, <1>3, Inductive, PTL DEF Spec

-----------------------------------------------------------------------------
(* The objects of the executions                                             *)

KeptBy(n, o) ==
  o \in original[n] /\ (KindAt(o) \notin Skipped => o \in datadog[n])

\* The offsets that can be read back, or were jumped over.
Archive ==
  lost \cup {o \in Offset : o < LogEnd /\ \E n \in 1 .. MaxId : KeptBy(n, o)}

Gathering == {"readOffset", "initOffset", "readEnd", "consume", "saveOriginal"}

\* An execution's objects are empty until it puts its batch there.
FiledObjects(i) ==
  /\ run[i].pc \in Gathering =>
       original[run[i].id] = {} /\ datadog[run[i].id] = {}
  /\ run[i].pc = "saveDatadog" =>
       Batch(i) \subseteq original[run[i].id] /\ datadog[run[i].id] = {}
  /\ run[i].pc \in {"send", "updateOffset"} =>
       /\ Batch(i) \subseteq original[run[i].id]
       /\ Convertible(Batch(i)) \subseteq datadog[run[i].id]

\* Its id has been handed out, and the offset it started from was archived by
\* the executions before it.
Filed(i) ==
  /\ run[i].pc # "idle" => run[i].id \in 1 .. clock
  /\ run[i].pc \in Reading => 1 .. run[i].prev \subseteq Archive
  /\ FiledObjects(i)

\* No object is written before its id is handed out, nor by two executions.
NewIds == \A n \in 1 .. MaxId : n > clock => original[n] = {} /\ datadog[n] = {}

OwnIds ==
  \A i, j \in Slot :
    /\ run[i].pc # "idle" /\ run[j].pc # "idle" /\ run[i].id = run[j].id
    => i = j

AuditInv ==
  /\ 1 .. saved \subseteq Archive
  /\ NewIds
  /\ OwnIds
  /\ \A i \in Slot : Filed(i)

\* What a step does to the objects.
Puts(i, n) ==
  /\ \A m \in 1 .. MaxId :
       m # n => original'[m] = original[m] /\ datadog'[m] = datadog[m]
  /\ \/ /\ run[i].pc = "saveOriginal" /\ original'[n] = Batch(i)
        /\ datadog'[n] = datadog[n]
     \/ /\ run[i].pc = "saveDatadog" /\ original'[n] = original[n]
        /\ datadog'[n] = Convertible(Batch(i))

LEMMA ObjectStep ==
  ASSUME TypeInv, \A i \in Slot : Filed(i), [Next]_vars
  PROVE  \/ UNCHANGED audit
         \/ \E i \in Slot : /\ SaveOriginal(i) \/ SaveDatadog(i)
                            /\ run[i].id \in 1 .. MaxId /\ Puts(i, run[i].id)
<1>1. \/ UNCHANGED audit
      \/ \E i \in Slot : SaveOriginal(i) \/ SaveDatadog(i)
  BY ZenonT(40)
     DEF Next, Step, Consume, vars, audit, Produce, Expire, Start, ReadOffset,
         InitOffset, ReadEnd, ConsumeFrom, Fetch, DecodeRaises, OutOfRange,
         ResetPosition, Yield, Timeout, Send, ConvertRaises, UpdateOffset,
         Abandon
<1>2. /\ original \in [1 .. MaxId -> SUBSET Offset]
      /\ datadog \in [1 .. MaxId -> SUBSET Offset]
      /\ clock \in 0 .. MaxId /\ MaxId \in Nat
  BY BoundAssumption DEF TypeInv, TypeOK
<1>3. ASSUME NEW i \in Slot, SaveOriginal(i) \/ SaveDatadog(i)
      PROVE  run[i].id \in 1 .. MaxId
  <2>1. run[i].id \in 1 .. clock
    BY <1>3 DEF SaveOriginal, SaveDatadog, At, Filed
  <2> QED
    BY <1>2, <2>1
<1>4. ASSUME NEW i \in Slot, SaveOriginal(i), run[i].id \in 1 .. MaxId
      PROVE  Puts(i, run[i].id)
  BY <1>2, <1>4 DEF SaveOriginal, At, Puts
<1>5. ASSUME NEW i \in Slot, SaveDatadog(i), run[i].id \in 1 .. MaxId
      PROVE  Puts(i, run[i].id)
  BY <1>2, <1>5 DEF SaveDatadog, At, Puts
<1> QED
  BY <1>1, <1>3, <1>4, <1>5

\* No object loses an offset.
LEMMA ObjectsGrow ==
  ASSUME TypeInv, \A i \in Slot : Filed(i), [Next]_vars, NEW n \in 1 .. MaxId
  PROVE  original[n] \subseteq original'[n] /\ datadog[n] \subseteq datadog'[n]
<1>1. CASE UNCHANGED audit
  BY <1>1 DEF audit
<1>2. ASSUME NEW i \in Slot, Puts(i, run[i].id)
      PROVE  /\ original[n] \subseteq original'[n]
             /\ datadog[n] \subseteq datadog'[n]
  BY <1>2 DEF Puts, Filed, FiledObjects, Gathering
<1> QED
  BY <1>1, <1>2, ObjectStep

\* The records that are there stay what they are.
LEMMA KindStep ==
  ASSUME TypeInv, [Next]_vars, NEW o \in Offset, o < LogEnd
  PROVE  KindAt(o)' = KindAt(o) /\ o < LogEnd'
<1>1. log \in Seq(Kind) /\ LogEnd \in Nat /\ o \in Nat
  BY BoundAssumption DEF TypeInv, TypeOK, LogEnd, Offset
<1>2. \/ UNCHANGED log
      \/ \E k \in Kind : log' = Append(log, k)
  BY ZenonT(60) DEF Next, Step, Consume, vars, topic, Produce, Expire, Start, ReadOffset,
         InitOffset, ReadEnd, ConsumeFrom, Fetch, DecodeRaises, OutOfRange,
         ResetPosition, Yield, Timeout, SaveOriginal, SaveDatadog, Send,
         ConvertRaises, UpdateOffset, Abandon
<1> QED
  BY <1>1, <1>2 DEF LogEnd, KindAt

LEMMA ArchiveGrows ==
  ASSUME TypeInv, \A i \in Slot : Filed(i), [Next]_vars
  PROVE  Archive \subseteq Archive'
<1>1. lost \subseteq lost'
  BY GrowsStep DEF Grows
<1>2. ASSUME NEW o \in Offset, NEW n \in 1 .. MaxId, o < LogEnd, KeptBy(n, o)
      PROVE  o < LogEnd' /\ KeptBy(n, o)'
  <2>1. KindAt(o)' = KindAt(o) /\ o < LogEnd'
    BY <1>2, KindStep
  <2>2. original[n] \subseteq original'[n] /\ datadog[n] \subseteq datadog'[n]
    BY ObjectsGrow
  <2> QED
    BY <1>2, <2>1, <2>2 DEF KeptBy
<1> QED
  BY <1>1, <1>2 DEF Archive

\* A batch that has been put twice is archived.
LEMMA BatchArchived ==
  ASSUME IInv, NEW i \in Slot, Filed(i), run[i].pc = "updateOffset"
  PROVE  Batch(i) \subseteq Archive
<1>1. run[i].id \in 1 .. MaxId
  <2>1. run[i].id \in 1 .. clock /\ clock \in 0 .. MaxId /\ MaxId \in Nat
    BY BoundAssumption DEF Filed, IInv, TypeInv, TypeOK
  <2> QED
    BY <2>1
<1>2. ASSUME NEW o \in Batch(i)
      PROVE  o \in Offset /\ o < LogEnd /\ KeptBy(run[i].id, o)
  BY <1>2, LocalTypes
     DEF IInv, LocalInv, BatchSound, Filed, FiledObjects, KeptBy, Convertible
<1> QED
  BY <1>1, <1>2 DEF Archive

\* Where an execution gets while it keeps its id, and what it holds then.
Advances(i) ==
  /\ run'[i].id = run[i].id /\ clock' = clock
  /\ \/ /\ run[i].pc \in Gathering /\ run'[i].pc \in Gathering
        /\ UNCHANGED audit
     \/ /\ run[i].pc = "saveOriginal" /\ run'[i].pc = "saveDatadog"
        /\ run'[i].msgs = run[i].msgs /\ SaveOriginal(i)
     \/ /\ run[i].pc = "saveDatadog" /\ run'[i].pc = "send"
        /\ run'[i].msgs = run[i].msgs /\ SaveDatadog(i)
     \/ /\ run[i].pc = "send" /\ run'[i].pc = "updateOffset"
        /\ run'[i].msgs = run[i].msgs /\ UNCHANGED audit

LEMMA AdvanceStep ==
  ASSUME TypeInv, NEW i \in Slot, Step(i) \/ Abandon(i), run'[i].pc # "idle"
  PROVE  Advances(i)
<1>1. run \in [Slot -> Invocation] /\ run[i] \in Invocation
  BY DEF TypeInv, TypeOK
<1>2. ~Return(i)
  BY <1>1 DEF Return, Idle
<1>3. CASE ReadOffset(i)
  BY <1>1, <1>3
     DEF ReadOffset, At, Goto, Invocation, Gathering, Advances, starts
<1>4. CASE InitOffset(i)
  BY <1>1, <1>2, <1>4
     DEF InitOffset, PutAnswered, At, Goto, Invocation, Gathering, Advances,
         starts
<1>5. CASE ReadEnd(i) \/ Fetch(i) \/ OutOfRange(i) \/ ResetPosition(i)
  BY <1>1, <1>5
     DEF ReadEnd, ConsumeFrom, Fetch, OutOfRange, ResetPosition, At, Invocation,
         Gathering, Advances, starts
<1>6. CASE Yield(i) \/ Timeout(i)
  BY <1>1, <1>2, <1>6
     DEF Yield, Timeout, Consumed, At, Invocation, Gathering, Advances, starts
<1>7. CASE SaveOriginal(i) \/ SaveDatadog(i)
  BY <1>1, <1>2, <1>7
     DEF SaveOriginal, SaveDatadog, PutAnswered, At, Goto, Invocation,
         Advances, starts
<1>8. CASE Send(i)
  BY <1>1, <1>8 DEF Send, At, Goto, Invocation, Advances, starts
<1> QED
  BY <1>2, <1>3, <1>4, <1>5, <1>6, <1>7, <1>8
     DEF Step, Consume, DecodeRaises, ConvertRaises, UpdateOffset, Abandon

\* With one execution per millisecond, a start takes an id nobody has used.
LEMMA StartStep ==
  ASSUME TypeInv, ~SharedMs, NEW i \in Slot, Start(i)
  PROVE  /\ run[i].pc = "idle" /\ run'[i].pc = "readOffset"
         /\ run'[i].id = clock + 1 /\ clock' = clock + 1
         /\ clock + 1 \in 1 .. MaxId /\ UNCHANGED audit
BY DEF Start, At, TypeInv, TypeOK, Invocation

LEMMA ClockStep ==
  ASSUME TypeInv, [Next]_vars
  PROVE  clock' = clock \/ \E i \in Slot : Start(i)
BY ZenonT(40)
   DEF Next, Step, Consume, vars, starts, Produce, Expire, ReadOffset,
       InitOffset, ReadEnd, ConsumeFrom, Fetch, DecodeRaises, OutOfRange,
       ResetPosition, Yield, Timeout, SaveOriginal, SaveDatadog, Send,
       ConvertRaises, UpdateOffset, Abandon

\* What the conversion passes over does not change for a batch under way.
LEMMA ConvertibleStep ==
  ASSUME IInv, [Next]_vars, NEW i \in Slot, run'[i].msgs = run[i].msgs
  PROVE  /\ Batch(i)' = Batch(i)
         /\ Convertible(Batch(i))' = Convertible(Batch(i))
<1>1. Batch(i)' = Batch(i)
  BY DEF Batch
<1>2. ASSUME NEW o \in Batch(i)
      PROVE  KindAt(o)' = KindAt(o)
  BY <1>2, KindStep, LocalTypes DEF IInv, LocalInv, BatchSound
<1> QED
  BY <1>1, <1>2 DEF Convertible

\* Nobody but the execution itself writes its objects.
LEMMA OwnObjects ==
  ASSUME TypeInv, AuditInv, [Next]_vars, NEW j \in Slot,
         run[j].pc # "idle", ~SaveOriginal(j), ~SaveDatadog(j)
  PROVE  /\ run[j].id \in 1 .. MaxId
         /\ original'[run[j].id] = original[run[j].id]
         /\ datadog'[run[j].id] = datadog[run[j].id]
<1>1. run[j].id \in 1 .. MaxId
  <2>1. run[j].id \in 1 .. clock /\ clock \in 0 .. MaxId /\ MaxId \in Nat
    BY BoundAssumption DEF AuditInv, Filed, TypeInv, TypeOK
  <2> QED
    BY <2>1
<1>2. CASE UNCHANGED audit
  BY <1>1, <1>2 DEF audit
<1>3. ASSUME NEW i \in Slot, SaveOriginal(i) \/ SaveDatadog(i),
             Puts(i, run[i].id)
      PROVE  /\ original'[run[j].id] = original[run[j].id]
             /\ datadog'[run[j].id] = datadog[run[j].id]
  <2>1. i # j /\ run[i].pc # "idle"
    BY <1>3 DEF Puts
  <2>2. run[i].id # run[j].id
    BY <2>1 DEF AuditInv, OwnIds
  <2> QED
    BY <1>1, <1>3, <2>2 DEF Puts
<1> QED
  BY <1>1, <1>2, <1>3, ObjectStep DEF AuditInv

\* Who is under way has just started or keeps its id.
LEMMA IdStep ==
  ASSUME TypeInv, [Next]_vars, NEW j \in Slot, run'[j].pc # "idle"
  PROVE  \/ Start(j)
         \/ /\ run[j].pc # "idle" /\ run'[j].id = run[j].id
            /\ run'[j] = run[j] \/ Advances(j)
<1>1. CASE run'[j] = run[j]
  BY <1>1
<1>2. CASE Step(j) \/ Abandon(j)
  BY <1>2, AdvanceStep DEF Advances, Gathering
<1>3. UNCHANGED run \/ \E i \in Slot : Start(i) \/ Step(i) \/ Abandon(i)
  BY DEF Next, Produce, Expire, vars
<1> QED
  BY <1>1, <1>2, <1>3, Frame

LEMMA OwnIdsStep ==
  ASSUME TypeInv, AuditInv, ~SharedMs, [Next]_vars
  PROVE  OwnIds'
<1> SUFFICES ASSUME NEW i \in Slot, NEW j \in Slot, run'[i].pc # "idle",
                    run'[j].pc # "idle", run'[i].id = run'[j].id
             PROVE  i = j
  BY DEF OwnIds
<1>1. ASSUME NEW k \in Slot, NEW m \in Slot, k # m, Start(k),
             run'[m].pc # "idle"
      PROVE  run'[k].id # run'[m].id
  <2>1. run'[k].id = clock + 1
    BY <1>1, StartStep
  <2>2. run'[m] = run[m]
    BY <1>1, Frame
  <2>3. run[m].id \in 1 .. clock /\ clock \in Int
    BY <1>1, <2>2, BoundAssumption DEF AuditInv, Filed, TypeInv, TypeOK
  <2> QED
    BY <2>1, <2>2, <2>3
<1>2. CASE Start(i) \/ Start(j)
  BY <1>1, <1>2
<1>3. CASE ~Start(i) /\ ~Start(j)
  <2>1. /\ run[i].pc # "idle" /\ run'[i].id = run[i].id
        /\ run[j].pc # "idle" /\ run'[j].id = run[j].id
    BY <1>3, IdStep
  <2> QED
    BY <2>1 DEF AuditInv, OwnIds
<1> QED
  BY <1>2, <1>3

LEMMA NewIdsStep ==
  ASSUME TypeInv, AuditInv, ~SharedMs, [Next]_vars
  PROVE  NewIds' /\ clock' >= clock
<1>1. clock \in 0 .. MaxId /\ MaxId \in Nat
  BY BoundAssumption DEF TypeInv, TypeOK
<1>2. ASSUME NEW i \in Slot, Start(i)
      PROVE  NewIds' /\ clock' >= clock
  <2>1. clock' = clock + 1 /\ UNCHANGED audit
    BY <1>2, StartStep
  <2>2. \A n \in 1 .. MaxId : n > clock + 1 => n > clock
    BY <1>1
  <2> QED
    BY <1>1, <2>1, <2>2 DEF audit, AuditInv, NewIds
<1>3. CASE clock' = clock
  <2>1. CASE UNCHANGED audit
    BY <1>1, <1>3, <2>1 DEF audit, AuditInv, NewIds
  <2>2. ASSUME NEW i \in Slot, Puts(i, run[i].id)
        PROVE  NewIds'
    <3>1. run[i].id \in 1 .. clock
      BY <2>2 DEF Puts, AuditInv, Filed, FiledObjects
    <3>2. \A n \in 1 .. MaxId : n > clock => n # run[i].id
      BY <1>1, <3>1
    <3> QED
      BY <1>3, <2>2, <3>2 DEF Puts, AuditInv, NewIds
  <2> QED
    BY <1>1, <1>3, <2>1, <2>2, ObjectStep DEF AuditInv
<1> QED
  BY <1>2, <1>3, ClockStep

\* The offset an execution starts from stays archived.
LEMMA PrevArchived ==
  ASSUME IInv, AuditInv, [Next]_vars, NEW j \in Slot, run'[j].pc \in Reading
  PROVE  1 .. run'[j].prev \subseteq Archive'
<1>1. Archive \subseteq Archive'
  BY ArchiveGrows DEF IInv, AuditInv
<1>2. CASE run'[j] = run[j]
  BY <1>1, <1>2 DEF AuditInv, Filed
<1>3. CASE Start(j) \/ Step(j) \/ Abandon(j)
  <2>1. PastRead(j)' /\ ~At(j, "initOffset")'
    BY DEF PastRead, At, Reading, Holding
  <2>2. CASE ReadOffset(j) /\ saved = Absent
    <3>1. run'[j].pc = "initOffset"
      BY <2>2 DEF ReadOffset, Goto, IInv, TypeInv, TypeOK, Invocation
    <3> QED
      BY <3>1 DEF Reading, Holding
  <2>3. CASE run'[j].prev = saved
    BY <1>1, <2>3 DEF AuditInv
  <2>4. CASE run'[j].prev = 0
    BY <2>4
  <2>5. CASE /\ PastRead(j) /\ ~At(j, "initOffset")
             /\ run'[j].prev = run[j].prev
    <3>1. run[j].pc \in Stage
      BY LocalTypes DEF IInv
    <3>2. run[j].pc \in Reading
      BY <2>5, <3>1 DEF PastRead, At, Stage, Reading, Holding
    <3> QED
      BY <1>1, <2>5, <3>2 DEF AuditInv, Filed
  <2> QED
    BY <1>3, <2>1, <2>2, <2>3, <2>4, <2>5, PrevStep
<1>4. UNCHANGED run \/ \E i \in Slot : Start(i) \/ Step(i) \/ Abandon(i)
  BY DEF Next, Produce, Expire, vars
<1> QED
  BY <1>2, <1>3, <1>4, Frame DEF IInv

\* The objects of an execution follow its stage.
LEMMA ObjectsStep ==
  ASSUME IInv, AuditInv, ~SharedMs, [Next]_vars, NEW j \in Slot
  PROVE  FiledObjects(j)'
<1>t. TypeInv
  BY DEF IInv
<1>1. CASE run'[j].pc = "idle"
  BY <1>1 DEF FiledObjects, Gathering
<1>2. CASE Start(j)
  <2>1. /\ run'[j].pc = "readOffset" /\ run'[j].id = clock + 1
        /\ clock + 1 \in 1 .. MaxId /\ UNCHANGED audit
    BY <1>t, <1>2, StartStep
  <2>2. clock + 1 > clock
    BY <1>t, BoundAssumption DEF TypeInv, TypeOK
  <2>3. original[clock + 1] = {} /\ datadog[clock + 1] = {}
    BY <2>1, <2>2 DEF AuditInv, NewIds
  <2> QED
    BY <2>1, <2>3 DEF FiledObjects, audit
<1>3. CASE run[j].pc # "idle" /\ run'[j] = run[j]
  <2>1. ~SaveOriginal(j) /\ ~SaveDatadog(j)
    BY <1>t, <1>3
       DEF SaveOriginal, SaveDatadog, PutAnswered, Goto, Return, Idle, At,
           TypeInv, TypeOK, Invocation
  <2>2. /\ original'[run[j].id] = original[run[j].id]
        /\ datadog'[run[j].id] = datadog[run[j].id]
    BY <1>t, <1>3, <2>1, OwnObjects
  <2>3. /\ Batch(j)' = Batch(j)
        /\ Convertible(Batch(j))' = Convertible(Batch(j))
    BY <1>3, ConvertibleStep
  <2> QED
    BY <1>3, <2>2, <2>3 DEF FiledObjects, AuditInv, Filed
<1>4. CASE run[j].pc # "idle" /\ run'[j].id = run[j].id /\ Advances(j)
  <2>1. CASE /\ run[j].pc \in Gathering /\ run'[j].pc \in Gathering
             /\ UNCHANGED audit
    BY <1>4, <2>1 DEF FiledObjects, AuditInv, Filed, audit, Gathering
  <2>2. CASE /\ run[j].pc = "saveOriginal" /\ run'[j].pc = "saveDatadog"
             /\ run'[j].msgs = run[j].msgs /\ SaveOriginal(j)
    <3>1. run[j].id \in 1 .. MaxId
      <4>1. run[j].id \in 1 .. clock /\ clock \in 0 .. MaxId /\ MaxId \in Nat
        BY <1>t, <1>4, BoundAssumption DEF AuditInv, Filed, TypeInv, TypeOK
      <4> QED
        BY <4>1
    <3>2. original'[run[j].id] = Batch(j) /\ datadog' = datadog
      BY <1>t, <2>2, <3>1 DEF SaveOriginal, TypeInv, TypeOK
    <3>3. Batch(j)' = Batch(j)
      BY <2>2, ConvertibleStep
    <3> QED
      BY <1>4, <2>2, <3>2, <3>3 DEF FiledObjects, AuditInv, Filed, Gathering
  <2>3. CASE /\ run[j].pc = "saveDatadog" /\ run'[j].pc = "send"
             /\ run'[j].msgs = run[j].msgs /\ SaveDatadog(j)
    <3>1. run[j].id \in 1 .. MaxId
      <4>1. run[j].id \in 1 .. clock /\ clock \in 0 .. MaxId /\ MaxId \in Nat
        BY <1>t, <1>4, BoundAssumption DEF AuditInv, Filed, TypeInv, TypeOK
      <4> QED
        BY <4>1
    <3>2. datadog'[run[j].id] = Convertible(Batch(j)) /\ original' = original
      BY <1>t, <2>3, <3>1 DEF SaveDatadog, TypeInv, TypeOK
    <3>3. /\ Batch(j)' = Batch(j)
          /\ Convertible(Batch(j))' = Convertible(Batch(j))
      BY <2>3, ConvertibleStep
    <3> QED
      BY <1>4, <2>3, <3>2, <3>3 DEF FiledObjects, AuditInv, Filed, Gathering
  <2>4. CASE /\ run[j].pc = "send" /\ run'[j].pc = "updateOffset"
             /\ run'[j].msgs = run[j].msgs /\ UNCHANGED audit
    <3>1. /\ Batch(j)' = Batch(j)
          /\ Convertible(Batch(j))' = Convertible(Batch(j))
      BY <2>4, ConvertibleStep
    <3> QED
      BY <1>4, <2>4, <3>1 DEF FiledObjects, AuditInv, Filed, Gathering, audit
  <2> QED
    BY <1>4, <2>1, <2>2, <2>3, <2>4 DEF Advances
<1> QED
  BY <1>t, <1>1, <1>2, <1>3, <1>4, IdStep

LEMMA AuditStep ==
  ASSUME IInv, AuditInv, ~SharedMs, [Next]_vars
  PROVE  AuditInv'
<1>t. TypeInv /\ TypeInv' /\ Archive \subseteq Archive'
  BY TypeStep, ArchiveGrows DEF IInv, AuditInv
<1>1. (1 .. saved \subseteq Archive)'
  <2>1. CASE saved' = saved
    BY <1>t, <2>1 DEF AuditInv
  <2>2. CASE saved' # saved
    <3>1. PICK i \in Slot :
            \/ InitOffset(i) /\ saved' = 0
            \/ /\ UpdateOffset(i)
               /\ saved' = Last(run[i].msgs) /\ saved' \in Batch(i)
               /\ run[i].prev <= saved'
               /\ 1 .. saved' \subseteq Covered
      BY <2>2, SavedStep
    <3>2. CASE saved' = 0
      BY <3>2
    <3>3. CASE UpdateOffset(i) /\ saved' = Last(run[i].msgs)
      <4>1. run[i].pc = "updateOffset" /\ run[i].msgs # <<>>
        BY <1>t, <3>3 DEF UpdateOffset, At, TypeInv, NonEmpty, Holding
      <4>2. /\ Batch(i) \subseteq Archive /\ lost \subseteq Archive
            /\ 1 .. run[i].prev \subseteq Archive
            /\ run[i].prev + 1 .. NextOffset(i) - 1 \subseteq Batch(i) \cup lost
        BY <4>1, BatchArchived
           DEF AuditInv, Filed, Reading, Holding, IInv, LocalInv, BatchSound,
               Archive
      <4>3. /\ NextOffset(i) = saved' + 1 /\ run[i].prev \in Nat
            /\ saved' \in Int
        <5>1. run[i].msgs \in Seq(Offset) /\ run[i].prev \in Offset
          BY <1>t, LocalTypes
        <5>2. Last(run[i].msgs) \in Offset
          BY <4>1, <5>1, LastFacts
        <5>3. NextOffset(i) = Last(run[i].msgs) + 1
          BY <4>1 DEF NextOffset
        <5> QED
          BY <3>3, <5>1, <5>2, <5>3 DEF Offset
      <4>4. ASSUME NEW x \in 1 .. saved'
            PROVE  x \in Archive
        <5>1. PICK a \in Nat, b \in Int : a = run[i].prev /\ b = saved' /\ NextOffset(i) = b + 1
          BY <4>3
        <5>2. x \in 1 .. b
          BY <5>1
        <5>3. x \in 1 .. a \/ x \in a + 1 .. (b + 1) - 1
          BY ONLY <5>2, a \in Nat, b \in Int
        <5>4. \/ x \in 1 .. run[i].prev
              \/ x \in run[i].prev + 1 .. NextOffset(i) - 1
          BY <5>1, <5>3, Zenon
        <5> QED
          BY <4>2, <5>4
      <4> QED
        BY <1>t, <4>4
    <3> QED
      BY <3>1, <3>2, <3>3
  <2> QED
    BY <2>1, <2>2
<1>2. NewIds' /\ OwnIds'
  BY <1>t, NewIdsStep, OwnIdsStep
<1>3. ASSUME NEW j \in Slot
      PROVE  Filed(j)'
  <2>1. FiledObjects(j)'
    BY ObjectsStep
  <2>2. run'[j].pc \in Reading => 1 .. run'[j].prev \subseteq Archive'
    BY PrevArchived
  <2>3. run'[j].pc # "idle" => run'[j].id \in 1 .. clock'
    <3>1. clock \in Int /\ clock' \in Int /\ clock >= 0 /\ clock' >= clock
      BY <1>t, NewIdsStep, BoundAssumption DEF TypeInv, TypeOK
    <3>2. CASE Start(j)
      BY <1>t, <3>1, <3>2, StartStep
    <3>3. CASE run[j].pc # "idle" /\ run'[j].id = run[j].id
      <4>1. run[j].id \in 1 .. clock
        BY <3>3 DEF AuditInv, Filed
      <4> QED
        BY <3>1, <3>3, <4>1
    <3> QED
      BY <1>t, <3>2, <3>3, IdStep
  <2> QED
    BY <2>1, <2>2, <2>3 DEF Filed
<1> QED
  BY <1>1, <1>2, <1>3 DEF AuditInv

\* Audit: when no two executions start within one millisecond, every offset
\* the stored one has passed can be read back from the objects of a single
\* execution or was jumped over, whatever fails between the four writes.
THEOREM AuditTrail ==
  ASSUME ~SharedMs
  PROVE  Spec => []AuditComplete
<1>1. Init => AuditInv
  <2> SUFFICES ASSUME Init
               PROVE  AuditInv
    OBVIOUS
  <2>1. /\ saved = -1 /\ \A i \in Slot : run[i].pc = "idle"
        /\ \A n \in 1 .. MaxId : original[n] = {} /\ datadog[n] = {}
    BY DEF Init, Absent, Idle
  <2> QED
    BY <2>1 DEF AuditInv, NewIds, OwnIds, Filed, FiledObjects, Reading, Holding,
                Gathering
<1>2. IInv /\ [Next]_vars /\ AuditInv => AuditInv'
  BY AuditStep
<1>3. AuditInv => AuditComplete
  BY DEF AuditInv, Archive, AuditComplete, KeptBy
<1> QED
  BY <1>1, <1>2, <1>3, Inductive, PTL DEF Spec

-----------------------------------------------------------------------------
(***************************************************************************)
(* The conversion. For every set of metric shapes, every batch and every    *)
(* length: a batch has no Datadog form exactly if one of its messages is    *)
(* poison, and the form of any other has each of its well-formed metrics    *)
(* once, in order.                                                          *)
(***************************************************************************)

Metrics(i) == batch[i].metrics

\* Batches and messages are sequences of a bounded length.
Bounded ==
  /\ batch \in Seq(Message) /\ Len(batch) <= MaxBatch
  /\ \A i \in 1 .. Len(batch) :
       /\ Metrics(i) \in Seq(Metric) /\ Len(Metrics(i)) <= MaxMetrics
       /\ batch[i].body \in {"broken", "uniterable", "list"}
       /\ batch[i].body # "list" => Metrics(i) = <<>>

\* The loop variables point at a message and, inside it, at a metric.
InLoops ==
  /\ msg \in 1 .. Len(batch) + 1 /\ item \in Nat
  /\ item > 0 => /\ msg <= Len(batch) /\ item <= Len(Metrics(msg))
              /\ batch[msg].body = "list"

\* What the loops have passed does not raise.
PassedIsSound ==
  /\ \A i \in 1 .. Len(batch) :
       i < msg => /\ batch[i].body # "uniterable"
                /\ \A j \in 1 .. Len(Metrics(i)) : ~Raises(Metrics(i)[j])
  /\ item > 0 => \A j \in 1 .. item - 1 : ~Raises(Metrics(msg)[j])

Ended ==
  /\ outcome \in {"running", "returned", "raised"}
  /\ outcome = "returned" => msg > Len(batch)
  /\ outcome = "raised" =>
       \E i \in 1 .. Len(batch) :
         \/ batch[i].body = "uniterable"
         \/ \E j \in 1 .. Len(Metrics(i)) : Raises(Metrics(i)[j])

ConversionInv == Bounded /\ InLoops /\ PassedIsSound /\ Ended

-----------------------------------------------------------------------------
\* A member of BoundedSeq is a sequence that is not longer than the bound.
LEMMA BoundedIsSeq ==
  ASSUME NEW S, NEW n \in Nat, NEW s \in BoundedSeq(S, n)
  PROVE  s \in Seq(S) /\ Len(s) <= n
<1>1. PICK l \in 0 .. n : s \in [1 .. l -> S]
  BY DEF BoundedSeq, SeqOf
<1> QED  BY <1>1

\* Every message is of one of the three forms.
LEMMA MessageForm ==
  ASSUME NEW message \in Message
  PROVE  /\ message.metrics \in Seq(Metric)
         /\ Len(message.metrics) <= MaxMetrics
         /\ message.body \in {"broken", "uniterable", "list"}
         /\ message.body # "list" => message.metrics = <<>>
<1>1. CASE message \in [body : {"broken", "uniterable"}, metrics : {<<>>}]
  <2>1. message.metrics = <<>> /\ message.body \in {"broken", "uniterable"}
    BY <1>1
  <2>2. <<>> \in Seq(Metric) /\ Len(<<>>) = 0
    OBVIOUS
  <2> QED  BY <2>1, <2>2, SizeAssumption
<1>2. CASE message \in [body : {"list"}, metrics : BoundedSeq(Metric, MaxMetrics)]
  BY <1>2, BoundedIsSeq, SizeAssumption
<1> QED  BY <1>1, <1>2 DEF Message

LEMMA ConversionInitInv == ConversionInit => ConversionInv
<1> SUFFICES ASSUME ConversionInit PROVE ConversionInv
  OBVIOUS
<1>1. batch \in Seq(Message) /\ Len(batch) <= MaxBatch
  BY BoundedIsSeq, SizeAssumption DEF ConversionInit
<1>2. Bounded
  <2>1. \A i \in 1 .. Len(batch) : batch[i] \in Message
    BY <1>1
  <2> QED  BY <1>1, <2>1, MessageForm DEF Bounded, Metrics
<1>3. InLoops /\ PassedIsSound /\ Ended
  BY <1>1 DEF ConversionInit, InLoops, PassedIsSound, Ended
<1> QED  BY <1>2, <1>3 DEF ConversionInv

\* Going on past a metric that does not raise.
LEMMA AdvanceInv ==
  ASSUME ConversionInv, Running, item > 0, ~Raises(Metrics(msg)[item]), Advance,
         UNCHANGED <<batch, outcome>>
  PROVE  ConversionInv'
<1> USE DEF ConversionInv
<1>0. Bounded' /\ msg \in 1 .. Len(batch) /\ item \in 1 .. Len(Metrics(msg))
  BY DEF Bounded, InLoops, Metrics
<1>1. CASE item = Len(Metrics(msg)) /\ NextMessage
  <2>1. InLoops' /\ Ended'
    BY <1>0, <1>1 DEF NextMessage, InLoops, Ended, Running, Metrics
  <2>2. batch[msg].body # "uniterable"
    BY DEF InLoops
  <2>3. \A j \in 1 .. Len(Metrics(msg)) : ~Raises(Metrics(msg)[j])
    BY <1>0, <1>1 DEF PassedIsSound, InLoops
  <2>4. PassedIsSound'
    BY <1>0, <1>1, <2>2, <2>3 DEF NextMessage, PassedIsSound, InLoops, Metrics
  <2> QED  BY <1>0, <2>1, <2>4
<1>2. CASE item # Len(Metrics(msg)) /\ msg' = msg /\ item' = item + 1
  BY <1>0, <1>2 DEF InLoops, PassedIsSound, Ended, Running, Metrics
<1> QED  BY <1>1, <1>2 DEF Advance, Metrics

LEMMA ConversionNextInv == ConversionInv /\ [ConversionNext]_conversionVars => ConversionInv'
<1> SUFFICES ASSUME ConversionInv, [ConversionNext]_conversionVars PROVE ConversionInv'
  OBVIOUS
<1> USE DEF ConversionInv
<1>1. CASE SkipMessage
  <2>0. Bounded' /\ msg \in 1 .. Len(batch) /\ Metrics(msg) = <<>>
    BY <1>1 DEF SkipMessage, Running, Bounded, InLoops, Metrics
  <2>1. InLoops' /\ Ended'
    BY <1>1, <2>0 DEF SkipMessage, Running, NextMessage, InLoops, Ended, Metrics
  <2>2. PassedIsSound'
    BY <1>1, <2>0 DEF SkipMessage, NextMessage, PassedIsSound, InLoops, Metrics
  <2> QED  BY <2>0, <2>1, <2>2
<1>2. CASE EnterMessage
  <2>0. Bounded' /\ msg \in 1 .. Len(batch) /\ Metrics(msg) \in Seq(Metric)
    BY <1>2 DEF EnterMessage, Running, Bounded, InLoops, Metrics
  <2>1. CASE batch[msg].metrics = <<>> /\ NextMessage
    BY <1>2, <2>0, <2>1
    DEF EnterMessage, Running, NextMessage, InLoops, PassedIsSound, Ended, Metrics
  <2>2. CASE batch[msg].metrics # <<>> /\ msg' = msg /\ item' = 1
    <3>1. Len(Metrics(msg)) >= 1
      BY <2>0, <2>2 DEF Metrics
    <3> QED
      BY <1>2, <2>0, <2>2, <3>1
      DEF EnterMessage, Running, InLoops, PassedIsSound, Ended, Metrics
  <2> QED  BY <1>2, <2>1, <2>2 DEF EnterMessage
<1>3. CASE MessageRaises
  BY <1>3 DEF MessageRaises, Running, Bounded, InLoops, PassedIsSound, Ended, Metrics
<1>4. CASE SkipMetric
  <2>1. ~Raises(Metrics(msg)[item])
    BY <1>4 DEF SkipMetric, Raises, Metrics
  <2> QED  BY <1>4, <2>1, AdvanceInv DEF SkipMetric
<1>5. CASE ConvertMetric
  BY <1>5, AdvanceInv DEF ConvertMetric, Metrics
<1>6. CASE MetricRaises
  BY <1>6 DEF MetricRaises, Running, Bounded, InLoops, PassedIsSound, Ended, Metrics
<1>7. CASE Finish
  BY <1>7 DEF Finish, Bounded, InLoops, PassedIsSound, Ended, Metrics
<1>8. CASE UNCHANGED conversionVars
  BY <1>8 DEF conversionVars, Bounded, InLoops, PassedIsSound, Ended, Metrics
<1> QED  BY <1>1, <1>2, <1>3, <1>4, <1>5, <1>6, <1>7, <1>8 DEF ConversionNext

LEMMA ConversionInvariance == ConversionSpec => []ConversionInv
<1> QED  BY ConversionInitInv, ConversionNextInv, PTL DEF ConversionSpec

-----------------------------------------------------------------------------
LEMMA PoisonMeansRaises ==
  ASSUME Bounded, NEW i \in 1 .. Len(batch)
  PROVE  KindOf(batch[i]) = "poison" <=>
           \/ batch[i].body = "uniterable"
           \/ \E j \in 1 .. Len(Metrics(i)) : Raises(Metrics(i)[j])
<1>1. DOMAIN batch[i].metrics = 1 .. Len(Metrics(i))
  BY DEF Bounded, Metrics
<1> QED  BY <1>1 DEF KindOf, Metrics

\* The loops stay inside the batch (index.py:325-330).
THEOREM ConversionTypeCorrect == ConversionSpec => []ConversionTypeOK
<1>1. ConversionInv => ConversionTypeOK
  BY SizeAssumption DEF ConversionInv, Bounded, InLoops, Ended, ConversionTypeOK, Metrics
<1> QED  BY <1>1, ConversionInvariance, PTL

\* convert_to_datadog_format raises exactly if a message of the batch is
\* poison, wherever it is and whatever surrounds it (index.py:325-379).
THEOREM AllOrNothing == ConversionSpec => []RaisesExactlyOnPoison
<1>1. ConversionInv => RaisesExactlyOnPoison
  <2> SUFFICES ASSUME ConversionInv PROVE RaisesExactlyOnPoison
    OBVIOUS
  <2> USE DEF ConversionInv
  <2>1. DOMAIN batch = 1 .. Len(batch)
    BY DEF Bounded
  <2>2. ASSUME outcome = "raised"
        PROVE  \E i \in DOMAIN batch : KindOf(batch[i]) = "poison"
    BY <2>1, <2>2, PoisonMeansRaises DEF Ended
  <2>3. ASSUME outcome = "returned", NEW i \in DOMAIN batch
        PROVE  KindOf(batch[i]) # "poison"
    <3>1. i \in 1 .. Len(batch) /\ i < msg
      BY <2>1, <2>3 DEF Ended, InLoops
    <3> QED  BY <3>1, PoisonMeansRaises DEF PassedIsSound
  <2> QED  BY <2>2, <2>3 DEF RaisesExactlyOnPoison
<1> QED  BY <1>1, ConversionInvariance, PTL

-----------------------------------------------------------------------------
(* The entries of the series                                                *)

Place(n) == series[n].at

WellFormed(i, j) ==
  /\ i \in 1 .. Len(batch) /\ j \in 1 .. Len(Metrics(i))
  /\ Metrics(i)[j].form = "dict"

\* The loops have been at metric j of message i and gone on.
Passed(i, j) == i < msg \/ (i = msg /\ j < item)

Earlier(p, q) == p[1] < q[1] \/ (p[1] = q[1] /\ p[2] < q[2])

Entries == {Entry(i, j) : i \in 1 .. Len(batch), j \in 1 .. MaxMetrics}

\* The series is what has been passed and is well-formed, in its order.
OnlyPassed ==
  \A n \in 1 .. Len(series) :
    \E i, j \in Nat : Place(n) = <<i, j>> /\ WellFormed(i, j) /\ Passed(i, j)
AllPassed ==
  \A i, j \in Nat : WellFormed(i, j) /\ Passed(i, j) =>
    \E n \in 1 .. Len(series) : Place(n) = <<i, j>>
Ascending ==
  \A a, b \in 1 .. Len(series) : a < b => Earlier(Place(a), Place(b))

Filled == series \in Seq(Entries) /\ OnlyPassed /\ AllPassed /\ Ascending

\* A step that passes no well-formed metric leaves the series as it is.
LEMMA NothingPassed ==
  ASSUME Filled, UNCHANGED <<batch, series>>,
         \A i, j \in Nat : WellFormed(i, j) => (Passed(i, j)' <=> Passed(i, j))
  PROVE  Filled'
<1>1. /\ \A i, j \in Nat : WellFormed(i, j)' <=> WellFormed(i, j)
      /\ \A n : Place(n)' = Place(n)
      /\ Entries' = Entries
  BY DEF WellFormed, Metrics, Place, Entries, Entry
<1> QED
  BY <1>1 DEF Filled, OnlyPassed, AllPassed, Ascending

\* Going on from metric item of message msg passes just that metric.
LEMMA AdvancePasses ==
  ASSUME ConversionInv, Running, item > 0, Advance, UNCHANGED batch,
         NEW i \in Nat, NEW j \in Nat, WellFormed(i, j)
  PROVE  Passed(i, j)' <=> Passed(i, j) \/ (i = msg /\ j = item)
<1>1. /\ msg \in Nat /\ item \in Nat /\ item <= Len(Metrics(msg))
      /\ Len(Metrics(msg)) \in Nat
  BY DEF ConversionInv, InLoops, Bounded, Metrics
<1>2. i = msg => j <= Len(Metrics(msg))
  BY DEF WellFormed
<1>3. CASE item = Len(Metrics(msg)) /\ msg' = msg + 1 /\ item' = 0
  BY <1>1, <1>2, <1>3 DEF Passed
<1>4. CASE msg' = msg /\ item' = item + 1
  BY <1>1, <1>4 DEF Passed
<1> QED
  BY <1>3, <1>4 DEF Advance, NextMessage, Metrics

\* The metric that is converted comes after all that have been.
LEMMA ConvertFills ==
  ASSUME ConversionInv, Filled, ConvertMetric
  PROVE  Filled'
<1>0. /\ WellFormed(msg, item) /\ msg \in Nat /\ item \in Nat /\ Entry(msg, item) \in Entries
      /\ Running /\ item > 0 /\ Advance /\ batch' = batch
  <2>1. /\ msg \in 1 .. Len(batch) /\ item \in 1 .. Len(Metrics(msg))
        /\ Len(Metrics(msg)) \in Nat /\ Len(Metrics(msg)) <= MaxMetrics
    BY DEF ConversionInv, Bounded, InLoops, ConvertMetric, Running, Metrics
  <2>2. item \in 1 .. MaxMetrics
    BY <2>1, SizeAssumption
  <2> QED
    BY <2>1, <2>2 DEF ConvertMetric, WellFormed, Entries, Metrics
<1>n. PICK N \in Nat : N = Len(series)
  BY DEF Filled
<1>1. /\ series \in Seq(Entries) /\ series' \in Seq(Entries)
      /\ Len(series') = N + 1
      /\ \A n \in 1 .. N : series'[n] = series[n]
      /\ series'[N + 1] = Entry(msg, item)
  BY <1>0, <1>n DEF ConvertMetric, Filled
<1>2. /\ \A n \in 1 .. N : Place(n)' = Place(n)
      /\ Place(N + 1)' = <<msg, item>>
  BY <1>1 DEF Place, Entry
<1>3. /\ \A i, j \in Nat : WellFormed(i, j)' <=> WellFormed(i, j)
      /\ Entries' = Entries
  BY <1>0 DEF WellFormed, Metrics, Entries, Entry
<1>4. \A i, j \in Nat :
        WellFormed(i, j) => (Passed(i, j)' <=> Passed(i, j) \/ (i = msg /\ j = item))
  BY <1>0, AdvancePasses
<1>5. OnlyPassed'
  <2>1. ASSUME NEW n \in 1 .. N + 1
        PROVE  \E i, j \in Nat :
                 Place(n)' = <<i, j>> /\ WellFormed(i, j)' /\ Passed(i, j)'
    <3>1. CASE n \in 1 .. N
      <4>1. PICK i, j \in Nat :
              Place(n) = <<i, j>> /\ WellFormed(i, j) /\ Passed(i, j)
        BY <1>n, <3>1 DEF Filled, OnlyPassed
      <4> QED
        BY <1>2, <1>3, <1>4, <3>1, <4>1
    <3>2. CASE n = N + 1
      BY <1>0, <1>2, <1>3, <1>4, <3>2
    <3> QED
      BY <1>1, <3>1, <3>2
  <2> QED
    BY <1>1, <2>1 DEF OnlyPassed
<1>6. AllPassed'
  <2>1. ASSUME NEW i \in Nat, NEW j \in Nat, WellFormed(i, j), Passed(i, j)'
        PROVE  \E n \in 1 .. N + 1 : Place(n)' = <<i, j>>
    <3>1. CASE Passed(i, j)
      <4>1. PICK n \in 1 .. N : Place(n) = <<i, j>>
        BY <1>n, <2>1, <3>1 DEF Filled, AllPassed
      <4>2. n \in 1 .. N + 1
        BY <1>n
      <4> QED
        BY <1>2, <4>1, <4>2
    <3>2. CASE i = msg /\ j = item
      <4>1. N + 1 \in 1 .. N + 1
        BY <1>n
      <4> QED
        BY <1>2, <3>2, <4>1
    <3> QED
      BY <1>4, <2>1, <3>1, <3>2
  <2> QED
    BY <1>1, <1>3, <2>1 DEF AllPassed
<1>7. Ascending'
  <2>1. ASSUME NEW a \in 1 .. N + 1, NEW b \in 1 .. N + 1, a < b
        PROVE  Earlier(Place(a)', Place(b)')
    <3>1. a \in 1 .. N
      BY <1>1, <2>1
    <3>2. CASE b \in 1 .. N
      BY <1>n, <1>2, <2>1, <3>1, <3>2 DEF Filled, Ascending
    <3>3. CASE b = N + 1
      <4>1. PICK i, j \in Nat : Place(a) = <<i, j>> /\ Passed(i, j)
        BY <1>n, <3>1 DEF Filled, OnlyPassed
      <4>2. Earlier(<<i, j>>, <<msg, item>>)
        BY <4>1 DEF Passed, Earlier
      <4> QED
        BY <1>2, <3>1, <3>3, <4>1, <4>2
    <3> QED
      BY <1>1, <3>2, <3>3
  <2> QED
    BY <1>1, <2>1 DEF Ascending, Earlier
<1> QED
  BY <1>1, <1>3, <1>5, <1>6, <1>7 DEF Filled

LEMMA FilledStep == ConversionInv /\ Filled /\ [ConversionNext]_conversionVars => Filled'
<1> SUFFICES ASSUME ConversionInv, Filled, [ConversionNext]_conversionVars
             PROVE  Filled'
  OBVIOUS
<1>t. msg \in Nat /\ item \in Nat
  BY DEF ConversionInv, InLoops
<1>1. CASE (SkipMessage \/ EnterMessage) /\ NextMessage
  <2>1. item = 0 /\ Metrics(msg) = <<>> /\ msg' = msg + 1 /\ item' = 0
    <3>1. msg \in 1 .. Len(batch) /\ item = 0
      BY <1>1 DEF SkipMessage, EnterMessage, Running, ConversionInv, InLoops
    <3> QED
      BY <1>t, <1>1, <3>1
         DEF SkipMessage, EnterMessage, NextMessage, ConversionInv, Bounded, Metrics
  <2>2. \A j : ~WellFormed(msg, j)
    BY <2>1 DEF WellFormed
  <2>3. ASSUME NEW i \in Nat, NEW j \in Nat, WellFormed(i, j)
        PROVE  Passed(i, j)' <=> Passed(i, j)
    BY <1>t, <2>1, <2>2, <2>3 DEF Passed
  <2> QED
    BY <1>1, <2>3, NothingPassed DEF SkipMessage, EnterMessage
<1>2. CASE EnterMessage /\ msg' = msg /\ item' = 1
  <2>1. ASSUME NEW i \in Nat, NEW j \in Nat, WellFormed(i, j)
        PROVE  Passed(i, j)' <=> Passed(i, j)
    <3>1. item = 0 /\ j >= 1
      BY <1>2, <2>1 DEF EnterMessage, WellFormed
    <3> QED
      BY <1>t, <1>2, <3>1 DEF Passed
  <2> QED
    BY <1>2, <2>1, NothingPassed DEF EnterMessage
<1>3. CASE SkipMetric
  <2>1. ~WellFormed(msg, item)
    BY <1>3 DEF SkipMetric, WellFormed, Metrics
  <2>2. ASSUME NEW i \in Nat, NEW j \in Nat, WellFormed(i, j)
        PROVE  Passed(i, j)' <=> Passed(i, j)
    BY <1>3, <2>1, <2>2, AdvancePasses DEF SkipMetric
  <2> QED
    BY <1>3, <2>2, NothingPassed DEF SkipMetric
<1>4. CASE MessageRaises \/ MetricRaises \/ Finish \/ UNCHANGED conversionVars
  <2>1. UNCHANGED <<batch, msg, item, series>>
    BY <1>4 DEF MessageRaises, MetricRaises, Finish, conversionVars
  <2>2. \A i, j \in Nat : Passed(i, j)' <=> Passed(i, j)
    BY <2>1 DEF Passed
  <2> QED
    BY <2>1, <2>2, NothingPassed
<1>5. CASE ConvertMetric
  BY <1>5, ConvertFills
<1> QED
  BY <1>1, <1>2, <1>3, <1>4, <1>5 DEF ConversionNext, EnterMessage, SkipMessage

\* A message that does not raise has a well-formed metric or is passed over.
LEMMA KindMeansWellFormed ==
  ASSUME Bounded, NEW i \in 1 .. Len(batch), KindOf(batch[i]) # "poison"
  PROVE  KindOf(batch[i]) = "metrics" <=> \E j \in Nat : WellFormed(i, j)
<1>1. /\ DOMAIN batch[i].metrics = 1 .. Len(Metrics(i))
      /\ Metrics(i) \in Seq(Metric)
  BY DEF Bounded, Metrics
<1>2. ASSUME NEW j \in 1 .. Len(Metrics(i))
      PROVE  Metrics(i)[j].form \in {"dict", "malformed"}
  <2>1. Metrics(i)[j] \in MetricShape
    BY <1>1, <1>2, MetricAssumption
  <2> QED
    BY <2>1 DEF MetricShape
<1>3. KindOf(batch[i]) = "metrics" <=>
        ~ \A j \in 1 .. Len(Metrics(i)) : Metrics(i)[j].form = "malformed"
  BY <1>1 DEF KindOf, Metrics
<1>4. \A j \in 1 .. Len(Metrics(i)) : j \in Nat
  OBVIOUS
<1> QED
  BY <1>2, <1>3, <1>4 DEF WellFormed

\* The converted batch has every well-formed metric of every message once and
\* in order, and posts something of exactly the messages of kind "metrics":
\* no metric that is skipped takes another with it (index.py:325-379).
THEOREM Complete == ConversionSpec => []SeriesIsComplete
<1>1. ConversionInit => Filled
  <2> SUFFICES ASSUME ConversionInit
               PROVE  Filled
    OBVIOUS
  <2>1. series = <<>> /\ Len(<<>>) = 0 /\ msg = 1 /\ item = 0
    BY DEF ConversionInit
  <2>2. \A i, j \in Nat : WellFormed(i, j) => ~Passed(i, j)
    BY <2>1 DEF WellFormed, Passed
  <2> QED
    BY <2>1, <2>2 DEF Filled, OnlyPassed, AllPassed, Ascending
<1>2. ConversionInv /\ Filled /\ RaisesExactlyOnPoison => SeriesIsComplete
  <2> SUFFICES ASSUME ConversionInv, Filled, RaisesExactlyOnPoison, outcome = "returned"
               PROVE  SeriesIsComplete
    BY DEF SeriesIsComplete
  <2> DEFINE good == {p \in (1 .. MaxBatch) \X (1 .. MaxMetrics) :
                        /\ p[1] \in DOMAIN batch
                        /\ p[2] \in DOMAIN batch[p[1]].metrics
                        /\ batch[p[1]].metrics[p[2]].form = "dict"}
             at == {series[n].at : n \in DOMAIN series}
  <2>1. /\ DOMAIN batch = 1 .. Len(batch) /\ Len(batch) \in 0 .. MaxBatch
        /\ DOMAIN series = 1 .. Len(series)
        /\ \A i \in 1 .. Len(batch) :
             /\ DOMAIN batch[i].metrics = 1 .. Len(Metrics(i))
             /\ Len(Metrics(i)) \in 0 .. MaxMetrics
    BY SizeAssumption DEF ConversionInv, Bounded, Filled, Metrics
  <2>2. ASSUME NEW i \in Nat, NEW j \in Nat
        PROVE  <<i, j>> \in good <=> WellFormed(i, j)
    <3>1. i \in 1 .. Len(batch) => i \in 1 .. MaxBatch
      BY <2>1, SizeAssumption
    <3>2. ASSUME i \in 1 .. Len(batch), j \in 1 .. Len(Metrics(i))
          PROVE  j \in 1 .. MaxMetrics
      BY <2>1, <3>2, SizeAssumption
    <3> QED
      BY <2>1, <3>1, <3>2 DEF WellFormed, Metrics
  <2>3. \A i, j \in Nat : WellFormed(i, j) => Passed(i, j)
    BY DEF ConversionInv, Ended, InLoops, Bounded, WellFormed, Passed
  <2>4. at = good
    <3>1. ASSUME NEW p \in good
          PROVE  p \in at
      <4>1. PICK i \in Nat, j \in Nat : p = <<i, j>>
        BY <3>1
      <4>2. \E n \in 1 .. Len(series) : Place(n) = <<i, j>>
        BY <2>2, <2>3, <3>1, <4>1 DEF Filled, AllPassed
      <4> QED
        BY <2>1, <4>1, <4>2 DEF Place
    <3>2. ASSUME NEW n \in DOMAIN series
          PROVE  series[n].at \in good
      <4>1. PICK i \in Nat, j \in Nat : Place(n) = <<i, j>> /\ WellFormed(i, j)
        BY <2>1, <3>2 DEF Filled, OnlyPassed
      <4>2. <<i, j>> \in good
        BY <2>2, <4>1
      <4> HIDE DEF good
      <4> QED
        BY <4>1, <4>2 DEF Place
    <3> QED
      BY <3>1, <3>2
  <2>5. ASSUME NEW a \in DOMAIN series, NEW b \in DOMAIN series, a < b
        PROVE  \/ series[a].at[1] < series[b].at[1]
               \/ /\ series[a].at[1] = series[b].at[1]
                  /\ series[a].at[2] < series[b].at[2]
    BY <2>1, <2>5 DEF Filled, Ascending, Earlier, Place
  <2>6. ASSUME NEW i \in DOMAIN batch
        PROVE  KindOf(batch[i]) = "metrics"
                 <=> \E n \in DOMAIN series : series[n].at[1] = i
    <3>1. i \in 1 .. Len(batch) /\ KindOf(batch[i]) # "poison" /\ i \in Nat
      BY <2>1 DEF RaisesExactlyOnPoison
    <3>2. KindOf(batch[i]) = "metrics" <=> \E j \in Nat : WellFormed(i, j)
      BY <3>1, KindMeansWellFormed DEF ConversionInv
    <3>3. ASSUME NEW j \in Nat, WellFormed(i, j)
          PROVE  \E n \in DOMAIN series : series[n].at[1] = i
      <4>1. PICK n \in 1 .. Len(series) : Place(n) = <<i, j>>
        BY <2>3, <3>1, <3>3 DEF Filled, AllPassed
      <4> QED
        BY <2>1, <4>1 DEF Place
    <3>4. ASSUME NEW n \in DOMAIN series, series[n].at[1] = i
          PROVE  \E j \in Nat : WellFormed(i, j)
      <4>1. PICK x \in Nat, y \in Nat : Place(n) = <<x, y>> /\ WellFormed(x, y)
        BY <2>1, <3>4 DEF Filled, OnlyPassed
      <4> QED
        BY <3>4, <4>1 DEF Place
    <3> QED
      BY <3>2, <3>3, <3>4
  <2> QED
    BY <2>4, <2>5, <2>6 DEF SeriesIsComplete
<1> QED
  BY <1>1, <1>2, FilledStep, ConversionInvariance, AllOrNothing, PTL DEF ConversionSpec
=============================================================================
