------------------------------ MODULE Forwarder ------------------------------
(***************************************************************************)
(* The forwarding function of src/index.py: every trigger of the timer      *)
(* runs `handler`, which reads the last processed offset from OBS, reads    *)
(* the partition from the next offset on, stores the batch and its Datadog  *)
(* form in OBS, posts the latter to Datadog and finally stores the new      *)
(* offset.  Nothing keeps two triggers from overlapping, the platform may   *)
(* kill an invocation anywhere, and every remote call may fail.             *)
(*                                                                         *)
(* Three external parties appear as far as the handler can tell them apart: *)
(*   the partition   log, logStart         (DMS, Kafka)                     *)
(*   the object store  saved, original, datadog        (OBS)                *)
(*   the receiver    delivered, dropped    (Datadog behind its proxy)       *)
(* The consumer of src/kafka is modelled as the handler's iteration sees    *)
(* it: a position, the records already fetched from there, and the reset    *)
(* of a position the broker rejects (RecordStream; Fetcher has the detail). *)
(***************************************************************************)
EXTENDS Integers, Sequences, SequencesExt, FiniteSets

CONSTANTS
  Slot,           \* function instances: how many invocations can overlap
  Kind,           \* what a record can be, as far as the handler can tell
  Undecodable,    \* the kinds whose value is not UTF-8
  Skipped,        \* the kinds the conversion passes over
  Poison,         \* the kinds that parse but make the conversion raise
  MaxMessages,    \* environment variable MAX_MESSAGES
  SharedMs,       \* may two invocations start within one millisecond?
  Expires,        \* does retention delete old records?
  MaxOffset,      \* bound: records ever appended to the partition
  MaxId,          \* bound: milliseconds at which an invocation starts
  MaxDelivery,    \* bound: deliveries of one record that are told apart
  MaxFaults       \* bound: exceptions, kills and lost answers

ASSUME KindAssumption ==
  /\ Undecodable \subseteq Kind
  /\ Skipped \subseteq Kind
  /\ Poison \subseteq Kind
ASSUME BoundAssumption ==
  /\ MaxMessages \in Int
  /\ MaxOffset \in Nat \ {0}
  /\ MaxId \in Nat \ {0}
  /\ MaxDelivery \in Nat \ {0}
  /\ MaxFaults \in Nat
ASSUME FlagAssumption == SharedMs \in BOOLEAN /\ Expires \in BOOLEAN

VARIABLES
  log,            \* kinds of the records appended; log[o + 1] is at offset o
  logStart,       \* first offset retention has left
  saved,          \* the offset object, Absent until it is created
  original,       \* data/original/original-{id}.json: offsets of the batch
  datadog,        \* data/datadog/datadog-{id}.json: offsets it converts
  delivered,      \* history: how often Datadog got an offset
  dropped,        \* history: offsets whose POST failed
  lost,           \* history: offsets a position reset jumped over
  clock,          \* the millisecond of the latest start
  together,       \* history: two invocations have been under way at once
  faults,         \* faults so far
  run             \* the invocation each instance is executing

topic   == <<log, logStart>>
audit   == <<original, datadog>>
sink    == <<delivered, dropped>>
starts  == <<clock, together>>
vars    == <<topic, saved, audit, sink, lost, starts, faults, run>>

Offset   == 0 .. MaxOffset - 1
Absent   == -1     \* no offset object yet
Awaiting == -1     \* no position until the reset is answered
LogEnd   == Len(log)

Stage == {"idle", "readOffset", "initOffset", "readEnd", "consume",
          "saveOriginal", "saveDatadog", "send", "updateOffset"}

(***************************************************************************)
(* The local variables of handler and of its consumer.                      *)
(*   prev   previous_last_processed_offset                                  *)
(*   leo    current_last_available_offset                                   *)
(*   msgs   offsets of `messages`                                           *)
(*   pos    the consumer's position                                         *)
(*   avail  end of the records it has fetched and not yet yielded           *)
(***************************************************************************)
Invocation ==
  [pc : Stage, id : 0 .. MaxId, prev : Offset, leo : 0 .. MaxOffset,
   msgs : Seq(Offset), pos : -1 .. MaxOffset, avail : -1 .. MaxOffset]

Idle == [pc |-> "idle", id |-> 0, prev |-> 0, leo |-> 0, msgs |-> <<>>,
         pos |-> 0, avail |-> 0]

TypeOK ==
  /\ log \in Seq(Kind) /\ Len(log) <= MaxOffset
  /\ logStart \in 0 .. MaxOffset
  /\ saved \in Offset \cup {Absent}
  /\ original \in [1 .. MaxId -> SUBSET Offset]
  /\ datadog \in [1 .. MaxId -> SUBSET Offset]
  /\ delivered \in [Offset -> 0 .. MaxDelivery]
  /\ dropped \in SUBSET Offset
  /\ lost \in SUBSET Offset
  /\ clock \in 0 .. MaxId /\ together \in BOOLEAN
  /\ faults \in 0 .. MaxFaults
  /\ run \in [Slot -> Invocation]

-----------------------------------------------------------------------------
KindAt(o)     == log[o + 1]
Batch(i)      == Range(run[i].msgs)
Convertible(S) == {o \in S : KindAt(o) \notin Skipped}

\* The offset the handler asks for next if nothing is skipped.
NextOffset(i) == IF run[i].msgs = <<>> THEN run[i].prev + 1
                                       ELSE Last(run[i].msgs) + 1
Buffered(i)   == run[i].pos # Awaiting /\ run[i].pos < run[i].avail

At(i, stage)    == run[i].pc = stage
Goto(i, stage)  == run' = [run EXCEPT ![i].pc = stage]
Return(i)       == run' = [run EXCEPT ![i] = Idle]
SpendFault      == faults < MaxFaults /\ faults' = faults + 1

\* The loop over the records is over; the consumer is not asked again.
Consumed(i, msgs) ==
  run' = [run EXCEPT ![i].pc = "saveOriginal", ![i].msgs = msgs,
                     ![i].leo = 0, ![i].pos = 0, ![i].avail = 0]

\* A put that took effect: OBS answers, or the answer is lost (or an error),
\* and the exception ends the invocation with a 500.
PutAnswered(i, stage) ==
  \/ Goto(i, stage) /\ UNCHANGED faults
  \/ Return(i) /\ SpendFault

Init ==
  /\ log = <<>> /\ logStart = 0
  /\ saved = Absent
  /\ original = [n \in 1 .. MaxId |-> {}]
  /\ datadog = [n \in 1 .. MaxId |-> {}]
  /\ delivered = [o \in Offset |-> 0]
  /\ dropped = {} /\ lost = {}
  /\ clock = 0 /\ together = FALSE /\ faults = 0
  /\ run = [i \in Slot |-> Idle]

-----------------------------------------------------------------------------
(* The partition                                                           *)

\* Cloud Eye publishes a record.
Produce(k) ==
  /\ LogEnd < MaxOffset
  /\ log' = Append(log, k)
  /\ UNCHANGED <<logStart, saved, audit, sink, lost, starts, faults, run>>

\* Retention (aging time of the topic) deletes the records below n.
Expire(n) ==
  /\ Expires
  /\ logStart < n /\ n <= LogEnd
  /\ logStart' = n
  /\ UNCHANGED <<log, saved, audit, sink, lost, starts, faults, run>>

-----------------------------------------------------------------------------
(* The invocation                                                          *)

\* The timer fires on a free instance; the id is the time in milliseconds.
Start(i) ==
  /\ At(i, "idle")
  /\ \E t \in {clock, clock + 1} \cap (1 .. MaxId) :
       /\ t = clock => SharedMs
       /\ clock' = t
       /\ together' = (together \/ \E j \in Slot : ~At(j, "idle"))
       /\ run' = [run EXCEPT ![i].pc = "readOffset", ![i].id = t]
  /\ UNCHANGED <<topic, saved, audit, sink, lost, faults>>

\* Faulty variant: any error status of getObject is taken for a 404.
ReadOffsetOrInit(i) ==
  /\ At(i, "readOffset")
  /\ \/ Goto(i, "initOffset")
     \/ saved # Absent /\ run' = [run EXCEPT ![i].pc = "readEnd", ![i].prev = saved]
  /\ UNCHANGED <<topic, saved, audit, sink, lost, starts, faults>>

\* getObject: the stored offset, or 404.
ReadOffset(i) ==
  /\ At(i, "readOffset")
  /\ IF saved = Absent
       THEN Goto(i, "initOffset")
       ELSE run' = [run EXCEPT ![i].pc = "readEnd", ![i].prev = saved]
  /\ UNCHANGED <<topic, saved, audit, sink, lost, starts, faults>>

\* After the 404 the object is put with 0, whatever another invocation may
\* have stored meanwhile; `prev` is 0.
InitOffset(i) ==
  /\ At(i, "initOffset")
  /\ saved' = 0
  /\ PutAnswered(i, "readEnd")
  /\ UNCHANGED <<topic, audit, sink, lost, starts>>

\* seek_to_end and position give the log end; then the position is sought.
ConsumeFrom(i, start) ==
  /\ At(i, "readEnd")
  /\ run' = [run EXCEPT ![i].pc = "consume", ![i].leo = LogEnd,
                        ![i].pos = start, ![i].avail = start]
  /\ UNCHANGED <<topic, saved, audit, sink, lost, starts, faults>>

\* Faulty variants: consumption starts one offset late, one offset early, or
\* where seek_to_end left the position.
ReadEndLate(i)   == ConsumeFrom(i, run[i].prev + 2)
ReadEndEarly(i)  == ConsumeFrom(i, run[i].prev)
ReadEndNoSeek(i) == ConsumeFrom(i, LogEnd)

ReadEnd(i) == ConsumeFrom(i, run[i].prev + 1)

\* A fetch from the position returns some decodable records.
Fetch(i) ==
  /\ At(i, "consume") /\ ~Buffered(i)
  /\ logStart <= run[i].pos /\ run[i].pos < LogEnd
  /\ \E e \in run[i].pos + 1 .. LogEnd :
       /\ \A o \in run[i].pos .. e - 1 : KindAt(o) \notin Undecodable
       /\ run' = [run EXCEPT ![i].avail = e]
  /\ UNCHANGED <<topic, saved, audit, sink, lost, starts, faults>>

\* The record at the position, or one below it in the same producer batch,
\* cannot be decoded: the iteration raises.
DecodeRaises(i) ==
  /\ At(i, "consume") /\ ~Buffered(i)
  /\ logStart <= run[i].pos /\ run[i].pos < LogEnd
  /\ \E o \in 0 .. run[i].pos : KindAt(o) \in Undecodable
  /\ Return(i)
  /\ UNCHANGED <<topic, saved, audit, sink, lost, starts, faults>>

\* The broker rejects the position; it is to be reset to the latest offset.
OutOfRange(i) ==
  /\ At(i, "consume") /\ ~Buffered(i) /\ run[i].pos # Awaiting
  /\ run[i].pos < logStart \/ run[i].pos > LogEnd
  /\ run' = [run EXCEPT ![i].pos = Awaiting, ![i].avail = Awaiting]
  /\ UNCHANGED <<topic, saved, audit, sink, lost, starts, faults>>

\* The answer to ListOffsets: the position is the log end of that moment.
ResetPosition(i) ==
  /\ At(i, "consume") /\ run[i].pos = Awaiting
  /\ run' = [run EXCEPT ![i].pos = LogEnd, ![i].avail = LogEnd]
  /\ lost' = lost \cup (NextOffset(i) .. LogEnd - 1)
  /\ UNCHANGED <<topic, saved, audit, sink, starts, faults>>

\* One turn of the loop of consume_messages.
Yield(i) ==
  LET o    == run[i].pos
      msgs == Append(run[i].msgs, o)
  IN  /\ At(i, "consume") /\ Buffered(i)
      /\ IF Len(msgs) >= MaxMessages \/ o >= run[i].leo - 1
           THEN Consumed(i, msgs)
           ELSE run' = [run EXCEPT ![i].msgs = msgs, ![i].pos = o + 1]
      /\ UNCHANGED <<topic, saved, audit, sink, lost, starts, faults>>

\* consumer_timeout_ms passes with no record at hand: the loop ends, and an
\* invocation without messages returns 200 having written nothing.
Timeout(i) ==
  /\ At(i, "consume") /\ ~Buffered(i)
  /\ IF run[i].msgs = <<>> THEN Return(i) ELSE Consumed(i, run[i].msgs)
  /\ UNCHANGED <<topic, saved, audit, sink, lost, starts, faults>>

\* Faulty variant: the status of the put is not checked.
SaveOriginalUnchecked(i) ==
  /\ At(i, "saveOriginal")
  /\ \/ original' = [original EXCEPT ![run[i].id] = Batch(i)]
     \/ UNCHANGED original
  /\ Goto(i, "saveDatadog")
  /\ UNCHANGED <<topic, saved, datadog, sink, lost, starts, faults>>

\* save_original_messages: the put replaces what was under that id.
SaveOriginal(i) ==
  /\ At(i, "saveOriginal")
  /\ original' = [original EXCEPT ![run[i].id] = Batch(i)]
  /\ PutAnswered(i, "saveDatadog")
  /\ UNCHANGED <<topic, saved, datadog, sink, lost, starts>>

\* convert_to_datadog_format skips what does not parse ...
SaveDatadog(i) ==
  /\ At(i, "saveDatadog")
  /\ \A o \in Batch(i) : KindAt(o) \notin Poison
  /\ datadog' = [datadog EXCEPT ![run[i].id] = Convertible(Batch(i))]
  /\ PutAnswered(i, "send")
  /\ UNCHANGED <<topic, saved, original, sink, lost, starts>>

\* Faulty variant: the exception is swallowed like the one of the POST.
ConvertSwallows(i) ==
  /\ At(i, "saveDatadog")
  /\ \E o \in Batch(i) : KindAt(o) \in Poison
  /\ Goto(i, "updateOffset")
  /\ UNCHANGED <<topic, saved, audit, sink, lost, starts, faults>>

\* ... and raises on some records that do, which fails the whole batch.
ConvertRaises(i) ==
  /\ At(i, "saveDatadog")
  /\ \E o \in Batch(i) : KindAt(o) \in Poison
  /\ Return(i)
  /\ UNCHANGED <<topic, saved, audit, sink, lost, starts, faults>>

\* The POST reaches Datadog, or fails: send_to_datadog only logs which.
Send(i) ==
  /\ At(i, "send")
  /\ \/ /\ delivered' = [o \in Offset |->
                           IF /\ o \in Convertible(Batch(i))
                              /\ delivered[o] < MaxDelivery
                           THEN delivered[o] + 1 ELSE delivered[o]]
        /\ UNCHANGED <<dropped, faults>>
     \/ /\ dropped' = dropped \cup Convertible(Batch(i))
        /\ SpendFault
        /\ UNCHANGED delivered
  /\ Goto(i, "updateOffset")
  /\ UNCHANGED <<topic, saved, audit, lost, starts>>

\* Whether or not this put is answered, nothing follows it but the return.
UpdateOffset(i) ==
  /\ At(i, "updateOffset")
  /\ saved' = Last(run[i].msgs)
  /\ Return(i)
  /\ UNCHANGED <<topic, audit, sink, lost, starts, faults>>

\* A call raises before it has any effect, so that the except clause answers
\* 500, or the platform kills the invocation at its time limit.
Abandon(i) ==
  /\ ~At(i, "idle")
  /\ Return(i)
  /\ SpendFault
  /\ UNCHANGED <<topic, saved, audit, sink, lost, starts>>

-----------------------------------------------------------------------------
Consume(i) ==
  Fetch(i) \/ DecodeRaises(i) \/ OutOfRange(i) \/ ResetPosition(i)
    \/ Yield(i) \/ Timeout(i)

Step(i) ==
  \/ ReadOffset(i) \/ InitOffset(i) \/ ReadEnd(i)
  \/ Consume(i)
  \/ SaveOriginal(i) \/ SaveDatadog(i) \/ ConvertRaises(i)
  \/ Send(i) \/ UpdateOffset(i)

Next ==
  \/ \E k \in Kind : Produce(k)
  \/ \E n \in 1 .. MaxOffset : Expire(n)
  \/ \E i \in Slot : Start(i) \/ Step(i) \/ Abandon(i)

Spec == Init /\ [][Next]_vars

(***************************************************************************)
(* The timer keeps firing on a free instance and a running invocation goes  *)
(* on.  A fetch may lose the race against consumer_timeout_ms, but not      *)
(* every time.  Nothing has to be produced and no fault has to happen.      *)
(***************************************************************************)
Fairness ==
  \A i \in Slot : /\ WF_vars(Start(i)) /\ WF_vars(Step(i))
                  /\ SF_vars(Fetch(i))

FairSpec == Spec /\ Fairness

-----------------------------------------------------------------------------
(* Properties                                                              *)

Attempted  == {o \in Offset : delivered[o] > 0} \cup dropped
PassedOver == {o \in Offset : o < LogEnd /\ KindAt(o) \in Skipped}
Covered    == Attempted \cup PassedOver \cup lost

\* At least once: the stored offset never passes a record that was not
\* posted, was not refused by the parser and was not jumped over, however
\* invocations overlap, die, or lose answers between their writes.
\* (The offset is updated last: index.py:590-615.)
CommittedIsCovered == 1 .. saved \subseteq Covered

\* Audit: every committed offset can be read back from the objects of one
\* execution, the original record and, if it parses, what was posted of it;
\* or it was jumped over (index.py:590-605 come before 610).
AuditComplete ==
  \A o \in 1 .. saved :
    \/ o \in lost
    \/ \E n \in 1 .. MaxId :
         o \in original[n] /\ (KindAt(o) \notin Skipped => o \in datadog[n])

\* The offset n is safe against every invocation under way: the store and
\* the start of every invocation are at or above it.
Floor(i) == IF At(i, "initOffset") THEN 0 ELSE run[i].prev
PastRead(i) == run[i].pc \notin {"idle", "readOffset"}
IsLow(n) == n <= saved /\ \A i \in Slot : PastRead(i) => n <= Floor(i)

\* Overlapping invocations can move the stored offset back, but never below
\* the least offset that the store and they themselves started from: what is
\* processed twice is bounded by the overlap (index.py:610, 578, 115-131).
LowWaterNeverFalls ==
  [][\A n \in Offset : IsLow(n) => IsLow(n)']_vars

\* As long as invocations follow each other the stored offset never moves
\* back, whichever records they meet and even when they die (index.py:109,
\* 578, 610).
SavedNeverFallsAlone == [][~together' => saved' >= saved]_vars

\* As long as invocations follow each other, and until a call fails or one of
\* them is killed, Datadog gets no record twice (index.py:505-513, 578).
AtMostOnceAlone ==
  ~together /\ faults = 0 => \A o \in Offset : delivered[o] <= 1

\* What is in the partition is committed sooner or later, and from then on
\* the stored offset stays at or above it.
EventuallyCommitted ==
  \A o \in Offset \ {0} : (o < LogEnd) ~> [](saved >= o)

\* The stored offset keeps the promise of an OffsetLedger.
Ledger == INSTANCE OffsetLedger WITH covered <- Covered, committed <- saved
ImplementsLedger == Ledger!Spec
=============================================================================
