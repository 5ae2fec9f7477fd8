------------------------------ MODULE Producer ------------------------------
(***************************************************************************)
(* The producer without transactions: send, flush and close of              *)
(* kafka/producer/kafka.py, the queues of record_accumulator.py, batches    *)
(* and their futures (producer_batch.py, future.py), the thread of          *)
(* sender.py, and the producer id and sequence numbers of                   *)
(* transaction_manager.py.                                                  *)
(*                                                                          *)
(* Application threads append to a queue per partition; the sender's thread *)
(* drains, expires and completes batches. Batches are numbered in the order *)
(* of their creation, so that time is a number: the batches up to it have   *)
(* reached delivery_timeout_ms. Each batch travels on its own; that a       *)
(* request carries those of all partitions of a node is left out. Brokers   *)
(* and what they do with sequence numbers are external.                     *)
(***************************************************************************)
EXTENDS Naturals, Sequences, FiniteSets, SequencesExt

CONSTANTS
  Partition,
  Mode,        \* "plain", "ordered" (max_in_flight 1) or "idempotent", those tried
  BatchSize,   \* records that fit into a batch
  MaxInFlight, \* max_in_flight_requests_per_connection, when it is not 1
  Retries,     \* retries
  MaxRecords,  \* bound: records sent
  MaxFaults,   \* bound: refusals, lost answers, delivery timeouts, lost state
  Gap          \* whether time also passes, and close is also forced, where
               \* the code loses track of a batch that was sent

ASSUME ModeAssumption == Mode \subseteq {"plain", "ordered", "idempotent"}
ASSUME BoundAssumption ==
  /\ BatchSize \in Nat \ {0} /\ MaxInFlight \in Nat \ {0} /\ Retries \in Nat
  /\ MaxRecords \in Nat /\ MaxFaults \in Nat /\ Gap \in BOOLEAN

VARIABLES
  mode,
  metadata,    \* whether the partitions of the topic are known
  sent,        \* records sent so far, numbered in order, over all partitions
  batch,       \* the batches, in order of creation
  dq,          \* _batches: those that wait, for each partition
  incomplete,  \* _incomplete: batches whose end has not been noted
  muted,       \* partitions that may not be drained
  flight,      \* batches in requests, with the broker's answer
  pid,         \* the producer id, 0 for none
  fresh,       \* the next producer id
  seqno,       \* _sequence_numbers
  log,         \* the records of each partition, in the broker
  known,       \* what the broker knows of each producer id
  horizon,     \* batches up to here have reached their delivery timeout
  life,        \* of the sender: open, closing, forced, dead
  flush,       \* a call of flush: the batches it waits for, and the records sent before
  faults

queues == <<batch, dq, incomplete>>
broker == <<log, known>>
ids    == <<pid, fresh, seqno>>
app    == <<metadata, sent, flush>>
vars   == <<mode, queues, muted, flight, ids, broker, horizon, life, app, faults>>

Idempotent == mode = "idempotent"
Ordered    == mode # "plain"                   \* guarantee_message_order
NoFlush    == [on |-> FALSE, waits |-> {}, upto |-> 0]
Fresh      == [first |-> 0, next |-> 0, base |-> 0]  \* of a producer id

Init ==
  /\ mode \in Mode
  /\ metadata = FALSE /\ sent = 0 /\ batch = <<>> /\ dq = [p \in Partition |-> <<>>]
  /\ incomplete = {} /\ muted = {} /\ flight = {}
  /\ pid = 0 /\ fresh = 1 /\ seqno = [p \in Partition |-> 0]
  /\ log = [p \in Partition |-> <<>>]
  /\ known = [p \in Partition |-> <<>>]          \* producer id -> numbers
  /\ horizon = 0 /\ life = "open" /\ flush = NoFlush /\ faults = 0

SpendFault == faults < MaxFaults /\ faults' = faults + 1
Waiting    == UNION {ToSet(dq[p]) : p \in Partition}
Flying     == {f.id : f \in flight}
Done(b)    == batch[b].final # "none"

-----------------------------------------------------------------------------
(* Application threads                                                     *)

\* try_append: a batch is closed when it is drained.
HasRoom(b) == Len(batch[b].recs) < BatchSize /\ ~batch[b].closed

NewBatch(p, r) ==
  [tp |-> p, recs |-> <<r>>, final |-> "none", base |-> 0, attempts |-> 0,
   pid |-> 0, seq |-> 0, closed |-> FALSE]

\* append: the last batch of the queue takes the record, or a new one does.
AppendRecord(p, r) ==
  IF dq[p] # <<>> /\ HasRoom(Last(dq[p]))
  THEN /\ batch' = [batch EXCEPT ![Last(dq[p])].recs = Append(@, r)]
       /\ UNCHANGED <<dq, incomplete>>
  ELSE /\ batch' = Append(batch, NewBatch(p, r))
       /\ dq' = [dq EXCEPT ![p] = Append(@, Len(batch) + 1)]
       /\ incomplete' = incomplete \cup {Len(batch) + 1}

\* _wait_on_metadata: what send() asks for has come; until then it waits, and
\* sends nothing if max_block_ms pass first.
MetadataArrives ==
  /\ ~metadata /\ life = "open" /\ metadata' = TRUE
  /\ UNCHANGED <<mode, queues, muted, flight, ids, broker, horizon, life, sent, flush, faults>>

\* _partition: the caller's choice or the partitioner's.
Assignable == IF metadata THEN Partition ELSE {}

Send(p) ==
  /\ life = "open" /\ p \in Assignable /\ sent < MaxRecords
  /\ AppendRecord(p, sent + 1) /\ sent' = sent + 1
  /\ UNCHANGED <<mode, muted, flight, ids, broker, horizon, life, metadata, flush, faults>>

\* Faulty variant: flush waits for what is in the queues.
FlushWaiting == flush' = [on |-> TRUE, waits |-> Waiting, upto |-> sent]
\* flush(): begin_flush, and the batches to wait for.
Flush == flush' = [on |-> TRUE, waits |-> incomplete, upto |-> sent]
StartFlush ==
  /\ ~flush.on /\ life = "open" /\ sent > 0 /\ Flush
  /\ UNCHANGED <<mode, queues, muted, flight, ids, broker, horizon, life, metadata, sent, faults>>
FlushReturns ==
  /\ flush.on /\ (\A b \in flush.waits : Done(b)) /\ flush' = [flush EXCEPT !.on = FALSE]
  /\ UNCHANGED <<mode, queues, muted, flight, ids, broker, horizon, life, metadata, sent, faults>>

\* close(): once it has flushed, the sender is to finish what other threads
\* have sent; it is forced when it does not do so in time.
InitiateClose ==
  /\ life = "open" /\ ~flush.on /\ flush.waits # {} /\ life' = "closing"
  /\ UNCHANGED <<mode, queues, muted, flight, ids, broker, horizon, app, faults>>
ForceClose ==
  /\ life = "closing" /\ (Gap \/ incomplete \subseteq Waiting)
  /\ SpendFault /\ life' = "forced"
  /\ UNCHANGED <<mode, queues, muted, flight, ids, broker, horizon, app>>

-----------------------------------------------------------------------------
(* The sender's thread                                                     *)

Runs == life \in {"open", "closing"}

\* reset_producer_id: the id is given up, and with it all sequence numbers.
ResetProducerId == pid' = 0 /\ seqno' = [p \in Partition |-> 0]

\* _maybe_wait_for_producer_id.
InitProducerId ==
  /\ Runs /\ Idempotent /\ pid = 0 /\ pid' = fresh /\ fresh' = fresh + 1
  /\ UNCHANGED <<mode, queues, muted, flight, seqno, broker, horizon, life, app, faults>>

\* Faulty variant: batches of a muted partition are drained.
DrainableMuted(p) == dq[p] # <<>> /\ Cardinality({f \in flight : f.tp = p}) < MaxInFlight
Drainable(p) ==
  /\ dq[p] # <<>> /\ p \notin muted
  /\ Cardinality({f \in flight : f.tp = p}) < MaxInFlight

\* Faulty variant: a batch that is tried again loses its producer id.
DrainedBare(b) ==
  [batch[b] EXCEPT !.closed = TRUE, !.seq = seqno[batch[b].tp],
                   !.pid = IF batch[b].attempts = 0 THEN pid ELSE 0]
\* A batch keeps the producer id and sequence number of the first attempt.
Drained(b) ==
  IF Idempotent /\ batch[b].attempts = 0
  THEN [batch[b] EXCEPT !.closed = TRUE, !.pid = pid, !.seq = seqno[batch[b].tp]]
  ELSE [batch[b] EXCEPT !.closed = TRUE]

\* expired_batches: from the head, up to the first that has not expired.
Overdue(q)     == {i \in 1 .. Len(q) : \A k \in 1 .. i : q[k] <= horizon}
ExpiredHead(q) == {q[i] : i \in Overdue(q)}
Unexpired(q)   == SubSeq(q, Cardinality(Overdue(q)) + 1, Len(q))

\* drain: the first batches of some partitions, and what stays in a queue.
Drain(ps) == {Head(dq[p]) : p \in ps}
Undrained(ps, p) == IF p \in ps THEN Tail(dq[p]) ELSE dq[p]

\* _create_produce_requests: what has been drained, on its way.
ProduceRequests(bs) == {[id |-> b, tp |-> batch[b].tp, res |-> "none", base |-> 0] : b \in bs}

\* _send_producer_data: the batches of some partitions (nodes that are ready,
\* no backoff) are drained, then all expired batches are failed, those just
\* drained with them. If one of them is a retry the producer id is given up,
\* and what has been drained is not sent.
SendProducerData(ps) ==
  LET drained == Drain(ps)
      rest(p) == Undrained(ps, p)
      stale   == {b \in drained \cup Flying : b <= horizon /\ ~Done(b)}
      expired == stale \cup UNION {ExpiredHead(rest(p)) : p \in Partition}
      reset   == Idempotent /\ \E b \in expired : batch[b].attempts > 0
  IN  /\ Runs /\ (Idempotent => pid # 0) /\ \A p \in ps : Drainable(p)
      /\ drained \cup expired # {}
      /\ batch' = [b \in 1 .. Len(batch) |->
           LET c == IF b \in drained THEN Drained(b) ELSE batch[b]
           IN  IF b \in expired THEN [c EXCEPT !.final = "failed", !.closed = TRUE] ELSE c]
      /\ dq' = [p \in Partition |-> Unexpired(rest(p))]
      /\ incomplete' = incomplete \ expired
      /\ muted' = IF Ordered THEN muted \cup ps ELSE muted
      /\ IF reset
         THEN ResetProducerId /\ UNCHANGED flight
         ELSE flight' = flight \cup ProduceRequests(drained) /\ UNCHANGED <<pid, seqno>>
      /\ UNCHANGED <<mode, fresh, broker, horizon, life, app, faults>>

\* What a batch that has failed does to the producer id and the numbers.
FailIds(b, error) ==
  IF Idempotent /\ error = "out_of_order" /\ pid = batch[b].pid
  THEN ResetProducerId /\ UNCHANGED fresh
  ELSE IF Idempotent /\ error = "unknown_producer"
  THEN seqno' = [seqno EXCEPT ![batch[b].tp] = 0] /\ UNCHANGED <<pid, fresh>>
  ELSE UNCHANGED ids

\* Faulty variant: a batch that has expired is tried again as well.
CanRetryLate(b, error) == error \in {"lost", "retriable"} /\ batch[b].attempts < Retries
CanRetry(b, error) ==
  /\ error \in {"lost", "retriable"} /\ batch[b].attempts < Retries
  /\ b > horizon /\ ~Done(b)

\* reenqueue: one more attempt, and back to the head of its queue.
Reenqueue(b) ==
  /\ batch' = [batch EXCEPT ![b].attempts = @ + 1]
  /\ dq' = [dq EXCEPT ![batch[b].tp] = <<b>> \o @]

\* done: the first end of a batch is the one its futures tell.
Settled(b, final, base) ==
  IF Done(b) THEN batch ELSE [batch EXCEPT ![b].final = final, ![b].base = base]

\* _complete_batch, with an error: once more, or failed.
CompleteError(f) ==
  LET b == f.id
  IN  /\ f.res \notin {"none", "ok"}
      /\ IF CanRetry(b, f.res) /\ (Idempotent => pid = batch[b].pid)
         THEN Reenqueue(b) /\ UNCHANGED <<incomplete, ids>>
         ELSE /\ batch' = Settled(b, "failed", 0)
              /\ incomplete' = incomplete \ {b} /\ FailIds(b, f.res) /\ UNCHANGED dq

\* Faulty variant: a batch that was tried again is not counted.
RecordsFirst(b) == IF batch[b].attempts = 0 THEN Len(batch[b].recs) ELSE 0
\* increment_sequence_number counts records.
Records(b) == Len(batch[b].recs)
\* _complete_batch of a batch that the broker has taken.
CompleteOk(f) ==
  LET b == f.id
  IN  /\ f.res = "ok"
      /\ batch' = Settled(b, "ok", f.base)
      /\ incomplete' = incomplete \ {b}
      /\ seqno' = IF Idempotent /\ pid = batch[b].pid
                  THEN [seqno EXCEPT ![f.tp] = @ + Records(b)] ELSE seqno
      /\ UNCHANGED <<dq, pid, fresh>>

Complete(f) ==
  /\ Runs /\ (CompleteError(f) \/ CompleteOk(f))
  /\ flight' = flight \ {f} /\ muted' = muted \ {f.tp}
  /\ UNCHANGED <<mode, broker, horizon, life, app, faults>>

\* Faulty variant: the sender stops as soon as the queues are empty.
FinishEarly ==
  /\ life = "closing" /\ Waiting = {} /\ life' = "dead"
  /\ UNCHANGED <<mode, queues, muted, flight, ids, broker, horizon, app, faults>>
\* run() ends when nothing is left to do, or by force: then what is incomplete
\* is aborted, batch by batch, in the order of a set. A batch in flight is in
\* no queue: deque.remove raises, and the rest is not aborted.
Finish ==
  /\ life = "closing" /\ Waiting = {} /\ flight = {} /\ life' = "dead"
  /\ UNCHANGED <<mode, queues, muted, flight, ids, broker, horizon, app, faults>>
AbortBatch(p) ==
  /\ life = "forced"
  /\ \E i \in 1 .. Len(dq[p]) :
       /\ batch' = [batch EXCEPT ![dq[p][i]].final = "aborted", ![dq[p][i]].closed = TRUE]
       /\ dq' = [dq EXCEPT ![p] = RemoveAt(@, i)]
       /\ incomplete' = incomplete \ {dq[p][i]}
  /\ UNCHANGED <<mode, muted, flight, ids, broker, horizon, life, app, faults>>
AbortEnds ==
  /\ life = "forced" /\ (incomplete \subseteq Waiting => incomplete = {}) /\ life' = "dead"
  /\ UNCHANGED <<mode, queues, muted, flight, ids, broker, horizon, app, faults>>
AbortIncomplete == AbortEnds \/ \E p \in Partition : AbortBatch(p)

-----------------------------------------------------------------------------
(* Brokers, connections and time                                           *)

Answered(f, res, base) ==
  flight' = (flight \ {f}) \cup {[f EXCEPT !.res = res, !.base = base]}

\* The numbers a broker keeps of the last batch of a producer id: the first
\* sequence number, the next one, and where the batch is.
Numbers(p, id) == IF id \in DOMAIN known[p] THEN known[p][id] ELSE Fresh
Take(f, b) ==
  /\ log' = [log EXCEPT ![f.tp] = @ \o b.recs]
  /\ known' = IF ~Idempotent THEN known
              ELSE [known EXCEPT ![f.tp] = [id \in DOMAIN @ \cup {b.pid} |->
                IF id = b.pid THEN [first |-> b.seq, next |-> b.seq + Len(b.recs),
                                    base |-> Len(log[f.tp])]
                ELSE @[id]]]
  /\ Answered(f, "ok", Len(log[f.tp]))

\* The broker takes the batch, has taken it already, or refuses its number.
BrokerAppend(f) ==
  LET b   == batch[f.id]
      num == Numbers(f.tp, b.pid)
  IN  /\ f.res = "none"
      /\ IF ~Idempotent \/ b.seq = num.next THEN Take(f, b)
         ELSE /\ IF b.seq = num.first /\ b.seq + Len(b.recs) = num.next
                 THEN Answered(f, "ok", num.base)
                 ELSE IF num = Fresh THEN Answered(f, "unknown_producer", 0)
                 ELSE Answered(f, "out_of_order", 0)
              /\ UNCHANGED broker
      /\ UNCHANGED <<mode, queues, muted, ids, horizon, life, app, faults>>

\* With idempotence the code loses track of a batch whose last attempt fails
\* when that attempt or an earlier one may have been written.
Tracked(b, error) ==
  \/ Gap \/ ~Idempotent \/ CanRetry(b, error)
  \/ error # "lost" /\ batch[b].attempts = 0

BrokerRefuses(f) ==
  /\ f.res = "none" /\ SpendFault
  /\ \E error \in {"retriable", "fatal"} : Tracked(f.id, error) /\ Answered(f, error, 0)
  /\ UNCHANGED <<mode, queues, muted, ids, broker, horizon, life, app>>

\* The request or its answer is lost: a timeout, a broken connection.
Lose(f) ==
  /\ f.res \in {"none", "ok"} /\ Tracked(f.id, "lost")
  /\ SpendFault /\ Answered(f, "lost", 0)
  /\ UNCHANGED <<mode, queues, muted, ids, broker, horizon, life, app>>

\* What the broker knew of producer ids has expired; that takes longer than
\* the delivery of a batch.
BrokerForgets(p) ==
  /\ known[p] # <<>> /\ \A b \in 1 .. Len(batch) : Done(b) \/ batch[b].pid = 0
  /\ SpendFault /\ known' = [known EXCEPT ![p] = <<>>]
  /\ UNCHANGED <<mode, queues, muted, flight, ids, log, horizon, life, app>>

\* delivery_timeout_ms has passed for the batches up to b.
TimePasses(b) ==
  /\ b > horizon /\ ~Done(b) /\ SpendFault /\ horizon' = b
  /\ Gap \/ ~Idempotent \/ \A c \in 1 .. b : Done(c) \/ batch[c].attempts = 0
  /\ Gap \/ ~Idempotent \/ \A f \in flight : f.res # "lost"
  /\ UNCHANGED <<mode, queues, muted, flight, ids, broker, life, app>>

-----------------------------------------------------------------------------
Sender ==
  \/ InitProducerId \/ Finish \/ AbortIncomplete
  \/ \E ps \in SUBSET Partition : SendProducerData(ps)
  \/ \E f \in flight : Complete(f)
Application ==
  \/ \E p \in Partition : Send(p)
  \/ MetadataArrives \/ StartFlush \/ FlushReturns \/ InitiateClose \/ ForceClose
Environment ==
  \/ \E f \in flight : BrokerAppend(f) \/ BrokerRefuses(f) \/ Lose(f)
  \/ \E p \in Partition : BrokerForgets(p)
  \/ \E b \in 1 .. Len(batch) : TimePasses(b)

Next == Sender \/ Application \/ Environment
Spec == Init /\ [][Next]_vars

\* The sender's thread runs and nodes become ready in the end; brokers answer.
FairSpec ==
  /\ Spec /\ WF_vars(InitProducerId) /\ WF_vars(Finish) /\ WF_vars(AbortIncomplete)
  /\ WF_vars(\E ps \in SUBSET Partition \ {{}} : SendProducerData(ps))
  /\ WF_vars(\E f \in flight : Complete(f)) /\ WF_vars(\E f \in flight : BrokerAppend(f))

-----------------------------------------------------------------------------
(* Properties                                                              *)

\* _produce_success: the offset in the metadata of the i-th record of a batch.
RecordOffset(b, i) == batch[b].base + (i - 1)

Position(p, r) == {i \in 1 .. Len(log[p]) : log[p][i] = r}
All == 1 .. Len(batch)
BatchOf(r) == CHOOSE b \in All : r \in ToSet(batch[b].recs)

\* A batch is in one queue or in one request or at its end; with one request
\* in flight queues keep the order of creation, and a partition is muted as long
\* as a batch of it is in flight and no longer, or it is never sent to again.
TypeOK ==
  /\ Ordered => \A p \in Partition :
       /\ \A i, j \in 1 .. Len(dq[p]) : i < j => dq[p][i] < dq[p][j]
       /\ p \in muted <=> \E f \in flight : f.tp = p
  /\ Waiting \cap Flying = {} /\ \A b \in Waiting : ~Done(b)
  /\ Cardinality(Flying) = Cardinality(flight)
  /\ incomplete \subseteq All /\ pid < fresh
  /\ \A b \in All : batch[b].final \in {"none", "ok", "failed", "aborted"}

\* A record whose future has succeeded is in the log, at the offset its
\* RecordMetadata gives: _complete_batch never takes the answer to one batch
\* for that to another.
AckedIsInLog ==
  \A b \in All : batch[b].final = "ok" =>
    \A i \in 1 .. Len(batch[b].recs) :
      (RecordOffset(b, i) + 1) \in Position(batch[b].tp, batch[b].recs[i])

\* An idempotent producer writes no record twice, whatever is lost and sent
\* again (the documentation of enable_idempotence).
AtMostOnce ==
  Idempotent => \A p \in Partition : \A r \in 1 .. sent : Cardinality(Position(p, r)) <= 1

\* With one request in flight no batch is written after one that was made
\* later, retries or not, and without copies the records are in order.
OrderKept ==
  Ordered => \A p \in Partition : \A i, j \in 1 .. Len(log[p]) : i < j =>
    /\ BatchOf(log[p][i]) <= BatchOf(log[p][j])
    /\ Idempotent => log[p][i] < log[p][j]

\* flush() returns when every record sent before it has its result.
FlushKeepsPromise ==
  [][flush.on /\ ~flush'.on =>
       \A b \in All : batch[b].recs[1] <= flush.upto => Done(b)]_vars

\* Every record gets its result, through retries, timeouts and close().
EveryRecordSettles ==
  \A r \in 1 .. MaxRecords :
    sent >= r ~> \E b \in All : r \in ToSet(batch[b].recs) /\ Done(b)
=============================================================================
