------------------------------- MODULE Fetcher -------------------------------
(***************************************************************************)
(* The consumer of src/kafka as an iterator over one manually assigned      *)
(* partition: KafkaConsumer.__next__ and poll (group.py), the Fetcher       *)
(* (fetcher.py) and the state of the partition (subscription_state.py).     *)
(*                                                                         *)
(* One thread runs all of it.  What makes it hard is what is under way      *)
(* while the caller seeks: fetches and offset lookups in flight, answers    *)
(* not yet parsed, a batch parsed in part, records handed to the iterator.  *)
(* Producers append batches; a fetch is answered with whole batches, so it  *)
(* may begin below the offset that was asked for.                           *)
(***************************************************************************)
EXTENDS Integers, Sequences, SequencesExt, FiniteSets

CONSTANTS
  Node,           \* brokers that lead the partition in turn
  Undecodable,    \* offsets whose record the deserializer raises on
  MaxPoll,        \* max_poll_records
  Expires,        \* does retention delete old records?
  MaxOffset,      \* bound: records ever appended
  MaxCalls,       \* bound: seeks, pauses and resumes
  MaxLookups,     \* bound: ListOffsets requests in flight
  MaxFailures     \* bound: failed requests

ASSUME NodeAssumption == Node # {} /\ IsFiniteSet(Node)
ASSUME BoundAssumption ==
  /\ Undecodable \subseteq Nat
  /\ MaxPoll \in Nat \ {0} /\ Expires \in BOOLEAN
  /\ MaxOffset \in Nat /\ MaxCalls \in Nat
  /\ MaxLookups \in Nat \ {0} /\ MaxFailures \in Nat

VARIABLES
  bases,          \* first offsets of the batches in the partition
  logStart,       \* first offset retention has left
  logEnd,         \* offset of the next record to be appended
  leader,         \* the leader in the client's metadata
  position,       \* TopicPartitionState.position, or None
  reset,          \* its reset_strategy
  paused,         \* its paused
  backingOff,     \* its next_allowed_retry_time lies ahead
  fetching,       \* the offset of the fetch pending at each node, or None
  lookups,        \* ListOffsets requests in flight
  cached,         \* is there a _cached_list_offsets_exception?
  completed,      \* _completed_fetches
  part,           \* _next_partition_records
  inLine,         \* _next_in_line_exception_metadata: its offset, or None
  pc,             \* where the thread is
  records,        \* records drained, or those the iterator has left
  calls,          \* how often the caller moved the position
  out,            \* history: the offset handed out last
  failures        \* requests that failed

partition    == <<bases, logStart, logEnd>>
subscription == <<position, reset, paused, backingOff>>
network      == <<leader, fetching, lookups, failures>>
buffers      == <<completed, part, inLine, cached>>
caller       == <<calls, out>>
vars == <<partition, subscription, network, buffers, pc, records, caller>>

None      == -1
Offset    == 0 .. MaxOffset
Strategy  == {"none", "earliest", "latest"}
Default   == "latest"      \* auto_offset_reset, as the handler leaves it

(***************************************************************************)
(* PartitionRecords.  `next` is next_fetch_offset: the offset asked for,    *)
(* then the one after the record unpacked last; `cursor` is what the        *)
(* generator unpacks next and `end` where the answer ends.                  *)
(*   live    there may be more records                                      *)
(*   dead    the generator raised                                           *)
(*   gone    drained, or there was none (both are falsy)                    *)
(***************************************************************************)
Part == [state : {"gone", "live", "dead"},
         next : Offset, cursor : Offset, end : Offset]
Gone == [state |-> "gone", next |-> 0, cursor |-> 0, end |-> 0]

\* A parsed answer; the kind is that of its error code.
Completion == [kind : {"records", "outOfRange", "retriable", "fatal"},
               offset : Offset, base : Offset, end : Offset]
Lookup == [strategy : Strategy, since : Offset]

TypeOK ==
  /\ bases \subseteq Offset
  /\ logStart \in Offset /\ logEnd \in Offset /\ logStart <= logEnd
  /\ leader \in Node
  /\ position \in Offset \cup {None} /\ reset \in Strategy
  /\ paused \in BOOLEAN /\ backingOff \in BOOLEAN
  /\ fetching \in [Node -> Offset \cup {None}]
  /\ lookups \in Seq(Lookup) /\ cached \in BOOLEAN
  /\ completed \in Seq(Completion) /\ part \in Part
  /\ inLine \in Offset \cup {None}
  /\ pc \in {"user", "positions", "drain", "send", "wait", "again", "round",
             "yield", "locate", "locating"}
  /\ records \in Seq(0 .. MaxOffset - 1)
  /\ calls \in 0 .. MaxCalls /\ failures \in 0 .. MaxFailures
  /\ out \in Offset \cup {None}

Fetchable  == ~paused /\ position # None
Spend      == failures < MaxFailures /\ failures' = failures + 1
Room       == MaxPoll - Len(records)

\* Answers to a fetch from o are whole batches: a[1] is where the
\* one with o begins, a[2] where one ends.
Answer(o) == {a \in bases \X (bases \cup {logEnd}) :
                a[1] <= o /\ o < a[2] /\ a[1] + 1 .. o \cap bases = {}}

Init ==
  /\ bases = {} /\ logStart = 0 /\ logEnd = 0
  /\ leader \in Node
  /\ position = None /\ reset = "none"
  /\ paused = FALSE /\ backingOff = FALSE
  /\ fetching = [n \in Node |-> None] /\ lookups = <<>> /\ cached = FALSE
  /\ completed = <<>> /\ part = Gone /\ inLine = None
  /\ pc = "user" /\ records = <<>>
  /\ calls = 0 /\ failures = 0
  /\ out = None

-----------------------------------------------------------------------------
(* Brokers                                                                 *)

\* A producer's batch of n records is appended.
Produce(n) ==
  /\ logEnd + n <= MaxOffset
  /\ bases' = bases \cup {logEnd}
  /\ logEnd' = logEnd + n
  /\ UNCHANGED <<logStart, subscription, network, buffers, pc, records, caller>>

Expire(n) ==
  /\ Expires /\ logStart < n /\ n <= logEnd
  /\ logStart' = n
  /\ UNCHANGED <<bases, logEnd, subscription, network, buffers, pc, records,
                 caller>>

\* A metadata update names another leader.
MoveLeader(n) ==
  /\ n # leader
  /\ leader' = n
  /\ UNCHANGED <<partition, subscription, fetching, lookups, failures, buffers,
                 pc, records, caller>>

-----------------------------------------------------------------------------
(* The caller, between two calls                                           *)

\* seek, seek_to_end and seek_to_beginning also drop the iterator.
MovePosition(o, strategy) ==
  /\ pc = "user" /\ calls < MaxCalls
  /\ position' = o /\ reset' = strategy /\ backingOff' = FALSE
  /\ records' = <<>> /\ calls' = calls + 1
  /\ UNCHANGED <<partition, paused, network, buffers, pc, out>>

Seek(o)       == MovePosition(o, "none")
SeekToEnd     == MovePosition(None, "latest")
SeekToStart   == MovePosition(None, "earliest")

PauseOrResume ==
  /\ pc = "user" /\ calls < MaxCalls
  /\ paused' = ~paused /\ calls' = calls + 1
  /\ UNCHANGED <<partition, position, reset, backingOff, network, buffers, pc,
                 records, out>>

\* position() without a valid position.
AskPosition ==
  /\ pc = "user" /\ position = None
  /\ pc' = "locate"
  /\ UNCHANGED <<partition, subscription, network, buffers, records, caller>>

\* next() with nothing at hand polls.
AskNext ==
  /\ pc = "user" /\ records = <<>>
  /\ pc' = "positions"
  /\ UNCHANGED <<partition, subscription, network, buffers, records, caller>>

\* The iterator returns its next record, right after the poll that got it
\* or when next() is called again ...
Yield ==
  /\ pc \in {"user", "yield"} /\ records # <<>> /\ Fetchable
  /\ position' = Head(records) + 1
  /\ out' = Head(records)
  /\ records' = Tail(records)
  /\ pc' = "user"
  /\ UNCHANGED <<partition, reset, paused, backingOff, network, buffers, calls>>

\* ... or drops what it has, and polls.
DropRecords ==
  /\ pc \in {"user", "yield"} /\ records # <<>> /\ ~Fetchable
  /\ records' = <<>> /\ pc' = "positions"
  /\ UNCHANGED <<partition, subscription, network, buffers, caller>>

-----------------------------------------------------------------------------
(* _update_fetch_positions                                                 *)

HavePosition ==
  /\ pc = "positions" /\ position # None
  /\ pc' = "drain"
  /\ UNCHANGED <<partition, subscription, network, buffers, records, caller>>

Positioned == IF pc = "positions" THEN "drain" ELSE "locating"

\* Faulty variant: a position nobody has asked for stays missing.
ResetMissingNot == UNCHANGED <<reset, position, paused>>

\* reset_missing_positions, before reset_offsets_if_needed looks for an
\* exception an earlier lookup left.
ResetMissing ==
  /\ reset' = IF reset = "none" THEN Default ELSE reset
  /\ UNCHANGED <<position, paused>>

RaiseCached ==
  /\ pc \in {"positions", "locate"} /\ position = None /\ cached
  /\ ResetMissing /\ backingOff' = (backingOff /\ reset # "none")
  /\ cached' = FALSE /\ pc' = "user"
  /\ UNCHANGED <<partition, network, completed, part, inLine, records, caller>>

Allowed == ~backingOff \/ reset = "none"

\* A lookup is sent to the leader, or the leader is not ready.
SendLookup ==
  /\ pc \in {"positions", "locate"} /\ position = None /\ ~cached
  /\ Allowed
  /\ ResetMissing
  /\ \/ /\ Len(lookups) < MaxLookups
        /\ lookups' = Append(lookups,
             [strategy |-> reset',
              since |-> IF reset' = "latest" THEN logEnd ELSE logStart])
        /\ backingOff' = TRUE
        /\ UNCHANGED failures
     \/ /\ Spend \/ (Len(lookups) = MaxLookups /\ UNCHANGED failures)
        /\ backingOff' = FALSE
        /\ UNCHANGED lookups
  /\ pc' = Positioned
  /\ UNCHANGED <<partition, leader, fetching, buffers, records, caller>>

AwaitLookup ==
  /\ pc \in {"positions", "locate"} /\ position = None /\ ~cached
  /\ ~Allowed
  /\ pc' = Positioned
  /\ UNCHANGED <<partition, subscription, network, buffers, records, caller>>

\* The retry backoff, or the time a pending lookup is given, has passed.
BackoffPasses ==
  /\ backingOff
  /\ backingOff' = FALSE
  /\ UNCHANGED <<partition, position, reset, paused, network, buffers, pc,
                 records, caller>>

-----------------------------------------------------------------------------
(* fetched_records: one step per turn of its loop                          *)

Draining == pc \in {"drain", "again"}

\* The loop is over with the records d and the completed fetches c.
Leave(d, c) ==
  /\ records' = d
  /\ pc' = IF pc = "drain" /\ c = <<>> THEN "send"
           ELSE IF d # <<>> THEN "yield" ELSE "round"

\* An exception in the loop: raised at once, or kept for the next call if
\* there are records to return first; c are the fetches still to be parsed.
Fail(offset, c) ==
  IF records = <<>>
    THEN pc' = "user" /\ UNCHANGED <<inLine, records>>
    ELSE inLine' = offset /\ Leave(records, c)

\* The exception an earlier call kept, unless the caller moved away.
RaiseInLine ==
  /\ Draining /\ inLine # None
  /\ inLine' = None
  /\ pc' = IF Fetchable /\ position = inLine THEN "user" ELSE pc
  /\ UNCHANGED <<partition, subscription, network, completed, part, cached,
                 records, caller>>

\* _parse_fetched_data of the answer popped.
Parse ==
  /\ Draining /\ inLine = None
  /\ Room > 0 /\ part.state = "gone" /\ completed # <<>>
  /\ completed' = Tail(completed)
  /\ LET c == Head(completed)
         current == Fetchable /\ position = c.offset
     IN  \/ /\ c.kind = "records" /\ current
            /\ part' = [state |-> "live", next |-> c.offset, cursor |-> c.base,
                        end |-> c.end]
            /\ UNCHANGED <<subscription, inLine, pc, records>>
         \/ /\ c.kind = "outOfRange" /\ current
            /\ position' = None /\ reset' = Default /\ backingOff' = FALSE
            /\ UNCHANGED <<paused, part, inLine, pc, records>>
         \/ /\ c.kind = "fatal" /\ Fetchable
            /\ Fail(c.offset, Tail(completed))
            /\ UNCHANGED <<subscription, part>>
         \/ /\ ~Fetchable \/ c.kind = "retriable"
                 \/ (c.kind # "fatal" /\ ~current)
            /\ UNCHANGED <<subscription, part, inLine, pc, records>>
  /\ UNCHANGED <<partition, network, cached, caller>>

\* _append drops records that are not next in line.
Discard ==
  /\ Draining /\ inLine = None
  /\ Room > 0 /\ part.state # "gone"
  /\ ~Fetchable \/ part.next # position
  /\ part' = Gone
  /\ UNCHANGED <<partition, subscription, network, completed, inLine, cached, pc,
                 records, caller>>

\* Faulty variant: the records are taken wherever the position is.
MineAny == /\ Draining /\ inLine = None
           /\ Room > 0 /\ part.state # "gone"
           /\ Fetchable

Mine == /\ Draining /\ inLine = None
        /\ Room > 0 /\ part.state # "gone"
        /\ Fetchable /\ part.next = position

(***************************************************************************)
(* PartitionRecords.take(Room).  The generator unpacks what lies below the  *)
(* offset asked for, too, and skips it, so that the first record to be      *)
(* taken is at `next`.  The position stays: the iterator moves it when it   *)
(* returns a record.                                                        *)
(***************************************************************************)
Taking  == Mine /\ part.state = "live"
Take(e) == records \o [n \in 1 .. e - part.next |-> part.next + n - 1]
Unpacks(e) == e <= part.end /\ part.cursor .. e - 1 \cap Undecodable = {}

\* islice stops after Room records and leaves the generator where it is.
TakeSome ==
  /\ Taking
  /\ LET e == part.next + Room IN
       /\ Unpacks(e)
       /\ records' = Take(e)
       /\ part' = [part EXCEPT !.next = e, !.cursor = e]
  /\ UNCHANGED <<partition, subscription, network, completed, inLine, cached, pc,
                 caller>>

\* Faulty variant: the generator comes to its end and does not drain.
TakeRestUndrained ==
  /\ Taking /\ part.next + Room > part.end
  /\ Unpacks(part.end)
  /\ records' = Take(part.end)
  /\ part' = [part EXCEPT !.next = part.end, !.cursor = part.end]
  /\ UNCHANGED <<partition, subscription, network, completed, inLine, cached, pc,
                 caller>>

\* The generator comes to its end and drains.
TakeRest ==
  /\ Taking /\ part.next + Room > part.end
  /\ Unpacks(part.end)
  /\ records' = Take(part.end)
  /\ part' = Gone
  /\ UNCHANGED <<partition, subscription, network, completed, inLine, cached, pc,
                 caller>>

\* The deserializer raises on the record b.  After some records take keeps the
\* exception, but what follows them is not next in line until the iterator has
\* returned them: it is discarded, fetched again, and raises then.
TakeRaises ==
  /\ Taking
  /\ \E b \in Undecodable \cap (part.cursor .. part.end - 1) :
       /\ Unpacks(b) /\ b < part.next + Room
       /\ part' = [part EXCEPT !.state = "dead", !.cursor = b,
                               !.next = IF b = part.cursor THEN @ ELSE b]
       /\ IF b > part.next
            THEN records' = Take(b) /\ UNCHANGED <<inLine, pc>>
            ELSE Fail(part.next, completed)
  /\ UNCHANGED <<partition, subscription, network, completed, cached, caller>>

\* A dead generator returns nothing and is not drained: the loop goes on.
TakeNothing ==
  /\ Mine /\ part.state = "dead"
  /\ UNCHANGED vars

LeaveLoop ==
  /\ Draining /\ inLine = None
  /\ Room = 0 \/ (part.state = "gone" /\ completed = <<>>)
  /\ Leave(records, completed)
  /\ UNCHANGED <<partition, subscription, network, buffers, caller>>

-----------------------------------------------------------------------------
(* The rest of _poll_once, and the answers client.poll receives            *)

\* send_fetches: nothing is asked for while there are records to be parsed
\* or while the leader owes an answer.
MaySend == Fetchable /\ part.state = "gone" /\ fetching[leader] = None

SendFetch ==
  /\ pc = "send" /\ MaySend
  /\ fetching' = [fetching EXCEPT ![leader] = position]
  /\ pc' = "wait"
  /\ UNCHANGED <<partition, subscription, leader, lookups, failures, buffers,
                 records, caller>>

\* Nothing to send, or the leader is not ready.
SendNothing ==
  /\ pc = "send"
  /\ IF MaySend THEN Spend ELSE UNCHANGED failures
  /\ pc' = IF records = <<>> THEN "wait" ELSE "yield"
  /\ UNCHANGED <<partition, subscription, leader, fetching, lookups, buffers,
                 records, caller>>

Polling == pc \in {"wait", "locating"}

\* The node's answer is queued; it is parsed later.
Answered(n, kind, base, end) ==
  /\ completed' = Append(completed, [kind |-> kind, offset |-> fetching[n],
                                     base |-> base, end |-> end])
  /\ fetching' = [fetching EXCEPT ![n] = None]
  /\ UNCHANGED <<partition, subscription, leader, lookups, part, inLine, cached,
                 pc, records, caller>>

FetchRecords(n) ==
  /\ Polling /\ fetching[n] # None
  /\ logStart <= fetching[n] /\ fetching[n] <= logEnd
  /\ IF fetching[n] = logEnd
       THEN Answered(n, "records", logEnd, logEnd)
       ELSE \E a \in Answer(fetching[n]) : Answered(n, "records", a[1], a[2])
  /\ UNCHANGED failures

FetchOutOfRange(n) ==
  /\ Polling /\ fetching[n] # None
  /\ fetching[n] < logStart \/ fetching[n] > logEnd
  /\ Answered(n, "outOfRange", 0, 0)
  /\ UNCHANGED failures

\* An error code: retriable (no longer the leader), or not (no permission).
FetchError(n) ==
  /\ Polling /\ fetching[n] # None
  /\ \E kind \in {"retriable", "fatal"} : Answered(n, kind, 0, 0)
  /\ Spend

\* The connection is lost, or the request times out.
FetchFails(n) ==
  /\ Polling /\ fetching[n] # None
  /\ fetching' = [fetching EXCEPT ![n] = None]
  /\ Spend
  /\ UNCHANGED <<partition, subscription, leader, lookups, buffers, pc, records,
                 caller>>

\* _reset_offset_if_needed: the answer counts if that reset is still wanted.
ApplyLookup(lookup) ==
  IF reset # "none" /\ reset = lookup.strategy
    THEN /\ position' \in lookup.since ..
                          (IF reset = "latest" THEN logEnd ELSE logStart)
         /\ reset' = "none" /\ backingOff' = FALSE
         /\ UNCHANGED paused
    ELSE UNCHANGED subscription

LookupAnswered(i) ==
  /\ Polling /\ i \in DOMAIN lookups
  /\ lookups' = RemoveAt(lookups, i)
  /\ ApplyLookup(lookups[i])
  /\ UNCHANGED <<partition, leader, fetching, failures, buffers, pc, records,
                 caller>>

\* The partition's error is retriable, or the request fails with one that is
\* not and that is raised by the next lookup.
LookupFails(i) ==
  /\ Polling /\ i \in DOMAIN lookups
  /\ lookups' = RemoveAt(lookups, i)
  /\ backingOff' = TRUE
  /\ cached' \in {cached, TRUE}
  /\ Spend
  /\ UNCHANGED <<partition, position, reset, paused, leader, fetching, completed,
                 part, inLine, pc, records, caller>>

\* client.poll returns.
LeavePoll ==
  /\ Polling
  /\ pc' = CASE pc = "locating" -> IF position = None THEN "locate" ELSE "user"
             [] pc = "wait" -> IF records = <<>> THEN "again" ELSE "yield"
  /\ UNCHANGED <<partition, subscription, network, buffers, records, caller>>

\* Nothing came: poll goes round again, or its time is up and next() stops.
GoRound ==
  /\ pc = "round"
  /\ pc' = "positions"
  /\ UNCHANGED <<partition, subscription, network, buffers, records, caller>>

TimeUp ==
  /\ pc = "round"
  /\ pc' = "user"
  /\ UNCHANGED <<partition, subscription, network, buffers, records, caller>>

-----------------------------------------------------------------------------
Brokers ==
  \/ \E n \in 1 .. MaxOffset : Produce(n) \/ Expire(n)
  \/ \E n \in Node : MoveLeader(n)

Calls ==
  \/ \E o \in Offset : Seek(o)
  \/ SeekToEnd \/ SeekToStart \/ PauseOrResume \/ AskPosition

FetchedRecords ==
  \/ RaiseInLine \/ Parse \/ Discard
  \/ TakeSome \/ TakeRest \/ TakeRaises \/ TakeNothing
  \/ LeaveLoop

\* What the thread does by itself once the caller wants the next record.
Run ==
  \/ AskNext \/ Yield \/ DropRecords
  \/ HavePosition \/ RaiseCached \/ SendLookup \/ AwaitLookup
  \/ FetchedRecords
  \/ SendFetch \/ SendNothing \/ LeavePoll \/ GoRound

Answers ==
  \/ \E n \in Node : \/ FetchRecords(n) \/ FetchOutOfRange(n)
                     \/ FetchError(n) \/ FetchFails(n)
  \/ \E i \in 1 .. MaxLookups : LookupAnswered(i) \/ LookupFails(i)

Next == Brokers \/ Calls \/ Run \/ Answers \/ BackoffPasses \/ TimeUp

Spec == Init /\ [][Next]_vars

(***************************************************************************)
(* The caller goes on asking for the next record, time passes, and what is  *)
(* in flight is answered, if not within every poll.                         *)
(***************************************************************************)
Fairness ==
  /\ WF_vars(Run)
  /\ WF_vars(BackoffPasses)
  /\ SF_vars(TimeUp)
  /\ \A n \in Node : SF_vars(FetchRecords(n) \/ FetchOutOfRange(n))
  /\ SF_vars(\E i \in 1 .. MaxLookups : LookupAnswered(i))

FairSpec == Spec /\ Fairness

-----------------------------------------------------------------------------
(* Properties                                                              *)

OneBroker == \A a, b \in Node : a = b

\* The records between two seeks come in order, none left out, and from the
\* offset sought, whatever answers are late, stale or partly consumed; and
\* each comes once unless the leader moves, when two answers for one position
\* may be consumed (fetcher.py:375-406, 408-419, 819-824, 870-878).
Stream == INSTANCE RecordStream WITH
  Unset <- None, Repeats <- ~OneBroker, first <- logStart, end <- logEnd,
  cursor <- position, asked <- calls
ImplementsStream == Stream!Spec

\* No record is left out, even while the leader moves and two nodes answer for
\* one position: what the iterator has at hand begins at the position or before
\* it (fetcher.py:376, 391-406, 819-824).
NoGap ==
  pc \in {"user", "yield"} /\ records # <<>> /\ Fetchable
    => Head(records) <= position

\* The caller gets control back: poll does not outlive its timeout for good
\* (group.py:680-683, 705-713).
PollReturns == pc \notin {"user", "locate", "locating"} ~> pc = "user"

\* A caller that goes on reaches the end of the partition, through failed and
\* late answers, resets and its own seeks (fetcher.py:142-160, 175-205, 421-453).
ReachesEnd == <>[](paused \/ position = logEnd)

=============================================================================
