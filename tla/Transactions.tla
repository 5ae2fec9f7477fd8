---------------------------- MODULE Transactions ----------------------------
(***************************************************************************)
(* The transactional producer: the states and the queue of requests of      *)
(* kafka/producer/transaction_manager.py, the turns of the sender's thread  *)
(* that serve them (sender.py), and the calls of an application with one    *)
(* thread (kafka.py).                                                       *)
(*                                                                          *)
(* A batch is one record here; its travels are those of Producer with one   *)
(* request in flight for each partition. The transaction coordinator, the   *)
(* group and the brokers are external. Offsets are named after the          *)
(* transaction that sends them: each sends those of other partitions.       *)
(***************************************************************************)
EXTENDS Naturals, Sequences, FiniteSets, SequencesExt

CONSTANTS
  Partition,
  Retries,     \* retries of a record
  MaxTxns,     \* bound: transactions
  MaxRecords,  \* bound: records
  MaxFaults,   \* bound: refusals, lost answers, expired records, fences
  Gap          \* whether what the code does not cope with happens as well

ASSUME BoundAssumption ==
  /\ Retries \in Nat /\ MaxTxns \in Nat /\ MaxRecords \in Nat /\ MaxFaults \in Nat
  /\ Gap \in BOOLEAN

VARIABLES
  tm,      \* the TransactionManager
  flying,  \* the transactional request in flight, or None
  clear,   \* the sender has just seen that no batch is incomplete
  rec,     \* the records, numbered in the order of sending
  call,    \* what the application waits for
  txn,     \* the transaction the application is in, or was in last
  fate,    \* what has become of each, for the application
  coord,   \* the transaction coordinator
  group,   \* the offsets of each transaction, in the group
  faults

vars == <<tm, flying, clear, rec, call, txn, fate, coord, group, faults>>

States == {"UNINITIALIZED", "INITIALIZING", "READY", "IN_TRANSACTION",
           "COMMITTING_TRANSACTION", "ABORTING_TRANSACTION", "ABORTABLE_ERROR",
           "FATAL_ERROR"}

Request(kind) == [kind |-> kind, type |-> "transaction", parts |-> {}, offsets |-> {},
                  commit |-> FALSE, res |-> "none"]
None     == Request("none")
Find(ty) == [Request("find") EXCEPT !.type = ty]
Idle     == [kind |-> "none", res |-> "none"]

Init ==
  /\ tm = [state |-> "UNINITIALIZED", queue |-> <<>>, known |-> {}, new |-> {},
           pending |-> {}, added |-> {}, started |-> FALSE, offsets |-> {}, pid |-> FALSE]
  /\ flying = None /\ clear = FALSE /\ rec = <<>> /\ call = Idle /\ txn = 0
  /\ fate = [n \in 1 .. MaxTxns |-> "none"]
  /\ coord = [parts |-> {}, group |-> FALSE, last |-> "none", fenced |-> FALSE]
  /\ group = [n \in 1 .. MaxTxns |-> "none"] /\ faults = 0

SpendFault == faults < MaxFaults /\ faults' = faults + 1

Records    == 1 .. Len(rec)
Queued(r)  == rec[r].at = "queue"
InFlight   == {r \in Records : rec[r].at = "flight"}
Incomplete == {r \in Records : rec[r].final = "none"}
HasError   == tm.state \in {"ABORTABLE_ERROR", "FATAL_ERROR"}

-----------------------------------------------------------------------------
(* The transaction manager                                                 *)

Valid(from, to) ==
  CASE to = "INITIALIZING"           -> from = "UNINITIALIZED"
    [] to = "READY"                  -> from \in {"INITIALIZING", "COMMITTING_TRANSACTION",
                                                  "ABORTING_TRANSACTION"}
    [] to = "IN_TRANSACTION"         -> from = "READY"
    [] to = "COMMITTING_TRANSACTION" -> from = "IN_TRANSACTION"
    [] to = "ABORTING_TRANSACTION"   -> from \in {"IN_TRANSACTION", "ABORTABLE_ERROR"}
    [] to = "ABORTABLE_ERROR"        -> from \in {"IN_TRANSACTION", "COMMITTING_TRANSACTION",
                                                  "ABORTABLE_ERROR"}
    [] OTHER                         -> to = "FATAL_ERROR"
Moved(t, to) == [t EXCEPT !.state = to]

\* A lower priority is served first.
Priority(h) == CASE h.kind = "find" -> 0 [] h.kind = "init" -> 1
                 [] h.kind = "end" -> 3 [] OTHER -> 2
Enqueued(t, h) ==
  LET before == {i \in DOMAIN t.queue : Priority(t.queue[i]) <= Priority(h)}
  IN  [t EXCEPT !.queue = InsertAt(@, Cardinality(before) + 1, h)]

\* _lookup_coordinator, and the request again behind it.
LookedUp(t, h) ==
  Enqueued(Enqueued([t EXCEPT !.known = @ \ {h.type}], Find(h.type)), h)

\* Faulty variant: the partitions of the transaction stay as well.
CompletedKeeping(t) == [Moved(t, "READY") EXCEPT !.started = FALSE, !.new = {}, !.pending = {}]
\* _complete_transaction: the offsets that are pending stay.
Completed(t) ==
  [Moved(t, "READY") EXCEPT !.started = FALSE, !.new = {}, !.pending = {}, !.added = {}]

\* _add_partitions_to_transaction_handler
PartitionsQueued(t) ==
  IF t.new = {} THEN t
  ELSE Enqueued([t EXCEPT !.pending = @ \cup t.new, !.new = {}],
                [Request("add") EXCEPT !.parts = t.pending \cup t.new])

\* Of the requests these are what a call waits for.
Awaited(h)     == h.kind \in {"init", "offsets", "offset_commit", "end"}
Result(h, res) == call' = IF Awaited(h) THEN [call EXCEPT !.res = res] ELSE call

-----------------------------------------------------------------------------
(* The application                                                         *)

Called(kind) == call = Idle /\ call' = [kind |-> kind, res |-> "pending"]

\* initialize_transactions
Initializing(t) == Enqueued(Moved(t, "INITIALIZING"), Request("init"))
\* After its success it does nothing.
InitTransactions ==
  /\ tm.state = "UNINITIALIZED" /\ Called("init") /\ tm' = Initializing(tm)
  /\ UNCHANGED <<flying, clear, rec, txn, fate, coord, group, faults>>

BeginTransaction ==
  /\ call = Idle /\ Valid(tm.state, "IN_TRANSACTION") /\ txn < MaxTxns
  /\ tm' = Moved(tm, "IN_TRANSACTION") /\ txn' = txn + 1
  /\ UNCHANGED <<flying, clear, rec, call, fate, coord, group, faults>>

\* A fatal error is on its way: records that wait would keep the calls waiting.
Doomed == coord.fenced \/ flying.res = "fatal"

\* Faulty variant: a partition is new with each record.
NewPartitionsAll(p) == [tm EXCEPT !.new = @ \cup {p}]
\* maybe_add_partition_to_transaction
NewPartitions(p) ==
  IF p \in tm.added \cup tm.pending THEN tm ELSE [tm EXCEPT !.new = @ \cup {p}]
\* send(): maybe_add_partition_to_transaction, and the record is queued.
Send(p) ==
  /\ call = Idle /\ tm.state = "IN_TRANSACTION" /\ Len(rec) < MaxRecords
  /\ clear \/ Doomed => Gap
  /\ tm' = NewPartitions(p)
  /\ rec' = Append(rec, [tp |-> p, txn |-> txn, at |-> "queue", res |-> "none",
                         tries |-> 0, final |-> "none", log |-> "none"])
  /\ UNCHANGED <<flying, clear, call, txn, fate, coord, group, faults>>

SendOffsets ==
  /\ tm.state = "IN_TRANSACTION" /\ group[txn] = "none" /\ Called("offsets")
  /\ tm' = Enqueued(tm, [Request("offsets") EXCEPT !.offsets = {txn}])
  /\ UNCHANGED <<flying, clear, rec, txn, fate, coord, group, faults>>

End(commit) == [Request("end") EXCEPT !.commit = commit]
\* begin_commit and _begin_completing_transaction.
CommitTransaction ==
  /\ Valid(tm.state, "COMMITTING_TRANSACTION") /\ Called("commit")
  /\ tm' = Enqueued(PartitionsQueued(Moved(tm, "COMMITTING_TRANSACTION")), End(TRUE))
  /\ UNCHANGED <<flying, clear, rec, txn, fate, coord, group, faults>>
\* begin_abort: partitions that are new need not be added any more.
AbortTransaction ==
  /\ Valid(tm.state, "ABORTING_TRANSACTION") /\ (InFlight = {} \/ Gap) /\ Called("abort")
  /\ tm' = Enqueued([Moved(tm, "ABORTING_TRANSACTION") EXCEPT !.new = {}], End(FALSE))
  /\ UNCHANGED <<flying, clear, rec, txn, fate, coord, group, faults>>

Return ==
  /\ call.res \in {"ok", "error"} /\ call' = Idle
  /\ fate' = IF call.kind \in {"commit", "abort"} /\ call.res = "ok"
             THEN [fate EXCEPT ![txn] = call.kind] ELSE fate
  /\ UNCHANGED <<tm, flying, clear, rec, txn, coord, group, faults>>

-----------------------------------------------------------------------------
(* Turns of the sender's thread                                            *)

\* abort_undrained_batches takes batches in flight out of queues they are not
\* in, which raises before the turn polls: nothing is completed any more.
\* After a fatal error _maybe_abort_batches raises in the same way.
Raises ==
  \/ tm.state \in {"ABORTING_TRANSACTION", "ABORTABLE_ERROR"} /\ InFlight # {}
  \/ tm.state = "FATAL_ERROR" /\ Incomplete # {}
Polls == flying # None \/ ~Raises

AbortUndrained ==
  /\ flying = None /\ tm.state \in {"ABORTING_TRANSACTION", "ABORTABLE_ERROR"}
  /\ InFlight = {} /\ Incomplete # {}
  /\ rec' = [r \in Records |-> IF r \in Incomplete
                               THEN [rec[r] EXCEPT !.final = "aborted", !.at = "end"] ELSE rec[r]]
  /\ UNCHANGED <<tm, flying, clear, call, txn, fate, coord, group, faults>>

\* has_incomplete is looked at before next_request_handler takes the lock.
Look ==
  /\ flying = None /\ ~clear /\ Incomplete = {} /\ clear' = TRUE
  /\ UNCHANGED <<tm, flying, rec, call, txn, fate, coord, group, faults>>

\* Faulty variant: the end of the transaction does not wait for batches.
HeldSending(h) == h.kind = "end" /\ InFlight # {}
\* The end of the transaction waits until all batches have been flushed.
Held(h) == h.kind = "end" /\ Incomplete # {} /\ ~clear

\* _maybe_terminate_request_with_error: a lookup serves the abort to come.
Terminated(h) == HasError /\ ~(tm.state = "ABORTABLE_ERROR" /\ h.kind = "find")
\* next_request_handler: the first request of the queue, and whether it fails,
\* is done without being sent, or is to be sent.
NextRequestHandler ==
  LET t == PartitionsQueued(tm)
      h == Head(t.queue)
  IN  IF t.queue = <<>> \/ Held(h) THEN [to |-> "wait", tm |-> t, req |-> None]
      ELSE [to  |-> IF Terminated(h) THEN "fail"
                    ELSE IF h.kind = "end" /\ ~t.started THEN "done" ELSE "send",
            tm  |-> [t EXCEPT !.queue = Tail(@)], req |-> h]

\* _maybe_send_transactional_request
NextRequest ==
  LET n == NextRequestHandler
      h == n.req
  IN  /\ flying = None /\ n.to # "wait"
      /\ ~(tm.state = "ABORTING_TRANSACTION" /\ Incomplete # {})
      /\ clear' = FALSE
      /\ CASE n.to = "fail" -> tm' = n.tm /\ Result(h, "error") /\ UNCHANGED <<flying, faults>>
           [] n.to = "done" -> tm' = Completed(n.tm) /\ Result(h, "ok") /\ UNCHANGED <<flying, faults>>
           [] n.to = "send" /\ h.kind # "find" /\ h.type \notin n.tm.known ->
                tm' = LookedUp(n.tm, h) /\ UNCHANGED <<flying, faults, call>>
           [] OTHER ->
                \/ tm' = n.tm /\ flying' = h /\ UNCHANGED <<call, faults>>
                \/ /\ h.kind # "find" /\ SpendFault       \* the node is not ready
                   /\ tm' = LookedUp(n.tm, h) /\ UNCHANGED <<flying, call>>
      /\ UNCHANGED <<rec, txn, fate, coord, group>>

\* is_send_to_partition_allowed
SendAllowed(p) == p \in tm.added

\* _send_producer_data, when no request could be served: the first record of
\* a partition that has none in flight.
SendProducerData(p) ==
  /\ flying = None /\ tm.new = {} /\ (tm.queue # <<>> => Held(Head(tm.queue)))
  /\ ~HasError /\ tm.state # "ABORTING_TRANSACTION" /\ SendAllowed(p)
  /\ \A r \in InFlight : rec[r].tp # p
  /\ \E r \in Records :
       /\ Queued(r) /\ rec[r].tp = p /\ \A q \in 1 .. r - 1 : ~(Queued(q) /\ rec[q].tp = p)
       /\ rec' = [rec EXCEPT ![r].at = "flight", ![r].res = "none"]
  /\ clear' = FALSE /\ UNCHANGED <<tm, flying, call, txn, fate, coord, group, faults>>

\* transition_to_abortable_error; where it is not valid it raises.
ToAbortable == tm.state = "ABORTING_TRANSACTION" \/ Valid(tm.state, "ABORTABLE_ERROR")
AfterError  == IF tm.state = "ABORTING_TRANSACTION" THEN tm ELSE Moved(tm, "ABORTABLE_ERROR")
\* An error that comes while offsets are on their way leaves them pending, and
\* one that comes while another batch is in flight stops the sender.
Alone(r) == Gap \/ (InFlight \subseteq {r} /\ tm.offsets = {} /\ call.kind # "offsets")

\* The delivery timeout of a record that waits has passed.
Expire(r) ==
  /\ Queued(r) /\ flying = None /\ ~HasError /\ ToAbortable /\ tm.state # "ABORTING_TRANSACTION"
  /\ Alone(r) /\ SpendFault /\ rec' = [rec EXCEPT ![r].final = "failed", ![r].at = "end"]
  /\ tm' = AfterError /\ UNCHANGED <<flying, clear, call, txn, fate, coord, group>>

\* _complete_batch: done, again at the head of its queue, or failed.
CompleteOk(r)    == rec[r].res = "ok" /\ UNCHANGED tm
                    /\ rec' = [rec EXCEPT ![r].final = "ok", ![r].at = "end"]
\* Faulty variant: the record does not go back to its queue.
CompleteAgainLost(r) == rec[r].res = "retry" /\ rec[r].tries < Retries /\ UNCHANGED tm
                        /\ rec' = [rec EXCEPT ![r].tries = @ + 1, ![r].at = "end"]
CompleteAgain(r) == rec[r].res = "retry" /\ rec[r].tries < Retries /\ UNCHANGED tm
                    /\ rec' = [rec EXCEPT ![r].tries = @ + 1, ![r].at = "queue"]
CompleteFailed(r) ==
  /\ \/ rec[r].res = "fatal" /\ tm' = Moved(tm, "FATAL_ERROR")
     \/ /\ rec[r].res = "abortable" \/ (rec[r].res = "retry" /\ rec[r].tries = Retries)
        /\ ToAbortable /\ tm' = AfterError /\ Alone(r)
  /\ rec' = [rec EXCEPT ![r].final = "failed", ![r].at = "end"]
Complete(r) ==
  /\ rec[r].at = "flight" /\ Polls
  /\ CompleteOk(r) \/ CompleteAgain(r) \/ CompleteFailed(r)
  /\ UNCHANGED <<flying, clear, call, txn, fate, coord, group, faults>>

-----------------------------------------------------------------------------
(* Answers to transactional requests: on_complete and handle_response      *)

Answered(res) == flying.res = res /\ flying' = None
Served == [flying EXCEPT !.res = "none"]

FoundCoordinator ==
  Served.kind = "find" /\ tm' = [tm EXCEPT !.known = @ \cup {Served.type}] /\ UNCHANGED call
GotProducerId ==
  /\ Served.kind = "init"
  /\ IF Valid(tm.state, "READY")
     THEN tm' = [Moved(tm, "READY") EXCEPT !.pid = TRUE] /\ Result(Served, "ok")
     ELSE tm' = [tm EXCEPT !.pid = TRUE] /\ UNCHANGED call
PartitionsAdded ==
  /\ Served.kind = "add" /\ UNCHANGED call
  /\ tm' = [tm EXCEPT !.pending = @ \ Served.parts, !.added = @ \cup Served.parts, !.started = TRUE]
\* The call goes on waiting, for the offsets themselves.
OffsetsAdded ==
  /\ Served.kind = "offsets" /\ UNCHANGED call
  /\ LET all == tm.offsets \cup Served.offsets
         o   == [Request("offset_commit") EXCEPT !.type = "group", !.offsets = all]
     IN  tm' = Enqueued([tm EXCEPT !.offsets = all, !.started = TRUE], o)
OffsetsCommitted ==
  Served.kind = "offset_commit" /\ tm' = [tm EXCEPT !.offsets = @ \ Served.offsets] /\ Result(Served, "ok")
Ended ==
  /\ Served.kind = "end"
  /\ IF Valid(tm.state, "READY") THEN tm' = Completed(tm) /\ Result(Served, "ok")
     ELSE UNCHANGED <<tm, call>>
OnOk ==
  /\ Answered("ok")
  /\ \/ FoundCoordinator \/ GotProducerId \/ PartitionsAdded
     \/ OffsetsAdded \/ OffsetsCommitted \/ Ended

\* Faulty variant: after a lost connection the request is not sent again.
OnLostOnce ==
  /\ Answered("lost") \/ Answered("moved")
  /\ tm' = IF Served.kind = "find" THEN Enqueued(tm, Served)
           ELSE Enqueued([tm EXCEPT !.known = @ \ {Served.type}], Find(Served.type))
  /\ UNCHANGED call
\* The connection broke, or the coordinator is another node by now.
OnLost ==
  /\ Answered("lost") \/ Answered("moved")
  /\ tm' = IF Served.kind = "find" THEN Enqueued(tm, Served) ELSE LookedUp(tm, Served)
  /\ UNCHANGED call
OnRetry == Answered("retry") /\ tm' = Enqueued(tm, Served) /\ UNCHANGED call

\* The handler of an offset commit that failed raises: nobody tells the call.
OnUnhandled == flying.kind = "offset_commit" /\ Answered("error") /\ UNCHANGED <<tm, call>>

OnFatal == Answered("fatal") /\ tm' = Moved(tm, "FATAL_ERROR") /\ Result(Served, "error")
OnAbortable ==
  /\ Answered("abortable") /\ (InFlight = {} \/ Gap)
  /\ LET t == [tm EXCEPT !.pending = @ \ Served.parts]
     IN  IF ToAbortable
         THEN tm' = [t EXCEPT !.state = AfterError.state] /\ Result(Served, "error")
         ELSE tm' = t /\ UNCHANGED call

OnComplete ==
  /\ OnOk \/ OnLost \/ OnRetry \/ OnUnhandled \/ OnFatal \/ OnAbortable
  /\ UNCHANGED <<clear, rec, txn, fate, coord, group, faults>>

-----------------------------------------------------------------------------
(* The coordinator, the group and the brokers                              *)

Open     == coord.parts # {} \/ coord.group
Reply(r) == flying' = [flying EXCEPT !.res = r]

\* Markers: what is pending becomes visible, or never will.
Marked(outcome) ==
  /\ rec' = [r \in Records |->
       IF rec[r].log = "pending" /\ rec[r].tp \in coord.parts
       THEN [rec[r] EXCEPT !.log = outcome] ELSE rec[r]]
  /\ group' = [n \in DOMAIN group |-> IF group[n] = "pending" THEN outcome ELSE group[n]]
  /\ coord' = [coord EXCEPT !.parts = {}, !.group = FALSE, !.last = outcome]

Coordinate ==
  /\ flying.kind # "none" /\ flying.res = "none"
  /\ IF flying.kind = "find" THEN Reply("ok") /\ UNCHANGED <<coord, rec, group>>
     ELSE IF coord.fenced THEN Reply("fatal") /\ UNCHANGED <<coord, rec, group>>
     ELSE
       \/ flying.kind = "init" /\ Reply("ok") /\ UNCHANGED <<coord, rec, group>>
       \/ /\ flying.kind = "add" /\ Reply("ok") /\ UNCHANGED <<rec, group>>
          /\ coord' = [coord EXCEPT !.parts = @ \cup flying.parts]
       \/ /\ flying.kind = "offsets" /\ Reply("ok") /\ UNCHANGED <<rec, group>>
          /\ coord' = [coord EXCEPT !.group = TRUE]
       \/ /\ flying.kind = "offset_commit" /\ Reply("ok") /\ UNCHANGED <<coord, rec>>
          /\ group' = [n \in DOMAIN group |-> IF n \in flying.offsets THEN "pending" ELSE group[n]]
       \/ /\ flying.kind = "end"
          /\ LET outcome == IF flying.commit THEN "committed" ELSE "aborted"
             IN  IF Open THEN Reply("ok") /\ Marked(outcome)
                 ELSE /\ Reply(IF coord.last = outcome THEN "ok" ELSE "fatal")
                      /\ UNCHANGED <<coord, rec, group>>
  /\ UNCHANGED <<tm, clear, call, txn, fate, faults>>

\* Another abortable error is on its way.
Failing == flying.res = "abortable" \/ \E r \in InFlight : rec[r].res = "abortable"

\* Errors of the coordinator, and answers that are lost.
Errors(k) ==
  CASE k = "offset_commit" -> IF Gap THEN {"error"} ELSE {}
    [] k = "find"          -> {"retry", "fatal"}
    [] k \in {"add", "offsets"} -> {"retry", "moved", "fatal", "abortable"}
    [] OTHER               -> {"retry", "moved", "fatal"}
CoordinatorFails ==
  /\ flying.kind # "none" /\ SpendFault
  /\ \/ flying.res \in {"none", "ok"} /\ Reply("lost")
     \/ /\ flying.res = "none" /\ \E e \in Errors(flying.kind) :
             /\ Reply(e)
             /\ e = "abortable" => (tm.offsets = {} /\ ~Failing) \/ Gap
             /\ e = "fatal" => Incomplete = {} \/ Gap
  /\ UNCHANGED <<tm, clear, rec, call, txn, fate, coord, group>>

\* Another producer takes the transactional id, or the transaction times out.
Fence ==
  /\ ~coord.fenced /\ (Incomplete = {} \/ Gap) /\ SpendFault
  /\ rec' = [r \in Records |->
       IF rec[r].log = "pending" /\ rec[r].tp \in coord.parts
       THEN [rec[r] EXCEPT !.log = "aborted"] ELSE rec[r]]
  /\ group' = [n \in DOMAIN group |-> IF group[n] = "pending" THEN "aborted" ELSE group[n]]
  /\ coord' = [coord EXCEPT !.parts = {}, !.group = FALSE, !.last = "aborted", !.fenced = TRUE]
  /\ UNCHANGED <<tm, flying, clear, call, txn, fate>>

BrokerAppend(r) ==
  /\ rec[r].at = "flight" /\ rec[r].res = "none"
  /\ rec' = IF coord.fenced THEN [rec EXCEPT ![r].res = "fatal"]
            ELSE [rec EXCEPT ![r].res = "ok",
                             ![r].log = IF @ = "none" THEN "pending" ELSE @]
  /\ UNCHANGED <<tm, flying, clear, call, txn, fate, coord, group, faults>>
ProduceFails(r) ==
  /\ rec[r].at = "flight" /\ SpendFault
  /\ \/ /\ rec[r].res \in {"none", "ok"} /\ (rec[r].tries < Retries \/ Gap)
        /\ rec' = [rec EXCEPT ![r].res = "retry"]
     \/ /\ rec[r].res = "none" /\ (Gap \/ ~Failing)
        /\ rec' = [rec EXCEPT ![r].res = "abortable"]
  /\ UNCHANGED <<tm, flying, clear, call, txn, fate, coord, group>>

-----------------------------------------------------------------------------
Application ==
  \/ InitTransactions \/ BeginTransaction \/ (\E p \in Partition : Send(p)) \/ SendOffsets
  \/ CommitTransaction \/ AbortTransaction \/ Return
Sender ==
  \/ AbortUndrained \/ Look \/ NextRequest \/ OnComplete
  \/ \E p \in Partition : SendProducerData(p)
  \/ \E r \in Records : Expire(r) \/ Complete(r)
External ==
  \/ Coordinate \/ CoordinatorFails \/ Fence
  \/ \E r \in Records : BrokerAppend(r) \/ ProduceFails(r)
Next == Application \/ Sender \/ External
Spec == Init /\ [][Next]_vars

\* The sender's thread runs, and coordinator and brokers answer.
FairSpec ==
  /\ Spec /\ WF_vars(AbortUndrained) /\ WF_vars(NextRequest) /\ WF_vars(OnComplete)
  /\ WF_vars(\E p \in Partition : SendProducerData(p))
  /\ WF_vars(\E r \in Records : Complete(r)) /\ WF_vars(\E r \in Records : BrokerAppend(r))
  /\ WF_vars(Coordinate) /\ WF_vars(Return)

-----------------------------------------------------------------------------
(* Properties                                                              *)

\* The queue of requests is in the order of priorities and holds one end of a
\* transaction at most; partitions are new, pending or added, never two of them;
\* a transaction ends only for a call that waits.
TypeOK ==
  /\ tm.state \in States /\ tm.known \subseteq {"transaction", "group"}
  /\ \A i, j \in DOMAIN tm.queue : i < j => Priority(tm.queue[i]) <= Priority(tm.queue[j])
  /\ tm.new \cap (tm.pending \cup tm.added) = {}
  /\ Cardinality({i \in DOMAIN tm.queue : tm.queue[i].kind = "end"})
       + (IF flying.kind = "end" THEN 1 ELSE 0) <= 1
  /\ (flying.kind = "end" \/ \E i \in DOMAIN tm.queue : tm.queue[i].kind = "end")
       => call.kind \in {"commit", "abort"} /\ call.res = "pending"

Of(n) == {r \in Records : rec[r].txn = n}

\* A transaction becomes visible as a whole, records and offsets: if one record
\* of it is committed, or commit_transaction() has reported that it is, then each
\* one that send() took is; and nothing is once abort_transaction() has returned
\* ("considered consumed only if the transaction is committed successfully").
AllOrNothing ==
  \A n \in 1 .. txn :
    /\ (\E r \in Of(n) : rec[r].log = "committed") => \A r \in Of(n) : rec[r].log = "committed"
    /\ fate[n] = "commit" =>
         group[n] # "pending" /\ \A r \in Of(n) : rec[r].final = "ok" /\ rec[r].log = "committed"
    /\ fate[n] = "abort" =>
         group[n] # "committed" /\ \A r \in Of(n) : rec[r].log # "committed"

\* No record is written to a partition that the coordinator does not know to be
\* in the transaction: it would stay open for ever, and readers stop before it.
NoHangingTransaction ==
  \A r \in Records : rec[r].log = "pending" => rec[r].tp \in coord.parts

\* Every call returns: init_transactions, send_offsets_to_transaction,
\* commit_transaction, abort_transaction.
CallsReturn == call.res = "pending" ~> call = Idle

\* Every record gets its result, unless the producer is broken for good.
RecordsSettle ==
  \A r \in 1 .. MaxRecords :
    (r \in Incomplete) ~> (r \notin Incomplete \/ tm.state = "FATAL_ERROR")
=============================================================================
