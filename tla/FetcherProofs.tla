---------------------------- MODULE FetcherProofs ----------------------------
(***************************************************************************)
(* For every set of brokers, every limit and every bound: however answers   *)
(* are delayed and leaders move, the iterator leaves no record out; and it  *)
(* is a RecordStream, which hands out no record twice with one broker.      *)
(***************************************************************************)
EXTENDS Fetcher, TLAPS

\* An answer with records covers the offset that was asked for.
CompletionsSound ==
  \A j \in 1 .. Len(completed) :
    completed[j].kind = "records" =>
      /\ completed[j].base <= completed[j].offset
      /\ completed[j].offset <= completed[j].end

PartSound ==
  part.state = "live" => part.cursor <= part.next /\ part.next <= part.end

PositionKnown == position # None => reset = "none"

\* Where records are held, and where that implies a position.
Held ==
  records # <<>> =>
    /\ pc \in {"user", "drain", "again", "send", "wait", "yield"}
    /\ pc \in {"user", "wait"} => position # None

\* The records go up by one, unless they go back.
Climbing ==
  \A j \in 1 .. Len(records) - 1 : records[j + 1] <= records[j] + 1

\* They begin at the position or before it and, until the iterator returns
\* the first of them, do not go below it.
Begun ==
  records # <<>> /\ position # None =>
    /\ records[1] <= position
    /\ pc # "user" => \A j \in 1 .. Len(records) : position <= records[j]

IInv ==
  /\ TypeOK
  /\ CompletionsSound
  /\ PartSound
  /\ PositionKnown
  /\ Held
  /\ Climbing
  /\ Begun

-----------------------------------------------------------------------------
(* Sequences                                                               *)

LEMMA RemoveAtTyped ==
  ASSUME NEW S, NEW s \in Seq(S), NEW i \in 1 .. Len(s)
  PROVE  RemoveAt(s, i) \in Seq(S)
<1>1. SubSeq(s, 1, i - 1) \in Seq(S) /\ SubSeq(s, i + 1, Len(s)) \in Seq(S)
  OBVIOUS
<1> QED  BY <1>1 DEF RemoveAt

LEMMA EmptyIsSeq == ASSUME NEW S PROVE <<>> \in Seq(S)
  OBVIOUS

LEMMA TailFacts ==
  ASSUME NEW S, NEW s \in Seq(S), s # <<>>
  PROVE  /\ Head(s) \in S /\ Head(s) = s[1] /\ Len(s) >= 1
         /\ Tail(s) \in Seq(S) /\ Len(Tail(s)) = Len(s) - 1
         /\ \A j \in 1 .. Len(Tail(s)) : Tail(s)[j] = s[j + 1]
  OBVIOUS

LEMMA FunctionIsSeq ==
  ASSUME NEW S, NEW n \in Nat, NEW f \in [1 .. n -> S]
  PROVE  f \in Seq(S) /\ Len(f) = n
  OBVIOUS

LEMMA ConcatFacts ==
  ASSUME NEW S, NEW s \in Seq(S), NEW t \in Seq(S)
  PROVE  /\ s \o t \in Seq(S) /\ Len(s \o t) = Len(s) + Len(t)
         /\ \A j \in 1 .. Len(s) : (s \o t)[j] = s[j]
         /\ \A j \in Len(s) + 1 .. Len(s) + Len(t) : (s \o t)[j] = t[j - Len(s)]
  OBVIOUS

\* What take returns: the records from `next` up to e.
LEMMA TakeFacts ==
  ASSUME TypeOK, PartSound, part.state = "live",
         NEW e \in Int, part.next <= e, e <= part.end
  PROVE  /\ Take(e) \in Seq(0 .. MaxOffset - 1)
         /\ Len(Take(e)) = Len(records) + (e - part.next)
         /\ \A j \in 1 .. Len(records) : Take(e)[j] = records[j]
         /\ \A j \in Len(records) + 1 .. Len(Take(e)) :
              Take(e)[j] = part.next + (j - Len(records)) - 1
<1> DEFINE c == [n \in 1 .. e - part.next |-> part.next + n - 1]
<1>1. /\ MaxOffset \in Nat /\ part.next \in 0 .. MaxOffset
      /\ part.end \in 0 .. MaxOffset /\ records \in Seq(0 .. MaxOffset - 1)
  BY BoundAssumption DEF TypeOK, Part, Offset
<1>2. \A n \in 1 .. e - part.next : part.next + n - 1 \in 0 .. MaxOffset - 1
  BY <1>1
<1>3. e - part.next \in Nat
  BY <1>1
<1>4. c \in [1 .. e - part.next -> 0 .. MaxOffset - 1]
  BY <1>2
<1>5. c \in Seq(0 .. MaxOffset - 1) /\ Len(c) = e - part.next
  <2> HIDE DEF c
  <2> QED  BY <1>3, <1>4, FunctionIsSeq, ZenonT(40)
<1>6. \A n \in 1 .. e - part.next : c[n] = part.next + n - 1
  OBVIOUS
<1>7. Take(e) = records \o c
  BY DEF Take
<1> HIDE DEF c
<1>8. records \in Seq(0 .. MaxOffset - 1) /\ Len(records) \in Nat
  BY <1>1
<1>9. \A j \in Len(records) + 1 .. Len(Take(e)) :
        j - Len(records) \in 1 .. e - part.next
  BY <1>3, <1>5, <1>7, <1>8, ConcatFacts
<1>10. Take(e) \in Seq(0 .. MaxOffset - 1) /\ Len(Take(e)) = Len(records) + Len(c)
  BY <1>5, <1>7, <1>8, ConcatFacts
<1>11. \A j \in 1 .. Len(records) : Take(e)[j] = records[j]
  BY <1>5, <1>7, <1>8, ConcatFacts
<1>12. ASSUME NEW j \in Len(records) + 1 .. Len(Take(e))
       PROVE  Take(e)[j] = part.next + (j - Len(records)) - 1
  <2>1. Take(e)[j] = c[j - Len(records)]
    BY <1>5, <1>7, <1>8, <1>10, ConcatFacts
  <2>2. j - Len(records) \in 1 .. e - part.next
    BY <1>9
  <2> QED  BY <2>1, <2>2, <1>6
<1> QED  BY <1>5, <1>10, <1>11, <1>12

-----------------------------------------------------------------------------
(* Types                                                                   *)

LEMMA Numbers ==
  /\ MaxOffset \in Nat /\ MaxPoll \in Nat /\ MaxPoll > 0
  /\ MaxFailures \in Nat /\ MaxCalls \in Nat
  /\ \A n \in Offset : n \in Nat /\ n <= MaxOffset
  /\ 0 \in Offset
  /\ None \notin Offset
  BY BoundAssumption DEF Offset, None

LEMMA SpendTyped ==
  ASSUME TypeOK, Spend
  PROVE  failures' \in 0 .. MaxFailures
  BY Numbers DEF TypeOK, Spend

\* fetched_records, when it fails, and when it is left.
LEMMA LeaveTyped ==
  ASSUME TypeOK, NEW d \in Seq(0 .. MaxOffset - 1), NEW c, Leave(d, c)
  PROVE  records' \in Seq(0 .. MaxOffset - 1) /\ pc' \in {"send", "yield", "round"}
  BY DEF Leave

LEMMA FailTyped ==
  ASSUME TypeOK, NEW o \in Offset, NEW c, Fail(o, c)
  PROVE  /\ records' = records
         /\ pc' \in {"user", "send", "yield", "round"}
         /\ pc' = "user" => records = <<>>
         /\ inLine' \in Offset \cup {None}
<1>1. CASE records = <<>>
  BY <1>1 DEF Fail, TypeOK
<1>2. CASE records # <<>>
  BY <1>2 DEF Fail, Leave, TypeOK
<1> QED  BY <1>1, <1>2

LEMMA InitInv == Init => IInv
<1> SUFFICES ASSUME Init PROVE IInv
  OBVIOUS
<1>1. TypeOK
  <2>1. Gone \in Part
    BY Numbers DEF Gone, Part
  <2>2. [n \in Node |-> None] \in [Node -> Offset \cup {None}]
    OBVIOUS
  <2>3. /\ <<>> \in Seq(Lookup) /\ <<>> \in Seq(Completion)
        /\ <<>> \in Seq(0 .. MaxOffset - 1)
    OBVIOUS
  <2>4. /\ bases \subseteq Offset
        /\ logStart \in Offset /\ logEnd \in Offset /\ logStart <= logEnd
        /\ calls \in 0 .. MaxCalls /\ failures \in 0 .. MaxFailures
    BY Numbers DEF Init
  <2>5. /\ pc \in {"user", "positions", "drain", "send", "wait", "again", "round",
                   "yield", "locate", "locating"}
        /\ reset \in Strategy
    BY DEF Init, Strategy
  <2> QED
    BY <2>1, <2>2, <2>3, <2>4, <2>5 DEF Init, TypeOK
<1>2. CompletionsSound /\ PartSound /\ PositionKnown
  BY DEF Init, CompletionsSound, PartSound, Gone, PositionKnown
<1>3. Held /\ Climbing /\ Begun
  BY DEF Init, Held, Climbing, Begun
<1> QED  BY <1>1, <1>2, <1>3 DEF IInv

-----------------------------------------------------------------------------
(* Steps that leave what is buffered and the position alone                *)

Rest == CompletionsSound /\ PartSound /\ PositionKnown /\ Held /\ Climbing /\ Begun

LEMMA Frame ==
  ASSUME Rest, UNCHANGED <<completed, part, position, reset, records, pc>>
  PROVE  Rest'
BY DEF Rest, CompletionsSound, PartSound, PositionKnown, Held, Climbing, Begun

LEMMA BrokersInv == ASSUME IInv, Brokers PROVE IInv'
<1>1. ASSUME NEW n \in 1 .. MaxOffset, Produce(n) PROVE IInv'
  <2>1. TypeOK'
    BY <1>1, Numbers DEF IInv, TypeOK, Produce, subscription, network, buffers,
                         caller, Offset
  <2>2. Rest'
    BY <1>1, Frame DEF IInv, Rest, Produce, subscription, network, buffers
  <2> QED  BY <2>1, <2>2 DEF IInv, Rest
<1>2. ASSUME NEW n \in 1 .. MaxOffset, Expire(n) PROVE IInv'
  <2>1. TypeOK'
    BY <1>2, Numbers DEF IInv, TypeOK, Expire, subscription, network, buffers,
                         caller, Offset
  <2>2. Rest'
    BY <1>2, Frame DEF IInv, Rest, Expire, subscription, network, buffers
  <2> QED  BY <2>1, <2>2 DEF IInv, Rest
<1>3. ASSUME NEW n \in Node, MoveLeader(n) PROVE IInv'
  <2>1. TypeOK'
    BY <1>3 DEF IInv, TypeOK, MoveLeader, partition, subscription, buffers, caller
  <2>2. Rest'
    BY <1>3, Frame DEF IInv, Rest, MoveLeader, subscription, buffers
  <2> QED  BY <2>1, <2>2 DEF IInv, Rest
<1> QED  BY <1>1, <1>2, <1>3 DEF Brokers

LEMMA BackoffInv == ASSUME IInv, BackoffPasses PROVE IInv'
<1>1. TypeOK'
  BY DEF IInv, TypeOK, BackoffPasses, partition, network, buffers, caller
<1>2. Rest'
  BY Frame DEF IInv, Rest, BackoffPasses, buffers
<1> QED  BY <1>1, <1>2 DEF IInv, Rest

-----------------------------------------------------------------------------
(* The caller                                                              *)

\* Steps that leave no record at hand.
LEMMA NoRecords ==
  ASSUME Rest, UNCHANGED <<completed, part>>, PositionKnown', records' = <<>>
  PROVE  Rest'
BY DEF Rest, CompletionsSound, PartSound, Held, Climbing, Begun

LEMMA MoveInv ==
  ASSUME IInv, NEW o \in Offset \cup {None}, NEW strategy \in Strategy,
         o # None => strategy = "none", MovePosition(o, strategy)
  PROVE  IInv'
<1>1. TypeOK'
  <2>1. records' \in Seq(0 .. MaxOffset - 1)
    BY EmptyIsSeq DEF MovePosition
  <2>2. calls' \in 0 .. MaxCalls
    BY Numbers DEF MovePosition, IInv, TypeOK
  <2> QED
    BY <2>1, <2>2 DEF IInv, TypeOK, MovePosition, partition, network, buffers
<1>2. Rest'
  BY NoRecords DEF IInv, Rest, MovePosition, PositionKnown, buffers
<1> QED  BY <1>1, <1>2 DEF IInv, Rest

LEMMA CallsInv == ASSUME IInv, Calls PROVE IInv'
<1>1. ASSUME NEW o \in Offset, Seek(o) PROVE IInv'
  BY <1>1, MoveInv DEF Seek, Strategy
<1>2. CASE SeekToEnd
  BY <1>2, MoveInv DEF SeekToEnd, Strategy
<1>3. CASE SeekToStart
  BY <1>3, MoveInv DEF SeekToStart, Strategy
<1>4. CASE PauseOrResume
  <2>1. TypeOK'
    BY <1>4, Numbers DEF IInv, TypeOK, PauseOrResume, partition, network, buffers
  <2>2. Rest'
    BY <1>4, Frame DEF IInv, Rest, PauseOrResume, buffers
  <2> QED  BY <2>1, <2>2 DEF IInv, Rest
<1>5. CASE AskPosition
  <2>1. TypeOK'
    BY <1>5 DEF IInv, TypeOK, AskPosition, partition, subscription, network,
                buffers, caller
  <2>2. Rest'
    BY <1>5 DEF IInv, Rest, AskPosition, subscription, buffers, CompletionsSound,
                PartSound, PositionKnown, Held, Climbing, Begun
  <2> QED  BY <2>1, <2>2 DEF IInv, Rest
<1> QED  BY <1>1, <1>2, <1>3, <1>4, <1>5 DEF Calls

LEMMA YieldInv == ASSUME IInv, Yield PROVE IInv'
<1>1. /\ Head(records) \in 0 .. MaxOffset - 1 /\ Head(records) = records[1]
      /\ Len(records) >= 1
      /\ Tail(records) \in Seq(0 .. MaxOffset - 1)
      /\ Len(Tail(records)) = Len(records) - 1
      /\ \A j \in 1 .. Len(Tail(records)) : Tail(records)[j] = records[j + 1]
  BY TailFacts DEF IInv, TypeOK, Yield
<1>2. Head(records) \in Offset /\ Head(records) + 1 \in Offset
  BY <1>1, Numbers DEF Offset
<1>3. TypeOK'
  BY <1>1, <1>2 DEF IInv, TypeOK, Yield, partition, network, buffers
<1>4. PositionKnown' /\ position' # None
  BY <1>2, Numbers DEF IInv, Yield, PositionKnown, Fetchable
<1>5. Climbing'
  BY <1>1 DEF IInv, Climbing, Yield
<1>6. records' # <<>> => records'[1] <= position'
  <2> SUFFICES ASSUME records' # <<>> PROVE records'[1] <= position'
    OBVIOUS
  <2>1. Len(records') >= 1 /\ Len(records) - 1 >= 1
    BY <1>1 DEF Yield
  <2>2. records'[1] = records[2] /\ records[2] <= records[1] + 1
    BY <1>1, <2>1 DEF Yield, IInv, Climbing
  <2> QED  BY <1>1, <2>2 DEF Yield
<1>7. Held' /\ Begun'
  BY <1>4, <1>6 DEF Held, Begun, Yield
<1>8. CompletionsSound' /\ PartSound'
  BY DEF IInv, Yield, CompletionsSound, PartSound, buffers
<1> QED  BY <1>3, <1>4, <1>5, <1>7, <1>8 DEF IInv

LEMMA AskInv == ASSUME IInv, AskNext \/ DropRecords PROVE IInv'
<1>1. TypeOK'
  <2>1. records' \in Seq(0 .. MaxOffset - 1)
    BY EmptyIsSeq DEF AskNext, DropRecords
  <2> QED
    BY <2>1 DEF IInv, TypeOK, AskNext, DropRecords, partition, subscription,
                network, buffers, caller
<1>2. Rest'
  BY NoRecords DEF IInv, Rest, AskNext, DropRecords, PositionKnown, subscription,
         buffers
<1> QED  BY <1>1, <1>2 DEF IInv, Rest

-----------------------------------------------------------------------------
(* _update_fetch_positions, and the rest of a poll                         *)

\* Steps that only move the thread on.
LEMMA Moves ==
  ASSUME Rest, UNCHANGED <<completed, part, position, reset, records>>,
         Held', pc # "user"
  PROVE  Rest'
BY DEF Rest, CompletionsSound, PartSound, PositionKnown, Climbing, Begun

LEMMA PositionsInv ==
  ASSUME IInv, HavePosition \/ RaiseCached \/ SendLookup \/ AwaitLookup
  PROVE  IInv'
<1>0. pc \in {"positions", "locate"} /\ records = <<>> /\ records' = <<>>
  BY DEF IInv, Held, HavePosition, RaiseCached, SendLookup, AwaitLookup
<1>1. PositionKnown' /\ UNCHANGED <<completed, part>>
  BY DEF IInv, PositionKnown, HavePosition, RaiseCached, SendLookup, AwaitLookup,
         ResetMissing, subscription, buffers
<1>2. Rest'
  BY <1>0, <1>1, NoRecords DEF IInv, Rest
<1>3. CASE HavePosition
  <2>1. TypeOK'
    BY <1>3 DEF IInv, TypeOK, HavePosition, partition, subscription, network,
                buffers, caller
  <2> QED  BY <1>2, <2>1 DEF IInv, Rest
<1>4. CASE RaiseCached
  <2>1. TypeOK'
    BY <1>4 DEF IInv, TypeOK, RaiseCached, ResetMissing, Strategy, Default,
                partition, network, caller
  <2> QED  BY <1>2, <2>1 DEF IInv, Rest
<1>5. CASE SendLookup
  <2>1. reset' \in Strategy
    BY <1>5 DEF IInv, TypeOK, SendLookup, ResetMissing, Strategy, Default
  <2>2. lookups' \in Seq(Lookup) /\ failures' \in 0 .. MaxFailures
        /\ backingOff' \in BOOLEAN
    <3> DEFINE l == [strategy |-> reset',
                     since |-> IF reset' = "latest" THEN logEnd ELSE logStart]
    <3>1. l \in Lookup
      BY <2>1 DEF IInv, TypeOK, Lookup
    <3>2. CASE lookups' = Append(lookups, l) /\ backingOff' = TRUE
               /\ UNCHANGED failures
      <4> HIDE DEF l
      <4> QED  BY <3>1, <3>2 DEF IInv, TypeOK
    <3>3. CASE Spend /\ backingOff' = FALSE /\ UNCHANGED lookups
      BY <3>3, SpendTyped DEF IInv, TypeOK
    <3>4. CASE UNCHANGED <<failures, lookups>> /\ backingOff' = FALSE
      BY <3>4 DEF IInv, TypeOK
    <3> QED  BY <1>5, <3>2, <3>3, <3>4 DEF SendLookup
  <2>3. TypeOK'
    BY <1>5, <2>1, <2>2 DEF IInv, TypeOK, SendLookup, ResetMissing, Positioned,
                            partition, buffers, caller
  <2> QED  BY <1>2, <2>3 DEF IInv, Rest
<1>6. CASE AwaitLookup
  <2>1. TypeOK'
    BY <1>6 DEF IInv, TypeOK, AwaitLookup, Positioned, partition, subscription,
                network, buffers, caller
  <2> QED  BY <1>2, <2>1 DEF IInv, Rest
<1> QED  BY <1>3, <1>4, <1>5, <1>6

LEMMA SendFetchInv == ASSUME IInv, SendFetch PROVE IInv'
<1>1. fetching' \in [Node -> Offset \cup {None}]
  BY DEF IInv, TypeOK, SendFetch
<1>2. TypeOK'
  BY <1>1 DEF IInv, TypeOK, SendFetch, partition, subscription, buffers, caller
<1>3. Held'
  BY DEF IInv, Held, SendFetch, MaySend, Fetchable, subscription
<1>4. Rest'
  BY <1>3, Moves DEF IInv, Rest, SendFetch, subscription, buffers
<1> QED  BY <1>2, <1>4 DEF IInv, Rest

LEMMA SendNothingInv == ASSUME IInv, SendNothing PROVE IInv'
<1>1. failures' \in 0 .. MaxFailures
  BY SpendTyped DEF IInv, TypeOK, SendNothing
<1>2. TypeOK'
  BY <1>1 DEF IInv, TypeOK, SendNothing, partition, subscription, buffers, caller
<1>3. Held'
  BY DEF IInv, Held, SendNothing
<1>4. Rest'
  BY <1>3, Moves DEF IInv, Rest, SendNothing, subscription, buffers
<1> QED  BY <1>2, <1>4 DEF IInv, Rest

LEMMA LeavePollInv == ASSUME IInv, LeavePoll PROVE IInv'
<1>1. /\ pc \in {"wait", "locating"}
      /\ pc = "locating" => pc' = IF position = None THEN "locate" ELSE "user"
      /\ pc = "wait" => pc' = IF records = <<>> THEN "again" ELSE "yield"
  BY DEF LeavePoll, Polling
<1>2. TypeOK'
  BY <1>1 DEF IInv, TypeOK, LeavePoll, partition, subscription, network, buffers,
              caller
<1>3. Held'
  BY <1>1 DEF IInv, Held, LeavePoll
<1>4. Rest'
  BY <1>1, <1>3, Moves DEF IInv, Rest, LeavePoll, subscription, buffers
<1> QED  BY <1>2, <1>4 DEF IInv, Rest

LEMMA RoundInv == ASSUME IInv, GoRound \/ TimeUp PROVE IInv'
<1>1. TypeOK'
  BY DEF IInv, TypeOK, GoRound, TimeUp, partition, subscription, network, buffers,
         caller
<1>2. Held'
  BY DEF IInv, Held, GoRound, TimeUp
<1>3. Rest'
  BY <1>2, Moves DEF IInv, Rest, GoRound, TimeUp, subscription, buffers
<1> QED  BY <1>1, <1>3 DEF IInv, Rest

-----------------------------------------------------------------------------
(* Answers                                                                 *)

LEMMA AnsweredInv ==
  ASSUME IInv, NEW n \in Node, Polling, fetching[n] # None,
         NEW kind \in {"records", "outOfRange", "retriable", "fatal"},
         NEW base \in Offset, NEW end \in Offset,
         kind = "records" => base <= fetching[n] /\ fetching[n] <= end,
         Answered(n, kind, base, end), failures' \in 0 .. MaxFailures
  PROVE  IInv'
<1> DEFINE c == [kind |-> kind, offset |-> fetching[n], base |-> base, end |-> end]
<1>1. c \in Completion
  BY DEF IInv, TypeOK, Completion
<1>2. completed' = Append(completed, c)
  BY DEF Answered
<1>3. c.kind = "records" => c.base <= c.offset /\ c.offset <= c.end
  OBVIOUS
<1> HIDE DEF c
<1>4. completed' \in Seq(Completion)
  BY <1>1, <1>2 DEF IInv, TypeOK
<1>5. fetching' \in [Node -> Offset \cup {None}]
  BY DEF IInv, TypeOK, Answered
<1>6. TypeOK'
  BY <1>4, <1>5 DEF IInv, TypeOK, Answered, partition, subscription, caller
<1>7. CompletionsSound'
  <2>1. completed \in Seq(Completion) /\ Len(completed') = Len(completed) + 1
    BY <1>1, <1>2 DEF IInv, TypeOK
  <2> SUFFICES ASSUME NEW j \in 1 .. Len(completed'),
                      completed'[j].kind = "records"
               PROVE  /\ completed'[j].base <= completed'[j].offset
                      /\ completed'[j].offset <= completed'[j].end
    BY DEF CompletionsSound
  <2>2. CASE j = Len(completed) + 1
    <3>1. completed'[j] = c
      BY <1>1, <1>2, <2>1, <2>2
    <3> QED  BY <1>3, <3>1
  <2>3. CASE j \in 1 .. Len(completed)
    <3>1. completed'[j] = completed[j]
      BY <1>1, <1>2, <2>1, <2>3
    <3> QED  BY <2>3, <3>1 DEF IInv, CompletionsSound
  <2> QED  BY <2>1, <2>2, <2>3
<1>8. PartSound' /\ PositionKnown' /\ Held' /\ Climbing' /\ Begun'
  BY DEF IInv, Answered, subscription, PartSound, PositionKnown, Held, Climbing,
         Begun
<1> QED  BY <1>6, <1>7, <1>8 DEF IInv

LEMMA FetchAnswers ==
  ASSUME IInv, NEW n \in Node,
         FetchRecords(n) \/ FetchOutOfRange(n) \/ FetchError(n)
  PROVE  IInv'
<1>1. fetching[n] \in Offset
  BY DEF IInv, TypeOK, FetchRecords, FetchOutOfRange, FetchError
<1>2. CASE FetchRecords(n)
  <2>1. failures' \in 0 .. MaxFailures
    BY <1>2 DEF IInv, TypeOK, FetchRecords
  <2>2. CASE fetching[n] = logEnd /\ Answered(n, "records", logEnd, logEnd)
    <3>1. logEnd \in Offset /\ logEnd <= logEnd
      BY Numbers DEF IInv, TypeOK
    <3> QED  BY <1>2, <2>1, <2>2, <3>1, AnsweredInv DEF FetchRecords
  <2>3. ASSUME NEW a \in Answer(fetching[n]), Answered(n, "records", a[1], a[2])
        PROVE  IInv'
    <3>1. /\ a[1] \in Offset /\ a[2] \in Offset
          /\ a[1] <= fetching[n] /\ fetching[n] < a[2]
      BY DEF Answer, IInv, TypeOK
    <3>2. fetching[n] <= a[2]
      BY <1>1, <3>1, Numbers
    <3> QED  BY <1>2, <2>1, <2>3, <3>1, <3>2, AnsweredInv DEF FetchRecords
  <2> QED  BY <1>2, <2>2, <2>3 DEF FetchRecords
<1>3. CASE FetchOutOfRange(n)
  <2>1. failures' \in 0 .. MaxFailures
    BY <1>3 DEF IInv, TypeOK, FetchOutOfRange
  <2> QED  BY <1>3, <2>1, Numbers, AnsweredInv DEF FetchOutOfRange
<1>4. CASE FetchError(n)
  <2>1. failures' \in 0 .. MaxFailures
    BY <1>4, SpendTyped DEF IInv, FetchError
  <2> QED  BY <1>4, <2>1, Numbers, AnsweredInv DEF FetchError
<1> QED  BY <1>2, <1>3, <1>4

LEMMA FetchFailsInv == ASSUME IInv, NEW n \in Node, FetchFails(n) PROVE IInv'
<1>1. failures' \in 0 .. MaxFailures
  BY SpendTyped DEF IInv, FetchFails
<1>2. TypeOK'
  BY <1>1 DEF IInv, TypeOK, FetchFails, partition, subscription, buffers, caller
<1>3. Rest'
  BY Frame DEF IInv, Rest, FetchFails, subscription, buffers
<1> QED  BY <1>2, <1>3 DEF IInv, Rest

\* A lookup that counts finds no position, and so no record that was held.
LEMMA LookupInv ==
  ASSUME IInv, NEW i, LookupAnswered(i) \/ LookupFails(i)
  PROVE  IInv'
<1>0. i \in DOMAIN lookups /\ lookups' = RemoveAt(lookups, i)
  BY DEF LookupAnswered, LookupFails
<1>1. i \in 1 .. Len(lookups) /\ lookups \in Seq(Lookup)
  <2>1. lookups \in Seq(Lookup)
    BY DEF IInv, TypeOK
  <2> QED  BY <1>0, <2>1
<1>2. lookups' \in Seq(Lookup) /\ lookups[i] \in Lookup
  BY <1>0, <1>1, RemoveAtTyped
<1>3. CASE LookupAnswered(i)
  <2>1. CASE reset # "none" /\ reset = lookups[i].strategy
    <3>1. position = None /\ records = <<>>
      BY <1>3, <2>1 DEF IInv, PositionKnown, Held, LookupAnswered, Polling
    <3>2. /\ position' \in lookups[i].since ..
                             (IF reset = "latest" THEN logEnd ELSE logStart)
          /\ reset' = "none" /\ backingOff' = FALSE /\ paused' = paused
      BY <1>3, <2>1 DEF LookupAnswered, ApplyLookup
    <3>3. /\ lookups[i].since \in Offset
          /\ (IF reset = "latest" THEN logEnd ELSE logStart) \in Offset
      BY <1>2 DEF Lookup, IInv, TypeOK
    <3>4. position' \in Offset
      BY <3>2, <3>3, Numbers DEF Offset
    <3>5. TypeOK'
      BY <1>2, <1>3, <3>2, <3>4 DEF IInv, TypeOK, LookupAnswered, Strategy,
                                    partition, buffers, caller
    <3>6. Rest'
      BY <1>3, <3>1, <3>2, NoRecords DEF IInv, Rest, LookupAnswered, PositionKnown,
                                         buffers
    <3> QED  BY <3>5, <3>6 DEF IInv, Rest
  <2>2. CASE UNCHANGED subscription
    <3>1. TypeOK'
      BY <1>2, <1>3, <2>2 DEF IInv, TypeOK, LookupAnswered, partition,
                              subscription, buffers, caller
    <3>2. Rest'
      BY <1>3, <2>2, Frame DEF IInv, Rest, LookupAnswered, subscription, buffers
    <3> QED  BY <3>1, <3>2 DEF IInv, Rest
  <2> QED  BY <1>3, <2>1, <2>2 DEF LookupAnswered, ApplyLookup
<1>4. CASE LookupFails(i)
  <2>1. failures' \in 0 .. MaxFailures /\ cached' \in BOOLEAN
    BY <1>4, SpendTyped DEF IInv, TypeOK, LookupFails
  <2>2. TypeOK'
    BY <1>2, <1>4, <2>1 DEF IInv, TypeOK, LookupFails, partition, caller
  <2>3. Rest'
    BY <1>4, Frame DEF IInv, Rest, LookupFails
  <2> QED  BY <2>2, <2>3 DEF IInv, Rest
<1> QED  BY <1>3, <1>4

LEMMA AnswersInv == ASSUME IInv, Answers PROVE IInv'
BY FetchAnswers, FetchFailsInv, LookupInv DEF Answers

-----------------------------------------------------------------------------
(* fetched_records                                                         *)

\* What a turn of the loop leaves of the records and of the position.
LEMMA LeaveInv ==
  ASSUME IInv, Draining, UNCHANGED <<position, reset>>,
         CompletionsSound', PartSound', records' = records,
         pc' \in {"drain", "again", "send", "yield", "round", "user"},
         pc' = "user" => records = <<>> \/ position # None,
         pc' = "round" => records = <<>>
  PROVE  Rest'
BY DEF IInv, Rest, Draining, PositionKnown, Held, Climbing, Begun

LEMMA RaiseInLineInv == ASSUME IInv, RaiseInLine PROVE IInv'
<1>1. inLine' \in Offset \cup {None}
  BY DEF RaiseInLine
<1>3. pc' \in {pc, "user"} /\ (pc' = "user" => position # None)
  BY DEF RaiseInLine, Draining, Fetchable
<1>4. TypeOK'
  BY <1>1, <1>3 DEF IInv, TypeOK, RaiseInLine, partition, subscription, network,
                      caller
<1>5. CompletionsSound' /\ PartSound'
  BY DEF IInv, CompletionsSound, PartSound, RaiseInLine
<1>6. Rest'
  BY <1>3, <1>5, LeaveInv DEF RaiseInLine, Draining, subscription
<1> QED  BY <1>4, <1>6 DEF IInv, Rest

LEMMA FailLeaves ==
  ASSUME Draining, NEW o, NEW c, Fail(o, c)
  PROVE  /\ records' = records
         /\ pc' \in {"send", "yield", "round", "user"}
         /\ pc' = "user" => records = <<>>
         /\ pc' = "round" => records = <<>>
BY DEF Fail, Leave, Draining

LEMMA ParseInv == ASSUME IInv, Parse PROVE IInv'
<1> DEFINE c == Head(completed)
           current == Fetchable /\ position = c.offset
<1>1. /\ completed \in Seq(Completion) /\ completed # <<>>
      /\ completed' = Tail(completed) /\ Draining
  BY DEF IInv, TypeOK, Parse
<1>2. /\ c \in Completion /\ c = completed[1] /\ Len(completed) >= 1
      /\ completed' \in Seq(Completion) /\ Len(completed') = Len(completed) - 1
      /\ \A j \in 1 .. Len(completed') : completed'[j] = completed[j + 1]
  BY <1>1, TailFacts
<1>3. c.kind = "records" => c.base <= c.offset /\ c.offset <= c.end
  BY <1>2 DEF IInv, CompletionsSound
<1>4. CompletionsSound'
  <2> SUFFICES ASSUME NEW j \in 1 .. Len(completed')
               PROVE  completed'[j].kind = "records" =>
                        /\ completed'[j].base <= completed'[j].offset
                        /\ completed'[j].offset <= completed'[j].end
    BY DEF CompletionsSound
  <2>1. j + 1 \in 1 .. Len(completed) /\ completed'[j] = completed[j + 1]
    BY <1>1, <1>2
  <2> QED  BY <2>1 DEF IInv, CompletionsSound
<1>5. c.offset \in Offset /\ c.base \in Offset /\ c.end \in Offset
  BY <1>2 DEF Completion
<1>6. UNCHANGED <<partition, network, cached, caller>>
  BY DEF Parse
<1>7. CASE /\ c.kind = "records" /\ current
           /\ part' = [state |-> "live", next |-> c.offset, cursor |-> c.base,
                       end |-> c.end]
           /\ UNCHANGED <<subscription, inLine, pc, records>>
  <2>1. part' \in Part /\ PartSound'
    BY <1>3, <1>5, <1>7 DEF Part, PartSound
  <2>2. TypeOK'
    BY <1>2, <1>6, <1>7, <2>1 DEF IInv, TypeOK, partition, subscription, network,
                     caller
  <2>3. Rest'
    BY <1>1, <1>4, <1>7, <2>1, LeaveInv DEF Draining, subscription
  <2> QED  BY <2>2, <2>3 DEF IInv, Rest
<1>8. CASE /\ c.kind = "outOfRange" /\ current
           /\ position' = None /\ reset' = Default /\ backingOff' = FALSE
           /\ UNCHANGED <<paused, part, inLine, pc, records>>
  <2>1. TypeOK'
    BY <1>2, <1>6, <1>8 DEF IInv, TypeOK, partition, network, caller, Default,
                                   Strategy
  <2>2. PartSound' /\ PositionKnown' /\ Climbing'
    BY <1>8 DEF IInv, PartSound, PositionKnown, Climbing
  <2>3. Held' /\ Begun'
    BY <1>1, <1>8 DEF IInv, Held, Begun, Draining
  <2> QED  BY <1>4, <2>1, <2>2, <2>3 DEF IInv
<1>9. CASE /\ Fail(c.offset, Tail(completed))
           /\ UNCHANGED <<subscription, part>>
  <2>1. /\ records' = records
        /\ pc' \in {"user", "send", "yield", "round"}
        /\ inLine' \in Offset \cup {None}
    BY <1>5, <1>9, FailTyped DEF IInv
  <2>2. TypeOK'
    BY <1>2, <1>6, <1>9, <2>1 DEF IInv, TypeOK, partition, subscription, network,
                     caller
  <2>3. PartSound'
    BY <1>9 DEF IInv, PartSound
  <2>4. Rest'
    BY <1>1, <1>4, <1>9, <2>1, <2>3, FailLeaves, LeaveInv DEF subscription
  <2> QED  BY <2>2, <2>4 DEF IInv, Rest
<1>10. CASE UNCHANGED <<subscription, part, inLine, pc, records>>
  <2>1. TypeOK'
    BY <1>2, <1>6, <1>10 DEF IInv, TypeOK, partition, subscription, network,
                     caller
  <2>2. PartSound'
    BY <1>10 DEF IInv, PartSound
  <2>3. Rest'
    BY <1>1, <1>4, <1>10, <2>2, LeaveInv DEF Draining, subscription
  <2> QED  BY <2>1, <2>3 DEF IInv, Rest
<1> QED  BY <1>7, <1>8, <1>9, <1>10 DEF Parse

LEMMA DiscardInv == ASSUME IInv, Discard PROVE IInv'
<1>1. part' \in Part /\ PartSound'
  BY Numbers DEF Discard, Gone, Part, PartSound
<1>2. TypeOK'
  BY <1>1 DEF IInv, TypeOK, Discard, partition, subscription, network, caller
<1>3. CompletionsSound'
  BY DEF IInv, CompletionsSound, Discard
<1>4. Rest'
  BY <1>1, <1>3, LeaveInv DEF Discard, Draining, subscription
<1> QED  BY <1>2, <1>4 DEF IInv, Rest

LEMMA LeaveLoopInv == ASSUME IInv, LeaveLoop PROVE IInv'
<1>1. /\ records' = records
      /\ pc' \in {"send", "yield", "round"}
      /\ pc' = "round" => records = <<>>
  BY DEF LeaveLoop, Leave
<1>2. TypeOK'
  BY <1>1 DEF IInv, TypeOK, LeaveLoop, partition, subscription, network, buffers,
              caller
<1>3. CompletionsSound' /\ PartSound'
  BY DEF IInv, CompletionsSound, PartSound, LeaveLoop, buffers
<1>4. Rest'
  BY <1>1, <1>3, LeaveInv DEF LeaveLoop, subscription
<1> QED  BY <1>2, <1>4 DEF IInv, Rest

-----------------------------------------------------------------------------
(* take                                                                    *)

\* What is taken follows on from what is held, and begins at the position.
LEMMA TakeKeeps ==
  ASSUME IInv, Taking, NEW e \in Int, part.next <= e, e <= part.end,
         records' = Take(e), pc' = pc, UNCHANGED <<position, reset>>
  PROVE  /\ records' \in Seq(0 .. MaxOffset - 1)
         /\ Held' /\ Climbing' /\ Begun'
<1> DEFINE k == Len(records)
<1>1. /\ part.state = "live" /\ part.next = position /\ position \in Nat
      /\ pc \in {"drain", "again"} /\ position # None
  BY Numbers DEF IInv, TypeOK, Part, Taking, Mine, Draining, Fetchable
<1>2. /\ records' \in Seq(0 .. MaxOffset - 1)
      /\ Len(records') = k + (e - position)
      /\ \A j \in 1 .. k : records'[j] = records[j]
      /\ \A j \in k + 1 .. Len(records') : records'[j] = position + (j - k) - 1
  BY <1>1, TakeFacts DEF IInv
<1>3. k \in Nat /\ records \in Seq(0 .. MaxOffset - 1)
  BY DEF IInv, TypeOK
<1>4. \A j \in 1 .. k : position <= records[j] /\ records[j] \in Nat
  BY <1>1, <1>3, Numbers DEF IInv, Begun
<1>5. \A j \in 1 .. Len(records') : position <= records'[j]
  <2> SUFFICES ASSUME NEW j \in 1 .. Len(records') PROVE position <= records'[j]
    OBVIOUS
  <2>1. CASE j <= k
    BY <1>2, <1>3, <1>4, <2>1
  <2>2. CASE j > k
    BY <1>1, <1>2, <1>3, <2>2
  <2> QED  BY <1>2, <1>3, <2>1, <2>2
<1>6. records' # <<>> => records'[1] <= position
  <2> SUFFICES ASSUME records' # <<>> PROVE records'[1] <= position
    OBVIOUS
  <2>1. Len(records') \in Nat /\ Len(records') >= 1
    BY <1>2
  <2>2. CASE k = 0
    <3>1. 1 \in k + 1 .. Len(records')
      BY <2>1, <2>2
    <3>2. records'[1] = position + (1 - k) - 1
      BY <1>2, <3>1
    <3> QED  BY <1>1, <2>2, <3>2
  <2>3. CASE k > 0
    <3>1. records # <<>> /\ 1 \in 1 .. k
      BY <1>3, <2>3
    <3>2. records'[1] = records[1]
      BY <1>2, <3>1
    <3> QED  BY <1>1, <3>1, <3>2 DEF IInv, Begun
  <2> QED  BY <1>3, <2>2, <2>3
<1>7. Climbing'
  <2> SUFFICES ASSUME NEW j \in 1 .. Len(records') - 1
               PROVE  records'[j + 1] <= records'[j] + 1
    BY DEF Climbing
  <2>1. CASE j < k
    <3>1. records'[j] = records[j] /\ records'[j + 1] = records[j + 1]
      BY <1>2, <1>3, <2>1
    <3> QED  BY <1>3, <2>1, <3>1 DEF IInv, Climbing
  <2>2. CASE j = k
    <3>1. k + 1 \in k + 1 .. Len(records') /\ k \in 1 .. k
      BY <1>2, <1>3, <2>2
    <3>2. records'[k + 1] = position /\ records'[k] = records[k]
      BY <1>1, <1>2, <1>3, <3>1
    <3> QED  BY <1>1, <1>4, <2>2, <3>1, <3>2
  <2>3. CASE j > k
    BY <1>1, <1>2, <1>3, <2>3, SMTT(30)
  <2> QED  BY <1>2, <1>3, <2>1, <2>2, <2>3
<1>8. Held' /\ Begun'
  BY <1>1, <1>5, <1>6 DEF Held, Begun
<1> QED  BY <1>2, <1>7, <1>8

LEMMA PartOfTaking ==
  ASSUME IInv, Taking
  PROVE  /\ part \in Part /\ part.state = "live"
         /\ part.cursor \in Nat /\ part.next \in Nat /\ part.end \in Nat
         /\ part.end <= MaxOffset
         /\ part.cursor <= part.next /\ part.next <= part.end
         /\ Room \in Int /\ Room > 0
BY Numbers DEF IInv, TypeOK, Part, PartSound, Taking, Mine, Room

LEMMA TakeSomeInv == ASSUME IInv, TakeSome PROVE IInv'
<1> DEFINE e == part.next + Room
<1>1. /\ Taking /\ e <= part.end /\ records' = Take(e)
      /\ part' = [part EXCEPT !.next = e, !.cursor = e]
  BY DEF TakeSome, Unpacks
<1>2. e \in Nat /\ part.next <= e /\ e \in Offset
  BY <1>1, PartOfTaking, Numbers DEF Offset
<1>3. /\ part' \in Part /\ part'.next = e /\ part'.cursor = e
      /\ part'.end = part.end
  BY <1>1, <1>2, PartOfTaking DEF Part
<1>4. PartSound'
  BY <1>1, <1>2, <1>3 DEF PartSound
<1>5. records' \in Seq(0 .. MaxOffset - 1) /\ Held' /\ Climbing' /\ Begun'
  BY <1>1, <1>2, TakeKeeps DEF TakeSome, subscription
<1>6. TypeOK'
  BY <1>3, <1>5 DEF IInv, TypeOK, TakeSome, partition, subscription, network, caller
<1>7. CompletionsSound' /\ PositionKnown'
  BY DEF IInv, CompletionsSound, PositionKnown, TakeSome, subscription
<1> QED  BY <1>4, <1>5, <1>6, <1>7 DEF IInv

LEMMA TakeRestInv == ASSUME IInv, TakeRest PROVE IInv'
<1>1. part' \in Part /\ PartSound'
  BY Numbers DEF TakeRest, Gone, Part, PartSound
<1>2. records' \in Seq(0 .. MaxOffset - 1) /\ Held' /\ Climbing' /\ Begun'
  <2>1. Taking /\ part.end \in Int /\ part.next <= part.end /\ part.end <= part.end
    BY PartOfTaking DEF TakeRest
  <2> QED  BY <2>1, TakeKeeps DEF TakeRest, subscription
<1>3. TypeOK'
  BY <1>1, <1>2 DEF IInv, TypeOK, TakeRest, partition, subscription, network, caller
<1>4. CompletionsSound' /\ PositionKnown'
  BY DEF IInv, CompletionsSound, PositionKnown, TakeRest, subscription
<1> QED  BY <1>1, <1>2, <1>3, <1>4 DEF IInv

LEMMA TakeRaisesInv == ASSUME IInv, TakeRaises PROVE IInv'
<1>1. PICK b \in Undecodable \cap (part.cursor .. part.end - 1) :
        /\ part' = [part EXCEPT !.state = "dead", !.cursor = b,
                                !.next = IF b = part.cursor THEN @ ELSE b]
        /\ IF b > part.next
             THEN records' = Take(b) /\ UNCHANGED <<inLine, pc>>
             ELSE Fail(part.next, completed)
  BY DEF TakeRaises
<1>2. Taking
  BY DEF TakeRaises
<1>3. b \in Nat /\ b < part.end /\ b \in Offset /\ part.next \in Offset
  BY <1>1, <1>2, PartOfTaking, Numbers DEF Offset, Part
<1>4. part' \in Part /\ part'.state = "dead"
  BY <1>1, <1>2, <1>3, PartOfTaking DEF Part
<1>5. PartSound' /\ CompletionsSound' /\ PositionKnown'
  BY <1>4 DEF IInv, PartSound, CompletionsSound, PositionKnown, TakeRaises,
              subscription
<1>6. CASE b > part.next
  <2>1. records' = Take(b) /\ UNCHANGED <<inLine, pc>>
    BY <1>1, <1>6
  <2>2. records' \in Seq(0 .. MaxOffset - 1) /\ Held' /\ Climbing' /\ Begun'
    <3>1. b \in Int /\ part.next <= b /\ b <= part.end
      BY <1>2, <1>3, <1>6, PartOfTaking
    <3> QED  BY <1>2, <2>1, <3>1, TakeKeeps DEF TakeRaises, subscription
  <2>3. TypeOK'
    BY <1>4, <2>1, <2>2 DEF IInv, TypeOK, TakeRaises, partition, subscription,
                            network, caller
  <2> QED  BY <1>5, <2>2, <2>3 DEF IInv
<1>7. CASE ~(b > part.next)
  <2>1. Fail(part.next, completed)
    BY <1>1, <1>7
  <2>2. /\ records' = records
        /\ pc' \in {"user", "send", "yield", "round"}
        /\ inLine' \in Offset \cup {None}
    BY <1>3, <2>1, FailTyped DEF IInv
  <2>3. TypeOK'
    BY <1>4, <2>2 DEF IInv, TypeOK, TakeRaises, partition, subscription, network, caller
  <2>4. Draining
    BY <1>2 DEF Taking, Mine
  <2>5. Rest'
    BY <1>5, <2>1, <2>2, <2>4, FailLeaves, LeaveInv DEF TakeRaises, subscription
  <2> QED  BY <2>3, <2>5 DEF IInv, Rest
<1> QED  BY <1>6, <1>7

-----------------------------------------------------------------------------
(* The invariant                                                           *)

LEMMA StutterInv == ASSUME IInv, UNCHANGED vars PROVE IInv'
BY DEF IInv, TypeOK, CompletionsSound, PartSound, PositionKnown, Held, Climbing,
       Begun, vars, partition, subscription, network, buffers, caller

LEMMA FetchedRecordsInv == ASSUME IInv, FetchedRecords PROVE IInv'
<1>1. CASE TakeNothing
  BY <1>1, StutterInv DEF TakeNothing
<1> QED
  BY <1>1, RaiseInLineInv, ParseInv, DiscardInv, TakeSomeInv, TakeRestInv,
     TakeRaisesInv, LeaveLoopInv DEF FetchedRecords

LEMMA NextInv == ASSUME IInv, [Next]_vars PROVE IInv'
<1>1. CASE Run
  BY <1>1, AskInv, YieldInv, PositionsInv, FetchedRecordsInv, SendFetchInv,
     SendNothingInv, LeavePollInv, RoundInv DEF Run
<1>2. CASE TimeUp
  BY <1>2, RoundInv
<1> QED
  BY <1>1, <1>2, BrokersInv, CallsInv, AnswersInv, BackoffInv, StutterInv DEF Next

LEMMA Invariance == Spec => []IInv
<1> QED  BY InitInv, NextInv, PTL DEF Spec

\* Every variable keeps its type.
THEOREM TypeCorrect == Spec => []TypeOK
<1>1. IInv => TypeOK
  BY DEF IInv
<1> QED  BY <1>1, Invariance, PTL

\* With any number of brokers, moves of the leader, and late, stale, repeated
\* or failed answers, the iterator never goes past a record it has not
\* returned: what it returns next is at the position or before it.
THEOREM NothingLeftOut == Spec => []NoGap
<1>1. IInv => NoGap
  <2> SUFFICES ASSUME IInv, records # <<>>, Fetchable
               PROVE  Head(records) <= position
    BY DEF NoGap
  <2>1. Head(records) = records[1]
    BY TailFacts DEF IInv, TypeOK
  <2> QED  BY <2>1 DEF IInv, Begun, Fetchable
<1> QED  BY <1>1, Invariance, PTL

-----------------------------------------------------------------------------
(* What may still be returned                                              *)

\* What may still be returned, up to the completed fetch k, lies below n.
Below(n, k) ==
  /\ out < n
  /\ \A j \in 1 .. Len(records) : records[j] < n
  /\ part.end <= n
  /\ \A i \in 1 .. Len(completed) :
       i < k /\ completed[i].kind = "records" => completed[i].end <= n

Written ==
  /\ \A b \in bases : b <= logEnd
  /\ Below(logEnd, Len(completed) + 1)

\* An offset was rejected because its record has expired, or because it lies
\* beyond all that was returned by then and all that will be before the answer
\* is parsed.
Rejected ==
  \A j \in 1 .. Len(completed) :
    completed[j].kind = "outOfRange" =>
      \/ completed[j].offset < logStart
      \/ Below(completed[j].offset - 1, j)

SInv == Written /\ Rejected

\* With one broker, no fetch is asked for while another is pending, waits to be
\* parsed or is parsed in part ...
AsksAlone ==
  /\ pc = "send" => completed = <<>>
  /\ \A n \in Node :
       fetching[n] # None => completed = <<>> /\ part.state = "gone"
  /\ completed # <<>> => Len(completed) = 1 /\ part.state = "gone"

\* ... so the records at hand follow the position one by one, and what the
\* loop could still take is not next in line.
InStep ==
  /\ records # <<>> /\ position # None =>
       \A j \in 1 .. Len(records) : records[j] = position + j - 1
  /\ Draining /\ records # <<>> =>
       completed = <<>> /\ (part.state # "gone" => part.next # position)

LEMMA Elements ==
  ASSUME NEW S, NEW s \in Seq(S)
  PROVE  Len(s) \in Nat /\ \A j \in 1 .. Len(s) : s[j] \in S
  OBVIOUS

LEMMA SourceTypes ==
  ASSUME TypeOK
  PROVE  /\ out \in Int /\ out >= -1
         /\ part.end \in Int /\ part.end >= 0
         /\ logStart \in Nat /\ logEnd \in Nat
         /\ Len(records) \in Nat
         /\ \A j \in 1 .. Len(records) : records[j] \in Int
         /\ Len(completed) \in Nat
         /\ \A j \in 1 .. Len(completed) :
              completed[j].end \in Int /\ completed[j].offset \in Nat
<1>1. \A o \in Offset : o \in Nat
  BY Numbers
<1>2. /\ out \in Int /\ out >= -1 /\ part.end \in Int /\ part.end >= 0
      /\ logStart \in Nat /\ logEnd \in Nat
  BY <1>1 DEF TypeOK, Part, None
<1>3. Len(records) \in Nat /\ \A j \in 1 .. Len(records) : records[j] \in Int
  <2>1. records \in Seq(0 .. MaxOffset - 1) /\ Len(records) \in Nat
    BY DEF TypeOK
  <2>2. \A j \in 1 .. Len(records) : records[j] \in 0 .. MaxOffset - 1
    BY <2>1, Elements, Zenon
  <2> QED  BY <2>1, <2>2
<1>4. completed \in Seq(Completion) /\ Len(completed) \in Nat
  BY DEF TypeOK
<1>5. \A j \in 1 .. Len(completed) : completed[j] \in Completion
  BY <1>4
<1>6. \A j \in 1 .. Len(completed) :
        completed[j].end \in Offset /\ completed[j].offset \in Offset
  BY <1>5 DEF Completion
<1> QED  BY <1>1, <1>2, <1>3, <1>4, <1>6

\* Where a step may take the records from, and the offset handed out last.
Sourced ==
  /\ logStart <= logStart' /\ logEnd <= logEnd'
  /\ \A b \in bases' : b \in bases \/ b <= logEnd'
  /\ out' = out \/ \E i \in 1 .. Len(records) : out' = records[i]
  /\ \A j \in 1 .. Len(records') :
       \/ records'[j] < part.end
       \/ \E i \in 1 .. Len(records) : records'[j] = records[i]
  /\ part'.end \in {part.end, 0}

\* The same numbers in the next state.
LEMMA NextTypes ==
  ASSUME TypeOK'
  PROVE  /\ logStart' \in Nat /\ logEnd' \in Nat
         /\ \A j \in 1 .. Len(records') : records'[j] \in Int
<1>1. \A o \in Offset : o \in Nat
  BY Numbers
<1>2. records' \in Seq(0 .. MaxOffset - 1)
  BY DEF TypeOK
<1>3. \A j \in 1 .. Len(records') : records'[j] \in 0 .. MaxOffset - 1
  BY <1>2, Elements, Zenon
<1> QED  BY <1>1, <1>3 DEF TypeOK

LEMMA BelowKept ==
  ASSUME TypeOK, TypeOK', NEW n \in Int, NEW k \in Int, Below(n, k), Sourced,
         UNCHANGED completed
  PROVE  Below(n, k)'
<1>1. out' < n
  BY SourceTypes DEF Below, Sourced
<1>2. ASSUME NEW j \in 1 .. Len(records') PROVE records'[j] < n
  <2>1. /\ records'[j] \in Int /\ part.end \in Int /\ part.end <= n
    BY SourceTypes, NextTypes DEF Below
  <2>2. CASE records'[j] < part.end
    BY <2>1, <2>2
  <2>3. CASE \E i \in 1 .. Len(records) : records'[j] = records[i]
    BY <2>3 DEF Below
  <2> QED  BY <2>2, <2>3 DEF Sourced
<1>3. part'.end <= n
  <2>1. 0 <= n
    BY SourceTypes DEF Below
  <2> QED  BY <2>1 DEF Below, Sourced
<1>4. \A i \in 1 .. Len(completed') :
        i < k /\ completed'[i].kind = "records" => completed'[i].end <= n
  BY DEF Below
<1> QED  BY <1>1, <1>2, <1>3, <1>4 DEF Below

LEMMA BelowGrows ==
  ASSUME TypeOK, NEW m \in Int, NEW n \in Int, m <= n, NEW k, Below(m, k)
  PROVE  Below(n, k)
<1>1. out < n /\ part.end <= n
  BY SourceTypes DEF Below
<1>2. \A j \in 1 .. Len(records) : records[j] < n
  BY SourceTypes DEF Below
<1>3. \A i \in 1 .. Len(completed) :
        i < k /\ completed[i].kind = "records" => completed[i].end <= n
  BY SourceTypes DEF Below
<1> QED  BY <1>1, <1>2, <1>3 DEF Below

LEMMA SourcedKept ==
  ASSUME TypeOK, TypeOK', SInv, Sourced, UNCHANGED completed
  PROVE  SInv'
<1>1. Written'
  <2>1. logEnd \in Int /\ logEnd' \in Int /\ Len(completed) + 1 \in Int
        /\ logEnd <= logEnd' /\ \A b \in bases : b \in Int
    <3>1. \A b \in bases : b \in Int
      BY Numbers DEF TypeOK
    <3> QED  BY <3>1, SourceTypes, NextTypes DEF Sourced
  <2>2. PICK m \in Int : m = logEnd
    BY <2>1
  <2>3. PICK k \in Int : k = Len(completed) + 1
    BY <2>1
  <2>4. Below(m, k)
    BY <2>2, <2>3 DEF SInv, Written
  <2>5. PICK l \in Int : l = logEnd'
    BY <2>1
  <2>6. Below(l, k)'
    <3>1. m <= l
      BY <2>1, <2>2, <2>5
    <3>2. Below(l, k)
      BY <2>4, <3>1, BelowGrows
    <3> QED  BY <3>2, BelowKept
  <2>7. Below(logEnd, Len(completed) + 1)'
    BY <2>3, <2>5, <2>6 DEF Below
  <2>8. \A b \in bases' : b <= logEnd'
    BY <2>1 DEF SInv, Written, Sourced
  <2> QED  BY <2>7, <2>8 DEF Written
<1>2. Rejected'
  <2> SUFFICES ASSUME NEW j \in 1 .. Len(completed'),
                      completed'[j].kind = "outOfRange"
               PROVE  \/ completed'[j].offset < logStart'
                      \/ Below(completed[j].offset - 1, j)'
    BY DEF Rejected
  <2>1. j \in 1 .. Len(completed) /\ j \in Int /\ completed[j].offset \in Nat
        /\ logStart \in Int /\ logStart' \in Int /\ logStart <= logStart'
    BY SourceTypes, NextTypes DEF Sourced
  <2>2. CASE completed[j].offset < logStart
    BY <2>1, <2>2
  <2>3. CASE Below(completed[j].offset - 1, j)
    <3>1. PICK m \in Int : m = completed[j].offset - 1
      BY <2>1
    <3>2. Below(m, j)'
      BY <2>1, <2>3, <3>1, BelowKept
    <3> QED  BY <3>1, <3>2 DEF Below
  <2> QED  BY <2>1, <2>2, <2>3 DEF SInv, Rejected
<1> QED  BY <1>1, <1>2 DEF SInv

LEMMA BelowParsed ==
  ASSUME TypeOK, NEW n \in Int, NEW k \in Int, k > 1, Below(n, k),
         completed # <<>>, completed' = Tail(completed),
         UNCHANGED <<records, out>>,
         \/ part'.end = part.end
         \/ completed[1].kind = "records" /\ part'.end = completed[1].end
  PROVE  Below(n, k - 1)'
<1>1. /\ completed \in Seq(Completion) /\ Len(completed) \in Nat
      /\ Len(completed) >= 1 /\ Len(completed') = Len(completed) - 1
      /\ \A j \in 1 .. Len(completed') : completed'[j] = completed[j + 1]
  BY TailFacts DEF TypeOK
<1>2. out' < n /\ \A j \in 1 .. Len(records') : records'[j] < n
  BY DEF Below
<1>3. part'.end <= n
  BY <1>1 DEF Below
<1>4. ASSUME NEW i \in 1 .. Len(completed'), i < k - 1,
             completed'[i].kind = "records"
      PROVE  completed'[i].end <= n
  <2>1. i + 1 \in 1 .. Len(completed) /\ i + 1 < k
    BY <1>1, <1>4
  <2>2. completed'[i] = completed[i + 1]
    BY <1>1
  <2> QED  BY <1>4, <2>1, <2>2 DEF Below
<1> QED  BY <1>2, <1>3, <1>4 DEF Below

LEMMA ParseSources == ASSUME IInv, IInv', SInv, Parse PROVE SInv'
<1>1. /\ TypeOK /\ TypeOK' /\ completed # <<>> /\ completed' = Tail(completed)
      /\ UNCHANGED <<bases, logStart, logEnd, out>> /\ Draining
  BY DEF IInv, Parse, partition, caller
<1>2. /\ completed \in Seq(Completion) /\ Len(completed) \in Nat
      /\ Len(completed) >= 1 /\ Len(completed') = Len(completed) - 1
      /\ Head(completed) = completed[1]
      /\ \A j \in 1 .. Len(completed') : completed'[j] = completed[j + 1]
  BY <1>1, TailFacts DEF TypeOK
<1>3. UNCHANGED records
  BY <1>1, FailLeaves DEF Parse
<1>4. \/ part'.end = part.end
      \/ completed[1].kind = "records" /\ part'.end = completed[1].end
  BY <1>2 DEF Parse
<1>5. Written'
  <2>1. logEnd \in Int /\ Len(completed) + 1 \in Int /\ Len(completed) + 1 > 1
    BY <1>1, <1>2, SourceTypes
  <2>2. PICK m \in Int : m = logEnd
    BY <2>1
  <2>3. PICK k \in Int : k = Len(completed) + 1
    BY <2>1
  <2>4. Below(m, k)
    BY <2>2, <2>3 DEF SInv, Written
  <2>5. Below(m, k - 1)'
    BY <1>1, <1>3, <1>4, <2>1, <2>3, <2>4, BelowParsed
  <2>6. k - 1 = Len(completed') + 1 /\ m = logEnd'
    BY <1>1, <1>2, <2>2, <2>3
  <2>7. Below(logEnd, Len(completed) + 1)'
    BY <2>5, <2>6 DEF Below
  <2> QED  BY <1>1, <2>7 DEF SInv, Written
<1>6. Rejected'
  <2> SUFFICES ASSUME NEW j \in 1 .. Len(completed'),
                      completed'[j].kind = "outOfRange"
               PROVE  \/ completed'[j].offset < logStart'
                      \/ Below(completed[j].offset - 1, j)'
    BY DEF Rejected
  <2>1. /\ j + 1 \in 1 .. Len(completed) /\ j + 1 \in Int /\ j + 1 > 1
        /\ completed'[j] = completed[j + 1] /\ (j + 1) - 1 = j
    BY <1>2
  <2>2. completed[j + 1].offset \in Nat
    BY <1>1, <2>1, SourceTypes
  <2>3. CASE completed[j + 1].offset < logStart
    BY <1>1, <2>1, <2>3
  <2>4. CASE Below(completed[j + 1].offset - 1, j + 1)
    <3>1. PICK m \in Int : m = completed[j + 1].offset - 1
      BY <2>2
    <3>2. PICK k \in Int : k = j + 1
      BY <2>1
    <3>3. Below(m, k - 1)'
      BY <1>1, <1>3, <1>4, <2>1, <2>4, <3>1, <3>2, BelowParsed
    <3>4. k - 1 = j /\ m = completed'[j].offset - 1
      BY <2>1, <3>1, <3>2
    <3> QED  BY <3>3, <3>4 DEF Below
  <2> QED  BY <2>1, <2>3, <2>4 DEF SInv, Rejected
<1> QED  BY <1>5, <1>6 DEF SInv

\* An answer is queued behind the others.
LEMMA QueuedSources ==
  ASSUME TypeOK, SInv, UNCHANGED <<bases, logStart, logEnd, records, out, part>>,
         NEW c \in Completion, completed' = Append(completed, c),
         c.kind = "records" => c.end <= logEnd,
         c.kind = "outOfRange" => c.offset < logStart \/ logEnd < c.offset
  PROVE  SInv'
<1>1. /\ Len(completed) \in Nat /\ Len(completed') = Len(completed) + 1
      /\ \A j \in 1 .. Len(completed) : completed'[j] = completed[j]
      /\ completed'[Len(completed) + 1] = c
  BY DEF TypeOK
<1>2. PICK l \in Nat : l = Len(completed)
  BY <1>1
<1>3. ASSUME NEW n \in Int, NEW k \in Int, k <= l + 1, Below(n, k)
      PROVE  Below(n, k)'
  <2>1. ASSUME NEW i \in 1 .. Len(completed'), i < k,
               completed'[i].kind = "records"
        PROVE  completed'[i].end <= n
    <3>1. i \in 1 .. Len(completed)
      BY <1>2, <1>3, <2>1
    <3>2. completed'[i] = completed[i]
      BY <1>1, <3>1
    <3> QED  BY <1>3, <2>1, <3>1, <3>2 DEF Below
  <2> QED  BY <1>3, <2>1 DEF Below
<1>4. PICK m \in Int : m = logEnd
  BY SourceTypes
<1>5. Below(m, l + 1)
  BY <1>2, <1>4 DEF SInv, Written
<1>6. Written'
  <2>1. Below(m, l + 1)'
    BY <1>3, <1>5
  <2>2. ASSUME NEW i \in 1 .. Len(completed'), completed'[i].kind = "records"
        PROVE  completed'[i].end <= m
    <3>1. CASE i = l + 1
      BY <1>1, <1>2, <1>4, <2>2, <3>1
    <3>2. CASE i # l + 1
      BY <1>1, <1>2, <2>1, <2>2, <3>2 DEF Below
    <3> QED  BY <3>1, <3>2
  <2>3. Below(logEnd, Len(completed) + 1)'
    BY <1>4, <2>1, <2>2 DEF Below
  <2> QED  BY <2>3 DEF SInv, Written
<1>7. Rejected'
  <2> SUFFICES ASSUME NEW j \in 1 .. Len(completed'),
                      completed'[j].kind = "outOfRange"
               PROVE  \/ completed'[j].offset < logStart'
                      \/ Below(completed[j].offset - 1, j)'
    BY DEF Rejected
  <2>1. CASE j = l + 1
    <3>1. completed'[j] = c /\ c.offset \in Nat
      BY <1>1, <1>2, <2>1, Numbers DEF Completion
    <3>2. CASE c.offset < logStart
      BY <3>1, <3>2
    <3>3. CASE m < c.offset
      <4>1. PICK n \in Int : n = c.offset - 1
        BY <3>1
      <4>2. m <= n
        BY <3>1, <3>3, <4>1
      <4>3. Below(n, l + 1)
        BY <1>5, <4>2, BelowGrows
      <4>4. Below(n, l + 1)'
        BY <1>3, <4>3
      <4> QED  BY <2>1, <3>1, <4>1, <4>4 DEF Below
    <3> QED  BY <1>4, <2>1, <3>1, <3>2, <3>3
  <2>2. CASE j # l + 1
    <3>1. j \in 1 .. Len(completed) /\ completed'[j] = completed[j] /\ j <= l + 1
          /\ j \in Int
      BY <1>1, <1>2, <2>2
    <3>2. completed[j].offset \in Nat
      BY <3>1, SourceTypes
    <3>3. CASE completed[j].offset < logStart
      BY <3>1, <3>3
    <3>4. CASE Below(completed[j].offset - 1, j)
      <4>1. PICK n \in Int : n = completed[j].offset - 1
        BY <3>2
      <4>2. Below(n, j)'
        BY <1>3, <3>1, <3>4, <4>1
      <4> QED  BY <3>1, <4>1, <4>2 DEF Below
    <3> QED  BY <3>1, <3>3, <3>4 DEF SInv, Rejected
  <2> QED  BY <2>1, <2>2
<1> QED  BY <1>6, <1>7 DEF SInv

\* Steps that leave alone what may be returned.
Quiet ==
  UNCHANGED <<bases, logStart, logEnd, completed, part, records, out>>

LEMMA QuietSteps ==
  ASSUME \/ \E n \in Node : MoveLeader(n) \/ FetchFails(n)
         \/ \E i \in 1 .. MaxLookups : LookupAnswered(i) \/ LookupFails(i)
         \/ PauseOrResume \/ AskPosition \/ AskNext
         \/ HavePosition \/ RaiseCached \/ SendLookup \/ AwaitLookup
         \/ RaiseInLine \/ TakeNothing \/ LeaveLoop
         \/ SendFetch \/ SendNothing \/ LeavePoll \/ GoRound \/ TimeUp
         \/ BackoffPasses \/ UNCHANGED vars
  PROVE  Quiet
BY DEF Quiet, MoveLeader, FetchFails, LookupAnswered, LookupFails, PauseOrResume,
       AskPosition, AskNext, HavePosition, RaiseCached, SendLookup, AwaitLookup,
       RaiseInLine, TakeNothing, LeaveLoop, Leave, SendFetch, SendNothing,
       LeavePoll, GoRound, TimeUp, BackoffPasses, vars, partition, buffers,
       caller

LEMMA QuietSources ==
  ASSUME IInv, IInv', SInv, UNCHANGED <<completed, part, records, out>>,
         logStart <= logStart', logEnd <= logEnd',
         \A b \in bases' : b \in bases \/ b <= logEnd'
  PROVE  SInv'
<1>1. Sourced
  BY DEF Sourced
<1> QED  BY <1>1, SourcedKept DEF IInv

LEMMA QuietKeeps == ASSUME IInv, IInv', SInv, Quiet PROVE SInv'
<1>1. logStart <= logStart' /\ logEnd <= logEnd'
  BY SourceTypes DEF Quiet, IInv
<1> QED  BY <1>1, QuietSources DEF Quiet

LEMMA GrowthSources ==
  ASSUME IInv, IInv', SInv, NEW n \in 1 .. MaxOffset, Produce(n) \/ Expire(n)
  PROVE  SInv'
<1>1. UNCHANGED <<completed, part, records, out>>
  BY DEF Produce, Expire, buffers, caller
<1>2. logStart \in Nat /\ logEnd \in Nat /\ n \in Nat
  BY SourceTypes DEF IInv
<1>3. CASE Produce(n)
  BY <1>1, <1>2, <1>3, QuietSources DEF Produce
<1>4. CASE Expire(n)
  BY <1>1, <1>2, <1>4, QuietSources DEF Expire
<1> QED  BY <1>3, <1>4

\* Steps of which the records at hand come from those that were, or from the
\* part.
LEMMA CallerSources ==
  ASSUME IInv, IInv', SInv,
         \/ \E o, s : MovePosition(o, s)
         \/ Yield \/ DropRecords \/ Discard
  PROVE  SInv'
<1>1. UNCHANGED <<bases, logStart, logEnd, completed>>
  BY DEF MovePosition, Yield, DropRecords, Discard, partition, buffers
<1>2. logStart <= logStart' /\ logEnd <= logEnd'
  BY <1>1, SourceTypes DEF IInv
<1>3. part'.end \in {part.end, 0}
  BY DEF MovePosition, Yield, DropRecords, Discard, Gone, buffers
<1>4. CASE records' = <<>> /\ out' = out
  BY <1>1, <1>2, <1>3, <1>4, SourcedKept DEF Sourced, IInv
<1>5. CASE Yield
  <2>1. /\ Head(records) = records[1] /\ 1 \in 1 .. Len(records)
        /\ \A j \in 1 .. Len(Tail(records)) :
             j + 1 \in 1 .. Len(records) /\ Tail(records)[j] = records[j + 1]
    BY <1>5, TailFacts DEF IInv, TypeOK, Yield
  <2>2. out' = records[1] /\ records' = Tail(records)
    BY <1>5, <2>1 DEF Yield
  <2>3. Sourced
    BY <1>1, <1>2, <1>3, <2>1, <2>2 DEF Sourced
  <2> QED  BY <1>1, <2>3, SourcedKept DEF IInv
<1>6. CASE Discard
  <2>1. UNCHANGED <<records, out>>
    BY <1>6 DEF Discard, caller
  <2>2. Sourced
    BY <1>1, <1>2, <1>3, <2>1 DEF Sourced
  <2> QED  BY <1>1, <2>2, SourcedKept DEF IInv
<1> QED  BY <1>4, <1>5, <1>6 DEF MovePosition, DropRecords, caller

\* What a step of take does to the records at hand and to the part.
LEMMA TakeEffect ==
  ASSUME IInv, TakeSome \/ TakeRest \/ TakeRaises
  PROVE  /\ UNCHANGED <<bases, logStart, logEnd, fetching, completed, position, out,
                        calls>>
         /\ part'.end \in {part.end, 0}
         /\ \/ /\ records' = records
               /\ pc' \in {"send", "yield", "round", "user"}
               /\ pc' = "user" \/ records # <<>>
               /\ pc' = "send" => completed = <<>>
            \/ /\ pc' = pc
               /\ \E e \in Nat :
                    /\ part.next <= e /\ e <= part.end /\ records' = Take(e)
                    /\ \/ part'.state = "gone"
                       \/ part'.next = e /\ part.next < e
<1>1. UNCHANGED <<bases, logStart, logEnd, fetching, completed, position, out, calls>>
  BY DEF TakeSome, TakeRest, TakeRaises, partition, subscription, network, caller
<1>2. Taking
  BY DEF TakeSome, TakeRest, TakeRaises
<1>3. part'.end \in {part.end, 0}
  <2>1. part \in Part
    BY <1>2, PartOfTaking
  <2>2. CASE TakeRest
    BY <2>2 DEF TakeRest, Gone
  <2>3. CASE TakeSome
    BY <2>1, <2>3 DEF TakeSome, Part
  <2>4. CASE TakeRaises
    BY <2>1, <2>4 DEF TakeRaises, Part
  <2> QED  BY <2>2, <2>3, <2>4
<1>4. CASE TakeSome
  <2> DEFINE e == part.next + Room
  <2>1. e \in Nat /\ part.next < e /\ e <= part.end
    BY <1>2, <1>4, PartOfTaking DEF TakeSome, Unpacks
  <2>2. records' = Take(e) /\ part'.next = e /\ pc' = pc
    BY <1>2, <1>4, PartOfTaking DEF TakeSome, Part
  <2> HIDE DEF e
  <2>3. part.next <= e
    BY <1>2, <2>1, PartOfTaking
  <2> QED  BY <1>1, <1>3, <2>1, <2>2, <2>3
<1>5. CASE TakeRest
  <2>1. PICK e \in Nat : e = part.end
    BY <1>2, PartOfTaking
  <2>2. records' = Take(e) /\ part'.state = "gone" /\ pc' = pc
    BY <1>5, <2>1 DEF TakeRest, Gone
  <2>3. part.next <= e /\ e <= part.end
    BY <1>2, <2>1, PartOfTaking
  <2> QED  BY <1>1, <1>3, <2>1, <2>2, <2>3
<1>6. CASE TakeRaises
  <2>1. PICK b \in Undecodable \cap (part.cursor .. part.end - 1) :
          /\ part' = [part EXCEPT !.state = "dead", !.cursor = b,
                                  !.next = IF b = part.cursor THEN @ ELSE b]
          /\ IF b > part.next
               THEN records' = Take(b) /\ UNCHANGED <<inLine, pc>>
               ELSE Fail(part.next, completed)
    BY <1>6 DEF TakeRaises
  <2>2. b \in Nat /\ b <= part.end
    BY <1>2, <2>1, PartOfTaking
  <2>3. CASE b > part.next
    <3>1. part.next < b /\ part.next <= b /\ b # part.cursor
      BY <1>2, <2>2, <2>3, PartOfTaking
    <3>2. part'.next = b
      BY <1>2, <2>1, <3>1, PartOfTaking DEF Part
    <3>3. records' = Take(b) /\ pc' = pc
      BY <2>1, <2>3
    <3> QED  BY <1>1, <1>3, <2>2, <3>1, <3>2, <3>3
  <2>4. CASE ~(b > part.next)
    <3>1. Fail(part.next, completed) /\ Draining
      BY <1>2, <2>1, <2>4 DEF Taking, Mine
    <3>2. records' = records /\ pc' \in {"send", "yield", "round", "user"}
      BY <3>1, FailLeaves
    <3>3. pc' = "user" \/ records # <<>>
      BY <3>1 DEF Fail
    <3>4. pc' = "send" => completed = <<>>
      BY <3>1 DEF Fail, Leave
    <3> QED  BY <1>1, <1>3, <3>2, <3>3, <3>4
  <2> QED  BY <2>3, <2>4
<1> QED  BY <1>4, <1>5, <1>6

LEMMA TakeSources ==
  ASSUME IInv, IInv', SInv, TakeSome \/ TakeRest \/ TakeRaises
  PROVE  SInv'
<1>1. /\ UNCHANGED <<bases, logStart, logEnd, completed, out>>
      /\ part'.end \in {part.end, 0}
  BY TakeEffect
<1>2. logStart <= logStart' /\ logEnd <= logEnd'
  BY <1>1, SourceTypes DEF IInv
<1>3. CASE records' = records
  BY <1>1, <1>2, <1>3, SourcedKept DEF Sourced, IInv
<1>4. CASE \E e \in Nat :
             part.next <= e /\ e <= part.end /\ records' = Take(e)
  <2>1. PICK e \in Nat : part.next <= e /\ e <= part.end /\ records' = Take(e)
    BY <1>4
  <2>2. Taking
    BY DEF TakeSome, TakeRest, TakeRaises
  <2>3. /\ part.state = "live" /\ part.next \in Nat /\ part.end \in Nat /\ e \in Int
        /\ Len(records) \in Nat
    BY <2>2, PartOfTaking, SourceTypes DEF IInv
  <2>4. /\ Len(records') = Len(records) + (e - part.next)
        /\ \A j \in 1 .. Len(records) : records'[j] = records[j]
        /\ \A j \in Len(records) + 1 .. Len(records') :
             records'[j] = part.next + (j - Len(records)) - 1
    BY <2>1, <2>3, TakeFacts DEF IInv
  <2>5. ASSUME NEW j \in 1 .. Len(records')
        PROVE  \/ records'[j] < part.end
               \/ \E i \in 1 .. Len(records) : records'[j] = records[i]
    <3>1. CASE j \in 1 .. Len(records)
      BY <2>4, <3>1
    <3>2. CASE j \notin 1 .. Len(records)
      <4>1. j \in Len(records) + 1 .. Len(records')
        BY <2>3, <2>4, <3>2
      <4>2. records'[j] = part.next + (j - Len(records)) - 1
        BY <2>4, <4>1
      <4> QED  BY <2>1, <2>3, <2>4, <4>1, <4>2
    <3> QED  BY <3>1, <3>2
  <2>6. Sourced
    BY <1>1, <1>2, <2>5 DEF Sourced
  <2> QED  BY <1>1, <2>6, SourcedKept DEF IInv
<1> QED  BY <1>3, <1>4, TakeEffect

\* What an answer to a fetch does, whatever it says.
LEMMA AnswerEffect ==
  ASSUME IInv, NEW n \in Node,
         FetchRecords(n) \/ FetchOutOfRange(n) \/ FetchError(n)
  PROVE  /\ UNCHANGED <<bases, logStart, logEnd, records, out, part, position, pc,
                        calls>>
         /\ Polling /\ fetching[n] # None
         /\ fetching' = [fetching EXCEPT ![n] = None]
         /\ \E kind, base, end : Answered(n, kind, base, end)
BY DEF FetchRecords, FetchOutOfRange, FetchError, Answered, partition, subscription,
       caller

LEMMA AnsweredSources ==
  ASSUME IInv, SInv, NEW n \in Node, fetching[n] \in Offset,
         NEW kind \in {"records", "outOfRange", "retriable", "fatal"},
         NEW base \in Offset, NEW end \in Offset,
         kind = "records" => end <= logEnd,
         kind = "outOfRange" => fetching[n] < logStart \/ logEnd < fetching[n],
         Answered(n, kind, base, end)
  PROVE  SInv'
<1> DEFINE c == [kind |-> kind, offset |-> fetching[n], base |-> base, end |-> end]
<1>1. c \in Completion
  BY DEF Completion
<1>2. completed' = Append(completed, c)
  BY DEF Answered
<1>3. c.kind = "records" => c.end <= logEnd
  OBVIOUS
<1>4. c.kind = "outOfRange" => c.offset < logStart \/ logEnd < c.offset
  OBVIOUS
<1> HIDE DEF c
<1>5. UNCHANGED <<bases, logStart, logEnd, records, out, part>>
  BY DEF Answered, partition, caller
<1> QED  BY <1>1, <1>2, <1>3, <1>4, <1>5, QueuedSources DEF IInv

LEMMA AnswerSources ==
  ASSUME IInv, SInv, NEW n \in Node,
         FetchRecords(n) \/ FetchOutOfRange(n) \/ FetchError(n)
  PROVE  SInv'
<1>1. fetching[n] \in Offset /\ fetching[n] \in Nat
  BY AnswerEffect, Numbers DEF IInv, TypeOK
<1>2. logStart \in Nat /\ logEnd \in Nat /\ logEnd \in Offset /\ 0 \in Offset
  BY SourceTypes, Numbers DEF IInv, TypeOK
<1>3. ASSUME Answered(n, "records", logEnd, logEnd) PROVE SInv'
  BY <1>1, <1>2, <1>3, AnsweredSources
<1>4. ASSUME NEW a \in Answer(fetching[n]), Answered(n, "records", a[1], a[2])
      PROVE  SInv'
  <2>1. a[1] \in Offset /\ a[2] \in Offset /\ a[2] \in bases \cup {logEnd}
    BY DEF Answer, IInv, TypeOK
  <2>2. a[2] <= logEnd
    BY <1>2, <2>1 DEF SInv, Written
  <2> QED  BY <1>1, <1>4, <2>1, <2>2, AnsweredSources
<1>5. CASE FetchRecords(n)
  BY <1>3, <1>4, <1>5 DEF FetchRecords
<1>6. CASE FetchOutOfRange(n)
  <2>1. fetching[n] < logStart \/ logEnd < fetching[n]
    BY <1>1, <1>2, <1>6 DEF FetchOutOfRange
  <2> QED  BY <1>1, <1>2, <1>6, <2>1, AnsweredSources DEF FetchOutOfRange
<1>7. CASE FetchError(n)
  BY <1>1, <1>2, <1>7, AnsweredSources DEF FetchError
<1> QED  BY <1>5, <1>6, <1>7

LEMMA NextSources == ASSUME IInv, SInv, [Next]_vars PROVE SInv'
<1>1. IInv'
  BY NextInv
<1>2. CASE Brokers
  BY <1>1, <1>2, GrowthSources, QuietSteps, QuietKeeps DEF Brokers
<1>3. CASE Calls
  <2>1. CASE PauseOrResume \/ AskPosition
    BY <1>1, <2>1, QuietSteps, QuietKeeps
  <2>2. CASE \E o, s : MovePosition(o, s)
    BY <1>1, <2>2, CallerSources
  <2> QED  BY <1>3, <2>1, <2>2 DEF Calls, Seek, SeekToEnd, SeekToStart
<1>4. CASE FetchedRecords
  BY <1>1, <1>4, QuietSteps, QuietKeeps, ParseSources, CallerSources, TakeSources
     DEF FetchedRecords
<1>5. CASE Run
  BY <1>1, <1>4, <1>5, QuietSteps, QuietKeeps, CallerSources DEF Run
<1>6. CASE Answers
  BY <1>1, <1>6, QuietSteps, QuietKeeps, AnswerSources DEF Answers
<1> QED
  BY <1>1, <1>2, <1>3, <1>5, <1>6, QuietSteps, QuietKeeps DEF Next

LEMMA InitSources == Init => SInv
<1> SUFFICES ASSUME Init PROVE SInv
  OBVIOUS
<1>1. /\ bases = {} /\ logEnd = 0 /\ out = -1 /\ part.end = 0
      /\ records = <<>> /\ completed = <<>>
  BY DEF Init, Gone, None
<1>2. Len(records) = 0 /\ Len(completed) = 0
  BY <1>1
<1> QED  BY <1>1, <1>2 DEF SInv, Written, Rejected, Below

-----------------------------------------------------------------------------
(* One broker                                                              *)

Alone == AsksAlone /\ InStep

LEMMA AskingKept ==
  ASSUME AsksAlone, UNCHANGED <<fetching, completed, part>>,
         pc' = "send" => pc = "send" \/ completed = <<>>
  PROVE  AsksAlone'
BY DEF AsksAlone

LEMMA InStepKept ==
  ASSUME InStep, UNCHANGED <<completed, part, position, records>>,
         pc' \in {"drain", "again"} => records = <<>> \/ pc' = pc
  PROVE  InStep'
BY DEF InStep, Draining

LEMMA InStepEmpty == ASSUME records' = <<>> PROVE InStep'
  BY DEF InStep

\* Steps that neither ask nor answer, nor touch a record.
LEMMA ThreadAlone ==
  ASSUME IInv, Alone,
         \/ PauseOrResume \/ AskPosition \/ AskNext
         \/ HavePosition \/ RaiseCached \/ SendLookup \/ AwaitLookup
         \/ RaiseInLine \/ TakeNothing \/ LeaveLoop
         \/ SendNothing \/ LeavePoll \/ GoRound \/ TimeUp
         \/ BackoffPasses \/ UNCHANGED vars
  PROVE  Alone'
<1>1. UNCHANGED <<fetching, completed, part, position, records>>
  BY DEF PauseOrResume, AskPosition, AskNext, HavePosition, RaiseCached, SendLookup,
         AwaitLookup, ResetMissing, RaiseInLine, TakeNothing, LeaveLoop, Leave,
         SendNothing, LeavePoll, GoRound, TimeUp, BackoffPasses, vars, partition,
         subscription, network, buffers, caller
<1>2. pc' = "send" => pc = "send" \/ completed = <<>>
  BY DEF PauseOrResume, AskPosition, AskNext, HavePosition, RaiseCached, SendLookup,
         AwaitLookup, Positioned, RaiseInLine, TakeNothing, LeaveLoop, Leave,
         SendNothing, LeavePoll, Polling, GoRound, TimeUp, BackoffPasses, vars
<1>3. pc' \in {"drain", "again"} => records = <<>> \/ pc' = pc
  BY DEF PauseOrResume, AskPosition, AskNext, HavePosition, RaiseCached, SendLookup,
         AwaitLookup, Positioned, RaiseInLine, TakeNothing, LeaveLoop, Leave,
         SendNothing, LeavePoll, Polling, GoRound, TimeUp, BackoffPasses, vars,
         IInv, Held
<1> QED  BY <1>1, <1>2, <1>3, AskingKept, InStepKept DEF Alone

LEMMA BrokersAlone ==
  ASSUME IInv, Alone, OneBroker, Brokers
  PROVE  Alone'
<1>1. ASSUME NEW n \in Node, MoveLeader(n) PROVE FALSE
  BY <1>1 DEF MoveLeader, OneBroker, IInv, TypeOK
<1>2. UNCHANGED <<fetching, completed, part, position, records, pc>>
  BY <1>1 DEF Brokers, Produce, Expire, subscription, network, buffers
<1> QED  BY <1>2, AskingKept, InStepKept DEF Alone

LEMMA CallerAlone ==
  ASSUME IInv, Alone, (\E o, s : MovePosition(o, s)) \/ DropRecords
  PROVE  Alone'
<1>1. /\ UNCHANGED <<fetching, completed, part>> /\ records' = <<>>
      /\ pc' # "send"
  BY DEF MovePosition, DropRecords, network, buffers
<1> QED  BY <1>1, AskingKept, InStepEmpty DEF Alone

\* The first record is the one at the position.
LEMMA YieldInStep ==
  ASSUME IInv, InStep, Yield
  PROVE  /\ Head(records) = position
         /\ position' = position + 1 /\ out' = position
         /\ \A j \in 1 .. Len(records') : records'[j] = position' + j - 1
<1>1. /\ Head(records) = records[1] /\ Len(records) >= 1
      /\ records' = Tail(records) /\ Len(Tail(records)) = Len(records) - 1
      /\ \A j \in 1 .. Len(Tail(records)) : Tail(records)[j] = records[j + 1]
  BY TailFacts DEF IInv, TypeOK, Yield
<1>2. records # <<>> /\ position # None /\ position \in Nat /\ Len(records) \in Nat
  BY Numbers DEF IInv, TypeOK, Yield, Fetchable
<1>3. \A j \in 1 .. Len(records) : records[j] = position + j - 1
  BY <1>2 DEF InStep
<1>4. Head(records) = position
  BY <1>1, <1>2, <1>3
<1>5. position' = position + 1 /\ out' = position
  BY <1>4 DEF Yield
<1>6. ASSUME NEW j \in 1 .. Len(records')
      PROVE  records'[j] = position' + j - 1
  <2>1. j + 1 \in 1 .. Len(records) /\ records'[j] = records[j + 1] /\ j \in Nat
    BY <1>1, <1>2
  <2>2. records[j + 1] = position + (j + 1) - 1
    BY <1>3, <2>1
  <2> QED  BY <1>2, <1>5, <2>1, <2>2
<1> QED  BY <1>4, <1>5, <1>6

LEMMA YieldAlone == ASSUME IInv, Alone, Yield PROVE Alone'
<1>1. UNCHANGED <<fetching, completed, part>> /\ pc' = "user"
  BY DEF Yield, network, buffers
<1> QED  BY <1>1, AskingKept, YieldInStep DEF Alone, InStep, Draining

\* While a part is left, or a fetch to be parsed, nothing has been asked for.
LEMMA NothingAsked ==
  ASSUME Alone, part.state # "gone" \/ completed # <<>>,
         UNCHANGED fetching, completed' = <<>>
  PROVE  AsksAlone'
BY DEF Alone, AsksAlone

LEMMA ParseAlone == ASSUME IInv, Alone, Parse PROVE Alone'
<1>1. /\ completed # <<>> /\ completed' = Tail(completed) /\ UNCHANGED fetching
      /\ Draining
  BY DEF Parse, network
<1>2. completed' = <<>>
  <2>1. completed \in Seq(Completion) /\ Len(completed) = 1
    BY <1>1 DEF IInv, TypeOK, Alone, AsksAlone
  <2> QED  BY <1>1, <2>1
<1>3. records = <<>> /\ records' = records
  BY <1>1, FailLeaves DEF Alone, InStep, Parse
<1> QED  BY <1>1, <1>2, <1>3, NothingAsked, InStepEmpty DEF Alone

LEMMA DiscardAlone == ASSUME IInv, Alone, Discard PROVE Alone'
<1>1. /\ part.state # "gone" /\ part'.state = "gone"
      /\ UNCHANGED <<fetching, completed, position, records, pc>>
  BY DEF Discard, Gone, network, subscription
<1>2. completed = <<>>
  BY <1>1 DEF Alone, AsksAlone
<1>3. InStep'
  BY <1>1, <1>2 DEF Alone, InStep, Draining
<1> QED  BY <1>1, <1>2, <1>3, NothingAsked DEF Alone

LEMMA TakeAlone ==
  ASSUME IInv, Alone, TakeSome \/ TakeRest \/ TakeRaises
  PROVE  Alone'
<1>1. Taking /\ part.state = "live" /\ Draining /\ part.next = position
  BY DEF TakeSome, TakeRest, TakeRaises, Taking, Mine
<1>2. completed = <<>> /\ records = <<>>
  BY <1>1 DEF Alone, AsksAlone, InStep
<1>3. UNCHANGED <<fetching, completed, position>>
  BY TakeEffect
<1>4. AsksAlone'
  BY <1>1, <1>2, <1>3, NothingAsked
<1>5. ASSUME NEW e \in Nat, part.next <= e, e <= part.end, records' = Take(e),
             part'.state = "gone" \/ (part'.next = e /\ part.next < e)
      PROVE  InStep'
  <2>1. part.next \in Nat /\ part.end \in Nat /\ e \in Int
    BY <1>1, PartOfTaking
  <2>2. Len(records) = 0
    BY <1>2
  <2>3. \A j \in Len(records) + 1 .. Len(records') :
          records'[j] = part.next + (j - Len(records)) - 1
    BY <1>1, <1>5, <2>1, TakeFacts DEF IInv
  <2>4. \A j \in 1 .. Len(records') : records'[j] = position' + j - 1
    BY <1>1, <1>3, <2>1, <2>2, <2>3
  <2>5. part'.state # "gone" => part'.next # position'
    BY <1>1, <1>3, <1>5, <2>1
  <2> QED  BY <1>2, <1>3, <2>4, <2>5 DEF InStep
<1>6. ASSUME records' = records PROVE InStep'
  BY <1>2, <1>6, InStepEmpty
<1> QED  BY <1>4, <1>5, <1>6, TakeEffect DEF Alone

LEMMA SendFetchAlone == ASSUME IInv, Alone, SendFetch PROVE Alone'
<1>1. /\ pc = "send" /\ pc' = "wait" /\ part.state = "gone"
      /\ UNCHANGED <<completed, part, position, records>>
  BY DEF SendFetch, MaySend, subscription, buffers
<1>2. completed = <<>>
  BY <1>1 DEF Alone, AsksAlone
<1> QED  BY <1>1, <1>2, InStepKept DEF Alone, AsksAlone

LEMMA AnswerAlone ==
  ASSUME IInv, Alone, OneBroker, NEW n \in Node,
         FetchRecords(n) \/ FetchOutOfRange(n) \/ FetchError(n)
  PROVE  Alone'
<1>1. /\ UNCHANGED <<part, position, records, pc>> /\ Polling
      /\ fetching[n] # None
      /\ fetching' = [fetching EXCEPT ![n] = None]
      /\ \E kind, base, end : Answered(n, kind, base, end)
  BY AnswerEffect
<1>2. completed = <<>> /\ part.state = "gone"
  BY <1>1 DEF Alone, AsksAlone
<1>3. \A m \in Node : fetching'[m] = None
  BY <1>1 DEF OneBroker, IInv, TypeOK
<1>4. Len(completed') = 1
  BY <1>1, <1>2 DEF Answered
<1>5. AsksAlone'
  BY <1>1, <1>2, <1>3, <1>4 DEF AsksAlone, Polling
<1>6. InStep'
  BY <1>1 DEF Alone, InStep, Draining, Polling
<1> QED  BY <1>5, <1>6 DEF Alone

LEMMA FailsAlone ==
  ASSUME IInv, Alone, NEW n \in Node, FetchFails(n)
  PROVE  Alone'
<1>1. /\ UNCHANGED <<completed, part, position, records, pc>>
      /\ Polling
      /\ fetching' = [fetching EXCEPT ![n] = None]
  BY DEF FetchFails, subscription, buffers
<1>2. \A m \in Node : fetching'[m] # None => fetching[m] # None
  BY <1>1 DEF IInv, TypeOK
<1>3. AsksAlone'
  BY <1>1, <1>2 DEF Alone, AsksAlone
<1> QED  BY <1>1, <1>3, InStepKept DEF Alone

\* A lookup that is answered moves the position only where there is none, and
\* then there is no record at hand.
LEMMA LookupEffect ==
  ASSUME IInv, NEW i \in 1 .. MaxLookups, LookupAnswered(i)
  PROVE  \/ UNCHANGED position
         \/ position = None /\ position' \in 0 .. logEnd /\ records = <<>>
<1>1. /\ Polling /\ i \in DOMAIN lookups /\ ApplyLookup(lookups[i])
  BY DEF LookupAnswered
<1>2. lookups[i] \in Lookup
  BY <1>1 DEF IInv, TypeOK
<1>3. CASE reset # "none" /\ reset = lookups[i].strategy
  <2>1. position = None /\ records = <<>>
    BY <1>1, <1>3 DEF IInv, PositionKnown, Held, Polling
  <2>2. position' \in lookups[i].since ..
                        (IF reset = "latest" THEN logEnd ELSE logStart)
    BY <1>1, <1>3 DEF ApplyLookup
  <2>3. lookups[i].since \in Nat /\ logStart \in Nat /\ logEnd \in Nat
        /\ logStart <= logEnd
    BY <1>2, Numbers DEF Lookup, IInv, TypeOK
  <2>4. position' \in 0 .. logEnd
    BY <2>2, <2>3
  <2> QED  BY <2>1, <2>4
<1>4. CASE UNCHANGED subscription
  BY <1>4 DEF subscription
<1> QED  BY <1>1, <1>3, <1>4 DEF ApplyLookup

LEMMA LookupAlone ==
  ASSUME IInv, Alone, NEW i \in 1 .. MaxLookups,
         LookupAnswered(i) \/ LookupFails(i)
  PROVE  Alone'
<1>1. UNCHANGED <<fetching, completed, part, records, pc>>
  BY DEF LookupAnswered, LookupFails, buffers
<1>2. UNCHANGED position \/ records = <<>>
  BY LookupEffect DEF LookupFails
<1> QED  BY <1>1, <1>2, AskingKept, InStepKept, InStepEmpty DEF Alone

LEMMA NextAlone == ASSUME IInv, Alone, OneBroker, [Next]_vars PROVE Alone'
<1>1. CASE Calls
  <2>1. CASE \E o, s : MovePosition(o, s)
    BY <2>1, CallerAlone
  <2> QED  BY <1>1, <2>1, ThreadAlone DEF Calls, Seek, SeekToEnd, SeekToStart
<1>2. CASE FetchedRecords
  BY <1>2, ThreadAlone, ParseAlone, DiscardAlone, TakeAlone DEF FetchedRecords
<1>3. CASE Run
  BY <1>2, <1>3, ThreadAlone, YieldAlone, CallerAlone, SendFetchAlone DEF Run
<1>4. CASE Answers
  BY <1>4, AnswerAlone, FailsAlone, LookupAlone DEF Answers
<1> QED
  BY <1>1, <1>3, <1>4, BrokersAlone, ThreadAlone DEF Next

LEMMA InitAlone == Init => Alone
BY DEF Init, Gone, Alone, AsksAlone, InStep

-----------------------------------------------------------------------------
(* The stream                                                              *)

StreamInv == IInv /\ SInv /\ (OneBroker => Alone)

LEMMA StreamInvariance == Spec => []StreamInv
<1>1. Init => StreamInv
  BY InitInv, InitSources, InitAlone DEF StreamInv
<1>2. StreamInv /\ [Next]_vars => StreamInv'
  BY NextInv, NextSources, NextAlone DEF StreamInv, OneBroker
<1> QED  BY <1>1, <1>2, PTL DEF Spec

Still == UNCHANGED <<logStart, logEnd, position, out, calls>>

LEMMA StillSteps ==
  ASSUME IInv,
         \/ \E n \in Node : \/ MoveLeader(n) \/ FetchFails(n)
                            \/ FetchRecords(n) \/ FetchOutOfRange(n) \/ FetchError(n)
         \/ \E i \in 1 .. MaxLookups : LookupFails(i)
         \/ AskPosition \/ AskNext \/ DropRecords
         \/ HavePosition \/ RaiseCached \/ SendLookup \/ AwaitLookup
         \/ RaiseInLine \/ Discard \/ TakeSome \/ TakeRest \/ TakeRaises
         \/ TakeNothing \/ LeaveLoop
         \/ SendFetch \/ SendNothing \/ LeavePoll \/ GoRound \/ TimeUp
         \/ BackoffPasses \/ UNCHANGED vars
  PROVE  Still
BY DEF Still, MoveLeader, FetchFails, FetchRecords, FetchOutOfRange, FetchError,
       Answered, LookupFails, AskPosition, AskNext, DropRecords, HavePosition,
       RaiseCached, SendLookup, AwaitLookup, ResetMissing, RaiseInLine, Discard,
       TakeSome, TakeRest, TakeRaises, TakeNothing, LeaveLoop, SendFetch,
       SendNothing, LeavePoll, GoRound, TimeUp, BackoffPasses, vars, partition,
       subscription, caller

LEMMA GrowthMaps ==
  ASSUME IInv, IInv', NEW n \in 1 .. MaxOffset, Produce(n) \/ Expire(n)
  PROVE  Stream!Partition
<1>1. UNCHANGED <<position, out, calls>>
  BY DEF Produce, Expire, subscription, caller
<1>2. logStart \in Nat /\ logEnd \in Nat /\ logStart' \in Nat /\ logEnd' \in Nat
      /\ n \in Nat
  BY SourceTypes, NextTypes DEF IInv
<1>3. logStart' <= logEnd'
  BY DEF IInv, TypeOK
<1>4. logStart <= logStart' /\ logEnd <= logEnd'
  BY <1>2 DEF Produce, Expire
<1> QED  BY <1>1, <1>2, <1>3, <1>4 DEF Stream!Partition

LEMMA CallMaps ==
  ASSUME IInv, IInv', (\E o, s : MovePosition(o, s)) \/ PauseOrResume
  PROVE  Stream!Seek
<1>1. calls' = calls + 1 /\ UNCHANGED <<logStart, logEnd, out>>
  BY DEF MovePosition, PauseOrResume, partition
<1>2. position' \in Nat \cup {None}
  BY Numbers DEF IInv, TypeOK
<1> QED  BY <1>1, <1>2 DEF Stream!Seek

\* The iterator reads on or, with several brokers, goes back.
LEMMA YieldMaps ==
  ASSUME StreamInv, Yield
  PROVE  Stream!Read \/ Stream!Repeat
<1>1. UNCHANGED <<logStart, logEnd, calls>>
  BY DEF Yield, partition
<1>2. /\ Head(records) = records[1] /\ 1 \in 1 .. Len(records)
      /\ Head(records) \in 0 .. MaxOffset - 1
  <2>1. records \in Seq(0 .. MaxOffset - 1) /\ records # <<>>
    BY DEF StreamInv, IInv, TypeOK, Yield
  <2>2. /\ Head(records) \in 0 .. MaxOffset - 1 /\ Head(records) = records[1]
        /\ Len(records) >= 1 /\ Len(records) \in Nat
    BY <2>1, TailFacts, Elements, ZenonT(30)
  <2> QED  BY <2>2
<1>3. Head(records) \in Nat
  BY <1>2, Numbers
<1>4. position \in Nat /\ logEnd \in Nat /\ position # None /\ records # <<>>
  BY Numbers, SourceTypes DEF StreamInv, IInv, TypeOK, Yield, Fetchable
<1>5. Head(records) < logEnd
  BY <1>2 DEF StreamInv, SInv, Written, Below
<1>6. Head(records) <= position
  BY <1>2, <1>4 DEF StreamInv, IInv, Begun
<1>7. out' = Head(records) /\ position' = Head(records) + 1
  BY DEF Yield
<1>8. CASE Head(records) = position
  BY <1>1, <1>4, <1>5, <1>7, <1>8 DEF Stream!Read
<1>9. CASE Head(records) # position
  <2>1. ~OneBroker
    BY <1>9, YieldInStep DEF StreamInv, Alone
  <2>2. Head(records) \in 0 .. position - 1
    BY <1>3, <1>4, <1>6, <1>9
  <2> QED  BY <1>1, <1>4, <1>7, <2>1, <2>2 DEF Stream!Repeat
<1> QED  BY <1>8, <1>9

\* A position is given up only where the broker had good reason to reject it.
LEMMA ParseMaps ==
  ASSUME StreamInv, Parse
  PROVE  Still \/ Stream!Lose
<1>1. UNCHANGED <<logStart, logEnd, out, calls>>
  BY DEF Parse, partition, caller
<1>2. CASE UNCHANGED position
  BY <1>1, <1>2 DEF Still
<1>3. CASE /\ Head(completed).kind = "outOfRange"
           /\ Fetchable /\ position = Head(completed).offset
           /\ position' = None
  <2>1. Head(completed) = completed[1] /\ 1 \in 1 .. Len(completed)
    BY TailFacts DEF StreamInv, IInv, TypeOK, Parse
  <2>2. position \in Nat /\ out \in Int
    BY <1>3, Numbers, SourceTypes DEF StreamInv, IInv, TypeOK, Fetchable
  <2>3. position < logStart \/ Below(position - 1, 1)
    BY <1>3, <2>1 DEF StreamInv, SInv, Rejected
  <2>4. position < logStart \/ position # out + 1
    BY <2>2, <2>3 DEF Below
  <2> QED  BY <1>1, <1>3, <2>2, <2>4 DEF Stream!Lose
<1> QED  BY <1>2, <1>3 DEF Parse, subscription

LEMMA LookupMaps ==
  ASSUME IInv, NEW i \in 1 .. MaxLookups, LookupAnswered(i)
  PROVE  Still \/ Stream!Locate
<1>1. UNCHANGED <<logStart, logEnd, out, calls>>
  BY DEF LookupAnswered, partition, caller
<1> QED  BY <1>1, LookupEffect DEF Still, Stream!Locate

LEMMA NextMaps ==
  ASSUME StreamInv, StreamInv', [Next]_vars
  PROVE  Still \/ Stream!Next
<1> USE DEF Stream!Next
<1>1. IInv /\ IInv'
  BY DEF StreamInv
<1>2. CASE Brokers
  BY <1>1, <1>2, GrowthMaps, StillSteps DEF Brokers
<1>3. CASE Calls
  BY <1>1, <1>3, CallMaps, StillSteps DEF Calls, Seek, SeekToEnd, SeekToStart
<1>4. CASE FetchedRecords
  BY <1>1, <1>4, ParseMaps, StillSteps DEF FetchedRecords
<1>5. CASE Run
  BY <1>1, <1>4, <1>5, YieldMaps, StillSteps DEF Run
<1>6. CASE Answers
  BY <1>1, <1>6, LookupMaps, StillSteps DEF Answers
<1> QED
  BY <1>1, <1>2, <1>3, <1>5, <1>6, StillSteps DEF Next

\* The iterator is a RecordStream, whatever answers are late, stale or partly
\* consumed: no record out of order or left out, and with one broker none
\* twice.
THEOREM StreamKept == Spec => ImplementsStream
<1>1. Init => Stream!Init
  BY DEF Init, Stream!Init
<1>2. StreamInv /\ StreamInv' /\ [Next]_vars => [Stream!Next]_(Stream!vars)
  BY NextMaps DEF Still, Stream!vars
<1> QED
  BY <1>1, <1>2, StreamInvariance, PTL DEF Spec, ImplementsStream, Stream!Spec
=============================================================================
