---------------------------- MODULE FetchSession ----------------------------
(***************************************************************************)
(* Incremental fetch sessions with one broker: FetchSessionHandler and      *)
(* FetchMetadata (src/kafka/consumer/fetcher.py), and the parts of Fetcher  *)
(* that send a fetch, take its answer and note its failure.                 *)
(*                                                                         *)
(* A broker remembers the partitions of a session and the offsets to read   *)
(* them from; a request names only what changed since the last one, and an  *)
(* answer only the partitions that have records.  Both sides must agree on  *)
(* the rest.  Requests and answers are lost, requests that were given up    *)
(* are processed late, the broker drops sessions and has no room for new    *)
(* ones.                                                                   *)
(***************************************************************************)
EXTENDS Integers, FiniteSets

CONSTANTS
  Partition,      \* partitions the broker leads
  MaxEpoch,       \* FetchMetadata.MAX_EPOCH, after which epochs start over
  MaxOffset,      \* bound: offsets 0 .. MaxOffset
  MaxSession,     \* bound: sessions the broker opens
  MaxFaults       \* bound: losses, evictions, refusals and wrong answers

ASSUME PartitionAssumption == IsFiniteSet(Partition)
ASSUME BoundAssumption ==
  /\ MaxEpoch \in Nat \ {0} /\ MaxOffset \in Nat
  /\ MaxSession \in Nat /\ MaxFaults \in Nat

VARIABLES
  metadata,       \* next_metadata
  session,        \* session_partitions: the offset of each partition, or None
  asked,          \* fetch_offsets of the latest request
  stage,          \* what became of it
  request,        \* the request while it is on its way
  answer,         \* its answer, from the broker until the next request
  opened,         \* broker: the sessions in its cache
  issued,         \* broker: sessions it has opened so far
  late,           \* requests given up that the broker may still get
  faults          \* faults so far

client  == <<metadata, session, asked>>
broker  == <<opened, issued>>
vars    == <<client, stage, request, answer, broker, late, faults>>

None         == -1
INVALID      == 0      \* INVALID_SESSION_ID
THROTTLED    == -1     \* THROTTLED_SESSION_ID
INITIAL      == [id |-> INVALID, epoch |-> 0]

\* Which partitions are fetched, and from where.
Positions    == [Partition -> (0 .. MaxOffset) \cup {None}]
Nothing      == [p \in Partition |-> None]
Names(f)     == {p \in Partition : f[p] # None}

SessionId    == 1 .. MaxSession
Metadata     == [id : SessionId \cup {INVALID}, epoch : 0 .. MaxEpoch]
Request      == [id : SessionId \cup {INVALID}, epoch : 0 .. MaxEpoch,
                 send : Positions, forget : SUBSET Partition]
NoRequest    == [id |-> INVALID, epoch |-> 0, send |-> Nothing, forget |-> {}]
Answer       == [error : {"none", "sessionNotFound", "other"},
                 id : SessionId \cup {INVALID, THROTTLED}, read : Positions]
NoAnswer     == [error |-> "none", id |-> INVALID, read |-> Nothing]
Session      == [epoch : 0 .. MaxEpoch, parts : Positions]
Closed       == [epoch |-> 0, parts |-> Nothing]

TypeOK ==
  /\ metadata \in Metadata
  /\ session \in Positions /\ asked \in Positions
  /\ stage \in {"idle", "sent", "answered", "taken"}
  /\ request \in Request /\ answer \in Answer
  /\ opened \in [SessionId -> Session] /\ issued \in 0 .. MaxSession
  /\ late \subseteq Request
  /\ faults \in 0 .. MaxFaults

Init ==
  /\ metadata = INITIAL /\ session = Nothing /\ asked = Nothing
  /\ stage = "idle" /\ request = NoRequest /\ answer = NoAnswer
  /\ opened = [n \in SessionId |-> Closed] /\ issued = 0
  /\ late = {} /\ faults = 0

SpendFault == faults < MaxFaults /\ faults' = faults + 1

-----------------------------------------------------------------------------
(* FetchMetadata                                                           *)

\* FINAL_EPOCH, with which a client that wants no session asks, is left out.
IsFull(md)            == md.epoch = 0
NextEpoch(e)          == IF e = MaxEpoch THEN 1 ELSE e + 1
NewIncremental(n)     == [id |-> n, epoch |-> NextEpoch(0)]
NextIncremental(md)   == [id |-> md.id, epoch |-> NextEpoch(md.epoch)]
NextCloseExisting(md) == [id |-> md.id, epoch |-> 0]

-----------------------------------------------------------------------------
(* The client                                                              *)

\* Faulty variant: a partition that is in the session is not sent again.
AlteredNever(next) == {}

Added(next)   == Names(next) \ Names(session)
Removed(next) == Names(session) \ Names(next)
Altered(next) == {p \in Names(next) \cap Names(session) : next[p] # session[p]}

\* build_next, for a full fetch and for an incremental one.
BuildFull(next) ==
  /\ IsFull(metadata)
  /\ session' = next
  /\ request' = [id |-> metadata.id, epoch |-> metadata.epoch,
                 send |-> next, forget |-> {}]

BuildIncremental(next) ==
  LET changed == Added(next) \cup Altered(next)
  IN  /\ ~IsFull(metadata)
      /\ session' = [p \in Partition |->
                       IF p \in changed THEN next[p]
                       ELSE IF p \in Removed(next) THEN None ELSE session[p]]
      /\ request' = [id |-> metadata.id, epoch |-> metadata.epoch,
                     send |-> [p \in Partition |->
                                 IF p \in changed THEN next[p] ELSE None],
                     forget |-> Removed(next)]

\* The fetcher has no request in flight to this broker and at least one
\* partition to fetch from it; the partitions and their positions are what
\* the caller, the records buffered and the leaders have made of them.
SendFetch ==
  \E next \in Positions :
    /\ stage \in {"idle", "taken"}
    /\ Names(next) # {}
    /\ BuildFull(next) \/ BuildIncremental(next)
    /\ asked' = next
    /\ stage' = "sent" /\ answer' = NoAnswer
    /\ UNCHANGED <<metadata, broker, late, faults>>

Take(md) ==
  /\ metadata' = md /\ stage' = "taken"
  /\ UNCHANGED <<session, asked, request, answer, broker, late, faults>>
Refuse(md) ==
  /\ metadata' = md /\ stage' = "idle" /\ answer' = NoAnswer
  /\ UNCHANGED <<session, asked, request, broker, late, faults>>

\* Faulty variant: a session the broker has lost is not given up.
HandleErrorKeeping ==
  /\ stage = "answered" /\ answer.error # "none"
  /\ Refuse(IF answer.error = "sessionNotFound"
            THEN metadata ELSE NextCloseExisting(metadata))

\* The whole request failed: start over, without a session if the broker
\* has lost it.
HandleErrorCode ==
  /\ stage = "answered" /\ answer.error # "none"
  /\ Refuse(IF answer.error = "sessionNotFound"
            THEN INITIAL ELSE NextCloseExisting(metadata))

\* The answer to a full fetch must name every partition and no other.  That
\* comes first, so an empty answer because of a quota is refused like any
\* other that leaves partitions out.
HandleFull ==
  /\ stage = "answered" /\ answer.error = "none"
  /\ IsFull(metadata)
  /\ \/ Names(answer.read) # Names(session) /\ Refuse(INITIAL)
     \/ /\ Names(answer.read) = Names(session)
        /\ \/ answer.id = INVALID /\ Take(INITIAL)
           \/ answer.id = THROTTLED /\ Take(metadata)
           \/ answer.id \in SessionId /\ Take(NewIncremental(answer.id))

\* The answer to an incremental fetch may leave partitions out.
HandleIncremental ==
  /\ stage = "answered" /\ answer.error = "none"
  /\ ~IsFull(metadata)
  /\ \/ ~(Names(answer.read) \subseteq Names(session))
        /\ Refuse(NextCloseExisting(metadata))
     \/ /\ Names(answer.read) \subseteq Names(session)
        /\ \/ answer.id = INVALID /\ Take(INITIAL)
           \/ answer.id = THROTTLED /\ Take(metadata)
           \/ answer.id \in SessionId /\ Take(NextIncremental(metadata))

\* handle_error: the connection broke, or the request timed out.  The broker
\* has not seen the request, or may yet see it, or the answer is lost.
FetchFails ==
  /\ stage \in {"sent", "answered"}
  /\ metadata' = NextCloseExisting(metadata)
  /\ stage' = "idle" /\ request' = NoRequest /\ answer' = NoAnswer
  /\ \/ UNCHANGED late
     \/ stage = "sent" /\ late' = late \cup {request}
  /\ SpendFault
  /\ UNCHANGED <<session, asked, broker>>

-----------------------------------------------------------------------------
(* The broker, as the client takes it to behave                            *)

\* What a session holds once r is applied to the partitions f.
Patched(f, r) ==
  [p \in Partition |-> IF r.send[p] # None THEN r.send[p]
                       ELSE IF p \in r.forget THEN None ELSE f[p]]
Some(f, S) == [p \in Partition |-> IF p \in S THEN f[p] ELSE None]
Drop(n)    == IF n \in SessionId THEN [opened EXCEPT ![n] = Closed] ELSE opened

\* A request is the one in flight, or one whose answer nobody waits for.
Requests == late \cup (IF stage = "sent" THEN {request} ELSE {})
Reply(r, a) ==
  \/ /\ stage = "sent" /\ r = request
     /\ stage' = "answered" /\ answer' = a /\ request' = NoRequest
     /\ UNCHANGED <<client, late>>
  \/ /\ r \in late /\ late' = late \ {r}
     /\ UNCHANGED <<client, stage, answer, request>>

\* A full fetch closes the session it names and reads every partition; the
\* broker opens a session for them if it has room for one.
OpenSession(r) ==
  /\ r.epoch = 0
  /\ issued < MaxSession /\ issued' = issued + 1
  /\ opened' = [Drop(r.id) EXCEPT ![issued + 1] =
                  [epoch |-> 1, parts |-> r.send]]
  /\ Reply(r, [error |-> "none", id |-> issued + 1, read |-> r.send])
  /\ UNCHANGED faults

NoRoom(r) ==
  /\ r.epoch = 0
  /\ opened' = Drop(r.id)
  /\ Reply(r, [error |-> "none", id |-> INVALID, read |-> r.send])
  /\ UNCHANGED <<issued, faults>>

\* An incremental fetch of the epoch the broker expects: it answers for the
\* partitions that have records, or for all of them and closes the session.
Current(r) == r.id \in SessionId /\ r.epoch # 0 /\ opened[r.id].epoch = r.epoch
Now(r)     == Patched(opened[r.id].parts, r)
Keep(r, e) ==
  opened' = [opened EXCEPT ![r.id] = [epoch |-> e, parts |-> Now(r)]]

ContinueSession(r) ==
  /\ Current(r)
  /\ Keep(r, NextEpoch(r.epoch))
  /\ \E S \in SUBSET Partition :
       Reply(r, [error |-> "none", id |-> r.id, read |-> Some(Now(r), S)])
  /\ UNCHANGED <<issued, faults>>

CloseSession(r) ==
  /\ Current(r)
  /\ opened' = Drop(r.id)
  /\ Reply(r, [error |-> "none", id |-> INVALID, read |-> Now(r)])
  /\ UNCHANGED <<issued, faults>>

\* The session is not in the cache, or is at another epoch.
RejectRequest(r) ==
  /\ r.epoch # 0 /\ ~Current(r)
  /\ Reply(r, [NoAnswer EXCEPT !.error =
                  IF r.id \in SessionId /\ opened[r.id].epoch # 0
                  THEN "other" ELSE "sessionNotFound"])
  /\ UNCHANGED <<broker, faults>>

\* A quota is violated: an empty answer that does not count as an epoch.  To
\* keep the metadata is right only if the broker has noted the partitions.
Throttle(r) ==
  /\ \/ Current(r) /\ Keep(r, r.epoch)
     \/ r.epoch = 0 /\ UNCHANGED opened
  /\ Reply(r, [NoAnswer EXCEPT !.id = THROTTLED])
  /\ SpendFault
  /\ UNCHANGED issued

\* The broker fails to process the request.
FailRequest(r) ==
  /\ Reply(r, [NoAnswer EXCEPT !.error = "other"])
  /\ SpendFault
  /\ UNCHANGED broker

\* An answer that names partitions which are not in the session or, to a
\* full fetch, other partitions than the request.
Misname(r) ==
  /\ \E read \in [Partition -> {0, None}] :
       /\ \/ /\ Current(r) /\ Keep(r, NextEpoch(r.epoch))
             /\ ~(Names(read) \subseteq Names(Now(r)))
          \/ /\ r.epoch = 0 /\ UNCHANGED opened
             /\ Names(read) # Names(r.send)
       /\ Reply(r, [error |-> "none", id |-> r.id, read |-> read])
  /\ SpendFault
  /\ UNCHANGED issued

Process(r) ==
  \/ OpenSession(r)
  \/ NoRoom(r)
  \/ ContinueSession(r)
  \/ CloseSession(r)
  \/ RejectRequest(r)
  \/ Throttle(r)
  \/ FailRequest(r)
  \/ Misname(r)

ProcessRequest == \E r \in Requests : Process(r)

Evict ==
  /\ \E n \in SessionId : /\ opened[n].epoch # 0
                          /\ opened' = [opened EXCEPT ![n] = Closed]
  /\ SpendFault
  /\ UNCHANGED <<client, stage, request, answer, issued, late>>

-----------------------------------------------------------------------------
HandleResponse == HandleErrorCode \/ HandleFull \/ HandleIncremental

Next == SendFetch \/ HandleResponse \/ FetchFails \/ ProcessRequest \/ Evict

Spec == Init /\ [][Next]_vars

\* The caller goes on polling, a broker that got a request answers (a step of
\* it that changes the stage), and the client handles the answers it gets.
FairSpec ==
  /\ Spec
  /\ WF_stage(SendFetch)
  /\ WF_stage(ProcessRequest)
  /\ WF_stage(HandleResponse)

-----------------------------------------------------------------------------
(* Properties                                                              *)

\* What an answer holds was read from where the client asked: no partition
\* of an answer that is taken lacks an offset in fetch_offsets
\* (fetcher.py:774), and none was read from the offset of an earlier
\* request, although most requests do not name it (fetcher.py:1147-1159).
ReadFromPosition ==
  stage = "taken" =>
    \A p \in Names(answer.read) : answer.read[p] = asked[p]

\* A session that is lost, closed, refused or out of step is given up, and
\* fetching recovers (fetcher.py:1161-1167, 1183-1196, 1207).
Recovers == []<>(stage = "taken")
=============================================================================
