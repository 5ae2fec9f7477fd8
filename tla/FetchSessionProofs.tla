--------------------------- MODULE FetchSessionProofs -----------------------
(***************************************************************************)
(* Proofs about FetchSession: what an answer holds was read from where the  *)
(* client asked, for any partitions, any number of sessions and epochs, and *)
(* any losses, late requests and evictions.                                 *)
(*                                                                         *)
(* The inductive invariant says that the session the client goes on with,   *)
(* if the broker still has it, is in step: it has the epoch the client will *)
(* name and the partitions the client believes, or will have them once the  *)
(* request on its way is processed.  A request that was given up could      *)
(* break that, but only for a session the client has given up as well.      *)
(***************************************************************************)
EXTENDS FetchSession, TLAPS

-----------------------------------------------------------------------------
(* The inductive invariant                                                 *)

\* Ids the broker has given; sessions it has not opened are closed.
IdsIssued ==
  /\ metadata.id <= issued /\ answer.id <= issued
  /\ \A r \in late : r.id <= issued
  /\ \A n \in SessionId : n > issued => opened[n].epoch = 0

\* An epoch belongs to a session.
EpochOfSession == IsFull(metadata) \/ metadata.id \in SessionId

\* The broker, if it has session n, expects epoch e and holds `session`.
InStep(n, e) ==
  opened[n].epoch # 0 => opened[n].epoch = e /\ opened[n].parts = session

\* The answer to a full fetch that would be taken.
Complete == answer.error = "none" /\ Names(answer.read) = Names(session)

\* A request that was given up names no session the client goes on with.
LateElsewhere ==
  \A r \in late :
    r.id # INVALID =>
      /\ r.id = metadata.id => IsFull(metadata)
      /\ stage = "answered" /\ IsFull(metadata) /\ Complete => r.id # answer.id

AtRest ==
  stage \in {"idle", "taken"} /\ ~IsFull(metadata) =>
    InStep(metadata.id, metadata.epoch)

InFlight ==
  stage = "sent" =>
    /\ asked = session
    /\ request.id = metadata.id /\ request.epoch = metadata.epoch
    /\ IsFull(metadata) => request.send = session
    /\ ~IsFull(metadata) /\ opened[metadata.id].epoch # 0 =>
         /\ opened[metadata.id].epoch = metadata.epoch
         /\ Patched(opened[metadata.id].parts, request) = session

FullAnswered ==
  stage = "answered" /\ IsFull(metadata) /\ Complete =>
    /\ answer.read = session
    /\ answer.id \in SessionId => InStep(answer.id, NextEpoch(0))

IncrementalAnswered ==
  stage = "answered" /\ ~IsFull(metadata) /\ answer.error = "none" =>
    /\ answer.id \in {INVALID, THROTTLED, metadata.id}
    /\ answer.id = metadata.id => InStep(metadata.id, NextEpoch(metadata.epoch))
    /\ answer.id = THROTTLED => InStep(metadata.id, metadata.epoch)
    /\ Names(answer.read) \subseteq Names(session) =>
         \A p \in Names(answer.read) : answer.read[p] = session[p]

AskedIsSession == stage = "answered" => asked = session

IInv ==
  /\ TypeOK /\ IdsIssued /\ EpochOfSession /\ LateElsewhere
  /\ AtRest /\ InFlight /\ FullAnswered /\ IncrementalAnswered
  /\ AskedIsSession /\ ReadFromPosition

-----------------------------------------------------------------------------
LEMMA Constants ==
  /\ MaxEpoch \in Nat /\ MaxEpoch >= 1
  /\ MaxSession \in Nat /\ MaxFaults \in Nat /\ MaxOffset \in Nat
  /\ INVALID \notin SessionId /\ THROTTLED \notin SessionId
  /\ NextEpoch(0) = 1
  /\ \A e \in 1 .. MaxEpoch : NextEpoch(e) \in 1 .. MaxEpoch
  /\ \A e \in 0 .. MaxEpoch : NextEpoch(e) \in 0 .. MaxEpoch /\ NextEpoch(e) # 0
  BY BoundAssumption DEF SessionId, INVALID, THROTTLED, NextEpoch

LEMMA PositionsClosed ==
  /\ Nothing \in Positions
  /\ \A f, g \in Positions, S, T \in SUBSET Partition :
       [p \in Partition |-> IF p \in S THEN f[p]
                            ELSE IF p \in T THEN None ELSE g[p]] \in Positions
  /\ \A f \in Positions, S \in SUBSET Partition : Some(f, S) \in Positions
  /\ \A f \in Positions, r \in Request : Patched(f, r) \in Positions
<1>1. Nothing \in Positions
  BY DEF Nothing, Positions
<1>2. ASSUME NEW f \in Positions, NEW g \in Positions,
             NEW S \in SUBSET Partition, NEW T \in SUBSET Partition
      PROVE  [p \in Partition |-> IF p \in S THEN f[p]
                ELSE IF p \in T THEN None ELSE g[p]] \in Positions
  BY DEF Positions
<1>3. ASSUME NEW f \in Positions, NEW S \in SUBSET Partition
      PROVE  Some(f, S) \in Positions
  BY DEF Positions, Some
<1>4. ASSUME NEW f \in Positions, NEW r \in Request
      PROVE  Patched(f, r) \in Positions
  <2>1. r.send \in Positions
    BY DEF Request
  <2> QED  BY <2>1 DEF Positions, Patched
<1> QED  BY <1>1, <1>2, <1>3, <1>4

\* A function of positions that names the same partitions and has the same
\* offsets is the same.
LEMMA SamePositions ==
  ASSUME NEW f \in Positions, NEW g \in Positions, \A p \in Partition : f[p] = g[p]
  PROVE  f = g
  BY DEF Positions

\* build_next: what the broker holds after the request is what the client
\* asks for, if it held what the client last asked for.
LEMMA BuildAgrees ==
  ASSUME TypeOK, NEW next \in Positions, BuildIncremental(next)
  PROVE  /\ session' = next
         /\ request' \in Request
         /\ request'.id = metadata.id /\ request'.epoch = metadata.epoch
         /\ Patched(session, request') = next
<1> DEFINE changed == Added(next) \cup Altered(next)
           sent == [p \in Partition |-> IF p \in changed THEN next[p] ELSE None]
<1>1. /\ session \in Positions
      /\ session' = [p \in Partition |->
                       IF p \in changed THEN next[p]
                       ELSE IF p \in Removed(next) THEN None ELSE session[p]]
      /\ request' = [id |-> metadata.id, epoch |-> metadata.epoch,
                     send |-> sent, forget |-> Removed(next)]
  BY DEF TypeOK, BuildIncremental
<1>2. changed \in SUBSET Partition /\ Removed(next) \in SUBSET Partition
  BY DEF Added, Altered, Removed, Names
<1>3. session' \in Positions
  <2> HIDE DEF changed
  <2>1. [p \in Partition |-> IF p \in changed THEN next[p]
           ELSE IF p \in Removed(next) THEN None ELSE session[p]] \in Positions
    BY <1>1, <1>2 DEF Positions
  <2> QED  BY <1>1, <2>1
<1>4. \A p \in Partition :
        next[p] = IF p \in changed THEN next[p]
                  ELSE IF p \in Removed(next) THEN None ELSE session[p]
  BY <1>1 DEF Added, Altered, Removed, Names, Positions
<1>5. session' = next
  <2>1. \A p \in Partition : session'[p] = next[p]
    BY <1>1, <1>4
  <2> QED  BY <1>3, <2>1, SamePositions
<1>6. sent \in Positions
  BY <1>2 DEF Positions
<1>7. request' \in Request
  BY <1>1, <1>2, <1>6 DEF TypeOK, Request, Metadata
<1>8. Patched(session, request') = next
  <2>1. Patched(session, request') \in Positions
    BY <1>1, <1>7, PositionsClosed
  <2>2. \A p \in Partition : sent[p] # None <=> p \in changed
    BY DEF Added, Altered, Names
  <2>3. request'.send = sent /\ request'.forget = Removed(next)
    BY <1>1
  <2>4. ASSUME NEW p \in Partition
        PROVE  Patched(session, request')[p] = next[p]
    <3>1. Patched(session, request')[p] =
            IF sent[p] # None THEN sent[p]
            ELSE IF p \in Removed(next) THEN None ELSE session[p]
      BY <2>3 DEF Patched
    <3>2. p \in changed => sent[p] = next[p]
      OBVIOUS
    <3> HIDE DEF sent, changed
    <3> QED  BY <3>1, <3>2, <2>2, <1>4
  <2> QED  BY <2>1, <2>4, SamePositions
<1> QED  BY <1>1, <1>5, <1>7, <1>8

-----------------------------------------------------------------------------
LEMMA InitInv == Init => IInv
<1> SUFFICES ASSUME Init PROVE IInv
  OBVIOUS
<1>1. TypeOK
  BY Constants, PositionsClosed DEF Init, TypeOK, INITIAL, Metadata, NoRequest, Request,
     NoAnswer, Answer, Closed, Session
<1>2. IdsIssued
  BY Constants DEF Init, IdsIssued, INITIAL, NoAnswer, Closed, INVALID
<1>3. EpochOfSession /\ LateElsewhere /\ AtRest
  BY DEF Init, EpochOfSession, LateElsewhere, AtRest, INITIAL, IsFull
<1>4. InFlight /\ FullAnswered /\ IncrementalAnswered /\ AskedIsSession
      /\ ReadFromPosition
  BY DEF Init, InFlight, FullAnswered, IncrementalAnswered, AskedIsSession,
     ReadFromPosition
<1> QED  BY <1>1, <1>2, <1>3, <1>4 DEF IInv

LEMMA SendFetchInv == ASSUME IInv, SendFetch PROVE IInv'
<1>1. PICK next \in Positions :
        /\ stage \in {"idle", "taken"}
        /\ BuildFull(next) \/ BuildIncremental(next)
        /\ asked' = next
        /\ stage' = "sent" /\ answer' = NoAnswer
        /\ UNCHANGED <<metadata, broker, late, faults>>
  BY DEF SendFetch
<1>2. NoAnswer \in Answer
  BY PositionsClosed DEF NoAnswer, Answer
<1>3. /\ session' = next /\ request' \in Request
      /\ request'.id = metadata.id /\ request'.epoch = metadata.epoch
      /\ IsFull(metadata) => request'.send = next
      /\ ~IsFull(metadata) => Patched(session, request') = next
  <2>1. CASE BuildFull(next)
    BY <2>1 DEF BuildFull, IInv, TypeOK, Request, Metadata
  <2>2. CASE BuildIncremental(next)
    BY <2>2, BuildAgrees DEF IInv, BuildIncremental
  <2> QED  BY <1>1, <2>1, <2>2
<1>4. TypeOK'
  BY <1>1, <1>2, <1>3 DEF IInv, TypeOK, broker
<1>5. IdsIssued' /\ EpochOfSession' /\ LateElsewhere'
  BY <1>1, Constants DEF IInv, IdsIssued, EpochOfSession, LateElsewhere, TypeOK,
     broker, NoAnswer, INVALID
<1>6. InFlight'
  BY <1>1, <1>3 DEF IInv, AtRest, InStep, InFlight, broker
<1>7. AtRest' /\ FullAnswered' /\ IncrementalAnswered' /\ AskedIsSession'
      /\ ReadFromPosition'
  BY <1>1 DEF AtRest, FullAnswered, IncrementalAnswered, AskedIsSession,
     ReadFromPosition
<1> QED  BY <1>4, <1>5, <1>6, <1>7 DEF IInv

-----------------------------------------------------------------------------
(* The client handles an answer                                            *)

LEMMA MetadataTyped ==
  ASSUME TypeOK
  PROVE  /\ INITIAL \in Metadata /\ IsFull(INITIAL)
         /\ NextCloseExisting(metadata) \in Metadata
         /\ IsFull(NextCloseExisting(metadata))
         /\ NextIncremental(metadata) \in Metadata
         /\ \A n \in SessionId : NewIncremental(n) \in Metadata
  BY Constants DEF TypeOK, Metadata, INITIAL, NextCloseExisting, NextIncremental,
     NewIncremental, IsFull

LEMMA RefuseInv ==
  ASSUME IInv, stage = "answered", NEW md \in Metadata, IsFull(md),
         md.id \in {INVALID, metadata.id}, Refuse(md)
  PROVE  IInv'
<1>1. TypeOK'
  BY PositionsClosed DEF IInv, TypeOK, Refuse, NoAnswer, Answer, broker
<1>2. IdsIssued' /\ EpochOfSession' /\ LateElsewhere'
  BY Constants DEF IInv, TypeOK, IdsIssued, EpochOfSession, LateElsewhere, Refuse,
     NoAnswer, INVALID, broker
<1>3. /\ AtRest' /\ InFlight' /\ FullAnswered' /\ IncrementalAnswered'
      /\ AskedIsSession' /\ ReadFromPosition'
  BY DEF Refuse, AtRest, InFlight, FullAnswered, IncrementalAnswered,
     AskedIsSession, ReadFromPosition
<1> QED  BY <1>1, <1>2, <1>3 DEF IInv

LEMMA TakeInv ==
  ASSUME IInv, stage = "answered", NEW md \in Metadata, Take(md),
         IsFull(md) \/ md.id \in SessionId,
         md.id <= issued,
         \A r \in late : r.id # INVALID /\ r.id = md.id => IsFull(md),
         ~IsFull(md) => InStep(md.id, md.epoch),
         \A p \in Names(answer.read) : answer.read[p] = session[p]
  PROVE  IInv'
<1>1. TypeOK'
  BY DEF IInv, TypeOK, Take, broker
<1>2. IdsIssued' /\ EpochOfSession' /\ LateElsewhere'
  BY DEF IInv, IdsIssued, EpochOfSession, LateElsewhere, Take, broker
<1>3. AtRest'
  BY DEF AtRest, InStep, Take, broker
<1>4. ReadFromPosition'
  BY DEF IInv, AskedIsSession, ReadFromPosition, Take, Names
<1>5. InFlight' /\ FullAnswered' /\ IncrementalAnswered' /\ AskedIsSession'
  BY DEF Take, InFlight, FullAnswered, IncrementalAnswered, AskedIsSession
<1> QED  BY <1>1, <1>2, <1>3, <1>4, <1>5 DEF IInv

LEMMA HandleErrorCodeInv == ASSUME IInv, HandleErrorCode PROVE IInv'
<1>1. TypeOK /\ stage = "answered"
  BY DEF IInv, HandleErrorCode
<1>2. CASE answer.error = "sessionNotFound"
  <2>1. Refuse(INITIAL) /\ INITIAL.id = INVALID
    BY <1>2 DEF HandleErrorCode, INITIAL
  <2> QED  BY <1>1, <2>1, MetadataTyped, RefuseInv
<1>3. CASE answer.error # "sessionNotFound"
  <2>1. Refuse(NextCloseExisting(metadata)) /\ NextCloseExisting(metadata).id = metadata.id
    BY <1>3 DEF HandleErrorCode, NextCloseExisting
  <2> QED  BY <1>1, <2>1, MetadataTyped, RefuseInv
<1> QED  BY <1>2, <1>3

\* Taking an answer that ends the session, or that keeps the metadata.
LEMMA TakeInitialInv ==
  ASSUME IInv, stage = "answered", Take(INITIAL),
         \A p \in Names(answer.read) : answer.read[p] = session[p]
  PROVE  IInv'
<1>1. INITIAL \in Metadata /\ IsFull(INITIAL)
  BY MetadataTyped DEF IInv
<1>2. INITIAL.id <= issued
  BY DEF IInv, TypeOK, INITIAL, INVALID
<1> QED  BY <1>1, <1>2, TakeInv

LEMMA HandleFullInv == ASSUME IInv, HandleFull PROVE IInv'
<1>1. TypeOK /\ stage = "answered" /\ answer.error = "none" /\ IsFull(metadata)
  BY DEF IInv, HandleFull
<1>2. CASE Names(answer.read) # Names(session)
  <2>1. Refuse(INITIAL) /\ INITIAL.id = INVALID
    BY <1>2 DEF HandleFull, INITIAL
  <2> QED  BY <1>1, <2>1, MetadataTyped, RefuseInv
<1>3. CASE Names(answer.read) = Names(session)
  <2>1. Complete
    BY <1>1, <1>3 DEF Complete
  <2>2. answer.read = session
    BY <1>1, <2>1 DEF IInv, FullAnswered
  <2>3. CASE answer.id = INVALID /\ Take(INITIAL)
    BY <1>1, <2>2, <2>3, TakeInitialInv
  <2>4. CASE answer.id = THROTTLED /\ Take(metadata)
    <3>1. metadata \in Metadata /\ metadata.id <= issued
      BY DEF IInv, TypeOK, IdsIssued
    <3> QED  BY <1>1, <2>2, <2>4, <3>1, TakeInv
  <2>5. CASE answer.id \in SessionId /\ Take(NewIncremental(answer.id))
    <3> DEFINE md == NewIncremental(answer.id)
    <3>1. md \in Metadata /\ md.id = answer.id /\ md.epoch = NextEpoch(0)
      BY <1>1, <2>5, MetadataTyped DEF NewIncremental
    <3>2. md.id \in SessionId /\ md.id <= issued
      BY <2>5, <3>1 DEF IInv, IdsIssued
    <3>3. InStep(md.id, md.epoch)
      BY <1>1, <2>1, <2>5, <3>1 DEF IInv, FullAnswered
    <3>4. \A r \in late : r.id # INVALID => r.id # md.id
      BY <1>1, <2>1, <3>1 DEF IInv, LateElsewhere
    <3>5. Take(md)
      BY <2>5
    <3> HIDE DEF md
    <3> QED  BY <1>1, <2>2, <3>1, <3>2, <3>3, <3>4, <3>5, TakeInv
  <2> QED  BY <1>3, <2>3, <2>4, <2>5 DEF HandleFull
<1> QED  BY <1>2, <1>3

LEMMA HandleIncrementalInv == ASSUME IInv, HandleIncremental PROVE IInv'
<1>1. /\ TypeOK /\ stage = "answered" /\ answer.error = "none"
      /\ ~IsFull(metadata) /\ IncrementalAnswered
      /\ metadata \in Metadata /\ metadata.id \in SessionId /\ metadata.id <= issued
      /\ \A r \in late : r.id # INVALID => r.id # metadata.id
  BY DEF IInv, HandleIncremental, EpochOfSession, TypeOK, IdsIssued, LateElsewhere
<1>2. CASE ~(Names(answer.read) \subseteq Names(session))
  <2>1. Refuse(NextCloseExisting(metadata)) /\ NextCloseExisting(metadata).id = metadata.id
    BY <1>2 DEF HandleIncremental, NextCloseExisting
  <2> QED  BY <1>1, <2>1, MetadataTyped, RefuseInv
<1>3. CASE Names(answer.read) \subseteq Names(session)
  <2>1. \A p \in Names(answer.read) : answer.read[p] = session[p]
    BY <1>1, <1>3 DEF IncrementalAnswered
  <2>2. CASE answer.id = INVALID /\ Take(INITIAL)
    BY <1>1, <2>1, <2>2, TakeInitialInv
  <2>3. CASE answer.id = THROTTLED /\ Take(metadata)
    <3>1. InStep(metadata.id, metadata.epoch)
      BY <1>1, <2>3 DEF IncrementalAnswered
    <3> QED  BY <1>1, <2>1, <2>3, <3>1, TakeInv
  <2>4. CASE answer.id \in SessionId /\ Take(NextIncremental(metadata))
    <3> DEFINE md == NextIncremental(metadata)
    <3>1. md \in Metadata /\ md.id = metadata.id /\ md.epoch = NextEpoch(metadata.epoch)
      BY <1>1, MetadataTyped DEF NextIncremental
    <3>2. answer.id = metadata.id
      BY <1>1, <2>4, Constants DEF IncrementalAnswered
    <3>3. InStep(md.id, md.epoch)
      BY <1>1, <3>1, <3>2 DEF IncrementalAnswered
    <3>4. Take(md)
      BY <2>4
    <3> HIDE DEF md
    <3> QED  BY <1>1, <2>1, <3>1, <3>3, <3>4, TakeInv
  <2> QED  BY <1>3, <2>2, <2>3, <2>4 DEF HandleIncremental
<1> QED  BY <1>2, <1>3

LEMMA FetchFailsInv == ASSUME IInv, FetchFails PROVE IInv'
<1>1. /\ stage \in {"sent", "answered"}
      /\ metadata' = NextCloseExisting(metadata) /\ metadata'.id = metadata.id
      /\ metadata' \in Metadata /\ IsFull(metadata')
      /\ stage' = "idle" /\ request' = NoRequest /\ answer' = NoAnswer
      /\ late' \subseteq late \cup {request}
      /\ late' # late => stage = "sent"
      /\ faults' \in 0 .. MaxFaults
      /\ UNCHANGED <<session, asked, broker>>
  BY MetadataTyped, Constants DEF IInv, FetchFails, NextCloseExisting, SpendFault, TypeOK
<1>2. TypeOK'
  BY <1>1, Constants, PositionsClosed DEF IInv, TypeOK, NoAnswer, Answer, NoRequest, Request, broker
<1>3. IdsIssued'
  <2>1. \A r \in late' : r.id <= issued
    BY <1>1 DEF IInv, IdsIssued, InFlight
  <2> QED  BY <1>1, <2>1 DEF IInv, TypeOK, IdsIssued, NoAnswer, INVALID, broker
<1>4. EpochOfSession' /\ LateElsewhere'
  BY <1>1 DEF EpochOfSession, LateElsewhere
<1>5. /\ AtRest' /\ InFlight' /\ FullAnswered' /\ IncrementalAnswered'
      /\ AskedIsSession' /\ ReadFromPosition'
  BY <1>1 DEF AtRest, InFlight, FullAnswered, IncrementalAnswered, AskedIsSession,
     ReadFromPosition
<1> QED  BY <1>2, <1>3, <1>4, <1>5 DEF IInv

-----------------------------------------------------------------------------
(* The broker processes a request                                          *)

LEMMA DropTyped ==
  ASSUME TypeOK, NEW n \in SessionId \cup {INVALID}
  PROVE  /\ Drop(n) \in [SessionId -> Session]
         /\ \A m \in SessionId : m # n => Drop(n)[m] = opened[m]
         /\ n \in SessionId => Drop(n)[n].epoch = 0
<1>1. Closed \in Session
  BY Constants, PositionsClosed DEF Closed, Session
<1> QED  BY <1>1 DEF TypeOK, Drop, Closed

LEMMA KeepTyped ==
  ASSUME TypeOK, NEW r \in Request, Current(r), NEW e \in 0 .. MaxEpoch, Keep(r, e)
  PROVE  /\ opened' \in [SessionId -> Session]
         /\ opened'[r.id].epoch = e /\ opened'[r.id].parts = Now(r)
         /\ \A m \in SessionId : m # r.id => opened'[m] = opened[m]
<1>1. r.id \in SessionId
  BY DEF Current
<1>2. opened[r.id].parts \in Positions
  BY <1>1 DEF TypeOK, Session
<1>3. Now(r) \in Positions
  BY <1>2, PositionsClosed DEF Now
<1>4. [epoch |-> e, parts |-> Now(r)] \in Session
  BY <1>3 DEF Session
<1> QED  BY <1>1, <1>4 DEF TypeOK, Keep

\* Whatever the broker does with r, the sessions other than that of r keep
\* their state, and one it opens is new.
Elsewhere(r) ==
  /\ opened' \in [SessionId -> Session]
  /\ issued' \in issued .. MaxSession
  /\ faults' \in 0 .. MaxFaults
  /\ \A n \in SessionId : n <= issued /\ n # r.id => opened'[n] = opened[n]
  /\ \A n \in SessionId : n > issued' => opened'[n].epoch = 0

LEMMA SpendTyped == ASSUME TypeOK, SpendFault PROVE faults' \in 0 .. MaxFaults
  BY Constants DEF TypeOK, SpendFault

LEMMA OpenSessionDoes ==
  ASSUME IInv, NEW r \in Request, r.id <= issued, OpenSession(r)
  PROVE  /\ Elsewhere(r)
         /\ \E a \in Answer :
              /\ Reply(r, a) /\ a.id = issued + 1 /\ a.id = issued'
              /\ a.id \in SessionId
              /\ a.read = r.send
              /\ opened'[a.id].epoch = 1 /\ opened'[a.id].parts = r.send
<1> DEFINE n == issued + 1
           a == [error |-> "none", id |-> n, read |-> r.send]
           new == [epoch |-> 1, parts |-> r.send]
<1>1. /\ TypeOK /\ IdsIssued /\ issued < MaxSession /\ issued' = n
      /\ issued \in 0 .. MaxSession
      /\ opened' = [Drop(r.id) EXCEPT ![n] = new]
      /\ Reply(r, a) /\ faults' = faults
  BY DEF IInv, OpenSession, TypeOK
<1>2. n \in SessionId /\ n > issued /\ issued' \in issued .. MaxSession
  BY <1>1, Constants DEF SessionId
<1>3. r.send \in Positions /\ r.id \in SessionId \cup {INVALID}
  BY DEF Request
<1>4. /\ Drop(r.id) \in [SessionId -> Session]
      /\ \A m \in SessionId : m # r.id => Drop(r.id)[m] = opened[m]
  BY <1>1, <1>3, DropTyped
<1>5. new \in Session /\ a \in Answer
  BY <1>2, <1>3, Constants DEF Session, Answer
<1> HIDE DEF n, new
<1>6. opened' \in [SessionId -> Session] /\ opened'[n] = new
      /\ \A m \in SessionId : m # n => opened'[m] = Drop(r.id)[m]
  BY <1>1, <1>2, <1>4, <1>5
<1>7. \A m \in SessionId : m <= issued /\ m # r.id => opened'[m] = opened[m]
  <2>1. \A m \in SessionId : m <= issued => m # n
    BY <1>1, <1>2 DEF SessionId
  <2> QED  BY <2>1, <1>4, <1>6
<1>8. \A m \in SessionId : m > issued' => opened'[m].epoch = 0
  <2> SUFFICES ASSUME NEW m \in SessionId, m > issued'
               PROVE  opened'[m].epoch = 0
    OBVIOUS
  <2>1. m # n /\ m > issued /\ m # r.id
    BY <1>1, <1>2, <1>3, Constants DEF SessionId, n, INVALID
  <2>2. opened'[m] = opened[m]
    BY <2>1, <1>4, <1>6
  <2> QED  BY <2>1, <2>2, <1>1 DEF IdsIssued
<1>9. Elsewhere(r)
  BY <1>1, <1>2, <1>6, <1>7, <1>8 DEF Elsewhere, TypeOK
<1>10. new.epoch = 1 /\ new.parts = r.send
  BY DEF new
<1>11. a.id = n /\ a.read = r.send
  OBVIOUS
<1> HIDE DEF a
<1>12. /\ a \in Answer /\ Reply(r, a) /\ a.id = issued + 1 /\ a.id = issued'
       /\ a.id \in SessionId /\ a.read = r.send
  BY <1>1, <1>2, <1>5, <1>11 DEF n
<1>13. opened'[a.id].epoch = 1 /\ opened'[a.id].parts = r.send
  BY <1>6, <1>10, <1>11
<1> QED  BY <1>9, <1>12, <1>13

LEMMA DropElsewhere ==
  ASSUME IInv, NEW r \in Request, opened' = Drop(r.id),
         issued' = issued, faults' = faults
  PROVE  Elsewhere(r)
<1>1. /\ TypeOK /\ IdsIssued /\ r.id \in SessionId \cup {INVALID}
      /\ issued \in 0 .. MaxSession /\ faults \in 0 .. MaxFaults
  BY DEF IInv, TypeOK, Request
<1>2. /\ opened' \in [SessionId -> Session]
      /\ \A m \in SessionId : m # r.id => opened'[m] = opened[m]
      /\ r.id \in SessionId => opened'[r.id].epoch = 0
  BY <1>1, DropTyped
<1>3. \A n \in SessionId : n > issued' => opened'[n].epoch = 0
  BY <1>1, <1>2 DEF IdsIssued
<1>4. issued' \in issued .. MaxSession
  BY <1>1
<1> QED  BY <1>1, <1>2, <1>3, <1>4 DEF Elsewhere

LEMMA KeepElsewhere ==
  ASSUME IInv, NEW r \in Request, r.id <= issued, Current(r),
         NEW e \in 0 .. MaxEpoch, Keep(r, e),
         issued' = issued, faults' \in 0 .. MaxFaults
  PROVE  Elsewhere(r)
<1>1. /\ TypeOK /\ IdsIssued /\ r.id \in SessionId
      /\ issued \in 0 .. MaxSession
  BY DEF IInv, TypeOK, Current
<1>2. /\ opened' \in [SessionId -> Session]
      /\ \A m \in SessionId : m # r.id => opened'[m] = opened[m]
  BY <1>1, KeepTyped
<1>3. \A n \in SessionId : n > issued' => n # r.id
  BY <1>1 DEF SessionId
<1>4. \A n \in SessionId : n > issued' => opened'[n].epoch = 0
  BY <1>1, <1>2, <1>3 DEF IdsIssued
<1>5. issued' \in issued .. MaxSession
  BY <1>1
<1> QED  BY <1>1, <1>2, <1>4, <1>5 DEF Elsewhere

LEMMA SameElsewhere ==
  ASSUME IInv, NEW r \in Request, UNCHANGED broker, faults' \in 0 .. MaxFaults
  PROVE  Elsewhere(r)
<1>1. TypeOK /\ IdsIssued /\ issued \in 0 .. MaxSession
  BY DEF IInv, TypeOK
<1>2. issued' \in issued .. MaxSession
  BY <1>1 DEF broker
<1> QED  BY <1>1, <1>2 DEF Elsewhere, TypeOK, IdsIssued, broker

\* A request that was given up is processed: it names no session the client
\* goes on with.
LEMMA LateInv ==
  ASSUME IInv, NEW r \in late, Elsewhere(r), late' = late \ {r},
         UNCHANGED <<client, stage, answer, request>>
  PROVE  IInv'
<1>1. TypeOK'
  <2>1. issued' \in 0 .. MaxSession
    BY DEF IInv, TypeOK, Elsewhere
  <2> QED  BY <2>1 DEF IInv, TypeOK, Elsewhere, client
<1>2. /\ TypeOK /\ issued <= issued' /\ issued \in Nat /\ issued' \in Nat
      /\ UNCHANGED <<metadata, session, asked>>
  BY DEF IInv, TypeOK, Elsewhere, client
<1>3. IdsIssued'
  <2>1. metadata.id \in Int /\ answer.id \in Int /\ \A q \in late : q.id \in Int
    BY <1>2 DEF TypeOK, Metadata, Answer, Request, SessionId, INVALID, THROTTLED
  <2> QED  BY <1>2, <2>1 DEF IInv, IdsIssued, Elsewhere
<1>4. EpochOfSession' /\ LateElsewhere'
  BY <1>2 DEF IInv, EpochOfSession, LateElsewhere, Complete, Names
<1>5. ~IsFull(metadata) => opened'[metadata.id] = opened[metadata.id]
  BY <1>2, Constants DEF IInv, EpochOfSession, IdsIssued, LateElsewhere, Elsewhere
<1>6. stage = "answered" /\ IsFull(metadata) /\ Complete /\ answer.id \in SessionId =>
        opened'[answer.id] = opened[answer.id]
  BY <1>2, Constants DEF IInv, IdsIssued, LateElsewhere, Elsewhere
<1>7. AtRest'
  BY <1>2, <1>5 DEF IInv, AtRest, InStep
<1>8. InFlight'
  BY <1>2, <1>5 DEF IInv, InFlight, Patched
<1>9. FullAnswered'
  BY <1>2, <1>6 DEF IInv, FullAnswered, InStep, Complete, Names, NextEpoch
<1>10. IncrementalAnswered'
  BY <1>2, <1>5 DEF IInv, IncrementalAnswered, InStep, Names, NextEpoch
<1>11. AskedIsSession' /\ ReadFromPosition'
  BY <1>2 DEF IInv, AskedIsSession, ReadFromPosition, Names
<1> QED  BY <1>1, <1>3, <1>4, <1>7, <1>8, <1>9, <1>10, <1>11 DEF IInv

\* The answer to the request in flight: what has to hold of it.
Sound(a) ==
  a.error = "none" =>
    /\ IsFull(metadata) /\ Names(a.read) = Names(session) =>
         /\ a.read = session
         /\ a.id \in SessionId => /\ a.id > issued
                                 /\ opened'[a.id].epoch = 1
                                 /\ opened'[a.id].parts = session
    /\ ~IsFull(metadata) =>
         /\ a.id \in {INVALID, THROTTLED, metadata.id}
         /\ a.id = metadata.id => /\ opened'[a.id].epoch = NextEpoch(metadata.epoch)
                                 /\ opened'[a.id].parts = session
         /\ a.id = THROTTLED => /\ opened'[metadata.id].epoch = metadata.epoch
                               /\ opened'[metadata.id].parts = session
         /\ Names(a.read) \subseteq Names(session) =>
              \A p \in Names(a.read) : a.read[p] = session[p]

LEMMA PendingInv ==
  ASSUME IInv, stage = "sent", Elsewhere(request),
         UNCHANGED <<client, late>>,
         stage' = "answered", request' = NoRequest,
         NEW a \in Answer, answer' = a, a.id <= issued', Sound(a)
  PROVE  IInv'
<1>1. /\ TypeOK /\ issued <= issued' /\ issued \in Nat /\ issued' \in 0 .. MaxSession
      /\ UNCHANGED <<metadata, session, asked>> /\ asked = session
  BY DEF IInv, TypeOK, Elsewhere, client, InFlight
<1>2. TypeOK'
  <2>1. NoRequest \in Request
    BY PositionsClosed, Constants DEF NoRequest, Request
  <2> QED  BY <1>1, <2>1 DEF TypeOK, Elsewhere
<1>3. IdsIssued'
  <2>1. metadata.id \in Int /\ a.id \in Int /\ \A q \in late : q.id \in Int
    BY <1>1 DEF TypeOK, Metadata, Answer, Request, SessionId, INVALID, THROTTLED
  <2> QED  BY <1>1, <2>1 DEF IInv, IdsIssued, Elsewhere
<1>4. EpochOfSession'
  BY <1>1 DEF IInv, EpochOfSession
<1>5. Complete' => a.error = "none" /\ Names(a.read) = Names(session)
  BY <1>1 DEF Complete, Names
<1>6. LateElsewhere'
  <2> SUFFICES ASSUME NEW q \in late, q.id # INVALID
               PROVE  /\ q.id = metadata.id => IsFull(metadata)
                      /\ IsFull(metadata) /\ Complete' => q.id # a.id
    BY <1>1 DEF LateElsewhere
  <2>1. q.id \in SessionId /\ q.id <= issued
    BY DEF IInv, TypeOK, IdsIssued, Request
  <2>2. IsFull(metadata) /\ Complete' /\ a.id \in SessionId => a.id > issued
    BY <1>5 DEF Sound
  <2>3. q.id # a.id \/ ~IsFull(metadata) \/ ~Complete'
    BY <1>1, <2>1, <2>2 DEF SessionId
  <2> QED  BY <2>3 DEF IInv, LateElsewhere
<1>7. AtRest' /\ InFlight' /\ AskedIsSession' /\ ReadFromPosition'
  BY <1>1 DEF AtRest, InFlight, AskedIsSession, ReadFromPosition
<1>8. FullAnswered'
  BY <1>1, <1>5, Constants DEF Sound, FullAnswered, InStep
<1>9. IncrementalAnswered'
  BY <1>1 DEF Sound, IncrementalAnswered, InStep, Names
<1> QED  BY <1>2, <1>3, <1>4, <1>6, <1>7, <1>8, <1>9 DEF IInv

\* A reply goes to the client, or to nobody.
LEMMA ReplyInv ==
  ASSUME IInv, NEW r \in Requests, Elsewhere(r),
         NEW a \in Answer, Reply(r, a), a.id <= issued',
         stage = "sent" /\ r = request => Sound(a)
  PROVE  IInv'
<1>1. CASE /\ stage = "sent" /\ r = request
           /\ stage' = "answered" /\ answer' = a /\ request' = NoRequest
           /\ UNCHANGED <<client, late>>
  <2>1. Sound(a) /\ Elsewhere(request)
    BY <1>1
  <2> QED  BY <1>1, <2>1, PendingInv
<1>2. CASE /\ r \in late /\ late' = late \ {r}
           /\ UNCHANGED <<client, stage, answer, request>>
  BY <1>2, LateInv
<1> QED  BY <1>1, <1>2 DEF Reply

LEMMA RequestsKnown ==
  ASSUME IInv, NEW r \in Requests
  PROVE  r \in Request /\ r.id <= issued
  BY DEF IInv, TypeOK, IdsIssued, Requests, InFlight

LEMMA OpenSessionInv ==
  ASSUME IInv, NEW r \in Requests, OpenSession(r) PROVE IInv'
<1>1. r \in Request /\ r.id <= issued
  BY RequestsKnown
<1>2. Elsewhere(r)
  BY <1>1, OpenSessionDoes
<1>3. PICK a \in Answer :
        /\ Reply(r, a) /\ a.id = issued + 1 /\ a.id = issued' /\ a.id \in SessionId
        /\ a.read = r.send
        /\ opened'[a.id].epoch = 1 /\ opened'[a.id].parts = r.send
  BY <1>1, OpenSessionDoes
<1>4. a.id <= issued' /\ a.id > issued
  BY <1>3 DEF SessionId, IInv, TypeOK
<1>5. ASSUME stage = "sent", r = request PROVE Sound(a)
  <2>1. IsFull(metadata) /\ r.send = session
    BY <1>5 DEF IInv, InFlight, OpenSession, IsFull
  <2> QED  BY <1>3, <1>4, <2>1 DEF Sound
<1> QED  BY <1>2, <1>3, <1>4, <1>5, ReplyInv

LEMMA NoRoomInv ==
  ASSUME IInv, NEW r \in Requests, NoRoom(r) PROVE IInv'
<1> DEFINE a == [error |-> "none", id |-> INVALID, read |-> r.send]
<1>1. r \in Request /\ a \in Answer /\ a.id <= issued'
  BY RequestsKnown DEF Request, Answer, NoRoom, IInv, TypeOK, INVALID
<1>2. Elsewhere(r) /\ Reply(r, a)
  BY <1>1, DropElsewhere DEF NoRoom
<1>3. ASSUME stage = "sent", r = request PROVE Sound(a)
  <2>1. IsFull(metadata) /\ r.send = session
    BY <1>3 DEF IInv, InFlight, NoRoom, IsFull
  <2> QED  BY <2>1, Constants DEF Sound
<1> HIDE DEF a
<1> QED  BY <1>1, <1>2, <1>3, ReplyInv

\* The request in flight, if its session is current.
LEMMA CurrentNow ==
  ASSUME IInv, stage = "sent", Current(request)
  PROVE  /\ ~IsFull(metadata) /\ metadata.id = request.id
         /\ metadata.epoch = request.epoch /\ Now(request) = session
  BY DEF IInv, InFlight, Current, IsFull, Now

LEMMA SomeReads ==
  ASSUME NEW f, NEW S \in SUBSET Partition
  PROVE  \A p \in Names(Some(f, S)) : Some(f, S)[p] = f[p]
  BY DEF Names, Some

LEMMA ContinueSessionInv ==
  ASSUME IInv, NEW r \in Requests, ContinueSession(r) PROVE IInv'
<1>1. /\ TypeOK /\ r \in Request /\ r.id <= issued /\ Current(r) /\ r.id \in SessionId
      /\ issued' = issued /\ faults' = faults /\ faults \in 0 .. MaxFaults
      /\ Keep(r, NextEpoch(r.epoch)) /\ NextEpoch(r.epoch) \in 0 .. MaxEpoch
  BY RequestsKnown, Constants DEF ContinueSession, Current, IInv, TypeOK, Request
<1>2. Elsewhere(r)
  BY <1>1, KeepElsewhere
<1>3. PICK S \in SUBSET Partition :
        Reply(r, [error |-> "none", id |-> r.id, read |-> Some(Now(r), S)])
  BY DEF ContinueSession
<1> DEFINE a == [error |-> "none", id |-> r.id, read |-> Some(Now(r), S)]
<1>4. opened[r.id].parts \in Positions
  BY <1>1 DEF TypeOK, Session
<1>5. a \in Answer /\ a.id <= issued'
  BY <1>1, <1>4, PositionsClosed DEF Now, Answer
<1>6. ASSUME stage = "sent", r = request PROVE Sound(a)
  <2>1. /\ ~IsFull(metadata) /\ metadata.id = r.id
        /\ metadata.epoch = r.epoch /\ Now(r) = session
    BY <1>1, <1>6, CurrentNow
  <2>2. opened'[r.id].epoch = NextEpoch(r.epoch) /\ opened'[r.id].parts = Now(r)
    BY <1>1, KeepTyped
  <2>3. a.id # THROTTLED
    BY <1>1, Constants
  <2>4. \A p \in Names(a.read) : a.read[p] = session[p]
    BY <2>1, SomeReads
  <2>5. a.id = metadata.id
    BY <2>1
  <2> HIDE DEF a
  <2> QED  BY <2>1, <2>2, <2>3, <2>4, <2>5 DEF Sound
<1>7. Reply(r, a)
  BY <1>3
<1> HIDE DEF a
<1> QED  BY <1>2, <1>5, <1>6, <1>7, ReplyInv

LEMMA CloseSessionInv ==
  ASSUME IInv, NEW r \in Requests, CloseSession(r) PROVE IInv'
<1> DEFINE a == [error |-> "none", id |-> INVALID, read |-> Now(r)]
<1>1. /\ TypeOK /\ r \in Request /\ Current(r) /\ r.id \in SessionId
      /\ opened' = Drop(r.id) /\ issued' = issued /\ faults' = faults
      /\ Reply(r, a)
  BY RequestsKnown DEF CloseSession, Current, IInv
<1>2. Elsewhere(r)
  BY <1>1, DropElsewhere
<1>3. opened[r.id].parts \in Positions
  BY <1>1 DEF TypeOK, Session
<1>4. a \in Answer /\ a.id <= issued'
  BY <1>1, <1>3, PositionsClosed DEF Now, Answer, TypeOK, INVALID
<1>5. ASSUME stage = "sent", r = request PROVE Sound(a)
  <2>1. /\ ~IsFull(metadata) /\ metadata.id \in SessionId /\ Now(r) = session
    BY <1>1, <1>5, CurrentNow
  <2> QED  BY <2>1, Constants DEF Sound, THROTTLED, INVALID
<1> HIDE DEF a
<1> QED  BY <1>1, <1>2, <1>4, <1>5, ReplyInv

\* An answer that is an error asks nothing of the sessions.
LEMMA ErrorInv ==
  ASSUME IInv, NEW r \in Requests, UNCHANGED broker, faults' \in 0 .. MaxFaults,
         NEW e \in {"sessionNotFound", "other"},
         Reply(r, [NoAnswer EXCEPT !.error = e])
  PROVE  IInv'
<1> DEFINE a == [NoAnswer EXCEPT !.error = e]
<1>1. a = [error |-> e, id |-> INVALID, read |-> Nothing]
  BY DEF NoAnswer
<1>2. a \in Answer /\ a.id <= issued'
  BY <1>1, PositionsClosed DEF Answer, IInv, TypeOK, INVALID, broker
<1>3. Elsewhere(r)
  BY RequestsKnown, SameElsewhere
<1>4. Sound(a)
  BY <1>1 DEF Sound
<1> HIDE DEF a
<1>5. Reply(r, a)
  BY DEF a
<1> QED  BY <1>2, <1>3, <1>4, <1>5, ReplyInv

LEMMA RejectRequestInv ==
  ASSUME IInv, NEW r \in Requests, RejectRequest(r) PROVE IInv'
<1>1. UNCHANGED broker /\ faults' \in 0 .. MaxFaults
  BY DEF RejectRequest, IInv, TypeOK
<1>2. CASE r.id \in SessionId /\ opened[r.id].epoch # 0
  <2>1. Reply(r, [NoAnswer EXCEPT !.error = "other"])
    BY <1>2 DEF RejectRequest
  <2> QED  BY <1>1, <2>1, ErrorInv
<1>3. CASE ~(r.id \in SessionId /\ opened[r.id].epoch # 0)
  <2>1. Reply(r, [NoAnswer EXCEPT !.error = "sessionNotFound"])
    BY <1>3 DEF RejectRequest
  <2> QED  BY <1>1, <2>1, ErrorInv
<1> QED  BY <1>2, <1>3

LEMMA FailRequestInv ==
  ASSUME IInv, NEW r \in Requests, FailRequest(r) PROVE IInv'
<1>1. UNCHANGED broker /\ faults' \in 0 .. MaxFaults
      /\ Reply(r, [NoAnswer EXCEPT !.error = "other"])
  BY SpendTyped DEF FailRequest, IInv
<1> QED  BY <1>1, ErrorInv

LEMMA ThrottleInv ==
  ASSUME IInv, NEW r \in Requests, Throttle(r) PROVE IInv'
<1> DEFINE a == [NoAnswer EXCEPT !.id = THROTTLED]
<1>1. /\ a = [error |-> "none", id |-> THROTTLED, read |-> Nothing]
      /\ r \in Request /\ r.id <= issued
      /\ TypeOK /\ issued' = issued /\ faults' \in 0 .. MaxFaults /\ Reply(r, a)
      /\ \/ Current(r) /\ Keep(r, r.epoch)
         \/ r.epoch = 0 /\ UNCHANGED opened
  BY RequestsKnown, SpendTyped DEF NoAnswer, Throttle, IInv
<1>2. a \in Answer /\ a.id <= issued' /\ a.error = "none" /\ a.id = THROTTLED
      /\ a.read = Nothing /\ Names(a.read) = {}
  BY <1>1, PositionsClosed DEF Answer, TypeOK, THROTTLED, Names, Nothing
<1> HIDE DEF a
<1>3. CASE Current(r) /\ Keep(r, r.epoch)
  <2>1. r.epoch \in 0 .. MaxEpoch
    BY <1>1 DEF Request
  <2>2. Elsewhere(r)
    BY <1>1, <1>3, <2>1, KeepElsewhere
  <2>3. opened'[r.id].epoch = r.epoch /\ opened'[r.id].parts = Now(r)
    BY <1>1, <1>3, <2>1, KeepTyped
  <2>4. ASSUME stage = "sent", r = request PROVE Sound(a)
    <3>1. /\ ~IsFull(metadata) /\ metadata.id = r.id /\ metadata.id # THROTTLED
          /\ metadata.epoch = r.epoch /\ Now(r) = session
      BY <1>3, <2>4, CurrentNow, Constants DEF Current
    <3> QED  BY <1>2, <2>3, <3>1 DEF Sound
  <2> QED  BY <1>1, <1>2, <2>2, <2>4, ReplyInv
<1>4. CASE r.epoch = 0 /\ UNCHANGED opened
  <2>1. Elsewhere(r)
    BY <1>1, <1>4, SameElsewhere DEF broker
  <2>2. ASSUME stage = "sent", r = request PROVE Sound(a)
    <3>1. IsFull(metadata) /\ session \in Positions
      BY <1>4, <2>2 DEF IInv, TypeOK, InFlight, IsFull
    <3>2. Names(session) = {} => session = Nothing
      BY <3>1 DEF Names, Positions, Nothing
    <3> QED  BY <1>2, <3>1, <3>2, Constants DEF Sound
  <2> QED  BY <1>1, <1>2, <2>1, <2>2, ReplyInv
<1> QED  BY <1>1, <1>3, <1>4

LEMMA MisnameInv ==
  ASSUME IInv, NEW r \in Requests, Misname(r) PROVE IInv'
<1>1. PICK read \in [Partition -> {0, None}] :
        /\ \/ /\ Current(r) /\ Keep(r, NextEpoch(r.epoch))
              /\ ~(Names(read) \subseteq Names(Now(r)))
           \/ /\ r.epoch = 0 /\ UNCHANGED opened
              /\ Names(read) # Names(r.send)
        /\ Reply(r, [error |-> "none", id |-> r.id, read |-> read])
  BY DEF Misname
<1> DEFINE a == [error |-> "none", id |-> r.id, read |-> read]
<1>2. /\ r \in Request /\ r.id <= issued /\ r.id # THROTTLED
      /\ TypeOK /\ issued' = issued /\ faults' \in 0 .. MaxFaults
  BY RequestsKnown, SpendTyped, Constants DEF Misname, IInv, Request, INVALID, THROTTLED
<1>3. read \in Positions
  BY Constants DEF Positions
<1>4. a \in Answer /\ a.id <= issued' /\ a.id = r.id /\ a.read = read
  BY <1>2, <1>3 DEF Answer, Request
<1>5. Reply(r, a)
  BY <1>1
<1> HIDE DEF a
<1>6. CASE /\ Current(r) /\ Keep(r, NextEpoch(r.epoch))
           /\ ~(Names(read) \subseteq Names(Now(r)))
  <2>1. NextEpoch(r.epoch) \in 0 .. MaxEpoch
    BY <1>2, Constants DEF Request
  <2>2. Elsewhere(r)
    BY <1>2, <1>6, <2>1, KeepElsewhere
  <2>3. opened'[r.id].epoch = NextEpoch(r.epoch) /\ opened'[r.id].parts = Now(r)
    BY <1>2, <1>6, <2>1, KeepTyped
  <2>4. ASSUME stage = "sent", r = request PROVE Sound(a)
    <3>1. /\ ~IsFull(metadata) /\ metadata.id = r.id
          /\ metadata.epoch = r.epoch /\ Now(r) = session
      BY <1>6, <2>4, CurrentNow
    <3> QED  BY <1>2, <1>4, <1>6, <2>3, <3>1 DEF Sound
  <2> QED  BY <1>4, <1>5, <2>2, <2>4, ReplyInv
<1>7. CASE /\ r.epoch = 0 /\ UNCHANGED opened
           /\ Names(read) # Names(r.send)
  <2>1. Elsewhere(r)
    BY <1>2, <1>7, SameElsewhere DEF broker
  <2>2. ASSUME stage = "sent", r = request PROVE Sound(a)
    <3>1. IsFull(metadata) /\ r.send = session
      BY <1>7, <2>2 DEF IInv, InFlight, IsFull
    <3> QED  BY <1>4, <1>7, <3>1 DEF Sound
  <2> QED  BY <1>4, <1>5, <2>1, <2>2, ReplyInv
<1> QED  BY <1>1, <1>6, <1>7

LEMMA EvictInv == ASSUME IInv, Evict PROVE IInv'
<1>1. PICK n \in SessionId : opened' = [opened EXCEPT ![n] = Closed]
  BY DEF Evict
<1>2. /\ TypeOK /\ faults' \in 0 .. MaxFaults
      /\ UNCHANGED <<metadata, session, asked, stage, request, answer, issued, late>>
  BY SpendTyped DEF Evict, IInv, client
<1>3. Closed \in Session /\ Closed.epoch = 0
  BY Constants, PositionsClosed DEF Closed, Session
<1>4. opened' \in [SessionId -> Session]
      /\ \A m \in SessionId : opened'[m].epoch # 0 => opened'[m] = opened[m]
  BY <1>1, <1>2, <1>3 DEF TypeOK
<1>5. TypeOK'
  BY <1>2, <1>4 DEF TypeOK
<1>6. IdsIssued'
  BY <1>2, <1>4 DEF IInv, IdsIssued
<1>7. EpochOfSession' /\ LateElsewhere' /\ AskedIsSession' /\ ReadFromPosition'
  BY <1>2 DEF IInv, EpochOfSession, LateElsewhere, Complete, Names, AskedIsSession,
     ReadFromPosition
<1>8. AtRest'
  BY <1>2, <1>4 DEF IInv, EpochOfSession, AtRest, InStep
<1>9. InFlight'
  BY <1>2, <1>4 DEF IInv, EpochOfSession, InFlight, Patched
<1>10. FullAnswered'
  BY <1>2, <1>4 DEF IInv, FullAnswered, InStep, Complete, Names
<1>11. IncrementalAnswered'
  BY <1>2, <1>4 DEF IInv, EpochOfSession, IncrementalAnswered, InStep, Names
<1> QED  BY <1>5, <1>6, <1>7, <1>8, <1>9, <1>10, <1>11 DEF IInv

-----------------------------------------------------------------------------
LEMMA StepInv == IInv /\ [Next]_vars => IInv'
<1> SUFFICES ASSUME IInv, [Next]_vars PROVE IInv'
  OBVIOUS
<1>1. CASE SendFetch
  BY <1>1, SendFetchInv
<1>2. CASE HandleResponse
  BY <1>2, HandleErrorCodeInv, HandleFullInv, HandleIncrementalInv DEF HandleResponse
<1>3. CASE FetchFails
  BY <1>3, FetchFailsInv
<1>4. CASE ProcessRequest
  <2>1. PICK r \in Requests : Process(r)
    BY <1>4 DEF ProcessRequest
  <2> QED
    BY <2>1, OpenSessionInv, NoRoomInv, ContinueSessionInv, CloseSessionInv,
       RejectRequestInv, ThrottleInv, FailRequestInv, MisnameInv DEF Process
<1>5. CASE Evict
  BY <1>5, EvictInv
<1>6. CASE UNCHANGED vars
  <2>1. TypeOK' /\ IdsIssued' /\ EpochOfSession' /\ LateElsewhere'
    BY <1>6 DEF IInv, vars, client, broker, TypeOK, IdsIssued, EpochOfSession,
       LateElsewhere, Complete
  <2>2. AtRest' /\ InFlight' /\ FullAnswered' /\ IncrementalAnswered'
    BY <1>6 DEF IInv, vars, client, broker, AtRest, InFlight, FullAnswered,
       IncrementalAnswered, InStep, Complete
  <2>3. AskedIsSession' /\ ReadFromPosition'
    BY <1>6 DEF IInv, vars, client, AskedIsSession, ReadFromPosition
  <2> QED  BY <2>1, <2>2, <2>3 DEF IInv
<1> QED  BY <1>1, <1>2, <1>3, <1>4, <1>5, <1>6 DEF Next

LEMMA Invariance == Spec => []IInv
<1>1. Init => IInv
  BY InitInv
<1>2. IInv /\ [Next]_vars => IInv'
  BY StepInv
<1> QED  BY <1>1, <1>2, PTL DEF Spec

\* Every variable of a fetch session keeps its type, for any partitions and
\* any bounds; epochs stay between 0 and MAX_EPOCH (fetcher.py:1239-1245).
THEOREM TypeCorrect == Spec => []TypeOK
<1>1. IInv => TypeOK
  BY DEF IInv
<1> QED  BY <1>1, Invariance, PTL

\* What an answer holds was read from where the client asked, whatever is
\* lost, late, evicted, refused or misnamed (fetcher.py:774, 1113-1213).
THEOREM SessionsAgree == Spec => []ReadFromPosition
<1>1. IInv => ReadFromPosition
  BY DEF IInv
<1> QED  BY <1>1, Invariance, PTL

=============================================================================
