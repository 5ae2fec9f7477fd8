----------------------- MODULE GroupMembershipProofs -----------------------
(***************************************************************************)
(* For every number of members and partitions, any sequence of rebalances,  *)
(* expired sessions, lost connections and crashes, and whatever the threads *)
(* do in the gap between a join and the poll() that takes it: the group     *)
(* commits only what one of its members has returned. Without what the code *)
(* does not cope with (Gap), a member that is out of the group knows it,    *)
(* a settled one has its share, and only the owner of a partition commits.  *)
(***************************************************************************)
EXTENDS GroupMembership, SequenceTheorems, TLAPS

\* Offsets that were passed by returning records: all below them was returned.
Passed(at) ==
  /\ at \in Positions
  /\ \A p \in Partition : at[p] # None => 0 .. at[p] - 1 \subseteq delivered[p]

\* A member keeps such offsets only: as its positions, for a commit that waits,
\* and in the answers that it keeps.
Keeps(r) ==
  /\ {"pos", "held", "cache"} \subseteq DOMAIN r
  /\ Passed(r.pos) /\ Passed(r.held)
  /\ DOMAIN r.cache = SUBSET Partition
  /\ \A k \in SUBSET Partition :
       DOMAIN r.cache[k] = {"st", "at"} /\ Passed(r.cache[k].at)

\* A request and its answer carry such offsets only.
Carries(q) ==
  /\ {"at", "answer"} \subseteq DOMAIN q
  /\ "at" \in DOMAIN q.answer
  /\ Passed(q.at) /\ Passed(q.answer.at)

Entries(s) == {s[i] : i \in 1 .. Len(s)}
Carrying(s) == s \in Seq(Entries(s)) /\ \A q \in Entries(s) : Carries(q)

IInv ==
  /\ Passed(committed)
  /\ DOMAIN delivered = Partition
  /\ DOMAIN mem = Member /\ \A m \in Member : Keeps(mem[m])
  /\ DOMAIN flight = Member /\ \A m \in Member : Carrying(flight[m])

----------------------------------------------------------------------------
LEMMA Nothing == Passed(NoOffsets) /\ NoOffsets \in Positions
<1>1. None \in Nat /\ NoOffsets \in Positions
  BY BoundAssumption DEF None, NoOffsets, Positions, Offset
<1> QED BY <1>1 DEF Passed, NoOffsets

\* What was passed stays so, since delivered records only grow.
LEMMA Grows ==
  ASSUME NEW at, Passed(at), \A p \in Partition : delivered[p] \subseteq delivered'[p]
  PROVE  Passed(at)'
<1>1. \A p \in Partition : at[p] # None => 0 .. at[p] - 1 \subseteq delivered'[p]
  BY DEF Passed
<1> QED BY <1>1 DEF Passed, Positions, None, Offset

LEMMA GrowsWith ==
  ASSUME \A p \in Partition : delivered[p] \subseteq delivered'[p]
  PROVE  /\ \A r : Keeps(r) => Keeps(r)'
         /\ \A s : Carrying(s) => Carrying(s)'
<1>1. \A at : Passed(at) => Passed(at)' BY Grows
<1>2. \A r : Keeps(r) => Keeps(r)' BY <1>1 DEF Keeps
<1>3. \A q : Carries(q) => Carries(q)' BY <1>1 DEF Carries
<1>4. \A s : Carrying(s) => Carrying(s)'
  <2> SUFFICES ASSUME NEW s, Carrying(s) PROVE Carrying(s)' OBVIOUS
  <2>1. Entries(s)' = Entries(s) BY DEF Entries
  <2> QED BY <1>3, <2>1 DEF Carrying
<1> QED BY <1>2, <1>4

LEMMA Alike ==
  ASSUME NEW r, NEW t, Keeps(r), {"pos", "held", "cache"} \subseteq DOMAIN t,
         t.pos = r.pos, t.held = r.held, t.cache = r.cache
  PROVE  Keeps(t)
BY DEF Keeps

\* The sequences of requests.
LEMMA OfItsEntries ==
  ASSUME NEW S, NEW t \in Seq(S)
  PROVE  t \in Seq(Entries(t)) /\ Entries(t) \subseteq S
<1> DEFINE T == {t[i] : i \in 1 .. Len(t)}
<1>1. Len(t) \in Nat /\ t \in [1 .. Len(t) -> S] OBVIOUS
<1>2. \A i \in 1 .. Len(t) : t[i] \in T /\ t[i] \in S BY <1>1
<1>3. T \subseteq S BY <1>2
<1> HIDE DEF T
<1>4. t \in [1 .. Len(t) -> T] BY <1>1, <1>2
<1>5. t \in Seq(T) BY <1>1, <1>4
<1> QED BY <1>3, <1>5 DEF Entries, T

LEMMA NoneCarried == Carrying(<<>>)
BY DEF Carrying, Entries

LEMMA AppendCarries ==
  ASSUME NEW s, NEW q, Carrying(s), Carries(q)
  PROVE  Carrying(Append(s, q))
<1> DEFINE S == Entries(s) \cup {q}
           t == Append(s, q)
<1>1. s \in Seq(S) BY DEF Carrying
<1>2. t \in Seq(S) BY <1>1
<1> HIDE DEF t, S
<1>3. t \in Seq(Entries(t)) /\ Entries(t) \subseteq S BY <1>2, OfItsEntries
<1>4. \A x \in Entries(t) : Carries(x) BY <1>3 DEF Carrying, S
<1> QED BY <1>3, <1>4 DEF Carrying, t

LEMMA TailCarries ==
  ASSUME NEW s, Carrying(s), s # <<>>
  PROVE  Carrying(Tail(s)) /\ Carries(s[1])
<1> DEFINE S == Entries(s)
           t == Tail(s)
<1>1. s \in Seq(S) BY DEF Carrying
<1>2. t \in Seq(S) BY <1>1
<1> HIDE DEF t, S
<1>3. t \in Seq(Entries(t)) /\ Entries(t) \subseteq S BY <1>2, OfItsEntries
<1>4. \A x \in Entries(t) : Carries(x) BY <1>3 DEF Carrying, S
<1>5. Carries(s[1])
  <2>1. 1 \in 1 .. Len(s) BY <1>1, EmptySeq
  <2> QED BY <2>1 DEF Carrying, Entries
<1> QED BY <1>3, <1>4, <1>5 DEF Carrying, t

\* A sequence as long as another, entry by entry.
LEMMA EachCarries ==
  ASSUME NEW s, NEW t, s \in Seq(Entries(s)), t = [i \in 1 .. Len(s) |-> t[i]],
         \A i \in 1 .. Len(s) : Carries(t[i])
  PROVE  Carrying(t) /\ Len(t) = Len(s)
<1>1. Len(s) \in Nat OBVIOUS
<1> DEFINE T == {t[i] : i \in 1 .. Len(s)}
<1>2. t \in Seq(T) /\ Len(t) = Len(s)
  <2>1. \A i \in 1 .. Len(s) : t[i] \in T OBVIOUS
  <2> HIDE DEF T
  <2>2. t \in [1 .. Len(s) -> T] BY <2>1
  <2> QED BY <1>1, <2>2
<1>3. Entries(t) = T BY <1>2 DEF Entries
<1> QED BY <1>2, <1>3 DEF Carrying

LEMMA SaysNothing ==
  /\ DOMAIN Waiting = {"error", "gen", "id", "ids", "parts", "at"}
  /\ \A e : DOMAIN Says(e) = {"error", "gen", "id", "ids", "parts", "at"}
  /\ \A e : Says(e).at = NoOffsets
  /\ DOMAIN Parked = {"error", "gen", "id", "ids", "parts", "at"}
  /\ Waiting.at = NoOffsets /\ Parked.at = NoOffsets
BY DEF Waiting, Says, Parked

LEMMA RequestCarries ==
  ASSUME NEW kind, NEW gen, NEW id
  PROVE  /\ Carries(Request(kind, gen, id))
         /\ DOMAIN Request(kind, gen, id) =
              {"kind", "gen", "id", "at", "sync", "key", "ids", "plan", "answer"}
         /\ Request(kind, gen, id).at = NoOffsets
         /\ Request(kind, gen, id).answer = Waiting
BY Nothing, SaysNothing DEF Request, Carries

----------------------------------------------------------------------------
\* A step that returns nothing.
LEMMA StillKeeps ==
  ASSUME IInv, Passed(committed'), delivered' = delivered,
         DOMAIN mem' = Member, \A n \in Member : Keeps(mem'[n]),
         DOMAIN flight' = Member, \A n \in Member : Carrying(flight'[n])
  PROVE  IInv'
<1>1. \A at : Passed(at)' <=> Passed(at) BY DEF Passed
<1>2. \A n \in Member : Keeps(mem[n])' BY <1>1 DEF Keeps
<1>3. \A n \in Member : Carrying(flight[n])'
  BY DEF Carrying, Carries, Passed
<1> QED BY <1>1, <1>2, <1>3 DEF IInv, Passed

\* One member changes, or its requests do.
LEMMA OwnKeeps ==
  ASSUME IInv, NEW m \in Member, committed' = committed, delivered' = delivered,
         mem' = mem \/ \E r : Keeps(r) /\ Become(m, r),
         flight' = flight \/ \E q : Carrying(q) /\ Queue(m, q)
  PROVE  IInv'
<1>1. DOMAIN mem' = Member /\ \A n \in Member : Keeps(mem'[n])
  <2>1. CASE mem' = mem BY <2>1 DEF IInv
  <2>2. ASSUME NEW r, Keeps(r), Become(m, r)
        PROVE  DOMAIN mem' = Member /\ \A n \in Member : Keeps(mem'[n])
    <3>1. DOMAIN mem = Member /\ \A n \in Member : Keeps(mem[n]) BY DEF IInv
    <3>2. mem' = [mem EXCEPT ![m] = r] BY <2>2 DEF Become
    <3>3. \A n \in Member : mem'[n] = IF n = m THEN r ELSE mem[n] BY <3>1, <3>2
    <3> QED BY <2>2, <3>1, <3>2, <3>3
  <2> QED BY <2>1, <2>2
<1>2. DOMAIN flight' = Member /\ \A n \in Member : Carrying(flight'[n])
  <2>1. CASE flight' = flight BY <2>1 DEF IInv
  <2>2. ASSUME NEW q, Carrying(q), Queue(m, q)
        PROVE  DOMAIN flight' = Member /\ \A n \in Member : Carrying(flight'[n])
    <3>1. DOMAIN flight = Member /\ \A n \in Member : Carrying(flight[n]) BY DEF IInv
    <3>2. flight' = [flight EXCEPT ![m] = q] BY <2>2 DEF Queue
    <3>3. \A n \in Member : flight'[n] = IF n = m THEN q ELSE flight[n] BY <3>1, <3>2
    <3> QED BY <2>2, <3>1, <3>2, <3>3
  <2> QED BY <2>1, <2>2
<1>3. Passed(committed') BY DEF IInv
<1> QED BY <1>1, <1>2, <1>3, StillKeeps

----------------------------------------------------------------------------
(* What the operators on members return                                    *)

LEMMA Offsets ==
  ASSUME NEW r, Keeps(r)
  PROVE  Passed(Consumed(r)) /\ Passed(r.held)
<1>1. r.pos \in Positions /\ None \in Nat BY BoundAssumption DEF Keeps, Passed, None
<1>2. Consumed(r) \in Positions BY <1>1 DEF Consumed, Positions
<1>3. \A p \in Partition : Consumed(r)[p] # None => Consumed(r)[p] = r.pos[p] BY DEF Consumed
<1> QED BY <1>2, <1>3 DEF Keeps, Passed

LEMMA ResetKeeps ==
  ASSUME NEW r, NEW id, Keeps(r)
  PROVE  Keeps(ResetGeneration(r, id))
BY DEF Keeps, ResetGeneration

LEMMA FallenKeeps ==
  ASSUME NEW r, NEW e, Keeps(r)
  PROVE  Keeps(Fallen(r, e)) /\ Keeps(JoinFailed(r))
<1>1. Keeps(JoinFailed(r)) BY DEF Keeps, JoinFailed
<1>2. Keeps([r EXCEPT !.coord = FALSE]) BY DEF Keeps
<1> QED BY <1>1, <1>2, ResetKeeps DEF Fallen

LEMMA CommitCarries ==
  ASSUME NEW r, NEW at, NEW sync, Passed(at)
  PROVE  Carries(CommitRequest(r, at, sync))
BY RequestCarries DEF CommitRequest, Carries

\* The turn of a commit changes nothing of a member but its state.
LEMMA CommitTurnKeeps ==
  ASSUME IInv, NEW m \in Member, NEW r, Keeps(r), CommitTurn(m, r), Local
  PROVE  IInv'
<1>1. Keeps([r EXCEPT !.cf = "pending"]) /\ Keeps([r EXCEPT !.cf = "fatal"])
      /\ Keeps([r EXCEPT !.cf = "retry"])
  BY DEF Keeps
<1>2. Carrying(Append(flight[m], CommitRequest(r, Consumed(r), TRUE)))
  BY Offsets, CommitCarries, AppendCarries DEF IInv
<1> QED BY <1>1, <1>2, OwnKeeps DEF CommitTurn, Local, broker

LEMMA GiveUpCarries ==
  ASSUME NEW s, Carrying(s)
  PROVE  Carrying(GiveUp(s))
<1> DEFINE t == GiveUp(s)
<1>1. \A i \in 1 .. Len(s) : Carries(s[i]) BY DEF Carrying, Entries
<1>2. \A i \in 1 .. Len(s) : t[i] = [s[i] EXCEPT !.sync = FALSE] BY DEF GiveUp
<1>3. \A i \in 1 .. Len(s) : Carries(t[i]) BY <1>1, <1>2 DEF Carries
<1>4. t = [i \in 1 .. Len(s) |-> t[i]] BY DEF GiveUp
<1> HIDE DEF t
<1> QED BY <1>3, <1>4, EachCarries DEF t, Carrying

\* Leaving: the request, or out at once.
LEMMA LeaveKeeps ==
  ASSUME IInv, NEW m \in Member, NEW r, NEW q, Keeps(r), Carrying(q),
         LeaveGroup(m, r, q), committed' = committed, delivered' = delivered
  PROVE  IInv'
<1>1. Keeps([r EXCEPT !.leaving = TRUE]) BY DEF Keeps
<1>2. Carrying(Append(q, Request("leave", r.gen, r.mid))) BY RequestCarries, AppendCarries
<1>3. Keeps(ResetGeneration(r, NONE)) BY ResetKeeps
<1> QED BY <1>1, <1>2, <1>3, OwnKeeps DEF LeaveGroup

----------------------------------------------------------------------------
(* The steps of a member                                                   *)

LEMMA LookupKeeps ==
  ASSUME IInv, NEW m \in Member, Lookup(m)
  PROVE  IInv'
<1> DEFINE r == [mem[m] EXCEPT !.coord = TRUE]
<1>1. LookupDone(m) BY DEF Lookup
<1>2. Keeps(r) /\ Keeps([r EXCEPT !.held = NoOffsets]) /\ Passed(r.held)
  BY Nothing DEF IInv, Keeps
<1> HIDE DEF r
<1>3. Carrying(flight[m]) /\ Carrying(Append(flight[m], CommitRequest(r, r.held, FALSE)))
  BY <1>2, CommitCarries, AppendCarries DEF IInv
<1>4. /\ Become(m, [r EXCEPT !.held = NoOffsets])
      /\ \/ Queue(m, flight[m])
         \/ Queue(m, Append(flight[m], CommitRequest(r, r.held, FALSE)))
      /\ Local
  BY <1>1 DEF LookupDone, r
<1> QED BY <1>2, <1>3, <1>4, OwnKeeps DEF Local, broker

LEMMA JoinKeeps ==
  ASSUME IInv, NEW m \in Member, Join(m)
  PROVE  IInv'
<1> DEFINE r == mem[m]
<1>0. Keeps(r) /\ Carrying(flight[m]) BY DEF IInv
<1>1. Keeps(HeldOff(r)) BY <1>0 DEF HeldOff, Keeps
<1>2. CASE Rejoin(m)
  <2>1. Keeps([r EXCEPT !.pc = "prepare"]) BY <1>0 DEF Keeps
  <2>2. CASE AutoCommit(m, [r EXCEPT !.pc = "prepare"]) /\ Local
    BY <2>1, <2>2, CommitTurnKeeps DEF AutoCommit
  <2>3. CASE Become(m, HeldOff(r)) /\ UNCHANGED flight /\ Local
    BY <1>1, <2>3, OwnKeeps DEF Local, broker
  <2> QED BY <1>2, <2>2, <2>3 DEF Rejoin
<1>3. CASE RejoinAgain(m)
  <2>1. Keeps([mem[m] EXCEPT !.pc = "join"]) BY <1>0 DEF Keeps
  <2> QED BY <1>3, <2>1, OwnKeeps DEF RejoinAgain, Alone, Local, broker
<1>4. CASE CommitAgain(m) BY <1>0, <1>4, CommitTurnKeeps DEF CommitAgain
<1>5. CASE Prepared(m)
  BY <1>0, <1>1, <1>5, GiveUpCarries, OwnKeeps DEF Prepared, Local, broker
<1>6. CASE SendJoin(m)
  <2>1. Keeps(InitiateJoin(r)) BY <1>0 DEF InitiateJoin, Keeps
  <2>2. Keeps([r EXCEPT !.st = "unjoined", !.join = "failed"]) BY <1>0 DEF Keeps
  <2>3. Carrying(<<Request("join", r.gen, r.mid)>>)
    <3>1. Carrying(Append(<<>>, Request("join", r.gen, r.mid)))
      BY NoneCarried, RequestCarries, AppendCarries
    <3>2. Append(<<>>, Request("join", r.gen, r.mid)) = <<Request("join", r.gen, r.mid)>>
      OBVIOUS
    <3> QED BY <3>1, <3>2
  <2>4. CASE /\ Become(m, InitiateJoin(r))
             /\ Queue(m, <<Request("join", r.gen, r.mid)>>)
             /\ Local
    BY <2>1, <2>3, <2>4, OwnKeeps DEF Local, broker
  <2>5. CASE /\ Become(m, [r EXCEPT !.st = "unjoined", !.join = "failed"])
             /\ UNCHANGED <<flight, broker, delivered>>
    BY <2>2, <2>5, OwnKeeps DEF broker
  <2> QED BY <1>6, <2>4, <2>5 DEF SendJoin
<1>7. CASE JoinDone(m)
  <2> DEFINE a == [mem[m] EXCEPT !.pc = "user", !.join = "none", !.given = {}]
             t == [a EXCEPT !.rejoining = FALSE, !.rejoin = FALSE]
  <2>1. Keeps(a) /\ Keeps(t) BY <1>0 DEF Keeps
  <2>2. Alone /\ (Become(m, a) \/ Become(m, OnJoinComplete(t, mem[m].given)))
    BY <1>7 DEF JoinDone
  <2> HIDE DEF a, t
  <2>3. Keeps(OnJoinComplete(t, mem[m].given))
    BY <2>1, Nothing DEF OnJoinComplete, AssignFromSubscribed, Keeps
  <2> QED BY <2>1, <2>2, <2>3, OwnKeeps DEF Alone, Local, broker
<1> QED BY <1>2, <1>3, <1>4, <1>5, <1>6, <1>7 DEF Join

\* The one step that moves a position over a record: it returns the record.
LEMMA ReturnKeeps ==
  ASSUME IInv, NEW m \in Member, Return(m)
  PROVE  IInv'
<1> PICK p \in mem[m].asg :
      /\ mem[m].pos[p] < MaxOffset
      /\ Become(m, [mem[m] EXCEPT !.pos[p] = @ + 1])
      /\ delivered' = [delivered EXCEPT ![p] = @ \cup {mem[m].pos[p]}]
  BY DEF Return
<1> PICK r, pos : r = mem[m] /\ pos = [r.pos EXCEPT ![p] = @ + 1] OBVIOUS
<1> DEFINE t == [r EXCEPT !.pos = pos]
<1>0. flight' = flight /\ committed' = committed BY DEF Return, broker
<1>1. /\ DOMAIN mem = Member /\ DOMAIN delivered = Partition /\ Keeps(r)
      /\ r.pos \in Positions /\ MaxOffset \in Nat
  BY BoundAssumption DEF IInv, Keeps, Passed
<1>2. /\ DOMAIN delivered' = Partition
      /\ \A x \in Partition :
           delivered'[x] = IF x = p THEN delivered[x] \cup {r.pos[x]} ELSE delivered[x]
  BY <1>1
<1>3. \A x \in Partition : delivered[x] \subseteq delivered'[x] BY <1>2
<1>4. Passed(pos)'
  <2>1. \A x \in Partition : pos[x] = IF x = p THEN r.pos[x] + 1 ELSE r.pos[x]
    BY <1>1 DEF Positions
  <2>2. \A x \in Partition : r.pos[x] \in Nat BY <1>1 DEF Positions, Offset, None
  <2>3. pos \in Positions
    <3>1. \A x \in Partition : pos[x] \in Offset \cup {None}
      <4> TAKE x \in Partition
      <4>1. CASE x = p BY <1>1, <2>1, <2>2, <4>1 DEF Offset
      <4>2. CASE x # p BY <1>1, <2>1, <4>2 DEF Positions
      <4> QED BY <4>1, <4>2
    <3> QED BY <1>1, <3>1 DEF Positions
  <2>4. \A x \in Partition : pos[x] # None => 0 .. pos[x] - 1 \subseteq delivered'[x]
    <3> SUFFICES ASSUME NEW x \in Partition, pos[x] # None
                 PROVE  0 .. pos[x] - 1 \subseteq delivered'[x]
      OBVIOUS
    <3>1. r.pos[x] # None => 0 .. r.pos[x] - 1 \subseteq delivered[x] BY <1>1 DEF Keeps, Passed
    <3>2. CASE x = p
      <4>1. r.pos[x] < MaxOffset BY <3>2
      <4>2. r.pos[x] # None BY <1>1, <2>2, <4>1 DEF None
      <4>3. 0 .. r.pos[x] = (0 .. r.pos[x] - 1) \cup {r.pos[x]} BY <2>2
      <4>4. pos[x] - 1 = r.pos[x] BY <2>1, <2>2, <3>2
      <4> QED BY <1>2, <3>1, <3>2, <4>2, <4>3, <4>4
    <3>3. CASE x # p BY <1>2, <2>1, <3>1, <3>3
    <3> QED BY <3>2, <3>3
  <2> QED BY <2>3, <2>4 DEF Passed, Positions, Offset, None
<1>5. /\ DOMAIN mem' = Member
      /\ \A n \in Member : mem'[n] = IF n = m THEN t ELSE mem[n]
  BY <1>1 DEF Become
<1>6. \A n \in Member : Keeps(mem[n])'
  <2>1. Keeps(t)'
    <3>1. Keeps(r)' BY <1>1, <1>3, GrowsWith
    <3> QED BY <1>4, <3>1 DEF Keeps
  <2>2. \A n \in Member : Keeps(mem[n]) BY DEF IInv
  <2>3. \A n \in Member : \A x : Keeps(x) => Keeps(x)' BY <1>3, GrowsWith
  <2> HIDE DEF t
  <2>4. \A n \in Member : n # m => mem'[n] = mem[n] BY <1>5
  <2>5. mem'[m] = t BY <1>5
  <2> QED BY <2>1, <2>2, <2>3, <2>4, <2>5
<1>7. \A n \in Member : Carrying(flight[n])'
  BY <1>0, <1>3, GrowsWith DEF IInv
<1>8. Passed(committed)' BY <1>0, <1>3, Grows DEF IInv
<1> QED BY <1>0, <1>2, <1>5, <1>6, <1>7, <1>8 DEF IInv

LEMMA ReadKeeps ==
  ASSUME IInv, NEW m \in Member, Read(m)
  PROVE  IInv'
<1> DEFINE r == mem[m]
<1>0. Keeps(r) /\ Carrying(flight[m]) BY DEF IInv
<1>1. CASE Return(m) BY <1>1, ReturnKeeps
<1>2. CASE FindOffsets(m)
  <2>1. Keeps([mem[m] EXCEPT !.pc = "offsets"]) BY <1>0 DEF Keeps
  <2> QED BY <1>2, <2>1, OwnKeeps DEF FindOffsets, Alone, Local, broker
<1>3. CASE SendOffsetFetch(m)
  <2> DEFINE q == [Request("offsets", NONE, NONE) EXCEPT !.key = Missing(r)]
  <2>1. Keeps([r EXCEPT !.cache[Missing(r)].st = "pending"]) BY <1>0 DEF Keeps
  <2>2. Carries(q) BY RequestCarries DEF Carries
  <2>3. Carrying(Append(flight[m], q)) BY <1>0, <2>2, AppendCarries
  <2> QED BY <1>3, <2>1, <2>3, OwnKeeps DEF SendOffsetFetch, Local, broker
<1>4. CASE OffsetsDone(m)
  <2> DEFINE at  == Cached(r).at
             pos == [p \in Partition |->
                       IF p \notin Missing(r) THEN r.pos[p]
                       ELSE IF at[p] # None THEN at[p] ELSE 0]
             ok  == [r EXCEPT !.pc = "user", !.cache = Forget(r), !.pos = pos]
             no  == [r EXCEPT !.cache = Forget(r)]
  <2>1. Missing(r) \in SUBSET Partition BY DEF Missing
  <2>2. Passed(at) /\ Passed(r.pos) BY <1>0, <2>1 DEF Keeps, Cached
  <2>3. Passed(pos)
    <3>1. 0 \in Offset \cup {None} BY BoundAssumption DEF Offset
    <3>2. pos \in Positions BY <2>2, <3>1 DEF Passed, Positions
    <3>3. \A p \in Partition : pos[p] \in {r.pos[p], at[p], 0} OBVIOUS
    <3>4. 0 .. 0 - 1 = {} OBVIOUS
    <3>5. \A p \in Partition : pos[p] # None => 0 .. pos[p] - 1 \subseteq delivered[p]
      <4> SUFFICES ASSUME NEW p \in Partition, pos[p] # None
                   PROVE  0 .. pos[p] - 1 \subseteq delivered[p]
        OBVIOUS
      <4>1. CASE pos[p] = r.pos[p] BY <2>2, <4>1 DEF Passed
      <4>2. CASE pos[p] = at[p] BY <2>2, <4>2 DEF Passed
      <4>3. CASE pos[p] = 0 BY <3>4, <4>3
      <4> QED BY <3>3, <4>1, <4>2, <4>3
    <3> HIDE DEF pos
    <3> QED BY <3>2, <3>5 DEF Passed
  <2>4. LET f == Forget(r)
        IN  /\ DOMAIN f = SUBSET Partition
            /\ \A k \in SUBSET Partition : DOMAIN f[k] = {"st", "at"} /\ Passed(f[k].at)
    <3>1. /\ DOMAIN Forget(r) = SUBSET Partition
          /\ \A k \in SUBSET Partition : Forget(r)[k] =
               IF k = Missing(r) THEN [st |-> "none", at |-> NoOffsets] ELSE r.cache[k]
      BY <1>0 DEF Forget, Keeps
    <3> QED BY <1>0, <3>1, Nothing DEF Keeps
  <2> HIDE DEF pos
  <2>5. Keeps(ok) /\ Keeps(no) BY <1>0, <2>3, <2>4 DEF Keeps
  <2>6. Alone /\ (Become(m, ok) \/ Become(m, no)) BY <1>4 DEF OffsetsDone, pos
  <2> QED BY <2>5, <2>6, OwnKeeps DEF Alone, Local, broker
<1> QED BY <1>1, <1>2, <1>3, <1>4 DEF Read

LEMMA UserKeeps ==
  ASSUME IInv, NEW m \in Member, User(m)
  PROVE  IInv'
<1> DEFINE r == mem[m]
<1>0. Keeps(r) /\ Carrying(flight[m]) BY DEF IInv
<1>1. Keeps([mem[m] EXCEPT !.pc = "user", !.cf = "none"]) BY <1>0 DEF Keeps
<1>2. CASE Timeout(m)
  BY <1>0, <1>1, <1>2, GiveUpCarries, OwnKeeps DEF Timeout, Local, broker
<1>3. CASE Commit(m)
  <2>1. Keeps([mem[m] EXCEPT !.pc = "commit"]) BY <1>0 DEF Keeps
  <2> QED BY <1>3, <2>1, CommitTurnKeeps DEF Commit
<1>4. CASE CommitDone(m)
  BY <1>1, <1>4, OwnKeeps DEF CommitDone, Alone, Local, broker
<1>5. CASE CommitAsync(m)
  <2> DEFINE at == Consumed(r)
  <2>1. Passed(at) BY <1>0, Offsets
  <2> HIDE DEF at
  <2>2. Keeps([r EXCEPT !.held = at]) BY <1>0, <2>1 DEF Keeps
  <2>3. Carrying(Append(flight[m], CommitRequest(r, at, FALSE)))
    BY <1>0, <2>1, CommitCarries, AppendCarries
  <2>4. CommitOffsetsAsync(m, r, at) /\ Local BY <1>5 DEF CommitAsync, at
  <2> QED BY <2>2, <2>3, <2>4, OwnKeeps DEF CommitOffsetsAsync, Local, broker
<1>6. CASE Unsubscribe(m)
  <2> DEFINE sends == CommitSent(m, r) /\ Consumed(r) # NoOffsets
             q == IF sends THEN Append(flight[m], CommitRequest(r, Consumed(r), FALSE))
                  ELSE flight[m]
  <2>1. Carrying(q)
    <3>1. Carrying(Append(flight[m], CommitRequest(r, Consumed(r), FALSE)))
      BY <1>0, Offsets, CommitCarries, AppendCarries
    <3> QED BY <1>0, <3>1
  <2>2. Keeps(Unsubscribed(r)) BY <1>0, Nothing DEF Unsubscribed, Keeps
  <2>3. LeaveGroup(m, Unsubscribed(r), q) /\ committed' = committed /\ delivered' = delivered
    BY <1>6 DEF Unsubscribe, broker
  <2> HIDE DEF q
  <2> QED BY <2>1, <2>2, <2>3, LeaveKeeps
<1>7. CASE Subscribe(m)
  <2>1. Keeps(Subscribed(r)) BY <1>0 DEF Subscribed, Keeps
  <2> QED BY <1>7, <2>1, OwnKeeps DEF Subscribe, Alone, Local, broker
<1> QED BY <1>2, <1>3, <1>4, <1>5, <1>6, <1>7 DEF User

LEMMA HeartbeatKeeps ==
  ASSUME IInv, NEW m \in Member, HeartbeatThread(m)
  PROVE  IInv'
<1>0. Keeps(mem[m]) /\ Carrying(flight[m]) BY DEF IInv
<1>1. CASE Heartbeat(m)
  <2>1. Carrying(Append(flight[m], Request("heartbeat", mem[m].gen, mem[m].mid)))
    BY <1>0, RequestCarries, AppendCarries
  <2> QED BY <1>1, <2>1, OwnKeeps DEF Heartbeat, Local, broker
<1>2. CASE HeartbeatOff(m)
  <2>1. Keeps([mem[m] EXCEPT !.hb = FALSE]) BY <1>0 DEF Keeps
  <2> QED BY <1>2, <2>1, OwnKeeps DEF HeartbeatOff, Alone, Local, broker
<1>3. CASE SessionExpired(m)
  <2>1. Keeps([mem[m] EXCEPT !.coord = FALSE]) BY <1>0 DEF Keeps
  <2> QED BY <1>3, <2>1, OwnKeeps DEF SessionExpired, broker
<1>4. CASE PollExpired(m) BY <1>0, <1>4, LeaveKeeps DEF PollExpired, broker
<1> QED BY <1>1, <1>2, <1>3, <1>4 DEF HeartbeatThread

\* An answer is taken off the head of the queue.
LEMMA HandleKeeps ==
  ASSUME IInv, NEW m \in Member, Handle(m)
  PROVE  IInv'
<1> DEFINE r == mem[m]
           a == Said(m)
<1>0. Keeps(r) /\ Carrying(flight[m]) BY DEF IInv
<1>1. flight[m] # <<>> BY DEF Handle, Arrived, HandleJoin, HandleJoinError, HandleSync,
  HandleSyncError, HandleHeartbeat, HandleCommit, HandleOffsets, HandleLeave
<1>2. Carrying(Tail(flight[m])) /\ Carries(flight[m][1]) BY <1>0, <1>1, TailCarries
<1>3. Passed(a.at) BY <1>2 DEF Carries, Said
<1>4. ASSUME NEW t, Keeps(t), Done(m, t) PROVE IInv'
  BY <1>2, <1>4, OwnKeeps DEF Done, Local, broker
<1>5. CASE HandleJoin(m)
  <2> DEFINE t == IF r.st = "rebalancing" THEN [r EXCEPT !.gen = a.gen, !.mid = a.id]
                  ELSE JoinFailed(r)
  <2>1. Keeps([r EXCEPT !.gen = a.gen, !.mid = a.id]) BY <1>0 DEF Keeps
  <2>2. Keeps(t) BY <1>0, <2>1, FallenKeeps
  <2>3. \/ /\ Become(m, t) /\ Local
           /\ \E plan \in Plans(a.ids) : Queue(m, Append(Tail(flight[m]),
                [Request("sync", t.gen, t.mid) EXCEPT !.plan = plan]))
        \/ Done(m, JoinFailed(t))
    BY <1>5 DEF HandleJoin
  <2> HIDE DEF t
  <2>4. ASSUME NEW plan
        PROVE  Carrying(Append(Tail(flight[m]),
                 [Request("sync", t.gen, t.mid) EXCEPT !.plan = plan]))
    <3>1. Carries([Request("sync", t.gen, t.mid) EXCEPT !.plan = plan])
      BY RequestCarries DEF Carries
    <3> QED BY <1>2, <3>1, AppendCarries
  <2>5. CASE Done(m, JoinFailed(t)) BY <1>4, <2>2, <2>5, FallenKeeps
  <2>6. CASE /\ Become(m, t) /\ Local
             /\ \E plan \in Plans(a.ids) : Queue(m, Append(Tail(flight[m]),
                  [Request("sync", t.gen, t.mid) EXCEPT !.plan = plan]))
    BY <2>2, <2>4, <2>6, OwnKeeps DEF Local, broker
  <2> QED BY <2>3, <2>5, <2>6
<1>6. CASE HandleJoinError(m)
  BY <1>0, <1>4, <1>6, ResetKeeps, FallenKeeps DEF HandleJoinError
<1>7. CASE HandleSync(m)
  <2>1. Keeps(JoinSucceeded(r, a.parts)) BY <1>0 DEF JoinSucceeded, Keeps
  <2> QED BY <1>0, <1>4, <1>7, <2>1 DEF HandleSync
<1>8. CASE HandleSyncError(m)
  <2>1. Keeps([Fallen(r, a.error) EXCEPT !.rejoin = TRUE])
    <3>1. Keeps(Fallen(r, a.error)) BY <1>0, FallenKeeps
    <3> QED BY <3>1 DEF Keeps
  <2> QED BY <1>4, <1>8, <2>1, FallenKeeps DEF HandleSyncError
<1>9. CASE HandleHeartbeat(m)
  <2>1. Keeps([r EXCEPT !.rejoin = TRUE]) BY <1>0 DEF Keeps
  <2> QED BY <1>0, <1>4, <1>9, <2>1, FallenKeeps DEF HandleHeartbeat
<1>10. CASE HandleCommit(m)
  <2> DEFINE e == a.error
             t == IF e = "rebalancing" THEN [r EXCEPT !.rejoin = TRUE] ELSE Fallen(r, e)
             cf == IF e = "none" THEN "ok" ELSE IF e = "notCoordinator" THEN "retry"
                   ELSE "fatal"
  <2>1. Keeps([r EXCEPT !.rejoin = TRUE]) BY <1>0 DEF Keeps
  <2>2. Keeps(t) BY <1>0, <2>1, FallenKeeps
  <2>3. Done(m, t) \/ Done(m, [t EXCEPT !.cf = cf]) BY <1>10 DEF HandleCommit
  <2> HIDE DEF t, cf
  <2>4. Keeps([t EXCEPT !.cf = cf]) BY <2>2 DEF Keeps
  <2> QED BY <1>4, <2>2, <2>3, <2>4
<1>11. CASE HandleOffsets(m)
  <2> DEFINE t   == Fallen(r, a.error)
             key == flight[m][1].key
             got == IF a.error = "none" THEN [st |-> "ok", at |-> a.at]
                    ELSE [st |-> "failed", at |-> NoOffsets]
  <2>1. Keeps(t) BY <1>0, FallenKeeps
  <2>2. DOMAIN got = {"st", "at"} /\ Passed(got.at) BY <1>3, Nothing
  <2>3. Done(m, [t EXCEPT !.cache[key] = got]) BY <1>11 DEF HandleOffsets
  <2> HIDE DEF t, key, got
  <2>4. Keeps([t EXCEPT !.cache[key] = got]) BY <2>1, <2>2 DEF Keeps
  <2> QED BY <1>4, <2>3, <2>4
<1>12. CASE HandleLeave(m)
  <2>1. Keeps([ResetGeneration(r, NONE) EXCEPT !.leaving = FALSE])
    <3>1. Keeps(ResetGeneration(r, NONE)) BY <1>0, ResetKeeps
    <3> QED BY <3>1 DEF Keeps
  <2> QED BY <1>4, <1>12, <2>1 DEF HandleLeave
<1> QED BY <1>5, <1>6, <1>7, <1>8, <1>9, <1>10, <1>11, <1>12 DEF Handle

----------------------------------------------------------------------------
(* The coordinator and the faults                                          *)

\* One request is answered.
LEMMA AnswerCarries ==
  ASSUME NEW s, NEW i, NEW a, Carrying(s), "at" \in DOMAIN a, Passed(a.at)
  PROVE  Carrying([s EXCEPT ![i].answer = a])
<1> DEFINE t == [s EXCEPT ![i].answer = a]
<1>1. s \in Seq(Entries(s)) /\ \A j \in 1 .. Len(s) : Carries(s[j]) BY DEF Carrying, Entries
<1>2. \A j \in 1 .. Len(s) : t[j] = IF j = i THEN [s[j] EXCEPT !.answer = a] ELSE s[j]
  BY <1>1
<1>3. \A j \in 1 .. Len(s) : Carries(t[j])
  <2> TAKE j \in 1 .. Len(s)
  <2>1. Carries([s[j] EXCEPT !.answer = a]) BY <1>1 DEF Carries
  <2> QED BY <1>1, <1>2, <2>1
<1>4. t = [j \in 1 .. Len(s) |-> t[j]] BY <1>1
<1> HIDE DEF t
<1>5. Carrying(t) BY <1>1, <1>3, <1>4, EachCarries
<1> QED BY <1>5 DEF t

\* All parked requests of a kind are.
LEMMA ReleaseCarries ==
  ASSUME NEW f, NEW kind, NEW ans, DOMAIN f = Member, \A n \in Member : Carrying(f[n]),
         \A n \in Member : \A i \in 1 .. Len(f[n]) :
           f[n][i].kind = kind /\ f[n][i].answer = Parked =>
             LET a == ans[<<n, f[n][i].id>>] IN "at" \in DOMAIN a /\ Passed(a.at)
  PROVE  /\ DOMAIN Release(f, kind, ans) = Member
         /\ \A n \in Member : Carrying(Release(f, kind, ans)[n])
<1>1. DOMAIN Release(f, kind, ans) = Member BY DEF Release
<1>2. ASSUME NEW n \in Member PROVE Carrying(Release(f, kind, ans)[n])
  <2> DEFINE s == f[n]
             parked(i) == s[i].kind = kind /\ s[i].answer = Parked
             t == Release(f, kind, ans)[n]
  <2>1. Carrying(s) /\ s \in Seq(Entries(s)) /\ \A i \in 1 .. Len(s) : Carries(s[i])
    BY DEF Carrying, Entries
  <2>2. \A i \in 1 .. Len(s) :
          t[i] = IF parked(i) THEN [s[i] EXCEPT !.answer = ans[<<n, s[i].id>>]] ELSE s[i]
    BY DEF Release
  <2>3. t = [i \in 1 .. Len(s) |-> t[i]] BY DEF Release
  <2> HIDE DEF t
  <2>4. \A i \in 1 .. Len(s) : Carries(t[i])
    <3> TAKE i \in 1 .. Len(s)
    <3>1. CASE parked(i)
      <4> DEFINE a == ans[<<n, s[i].id>>]
      <4>1. "at" \in DOMAIN a /\ Passed(a.at) BY <3>1
      <4> HIDE DEF a
      <4>2. Carries([s[i] EXCEPT !.answer = a]) BY <2>1, <4>1 DEF Carries
      <4> QED BY <2>2, <3>1, <4>2 DEF a
    <3>2. CASE ~parked(i) BY <2>1, <2>2, <3>2
    <3> QED BY <3>1, <3>2
  <2> QED BY <2>1, <2>3, <2>4, EachCarries DEF t
<1> QED BY <1>1, <1>2

LEMMA ParkedAmong ==
  ASSUME NEW kind, NEW n \in Member, NEW i \in 1 .. Len(flight[n]),
         flight[n][i].kind = kind, flight[n][i].answer = Parked
  PROVE  <<n, flight[n][i].id>> \in ParkedIds(kind)
BY DEF ParkedIds, IdOf

LEMMA DismissalCarries ==
  ASSUME IInv
  PROVE  /\ DOMAIN Release(flight, "sync", Dismissal) = Member
         /\ \A n \in Member : Carrying(Release(flight, "sync", Dismissal)[n])
<1>1. \A id \in ParkedIds("sync") :
        "at" \in DOMAIN Dismissal[id] /\ Passed(Dismissal[id].at)
  BY Nothing, SaysNothing DEF Dismissal
<1> QED BY <1>1, ParkedAmong, ReleaseCarries DEF IInv

\* The answers to one member, with those of the rest as they are or released.
LEMMA AnsweredKeeps ==
  ASSUME IInv, NEW m \in Member, NEW i, NEW a, "at" \in DOMAIN a, Passed(a.at),
         NEW f, DOMAIN f = Member, \A n \in Member : Carrying(f[n]),
         flight' = [f EXCEPT ![m][i].answer = a],
         mem' = mem, delivered' = delivered, Passed(committed')
  PROVE  IInv'
<1>1. DOMAIN flight' = Member OBVIOUS
<1>2. \A n \in Member : flight'[n] = IF n = m THEN [f[m] EXCEPT ![i].answer = a] ELSE f[n]
  OBVIOUS
<1>3. Carrying([f[m] EXCEPT ![i].answer = a]) BY AnswerCarries
<1>4. \A n \in Member : Carrying(flight'[n]) BY <1>2, <1>3
<1> QED BY <1>1, <1>4, StillKeeps DEF IInv

LEMMA ReleasedKeeps ==
  ASSUME IInv, DOMAIN flight' = Member, \A n \in Member : Carrying(flight'[n]),
         mem' = mem, delivered' = delivered, committed' = committed
  PROVE  IInv'
BY StillKeeps DEF IInv

LEMMA BrokerKeeps ==
  ASSUME IInv, NEW m \in Member, Broker(m)
  PROVE  IInv'
<1> PICK i \in 1 .. MaxInFlight :
      \/ BrokerJoin(m, i) \/ BrokerSync(m, i) \/ BrokerHeartbeat(m, i)
      \/ BrokerCommit(m, i) \/ BrokerOffsets(m, i) \/ BrokerLeave(m, i)
  BY DEF Broker
<1> DEFINE q == flight[m][i]
<1>0. /\ DOMAIN flight = Member /\ (\A n \in Member : Carrying(flight[n]))
      /\ Passed(committed)
  BY DEF IInv
<1>1. ASSUME NEW a, "at" \in DOMAIN a, Passed(a.at), Answer(m, i, a),
             mem' = mem, delivered' = delivered, committed' = committed
      PROVE  IInv'
  BY <1>0, <1>1, AnsweredKeeps DEF Answer
<1>2. ASSUME NEW e, Answer(m, i, Says(e)),
             mem' = mem, delivered' = delivered, committed' = committed
      PROVE  IInv'
  BY <1>1, <1>2, Nothing, SaysNothing
<1>3. CASE BrokerJoin(m, i)
  <2>1. mem' = mem /\ delivered' = delivered /\ committed' = committed
    BY <1>3 DEF BrokerJoin
  <2>2. ASSUME NEW n, Answer(m, i, [Says("memberIdRequired") EXCEPT !.id = n]) PROVE IInv'
    <3>1. LET a == [Says("memberIdRequired") EXCEPT !.id = n]
          IN  "at" \in DOMAIN a /\ a.at = NoOffsets
      BY SaysNothing
    <3> QED BY <1>1, <2>1, <2>2, <3>1, Nothing
  <2>3. CASE flight' = [Release(flight, "sync", Dismissal) EXCEPT ![m][i].answer = Parked]
    <3>1. "at" \in DOMAIN Parked /\ Passed(Parked.at) BY Nothing, SaysNothing
    <3> DEFINE f == Release(flight, "sync", Dismissal)
    <3>2. DOMAIN f = Member /\ \A n \in Member : Carrying(f[n]) BY DismissalCarries
    <3> HIDE DEF f
    <3> QED BY <1>0, <2>1, <2>3, <3>1, <3>2, AnsweredKeeps DEF f
  <2>4. CASE Answer(m, i, Says("unknownMember")) BY <1>2, <2>1, <2>4
  <2> QED BY <1>3, <2>2, <2>3, <2>4 DEF BrokerJoin
<1>4. CASE BrokerSync(m, i)
  <2> DEFINE share(n) == [Says("none") EXCEPT !.parts = q.plan[n]]
             given == [n \in ParkedIds("sync") |-> share(n)]
             f == Release(flight, "sync", given)
  <2>1. mem' = mem /\ delivered' = delivered /\ committed' = committed
    BY <1>4 DEF BrokerSync
  <2>2. \A ps : LET a == [Says("none") EXCEPT !.parts = ps]
                IN  "at" \in DOMAIN a /\ Passed(a.at)
    BY Nothing, SaysNothing
  <2>3. CASE flight' = [f EXCEPT ![m][i].answer = share(IdOf(m, i))]
    <3>1. \A id \in ParkedIds("sync") : "at" \in DOMAIN given[id] /\ Passed(given[id].at)
      BY <2>2
    <3> HIDE DEF given
    <3>2. DOMAIN f = Member /\ \A n \in Member : Carrying(f[n])
      BY <1>0, <3>1, ParkedAmong, ReleaseCarries
    <3> DEFINE a == share(IdOf(m, i))
    <3>3. "at" \in DOMAIN a /\ Passed(a.at) BY <2>2
    <3> HIDE DEF f, a
    <3>4. flight' = [f EXCEPT ![m][i].answer = a] BY <2>3 DEF f, a
    <3> QED BY <1>0, <2>1, <3>2, <3>3, <3>4, AnsweredKeeps
  <2>4. CASE \E e : Answer(m, i, Says(e)) BY <1>2, <2>1, <2>4
  <2>5. CASE Answer(m, i, Parked) BY <1>1, <2>1, <2>5, Nothing, SaysNothing
  <2>6. ASSUME NEW ps, Answer(m, i, [Says("none") EXCEPT !.parts = ps]) PROVE IInv'
    BY <1>1, <2>1, <2>2, <2>6
  <2> QED BY <1>4, <2>3, <2>4, <2>5, <2>6 DEF BrokerSync
<1>5. CASE BrokerHeartbeat(m, i) BY <1>2, <1>5 DEF BrokerHeartbeat, broker
<1>6. CASE BrokerCommit(m, i)
  <2>1. i \in 1 .. Len(flight[m]) BY <1>6 DEF BrokerCommit, IsNext
  <2>2. Passed(q.at) BY <1>0, <2>1 DEF Carrying, Entries, Carries
  <2>3. Passed(committed')
    <3> DEFINE at == [p \in Partition |-> IF q.at[p] = None THEN committed[p] ELSE q.at[p]]
    <3>1. at \in Positions BY <1>0, <2>2 DEF Passed, Positions
    <3>2. \A p \in Partition : at[p] \in {committed[p], q.at[p]} OBVIOUS
    <3>3. Passed(at)
      <4> HIDE DEF at
      <4> QED BY <1>0, <2>2, <3>1, <3>2 DEF Passed
    <3>4. committed' = committed \/ committed' = at BY <1>6 DEF BrokerCommit
    <3> QED BY <1>0, <3>3, <3>4
  <2>4. \A e : "at" \in DOMAIN Says(e) /\ Passed(Says(e).at) BY Nothing, SaysNothing
  <2> DEFINE a == Says(Refusal(m, i, {"completing"}))
  <2>5. flight' = [flight EXCEPT ![m][i].answer = a] BY <1>6 DEF BrokerCommit, Answer
  <2>6. "at" \in DOMAIN a /\ Passed(a.at) BY <2>4
  <2> HIDE DEF a
  <2> QED BY <1>0, <1>6, <2>3, <2>5, <2>6, AnsweredKeeps DEF BrokerCommit
<1>7. CASE BrokerOffsets(m, i)
  <2> DEFINE at == [p \in Partition |-> IF p \in q.key THEN committed[p] ELSE None]
             a  == [Says("none") EXCEPT !.at = at]
  <2>1. at \in Positions BY <1>0 DEF Passed, Positions
  <2>2. \A p \in Partition : at[p] \in {committed[p], None} OBVIOUS
  <2>3. Passed(at)
    <3> HIDE DEF at
    <3> QED BY <1>0, <2>1, <2>2 DEF Passed
  <2>4. Answer(m, i, a) BY <1>7 DEF BrokerOffsets
  <2> HIDE DEF at
  <2>5. "at" \in DOMAIN a /\ Passed(a.at) BY <2>3, SaysNothing
  <2> HIDE DEF a
  <2> QED BY <1>1, <1>7, <2>4, <2>5 DEF BrokerOffsets, broker
<1>8. CASE BrokerLeave(m, i)
  <2> DEFINE f == Dismissed(flight, IdOf(m, i))
             a == Says("none")
  <2>1. DOMAIN f = Member /\ \A n \in Member : Carrying(f[n])
    BY <1>0, DismissalCarries DEF Dismissed
  <2>2. "at" \in DOMAIN a /\ Passed(a.at) BY Nothing, SaysNothing
  <2>3. /\ flight' = [f EXCEPT ![m][i].answer = a]
        /\ mem' = mem /\ delivered' = delivered /\ committed' = committed
    BY <1>8 DEF BrokerLeave
  <2> HIDE DEF f, a
  <2> QED BY <1>0, <2>1, <2>2, <2>3, AnsweredKeeps
<1> QED BY <1>3, <1>4, <1>5, <1>6, <1>7, <1>8

LEMMA GenerationKeeps ==
  ASSUME IInv, BrokerGeneration
  PROVE  IInv'
<1> PICK leader \in group.members :
      flight' = Release(flight, "join", [id \in group.members |->
        [Says("none") EXCEPT !.gen = group.gen + 1, !.id = id[2],
           !.ids = IF id = leader THEN group.members ELSE {}]])
  BY DEF BrokerGeneration
<1> DEFINE ans == [id \in group.members |->
             [Says("none") EXCEPT !.gen = group.gen + 1, !.id = id[2],
                !.ids = IF id = leader THEN group.members ELSE {}]]
<1>1. ParkedIds("join") = group.members BY DEF BrokerGeneration
<1>2. \A id \in group.members : "at" \in DOMAIN ans[id] /\ Passed(ans[id].at)
  BY Nothing, SaysNothing
<1>3. flight' = Release(flight, "join", ans) OBVIOUS
<1> HIDE DEF ans
<1>4. \A n \in Member : \A i \in 1 .. Len(flight[n]) :
        flight[n][i].kind = "join" /\ flight[n][i].answer = Parked =>
          LET a == ans[<<n, flight[n][i].id>>] IN "at" \in DOMAIN a /\ Passed(a.at)
  BY <1>1, <1>2, ParkedAmong
<1>5. /\ DOMAIN Release(flight, "join", ans) = Member
      /\ \A n \in Member : Carrying(Release(flight, "join", ans)[n])
  BY <1>4, ReleaseCarries DEF IInv
<1>6. DOMAIN flight' = Member /\ \A n \in Member : Carrying(flight'[n]) BY <1>3, <1>5
<1> QED BY <1>6, ReleasedKeeps DEF BrokerGeneration

LEMMA ExpiredKeeps ==
  ASSUME IInv, Expired
  PROVE  IInv'
<1> PICK id \in group.members \cup group.known : BrokerExpire(id) BY DEF Expired
<1>1. DOMAIN flight' = Member /\ \A n \in Member : Carrying(flight'[n])
  BY DismissalCarries DEF BrokerExpire, Dismissed, IInv
<1> QED BY <1>1, ReleasedKeeps DEF BrokerExpire

LEMMA NewKeeps == Keeps(NewMember)
BY Nothing DEF NewMember, Keeps

LEMMA FaultKeeps ==
  ASSUME IInv, NEW m \in Member, Refuse(m) \/ Disconnect(m) \/ Crash(m)
  PROVE  IInv'
<1>0. Keeps(mem[m]) /\ Carrying(flight[m]) BY DEF IInv
<1>1. CASE Refuse(m)
  <2> PICK i \in 1 .. Len(flight[m]) : Answer(m, i, Says("notCoordinator"))
    BY <1>1 DEF Refuse
  <2> DEFINE a == Says("notCoordinator")
  <2>1. "at" \in DOMAIN a /\ Passed(a.at) BY Nothing, SaysNothing
  <2>2. flight' = [flight EXCEPT ![m][i].answer = a] BY DEF Answer
  <2>3. mem' = mem /\ delivered' = delivered /\ committed' = committed
    BY <1>1 DEF Refuse, broker
  <2> HIDE DEF a
  <2>4. Passed(committed') BY <2>3 DEF IInv
  <2> QED BY <2>1, <2>2, <2>3, <2>4, AnsweredKeeps DEF IInv
<1>2. CASE Disconnect(m)
  <2> DEFINE sync  == \E i \in 1 .. Len(flight[m]) : flight[m][i].sync
             cf    == IF sync THEN "retry" ELSE mem[m].cf
             cache == [k \in SUBSET Partition |->
                         IF mem[m].cache[k].st = "pending"
                         THEN [mem[m].cache[k] EXCEPT !.st = "failed"] ELSE mem[m].cache[k]]
             r     == [mem[m] EXCEPT !.coord = FALSE, !.cf = cf, !.cache = cache]
             kinds == {flight[m][i].kind : i \in 1 .. Len(flight[m])}
             r1    == IF kinds \cap {"join", "sync"} # {} THEN JoinFailed(r) ELSE r
             r2    == IF "leave" \in kinds
                      THEN [ResetGeneration(r1, NONE) EXCEPT !.leaving = FALSE] ELSE r1
  <2>1. Become(m, r2) /\ Queue(m, <<>>) /\ committed' = committed /\ delivered' = delivered
    BY <1>2 DEF Disconnect, broker
  <2>2. \A k \in SUBSET Partition : DOMAIN cache[k] = {"st", "at"} /\ Passed(cache[k].at)
    BY <1>0 DEF Keeps
  <2>3. DOMAIN cache = SUBSET Partition OBVIOUS
  <2> HIDE DEF cache, cf
  <2>4. Keeps(r) BY <1>0, <2>2, <2>3 DEF Keeps
  <2> HIDE DEF r
  <2>5. Keeps(r1) BY <2>4, FallenKeeps
  <2> HIDE DEF r1
  <2>6. Keeps(ResetGeneration(r1, NONE)) BY <2>5, ResetKeeps
  <2>7. Keeps(r2) BY <2>5, <2>6 DEF Keeps
  <2> HIDE DEF r2
  <2> QED BY <2>1, <2>7, NoneCarried, OwnKeeps
<1>3. CASE Crash(m)
  BY <1>3, NewKeeps, NoneCarried, OwnKeeps DEF Crash, broker
<1> QED BY <1>1, <1>2, <1>3

----------------------------------------------------------------------------
LEMMA Initially == Init => IInv
<1> SUFFICES ASSUME Init PROVE IInv OBVIOUS
<1>1. DOMAIN delivered = Partition BY DEF Init
<1> QED BY <1>1, Nothing, NewKeeps, NoneCarried DEF Init, IInv

LEMMA NextKeeps == IInv /\ [Next]_vars => IInv'
<1> SUFFICES ASSUME IInv, [Next]_vars PROVE IInv' OBVIOUS
<1>1. ASSUME NEW m \in Member,
             \/ Lookup(m) \/ Join(m) \/ Read(m) \/ User(m) \/ Handle(m)
             \/ HeartbeatThread(m) \/ Broker(m)
             \/ Refuse(m) \/ Disconnect(m) \/ Crash(m)
      PROVE  IInv'
  BY <1>1, LookupKeeps, JoinKeeps, ReadKeeps, UserKeeps, HandleKeeps, HeartbeatKeeps,
     BrokerKeeps, FaultKeeps
<1>2. CASE BrokerGeneration BY <1>2, GenerationKeeps
<1>3. CASE Expired BY <1>3, ExpiredKeeps
<1>4. CASE UNCHANGED vars
  BY <1>4, ReleasedKeeps DEF IInv, vars
<1> QED BY <1>1, <1>2, <1>3, <1>4 DEF Next

\* What the group has committed was returned by some member's poll(): neither a
\* rebalance nor an expired session, a crash, an answer that comes late or a
\* commit sent again makes a consumer go on behind a record that nobody has got
\* (commit_offsets_sync, _on_join_prepare, _refresh_committed_offsets).
THEOREM NothingSkipped == Spec => []CommittedWasDelivered
<1>1. IInv => CommittedWasDelivered BY DEF IInv, Passed, CommittedWasDelivered
<1> QED BY <1>1, Initially, NextKeeps, PTL DEF Spec

----------------------------------------------------------------------------
(***************************************************************************)
(* Who is in the group, and who has which share. Here a join only completes *)
(* in the poll() that waits for it and takes it (~Gap): in the gap between  *)
(* the two the heartbeat thread may reset the generation, and what follows  *)
(* is false.                                                                *)
(***************************************************************************)

Fields == {"pc", "sub", "coord", "st", "gen", "mid", "rejoin", "rejoining", "hb", "leaving",
           "join", "given", "asg", "pos", "cf", "held", "cache"}
RequestFields == {"kind", "gen", "id", "at", "sync", "key", "ids", "plan", "answer"}
AnswerFields  == {"error", "gen", "id", "ids", "parts", "at"}

\* What a member of generation n of the group g has is what the plan gives it.
Shared(g, n, id, parts) ==
  n = g.gen => g.phase # "completing" /\ g.plan[id] = parts
Owned(g, n, id, at) ==
  n = g.gen => /\ g.phase # "completing"
               /\ \A p \in Partition : at[p] # None => p \in g.plan[id]

\* What a request of member m may be answered with.
Allowed(g, m, q, a) ==
  /\ DOMAIN a = AnswerFields
  /\ q.kind = "join" /\ a.error = "none" => a.gen \in Nat \ {0} /\ a.gen <= g.gen
  /\ q.kind = "sync" /\ a.error = "none" => Shared(g, q.gen, <<m, q.id>>, a.parts)

\* A request is of the generation of its member, or an earlier one.
Sent(g, m, r, q) ==
  /\ DOMAIN q = RequestFields
  /\ Allowed(g, m, q, q.answer)
  /\ q.kind = "sync" => q.gen = r.gen /\ q.id = r.mid /\ q.gen # NONE
  /\ q.kind = "commit" =>
       q.gen \in Nat \ {0} /\ q.gen <= g.gen /\ Owned(g, q.gen, <<m, q.id>>, q.at)

\* The states of a member: while it joins it sends nothing else.
Orderly(r, s) ==
  /\ DOMAIN r = Fields
  /\ r.st \in {"unjoined", "rebalancing", "stable"} /\ r.join \in {"none", "pending", "ok", "failed"}
  /\ r.join = "pending" =>
       /\ Len(s) = 1 /\ s[1].kind \in {"join", "sync"}
       /\ r.rejoin /\ r.coord /\ ~r.leaving /\ r.sub /\ r.st = "rebalancing"
       /\ r.pc \in {"join", "user", "commit"}
  /\ r.join = "ok" =>
       s = <<>> /\ r.st = "stable" /\ r.pc = "join" /\ r.coord /\ ~r.leaving /\ r.sub
  /\ r.join # "none" => r.rejoining
  /\ r.st = "rebalancing" => r.join = "pending"
  /\ r.pc \in {"prepare", "join"} => r.rejoin /\ r.sub
  /\ r.pc = "join" => r.rejoining
  /\ r.st = "unjoined" /\ ~r.leaving => r.rejoin
  /\ ~r.sub /\ ~r.leaving => r.st = "unjoined"
  /\ r.coord => r.held = NoOffsets
  /\ \A i \in 1 .. Len(s) : s[i].kind \in {"join", "sync"} => r.join = "pending"

\* What a stable member has, and what it keeps for a commit.
Share(r) == IF r.join = "ok" THEN r.given ELSE r.asg
Holds(g, m, r) ==
  /\ r.gen \in Nat /\ r.gen <= g.gen
  /\ r.st = "stable" =>
       /\ r.gen # NONE
       /\ r.sub => Shared(g, r.gen, <<m, r.mid>>, Share(r))
       /\ Owned(g, r.gen, <<m, r.mid>>, r.held)

Requests(g, m, r, s) ==
  s \in Seq(Entries(s)) /\ \A i \in 1 .. Len(s) : Sent(g, m, r, s[i])

MemberInv(g, m, r, s) == Orderly(r, s) /\ Holds(g, m, r) /\ Requests(g, m, r, s)

GroupInv(g) ==
  /\ DOMAIN g = {"phase", "gen", "members", "known", "plan"} /\ g.gen \in Nat
  /\ g.phase \in {"empty", "preparing", "completing", "stable"}

JInv ==
  /\ GroupInv(group)
  /\ DOMAIN mem = Member /\ DOMAIN flight = Member
  /\ \A m \in Member : MemberInv(group, m, mem[m], flight[m])

----------------------------------------------------------------------------
\* One member changes, or its requests do.
LEMMA OwnMoves ==
  ASSUME JInv, NEW m \in Member, group' = group, NEW r, NEW s, MemberInv(group, m, r, s),
         Become(m, r) \/ (mem' = mem /\ r = mem[m]),
         Queue(m, s) \/ (flight' = flight /\ s = flight[m])
  PROVE  JInv'
<1>1. DOMAIN mem = Member /\ DOMAIN flight = Member BY DEF JInv
<1>2. DOMAIN mem' = Member /\ \A n \in Member : mem'[n] = IF n = m THEN r ELSE mem[n]
  BY <1>1 DEF Become
<1>3. DOMAIN flight' = Member /\ \A n \in Member : flight'[n] = IF n = m THEN s ELSE flight[n]
  BY <1>1 DEF Queue
<1>4. \A n \in Member : MemberInv(group, n, mem'[n], flight'[n]) BY <1>2, <1>3 DEF JInv
<1> QED BY <1>2, <1>3, <1>4 DEF JInv

\* The sequence stays, or is the tail, or grows by a request.
LEMMA SameRequests ==
  ASSUME NEW g, NEW m, NEW r, NEW t, NEW s, Requests(g, m, r, s),
         \/ t.gen = r.gen /\ t.mid = r.mid
         \/ \A i \in 1 .. Len(s) : s[i].kind # "sync"
  PROVE  Requests(g, m, t, s)
BY DEF Requests, Sent

LEMMA MoreRequests ==
  ASSUME NEW g, NEW m, NEW r, NEW s, NEW q, Requests(g, m, r, s), Sent(g, m, r, q)
  PROVE  /\ Requests(g, m, r, Append(s, q))
         /\ Len(Append(s, q)) = Len(s) + 1
         /\ \A i \in 1 .. Len(s) + 1 :
              Append(s, q)[i] = IF i = Len(s) + 1 THEN q ELSE s[i]
<1> DEFINE S == Entries(s) \cup {q}
           t == Append(s, q)
<1>1. s \in Seq(S) BY DEF Requests
<1>2. /\ t \in Seq(S) /\ Len(t) = Len(s) + 1 /\ Len(s) \in Nat
      /\ \A i \in 1 .. Len(s) + 1 : t[i] = IF i = Len(s) + 1 THEN q ELSE s[i]
  BY <1>1
<1> HIDE DEF t, S
<1>3. t \in Seq(Entries(t)) BY <1>2, OfItsEntries
<1>4. \A i \in 1 .. Len(t) : Sent(g, m, r, t[i])
  <2> TAKE i \in 1 .. Len(t)
  <2>1. i = Len(s) + 1 \/ i \in 1 .. Len(s) BY <1>2
  <2> QED BY <1>2, <2>1 DEF Requests
<1> QED BY <1>2, <1>3, <1>4 DEF Requests, t

LEMMA FewerRequests ==
  ASSUME NEW g, NEW m, NEW r, NEW s, Requests(g, m, r, s), s # <<>>
  PROVE  /\ Requests(g, m, r, Tail(s)) /\ Sent(g, m, r, s[1])
         /\ Len(s) \in Nat \ {0} /\ Len(Tail(s)) = Len(s) - 1
         /\ \A i \in 1 .. Len(s) - 1 : Tail(s)[i] = s[i + 1]
<1> DEFINE S == Entries(s)
           t == Tail(s)
<1>1. s \in Seq(S) BY DEF Requests
<1>2. Len(s) \in Nat \ {0} BY <1>1, EmptySeq
<1>3. /\ t \in Seq(S) /\ Len(t) = Len(s) - 1
      /\ \A i \in 1 .. Len(s) - 1 : t[i] = s[i + 1]
  BY <1>1, <1>2
<1> HIDE DEF t, S
<1>4. t \in Seq(Entries(t)) BY <1>3, OfItsEntries
<1>5. \A i \in 1 .. Len(t) : Sent(g, m, r, t[i])
  <2> TAKE i \in 1 .. Len(t)
  <2>1. i + 1 \in 1 .. Len(s) /\ i \in 1 .. Len(s) - 1 BY <1>2, <1>3
  <2> QED BY <1>3, <2>1 DEF Requests
<1>6. Sent(g, m, r, s[1])
  <2>1. 1 \in 1 .. Len(s) BY <1>2
  <2> QED BY <2>1 DEF Requests
<1> QED BY <1>2, <1>3, <1>4, <1>5, <1>6 DEF Requests, t

LEMMA NoRequests == \A g, m, r : Requests(g, m, r, <<>>)
BY DEF Requests, Entries

LEMMA GivenUp ==
  ASSUME NEW g, NEW m, NEW r, NEW s, NEW t, Requests(g, m, r, s), t = GiveUp(s)
  PROVE  /\ Requests(g, m, r, t) /\ Len(t) = Len(s)
         /\ s = <<>> => t = <<>>
         /\ \A i \in 1 .. Len(s) : t[i].kind = s[i].kind
<1>1. Len(s) \in Nat /\ \A i \in 1 .. Len(s) : Sent(g, m, r, s[i]) BY DEF Requests
<1>2. t = [i \in 1 .. Len(s) |-> [s[i] EXCEPT !.sync = FALSE]] BY DEF GiveUp
<1>3. \A i \in 1 .. Len(s) : Sent(g, m, r, t[i]) /\ t[i].kind = s[i].kind
  <2> TAKE i \in 1 .. Len(s)
  <2> PICK q, u : q = s[i] /\ u = [q EXCEPT !.sync = FALSE] OBVIOUS
  <2>1. Sent(g, m, r, q) BY <1>1
  <2>2. DOMAIN u = DOMAIN q /\ \A f \in RequestFields \ {"sync"} : u[f] = q[f]
    BY <2>1 DEF Sent, RequestFields
  <2>3. /\ u.kind = q.kind /\ u.answer = q.answer /\ u.gen = q.gen /\ u.id = q.id
        /\ u.at = q.at
    BY <2>2 DEF RequestFields
  <2>4. Sent(g, m, r, u)
    BY <2>1, <2>2, <2>3 DEF Sent, Allowed
  <2>5. t[i] = u BY <1>2
  <2> QED BY <2>3, <2>4, <2>5
<1> DEFINE T == {t[i] : i \in 1 .. Len(s)}
<1>4. t \in Seq(T) /\ Len(t) = Len(s)
  <2>1. \A i \in 1 .. Len(s) : t[i] \in T OBVIOUS
  <2> HIDE DEF T
  <2>2. t \in [1 .. Len(s) -> T] BY <1>2, <2>1
  <2> QED BY <1>1, <2>2
<1>5. s = <<>> => t = <<>> BY <1>4, EmptySeq
<1>6. Entries(t) = T BY <1>4 DEF Entries
<1> QED BY <1>3, <1>4, <1>5, <1>6 DEF Requests

----------------------------------------------------------------------------
(* A member that is not joining                                            *)

Free(r) == r.join \in {"none", "failed"}

LEMMA FreeGrows ==
  ASSUME NEW g, NEW m, NEW r, NEW s, NEW q, MemberInv(g, m, r, s), Free(r),
         Sent(g, m, r, q), q.kind \notin {"join", "sync"}
  PROVE  MemberInv(g, m, r, Append(s, q))
<1> DEFINE t == Append(s, q)
<1>1. /\ Requests(g, m, r, t) /\ Len(t) = Len(s) + 1
      /\ \A i \in 1 .. Len(s) + 1 : t[i] = IF i = Len(s) + 1 THEN q ELSE s[i]
  BY MoreRequests DEF MemberInv
<1>2. Len(s) \in Nat BY DEF MemberInv, Requests
<1> HIDE DEF t
<1>3. \A i \in 1 .. Len(t) : t[i].kind \notin {"join", "sync"}
  <2> TAKE i \in 1 .. Len(t)
  <2>1. i = Len(s) + 1 \/ i \in 1 .. Len(s) BY <1>1, <1>2
  <2> QED BY <1>1, <1>2, <2>1 DEF MemberInv, Orderly, Free
<1>4. Orderly(r, t) BY <1>3 DEF MemberInv, Orderly, Free
<1> QED BY <1>1, <1>4 DEF MemberInv, t

LEMMA FreeShrinks ==
  ASSUME NEW g, NEW m, NEW r, NEW s, MemberInv(g, m, r, s), s # <<>>,
         s[1].kind \notin {"join", "sync"}
  PROVE  Free(r) /\ MemberInv(g, m, r, Tail(s)) /\ Sent(g, m, r, s[1])
<1> DEFINE t == Tail(s)
<1>1. /\ Requests(g, m, r, t) /\ Sent(g, m, r, s[1])
      /\ Len(s) \in Nat \ {0} /\ Len(t) = Len(s) - 1
      /\ \A i \in 1 .. Len(s) - 1 : t[i] = s[i + 1]
  BY FewerRequests DEF MemberInv
<1>2. Free(r) BY DEF Free, MemberInv, Orderly
<1> HIDE DEF t
<1>3. \A i \in 1 .. Len(t) : t[i].kind \notin {"join", "sync"}
  <2> TAKE i \in 1 .. Len(t)
  <2>1. i + 1 \in 1 .. Len(s) /\ t[i] = s[i + 1] BY <1>1
  <2> QED BY <1>2, <2>1 DEF MemberInv, Orderly, Free
<1>4. Orderly(r, t) BY <1>2, <1>3 DEF MemberInv, Orderly, Free
<1> QED BY <1>1, <1>2, <1>4 DEF MemberInv, t

LEMMA GivesUp ==
  ASSUME NEW g, NEW m, NEW r, NEW s, MemberInv(g, m, r, s)
  PROVE  MemberInv(g, m, r, GiveUp(s))
<1> PICK t : t = GiveUp(s) OBVIOUS
<1>0. Requests(g, m, r, s) /\ Orderly(r, s) BY DEF MemberInv
<1>1. /\ Requests(g, m, r, t) /\ Len(t) = Len(s)
      /\ s = <<>> => t = <<>>
      /\ \A i \in 1 .. Len(s) : t[i].kind = s[i].kind
  BY <1>0, GivenUp
<1>2. r.join = "pending" => t[1].kind = s[1].kind
  <2>1. r.join = "pending" => 1 \in 1 .. Len(s) BY <1>0 DEF Orderly
  <2> QED BY <1>1, <2>1
<1>3. Orderly(r, t) BY <1>0, <1>1, <1>2 DEF Orderly
<1> QED BY <1>1, <1>3 DEF MemberInv

\* What does not change the membership.
Same(r, t) ==
  /\ DOMAIN t = Fields /\ t.st = r.st /\ t.gen = r.gen /\ t.mid = r.mid
  /\ t.held \in {r.held, NoOffsets}
  /\ t.join = r.join /\ t.rejoin = r.rejoin /\ t.leaving = r.leaving
LEMMA StillHolds ==
  ASSUME NEW g, NEW m, NEW r, NEW s, NEW t, MemberInv(g, m, r, s), Same(r, t),
         t.sub = r.sub, t.given = r.given, t.asg = r.asg
  PROVE  Holds(g, m, t) /\ Requests(g, m, t, s)
<1>1. Requests(g, m, t, s) BY SameRequests DEF MemberInv, Same
<1>2. Owned(g, r.gen, <<m, r.mid>>, r.held) => Owned(g, t.gen, <<m, t.mid>>, t.held)
  BY DEF Owned, Same, NoOffsets
<1> QED BY <1>1, <1>2 DEF MemberInv, Holds, Share, Same

LEMMA ResetMoves ==
  ASSUME NEW g, NEW m, NEW r, NEW s, NEW id, MemberInv(g, m, r, s), Free(r), g.gen \in Nat
  PROVE  MemberInv(g, m, ResetGeneration(r, id), s) /\ Free(ResetGeneration(r, id))
<1> DEFINE t == ResetGeneration(r, id)
<1>1. /\ DOMAIN t = Fields /\ t.gen = NONE /\ t.rejoin = TRUE /\ t.st = "unjoined"
      /\ \A f \in Fields \ {"gen", "mid", "rejoin", "st"} : t[f] = r[f]
  BY DEF ResetGeneration, MemberInv, Orderly, Fields
<1>2. /\ t.pc = r.pc /\ t.sub = r.sub /\ t.coord = r.coord /\ t.rejoining = r.rejoining
      /\ t.leaving = r.leaving /\ t.join = r.join /\ t.held = r.held
  BY <1>1 DEF Fields
<1> HIDE DEF t
<1>3. \A i \in 1 .. Len(s) : s[i].kind \notin {"join", "sync"} BY DEF MemberInv, Orderly, Free
<1>4. Requests(g, m, t, s) BY <1>3, SameRequests DEF MemberInv
<1>5. Holds(g, m, t) BY <1>1 DEF Holds, NONE
<1>6. Orderly(t, s) BY <1>1, <1>2, <1>3 DEF MemberInv, Orderly, Free
<1> QED BY <1>2, <1>4, <1>5, <1>6 DEF MemberInv, Free, t

LEMMA FallenMoves ==
  ASSUME NEW g, NEW m, NEW r, NEW s, NEW e, MemberInv(g, m, r, s), Free(r), g.gen \in Nat
  PROVE  MemberInv(g, m, Fallen(r, e), s) /\ Free(Fallen(r, e))
<1>1. MemberInv(g, m, ResetGeneration(r, NONE), s) /\ Free(ResetGeneration(r, NONE))
  BY ResetMoves
<1> DEFINE t == [r EXCEPT !.coord = FALSE]
<1>2. /\ DOMAIN t = Fields /\ t.coord = FALSE
      /\ \A f \in Fields \ {"coord"} : t[f] = r[f]
  BY DEF MemberInv, Orderly, Fields
<1> HIDE DEF t
<1>3. MemberInv(g, m, t, s) /\ Free(t)
  <2>1. /\ Same(r, t) /\ t.sub = r.sub /\ t.given = r.given /\ t.asg = r.asg
        /\ t.pc = r.pc /\ t.rejoining = r.rejoining
    BY <1>2 DEF Same, Fields
  <2>2. Orderly(t, s) BY <1>2, <2>1 DEF Orderly, MemberInv, Free, Same
  <2>3. Free(t) BY <2>1 DEF Free, Same
  <2> QED BY <2>1, <2>2, <2>3, StillHolds DEF MemberInv
<1> QED BY <1>1, <1>3 DEF Fallen, t

\* A join that has failed.
LEMMA OutOfJoin ==
  ASSUME NEW g, NEW m, NEW r, NEW s, NEW t, MemberInv(g, m, r, s), r.join = "pending",
         g.gen \in Nat, DOMAIN t = Fields, t.st = "unjoined", t.join = "failed", t.rejoin,
         t.gen \in {NONE, r.gen},
         t.coord => r.coord, t.held = r.held, t.pc = r.pc, t.sub = r.sub,
         t.rejoining = r.rejoining, t.leaving = r.leaving
  PROVE  MemberInv(g, m, t, <<>>)
<1>1. Orderly(t, <<>>) BY DEF MemberInv, Orderly
<1>2. Holds(g, m, t) BY DEF MemberInv, Holds, NONE
<1> QED BY <1>1, <1>2, NoRequests DEF MemberInv

----------------------------------------------------------------------------
(* The steps of a member                                                   *)

\* It goes on, in the group as before.
Turned(r, t) ==
  /\ Same(r, t) /\ t.sub = r.sub /\ t.given = r.given /\ t.asg = r.asg
  /\ t.coord => t.held = NoOffsets
  /\ t.pc \in {"prepare", "join"} => t.rejoin /\ t.sub
  /\ t.pc = "join" => t.rejoining
  /\ t.join # "none" => t.rejoining
  /\ r.join = "pending" => t.pc \in {"join", "user", "commit"} /\ t.coord
  /\ r.join = "ok" => t.pc = "join" /\ t.coord
LEMMA Turns ==
  ASSUME NEW g, NEW m, NEW r, NEW s, NEW t, MemberInv(g, m, r, s), Turned(r, t)
  PROVE  MemberInv(g, m, t, s)
<1>1. Orderly(t, s) BY DEF MemberInv, Orderly, Turned, Same
<1> QED BY <1>1, StillHolds DEF MemberInv, Turned

\* What a stable member may commit.
LEMMA MayCommit ==
  ASSUME NEW g, NEW m, NEW r, NEW s, NEW at, NEW sync, NEW q,
         MemberInv(g, m, r, s), r.st = "stable", q = CommitRequest(r, at, sync),
         at = r.held \/ (at = Consumed(r) /\ r.sub /\ Free(r))
  PROVE  Sent(g, m, r, q) /\ q.kind \notin {"join", "sync"}
<1>1. /\ DOMAIN q = RequestFields /\ q.kind = "commit" /\ q.gen = r.gen /\ q.id = r.mid
      /\ q.at = at /\ q.answer = Waiting
  BY DEF CommitRequest, Request, RequestFields
<1>2. DOMAIN Waiting = AnswerFields /\ Waiting.error = "waiting" BY DEF Waiting, AnswerFields
<1>3. Owned(g, r.gen, <<m, r.mid>>, at)
  <2>1. CASE at = r.held BY <2>1 DEF MemberInv, Holds
  <2>2. CASE at = Consumed(r) /\ r.sub /\ Free(r)
    <3>1. Shared(g, r.gen, <<m, r.mid>>, r.asg)
      BY <2>2 DEF MemberInv, Holds, Share, Free
    <3>2. \A p \in Partition : at[p] # None => p \in r.asg BY <2>2 DEF Consumed
    <3> QED BY <3>1, <3>2 DEF Shared, Owned
  <2> QED BY <2>1, <2>2
<1>4. r.gen \in Nat \ {0} /\ r.gen <= g.gen BY DEF MemberInv, Holds, NONE
<1>5. Sent(g, m, r, q) BY <1>1, <1>2, <1>3, <1>4 DEF Sent, Allowed
<1> QED BY <1>1, <1>5

\* The requests that say nothing of the group.
LEMMA MaySend ==
  ASSUME NEW g, NEW m, NEW r, NEW q, DOMAIN q = RequestFields,
         q.kind \notin {"sync", "commit"}, q.answer = Waiting
  PROVE  Sent(g, m, r, q)
<1>1. DOMAIN Waiting = AnswerFields /\ Waiting.error = "waiting" BY DEF Waiting, AnswerFields
<1> QED BY <1>1 DEF Sent, Allowed

LEMMA LookupMoves ==
  ASSUME JInv, NEW m \in Member, Lookup(m)
  PROVE  JInv'
<1> PICK r, s, t : /\ r = mem[m] /\ s = flight[m]
                   /\ t = [[r EXCEPT !.coord = TRUE] EXCEPT !.held = NoOffsets]
  OBVIOUS
<1> PICK u : u = [r EXCEPT !.coord = TRUE] OBVIOUS
<1> PICK q : q = CommitRequest(u, r.held, FALSE) OBVIOUS
<1>1. MemberInv(group, m, r, s) /\ DOMAIN r = Fields BY DEF JInv, MemberInv, Orderly
<1>2. ~r.coord /\ group' = group BY DEF Lookup, LookupDone, Local, broker
<1>3. u.held = r.held /\ u.st = r.st /\ q = CommitRequest(r, r.held, FALSE)
  BY <1>1 DEF CommitRequest, Fields
<1>4. /\ Become(m, t)
      /\ \/ Queue(m, s)
         \/ r.st = "stable" /\ Queue(m, Append(s, q))
  BY <1>3 DEF Lookup, LookupDone, CommitSent
<1>5. /\ DOMAIN t = Fields /\ t.coord = TRUE /\ t.held = NoOffsets
      /\ \A f \in Fields \ {"coord", "held"} : t[f] = r[f]
  BY <1>1 DEF Fields
<1>6. Turned(r, t)
  <2>1. /\ Same(r, t) /\ t.sub = r.sub /\ t.given = r.given /\ t.asg = r.asg /\ t.pc = r.pc
        /\ t.rejoining = r.rejoining
    BY <1>5 DEF Same, Fields
  <2> QED BY <1>1, <1>2, <1>5, <2>1 DEF Turned, MemberInv, Orderly, Same
<1>7. MemberInv(group, m, t, s) BY <1>1, <1>6, Turns
<1>8. CASE r.st = "stable" /\ Queue(m, Append(s, q))
  <2>1. Sent(group, m, r, q) /\ q.kind \notin {"join", "sync"}
    BY <1>1, <1>3, <1>8, MayCommit
  <2>2. Free(r) BY <1>1, <1>2, <1>8 DEF Free, MemberInv, Orderly
  <2>3. MemberInv(group, m, r, Append(s, q)) BY <1>1, <2>1, <2>2, FreeGrows
  <2>4. MemberInv(group, m, t, Append(s, q)) BY <1>6, <2>3, Turns
  <2> QED BY <1>2, <1>4, <1>8, <2>4, OwnMoves
<1>9. CASE Queue(m, s) BY <1>2, <1>4, <1>7, <1>9, OwnMoves
<1> QED BY <1>4, <1>8, <1>9

\* A turn of a commit.
LEMMA CommitTurnMoves ==
  ASSUME JInv, NEW m \in Member, NEW r, MemberInv(group, m, r, flight[m]),
         ~r.leaving, r.pc # "join", CommitTurn(m, r), Local
  PROVE  JInv'
<1> PICK s : s = flight[m] OBVIOUS
<1> PICK q : q = CommitRequest(r, Consumed(r), TRUE) OBVIOUS
<1>1. MemberInv(group, m, r, s) /\ DOMAIN r = Fields /\ group' = group
  BY DEF MemberInv, Orderly, Local, broker
<1>2. ASSUME NEW cf, NEW t, t = [r EXCEPT !.cf = cf] PROVE Turned(r, t)
  <2>1. DOMAIN t = Fields /\ \A f \in Fields \ {"cf"} : t[f] = r[f] BY <1>1, <1>2 DEF Fields
  <2>2. /\ Same(r, t) /\ t.sub = r.sub /\ t.given = r.given /\ t.asg = r.asg /\ t.pc = r.pc
        /\ t.coord = r.coord /\ t.rejoining = r.rejoining /\ t.held = r.held
    BY <2>1 DEF Same, Fields
  <2> QED BY <1>1, <2>2 DEF Turned, MemberInv, Orderly, Same
<1>3. CASE /\ CommitSent(m, r) /\ Become(m, [r EXCEPT !.cf = "pending"])
           /\ Queue(m, Append(s, q))
  <2>1. r.st = "stable" /\ Free(r) /\ r.sub
    BY <1>1, <1>3 DEF CommitSent, Free, MemberInv, Orderly
  <2>2. Sent(group, m, r, q) /\ q.kind \notin {"join", "sync"} BY <1>1, <2>1, MayCommit
  <2>3. MemberInv(group, m, r, Append(s, q)) BY <1>1, <2>1, <2>2, FreeGrows
  <2>4. MemberInv(group, m, [r EXCEPT !.cf = "pending"], Append(s, q)) BY <1>2, <2>3, Turns
  <2> QED BY <1>1, <1>3, <2>4, OwnMoves
<1>4. ASSUME NEW cf, Become(m, [r EXCEPT !.cf = cf]), UNCHANGED flight
      PROVE  JInv'
  <2>1. MemberInv(group, m, [r EXCEPT !.cf = cf], s) BY <1>1, <1>2, Turns
  <2> QED BY <1>1, <1>4, <2>1, OwnMoves
<1> QED BY <1>3, <1>4 DEF CommitTurn

\* Changes of fields that are no part of the membership.
Beside == {"pc", "cf", "hb", "cache", "rejoining", "coord", "pos"}
LEMMA TurnsBeside ==
  ASSUME NEW g, NEW m, NEW r, NEW s, NEW t, MemberInv(g, m, r, s),
         DOMAIN t = Fields, \A f \in Fields \ Beside : t[f] = r[f],
         t.coord => r.coord,
         t.pc \in {"prepare", "join"} => r.rejoin /\ r.sub,
         t.pc = "join" => t.rejoining,
         r.join # "none" => t.rejoining,
         r.join = "pending" => t.pc \in {"join", "user", "commit"} /\ t.coord,
         r.join = "ok" => t.pc = "join" /\ t.coord
  PROVE  MemberInv(g, m, t, s)
<1>1. /\ Same(r, t) /\ t.sub = r.sub /\ t.given = r.given /\ t.asg = r.asg /\ t.held = r.held
      /\ t.join = r.join /\ t.rejoin = r.rejoin
  BY DEF Same, Fields, Beside
<1>2. Turned(r, t) BY <1>1 DEF Turned, MemberInv, Orderly
<1> QED BY <1>2, Turns

\* The join is done: the member has its share, and no positions yet.
LEMMA JoinDoneMoves ==
  ASSUME JInv, NEW m \in Member, JoinDone(m)
  PROVE  JInv'
<1>a. PICK r, s : r = mem[m] /\ s = flight[m] OBVIOUS
<1>b. PICK u : u = [r EXCEPT !.pc = "user", !.join = "none", !.given = {}] OBVIOUS
<1>c. PICK t : t = [u EXCEPT !.rejoining = FALSE, !.rejoin = FALSE] OBVIOUS
<1>d. PICK v : v = AssignFromSubscribed(t, r.given) OBVIOUS
<1>1. /\ MemberInv(group, m, r, s) /\ Orderly(r, s) /\ Holds(group, m, r)
      /\ Requests(group, m, r, s) /\ DOMAIN r = Fields /\ group' = group
  BY <1>a DEF JInv, MemberInv, Orderly, JoinDone, Alone, Local, broker
<1>2. /\ r.pc = "join" /\ ~r.leaving /\ r.join \in {"ok", "failed"} /\ flight' = flight
      /\ Become(m, IF r.join = "failed" THEN u ELSE OnJoinComplete(t, r.given))
  BY <1>a, <1>b, <1>c DEF JoinDone, Runs, Alone
<1>3. /\ DOMAIN u = Fields /\ u.pc = "user" /\ u.join = "none"
      /\ \A f \in Fields \ {"pc", "join", "given"} : u[f] = r[f]
  BY <1>1, <1>b DEF Fields
<1>4. /\ u.st = r.st /\ u.gen = r.gen /\ u.mid = r.mid /\ u.held = r.held /\ u.asg = r.asg
      /\ u.rejoin = r.rejoin /\ u.leaving = r.leaving /\ u.sub = r.sub /\ u.coord = r.coord
  BY <1>3 DEF Fields
<1>5. CASE r.join = "failed"
  <2>1. Orderly(u, s) BY <1>1, <1>2, <1>3, <1>4, <1>5 DEF Orderly
  <2>2. Holds(group, m, u) BY <1>1, <1>3, <1>4, <1>5 DEF Holds, Share
  <2>3. Requests(group, m, u, s) BY <1>1, <1>4, SameRequests
  <2>4. MemberInv(group, m, u, s) BY <2>1, <2>2, <2>3 DEF MemberInv
  <2> QED BY <1>a, <1>1, <1>2, <1>5, <2>4, OwnMoves
<1>6. CASE r.join = "ok"
  <2>1. r.st = "stable" /\ r.gen # NONE /\ r.sub /\ s = <<>>
    BY <1>1, <1>6 DEF Orderly, Holds
  <2>2. /\ DOMAIN t = Fields /\ t.rejoining = FALSE /\ t.rejoin = FALSE
        /\ \A f \in Fields \ {"rejoin", "rejoining"} : t[f] = u[f]
    BY <1>3, <1>c DEF Fields
  <2>3. t.gen = r.gen BY <1>4, <2>2 DEF Fields
  <2>4. Become(m, v) BY <1>2, <1>6, <1>d, <2>1, <2>3 DEF OnJoinComplete
  <2>5. /\ DOMAIN v = Fields /\ v.asg = r.given
        /\ \A f \in Fields \ {"asg", "pos"} : v[f] = t[f]
    BY <1>d, <2>2 DEF AssignFromSubscribed, Fields
  <2>a. /\ v.st = u.st /\ v.gen = u.gen /\ v.mid = u.mid /\ v.held = u.held /\ v.pc = u.pc
        /\ v.leaving = u.leaving /\ v.sub = u.sub /\ v.coord = u.coord /\ v.join = u.join
    BY <2>2, <2>5 DEF Fields
  <2>6. /\ v.st = "stable" /\ v.gen = r.gen /\ v.mid = r.mid /\ v.held = r.held
        /\ v.leaving = r.leaving /\ v.sub = r.sub /\ v.coord = r.coord
        /\ v.pc = "user" /\ v.join = "none"
    BY <1>3, <1>4, <2>1, <2>a
  <2>7. Orderly(v, s) BY <1>1, <1>2, <2>1, <2>5, <2>6 DEF Orderly
  <2>8. Holds(group, m, v) BY <1>1, <1>6, <2>1, <2>5, <2>6 DEF Holds, Share
  <2>9. MemberInv(group, m, v, s) BY <2>1, <2>7, <2>8, NoRequests DEF MemberInv
  <2> QED BY <1>a, <1>1, <1>2, <2>4, <2>9, OwnMoves
<1> QED BY <1>2, <1>5, <1>6

LEMMA SendJoinMoves ==
  ASSUME JInv, NEW m \in Member, SendJoin(m)
  PROVE  JInv'
<1>a. PICK r, s : r = mem[m] /\ s = flight[m] OBVIOUS
<1>b. PICK q : q = Request("join", r.gen, r.mid) OBVIOUS
<1>1. /\ MemberInv(group, m, r, s) /\ Orderly(r, s) /\ Holds(group, m, r)
      /\ DOMAIN r = Fields /\ group' = group
  BY <1>a DEF JInv, MemberInv, Orderly, SendJoin, Local, broker
<1>2. r.pc = "join" /\ ~r.leaving /\ r.coord /\ r.join = "none" /\ s = <<>>
  BY <1>a DEF SendJoin, Runs
<1>3. r.rejoin /\ r.sub /\ r.rejoining /\ r.held = NoOffsets BY <1>1, <1>2 DEF Orderly
<1>4. CASE Become(m, InitiateJoin(r)) /\ Queue(m, <<q>>)
  <2>1. PICK t : t = [r EXCEPT !.st = "rebalancing", !.join = "pending"] OBVIOUS
  <2>a. Become(m, t) BY <1>4, <2>1 DEF InitiateJoin
  <2>b. /\ DOMAIN t = Fields /\ t.st = "rebalancing" /\ t.join = "pending"
        /\ t.rejoin /\ t.sub /\ t.rejoining /\ t.held = NoOffsets /\ t.pc = "join"
        /\ ~t.leaving /\ t.coord /\ t.gen = r.gen /\ t.mid = r.mid
    BY <1>1, <1>2, <1>3, <2>1 DEF Fields
  <2>2. Sent(group, m, t, q) /\ q.kind = "join"
    <3>1. DOMAIN q = RequestFields /\ q.kind = "join" /\ q.answer = Waiting
      BY <1>b DEF Request, RequestFields
    <3> QED BY <3>1, MaySend
  <2>3. Append(<<>>, q) = <<q>> OBVIOUS
  <2>c. Requests(group, m, t, <<>>) BY NoRequests
  <2>d. Requests(group, m, t, Append(<<>>, q)) BY <2>2, <2>c, MoreRequests
  <2>4. Requests(group, m, t, <<q>>) BY <2>3, <2>d
  <2>5. Len(<<q>>) = 1 /\ <<q>>[1] = q OBVIOUS
  <2>6. Orderly(t, <<q>>) BY <2>b, <2>2, <2>5 DEF Orderly
  <2>7. Holds(group, m, t) BY <1>1, <2>b DEF Holds
  <2>8. MemberInv(group, m, t, <<q>>) BY <2>4, <2>6, <2>7 DEF MemberInv
  <2> QED BY <1>1, <1>4, <2>a, <2>8, OwnMoves
<1>5. CASE Become(m, [r EXCEPT !.st = "unjoined", !.join = "failed"]) /\ flight' = flight
  <2>a. PICK t : t = [r EXCEPT !.st = "unjoined", !.join = "failed"] OBVIOUS
  <2>b. /\ DOMAIN t = Fields /\ t.st = "unjoined" /\ t.join = "failed"
        /\ t.rejoin /\ t.sub /\ t.rejoining /\ t.held = NoOffsets /\ t.pc = "join"
        /\ ~t.leaving /\ t.coord /\ t.gen = r.gen /\ t.mid = r.mid
    BY <1>1, <1>2, <1>3, <2>a DEF Fields
  <2>1. Orderly(t, s) BY <1>2, <2>b DEF Orderly
  <2>2. Holds(group, m, t) BY <1>1, <2>b DEF Holds
  <2>3. MemberInv(group, m, t, s) BY <1>2, <2>1, <2>2, NoRequests DEF MemberInv
  <2> QED BY <1>a, <1>1, <1>5, <2>a, <2>3, OwnMoves
<1> QED BY <1>a, <1>b, <1>4, <1>5 DEF SendJoin

LEMMA JoinMoves ==
  ASSUME JInv, NEW m \in Member, Join(m)
  PROVE  JInv'
<1>a. PICK r, s : r = mem[m] /\ s = flight[m] OBVIOUS
<1>1. MemberInv(group, m, r, s) /\ Orderly(r, s) /\ DOMAIN r = Fields
  BY <1>a DEF JInv, MemberInv, Orderly
\* It is held off, from the start of poll() or after the commit.
<1>2. ASSUME NEW q, MemberInv(group, m, r, q), r.join # "pending", r.join # "ok", r.rejoin, r.sub
      PROVE  MemberInv(group, m, HeldOff(r), q)
  <2>1. PICK t : t = HeldOff(r) OBVIOUS
  <2>2. /\ DOMAIN t = Fields /\ t.pc = "join" /\ t.rejoining /\ t.coord = r.coord
        /\ \A f \in Fields \ Beside : t[f] = r[f]
    BY <1>1, <2>1 DEF HeldOff, Fields, Beside
  <2> QED BY <1>2, <2>1, <2>2, TurnsBeside
<1>3. CASE Rejoin(m)
  <2>1. r.pc = "user" /\ ~r.leaving /\ r.sub /\ r.rejoin /\ r.coord /\ ~r.rejoining
    BY <1>a, <1>3 DEF Rejoin, Runs, NeedRejoin
  <2>2. r.join = "none" BY <1>1, <2>1 DEF Orderly
  <2>3. CASE Become(m, HeldOff(r)) /\ UNCHANGED flight /\ Local
    BY <1>a, <1>1, <1>2, <2>1, <2>2, <2>3, OwnMoves DEF Local, broker
  <2>4. CASE AutoCommit(m, [r EXCEPT !.pc = "prepare"]) /\ Local
    <3>1. PICK t : t = [r EXCEPT !.pc = "prepare"] OBVIOUS
    <3>2. /\ DOMAIN t = Fields /\ t.pc = "prepare" /\ t.coord = r.coord
          /\ t.rejoining = r.rejoining /\ t.leaving = r.leaving
          /\ \A f \in Fields \ Beside : t[f] = r[f]
      BY <1>1, <3>1 DEF Fields, Beside
    <3>3. MemberInv(group, m, t, s) BY <1>1, <2>1, <2>2, <3>2, TurnsBeside
    <3> QED BY <1>a, <2>1, <2>4, <3>1, <3>2, <3>3, CommitTurnMoves DEF AutoCommit
  <2> QED BY <1>a, <1>3, <2>3, <2>4 DEF Rejoin
<1>4. CASE RejoinAgain(m)
  <2>1. PICK t : t = [r EXCEPT !.pc = "join"] OBVIOUS
  <2>2. r.pc = "user" /\ r.sub /\ r.rejoin /\ r.rejoining /\ Become(m, t)
    BY <1>a, <1>4, <2>1 DEF RejoinAgain, Runs, NeedRejoin
  <2>3. /\ DOMAIN t = Fields /\ t.pc = "join" /\ t.coord = r.coord /\ t.rejoining = r.rejoining
        /\ \A f \in Fields \ Beside : t[f] = r[f]
    BY <1>1, <2>1 DEF Fields, Beside
  <2>4. r.join = "pending" => t.coord BY <1>1, <2>3 DEF Orderly
  <2>5. r.join # "ok" BY <1>1, <2>2 DEF Orderly
  <2>6. MemberInv(group, m, t, s) BY <1>1, <2>2, <2>3, <2>4, <2>5, TurnsBeside
  <2> QED BY <1>a, <1>4, <2>2, <2>6, OwnMoves DEF RejoinAgain, Alone, Local, broker
<1>5. CASE CommitAgain(m)
  <2>1. ~r.leaving /\ r.pc # "join" BY <1>a, <1>5 DEF CommitAgain, Runs
  <2> QED BY <1>a, <1>1, <1>5, <2>1, CommitTurnMoves DEF CommitAgain
<1>6. CASE Prepared(m)
  <2>1. r.pc = "prepare" BY <1>a, <1>6 DEF Prepared, Runs
  <2>2. r.rejoin /\ r.sub /\ r.join # "pending" /\ r.join # "ok" BY <1>1, <2>1 DEF Orderly
  <2>3. MemberInv(group, m, HeldOff(r), GiveUp(s)) BY <1>1, <1>2, <2>2, GivesUp
  <2> QED BY <1>a, <1>6, <2>3, OwnMoves DEF Prepared, Local, broker
<1> QED BY <1>3, <1>4, <1>5, <1>6, SendJoinMoves, JoinDoneMoves DEF Join

LEMMA ReadMoves ==
  ASSUME JInv, NEW m \in Member, Read(m)
  PROVE  JInv'
<1>a. PICK r, s : r = mem[m] /\ s = flight[m] OBVIOUS
<1>1. MemberInv(group, m, r, s) /\ Orderly(r, s) /\ DOMAIN r = Fields
  BY <1>a DEF JInv, MemberInv, Orderly
<1>2. group' = group
  BY DEF Read, Return, FindOffsets, SendOffsetFetch, OffsetsDone, Alone, Local, broker
<1>3. r.pc \in {"user", "offsets"} /\ (r.pc = "user" => ~r.rejoin)
  BY <1>a DEF Read, Return, FindOffsets, SendOffsetFetch, OffsetsDone, Polls, Runs, NeedRejoin
<1>4. Free(r) BY <1>1, <1>3 DEF Orderly, Free
<1>5. ASSUME NEW t, NEW q, MemberInv(group, m, r, q),
             DOMAIN t = Fields, t.pc \in {"user", "offsets"}, t.coord = r.coord,
             t.rejoining = r.rejoining, \A f \in Fields \ Beside : t[f] = r[f]
      PROVE  MemberInv(group, m, t, q)
  <2>1. r.join # "none" => r.rejoining BY <1>1 DEF Orderly
  <2> QED BY <1>4, <1>5, <2>1, TurnsBeside DEF Free
<1>6. CASE Return(m)
  <2>1. PICK p : Become(m, [r EXCEPT !.pos[p] = @ + 1]) /\ UNCHANGED flight
    BY <1>a, <1>6 DEF Return
  <2>2. PICK t : t = [r EXCEPT !.pos[p] = @ + 1] OBVIOUS
  <2>3. /\ DOMAIN t = Fields /\ t.pc = r.pc /\ t.coord = r.coord /\ t.rejoining = r.rejoining
        /\ \A f \in Fields \ Beside : t[f] = r[f]
    BY <1>1, <2>2 DEF Fields, Beside
  <2>4. MemberInv(group, m, t, s) BY <1>1, <1>3, <1>5, <2>3
  <2> QED BY <1>a, <1>2, <2>1, <2>2, <2>4, OwnMoves
<1>7. CASE FindOffsets(m)
  <2>2. PICK t : t = [r EXCEPT !.pc = "offsets"] OBVIOUS
  <2>3. /\ DOMAIN t = Fields /\ t.pc = "offsets" /\ t.coord = r.coord
        /\ t.rejoining = r.rejoining /\ \A f \in Fields \ Beside : t[f] = r[f]
    BY <1>1, <2>2 DEF Fields, Beside
  <2>4. MemberInv(group, m, t, s) BY <1>1, <1>5, <2>3
  <2> QED BY <1>a, <1>2, <1>7, <2>2, <2>4, OwnMoves DEF FindOffsets, Alone
<1>8. CASE SendOffsetFetch(m)
  <2>1. PICK q : q = [Request("offsets", NONE, NONE) EXCEPT !.key = Missing(r)] OBVIOUS
  <2>2. PICK t : t = [r EXCEPT !.cache[Missing(r)].st = "pending"] OBVIOUS
  <2>3. /\ DOMAIN t = Fields /\ t.pc = r.pc /\ t.coord = r.coord /\ t.rejoining = r.rejoining
        /\ \A f \in Fields \ Beside : t[f] = r[f]
    BY <1>1, <2>2 DEF Fields, Beside
  <2>4. DOMAIN q = RequestFields /\ q.kind = "offsets" /\ q.answer = Waiting
    BY <2>1 DEF Request, RequestFields
  <2>5. MemberInv(group, m, r, Append(s, q)) BY <1>1, <1>4, <2>4, MaySend, FreeGrows
  <2>6. MemberInv(group, m, t, Append(s, q)) BY <1>3, <1>5, <2>3, <2>5
  <2>7. Become(m, t) /\ Queue(m, Append(s, q)) BY <1>a, <1>8, <2>1, <2>2 DEF SendOffsetFetch
  <2> QED BY <1>2, <2>6, <2>7, OwnMoves
<1>9. CASE OffsetsDone(m)
  <2>1. PICK t : /\ Become(m, t) /\ flight' = flight
                 /\ DOMAIN t = Fields /\ t.pc \in {"user", "offsets"} /\ t.coord = r.coord
                 /\ t.rejoining = r.rejoining /\ \A f \in Fields \ Beside : t[f] = r[f]
    <3> DEFINE pos == [p \in Partition |->
                         IF p \notin Missing(r) THEN r.pos[p]
                         ELSE IF Cached(r).at[p] # None THEN Cached(r).at[p] ELSE 0]
    <3>1. PICK t, u : /\ t = [r EXCEPT !.pc = "user", !.cache = Forget(r), !.pos = pos]
                      /\ u = [r EXCEPT !.cache = Forget(r)]
      OBVIOUS
    <3>2. flight' = flight /\ (Become(m, t) \/ Become(m, u))
      BY <1>a, <1>9, <3>1 DEF OffsetsDone, Alone
    <3> HIDE DEF pos
    <3>3. /\ DOMAIN t = Fields /\ t.pc = "user" /\ t.coord = r.coord
          /\ t.rejoining = r.rejoining /\ \A f \in Fields \ Beside : t[f] = r[f]
      BY <1>1, <3>1 DEF Fields, Beside
    <3>4. /\ DOMAIN u = Fields /\ u.pc = r.pc /\ u.coord = r.coord
          /\ u.rejoining = r.rejoining /\ \A f \in Fields \ Beside : u[f] = r[f]
      BY <1>1, <3>1 DEF Fields, Beside
    <3> QED BY <1>3, <3>2, <3>3, <3>4
  <2>2. MemberInv(group, m, t, s) BY <1>1, <1>5, <2>1
  <2> QED BY <1>a, <1>2, <2>1, <2>2, OwnMoves
<1> QED BY <1>6, <1>7, <1>8, <1>9 DEF Read

\* Leaving, with the subscription or after it is gone.
LEMMA LeaveMoves ==
  ASSUME JInv, NEW m \in Member, NEW r, NEW u, NEW q, group' = group,
         MemberInv(group, m, r, q), Free(r), r.pc \notin {"prepare", "join"},
         DOMAIN u = Fields, \A f \in Fields \ {"sub", "asg", "pos"} : u[f] = r[f],
         u.sub => r.sub /\ u.asg = r.asg,
         LeaveGroup(m, u, q)
  PROVE  JInv'
<1>1. /\ Orderly(r, q) /\ Holds(group, m, r) /\ Requests(group, m, r, q) /\ DOMAIN r = Fields
      /\ group.gen \in Nat
  BY DEF MemberInv, Orderly, JInv, GroupInv
<1>2. /\ u.st = r.st /\ u.join = r.join /\ u.pc = r.pc /\ u.coord = r.coord
      /\ u.rejoin = r.rejoin /\ u.rejoining = r.rejoining /\ u.held = r.held
      /\ u.gen = r.gen /\ u.mid = r.mid
  BY DEF Fields
<1>3. \A i \in 1 .. Len(q) : q[i].kind \notin {"join", "sync"} BY <1>1 DEF Orderly, Free
<1>4. CASE /\ Become(m, [u EXCEPT !.leaving = TRUE])
           /\ Queue(m, Append(q, Request("leave", u.gen, u.mid)))
  <2>1. PICK t : t = [u EXCEPT !.leaving = TRUE] OBVIOUS
  <2>2. PICK l : l = Request("leave", u.gen, u.mid) OBVIOUS
  <2>3. DOMAIN l = RequestFields /\ l.kind = "leave" /\ l.answer = Waiting
    BY <2>2 DEF Request, RequestFields
  <2>4. /\ DOMAIN t = Fields /\ t.leaving = TRUE /\ \A f \in Fields \ {"leaving"} : t[f] = u[f]
    BY <2>1 DEF Fields
  <2>5. /\ t.st = r.st /\ t.join = r.join /\ t.pc = r.pc /\ t.coord = r.coord
        /\ t.rejoin = r.rejoin /\ t.rejoining = r.rejoining /\ t.held = r.held
        /\ t.gen = r.gen /\ t.mid = r.mid /\ t.sub = u.sub /\ t.asg = u.asg
    BY <1>2, <2>4 DEF Fields
  <2>6. Orderly(t, q) BY <1>1, <1>3, <2>4, <2>5 DEF Orderly, Free
  <2>7. Holds(group, m, t) BY <1>1, <2>5 DEF Holds, Share, Free
  <2>8. Requests(group, m, t, q) BY <1>1, <2>5, SameRequests
  <2>9. MemberInv(group, m, t, q) /\ Free(t) BY <2>5, <2>6, <2>7, <2>8 DEF MemberInv, Free
  <2>10. MemberInv(group, m, t, Append(q, l)) BY <2>3, <2>9, MaySend, FreeGrows
  <2> QED BY <1>4, <2>1, <2>2, <2>10, OwnMoves
<1>5. CASE Become(m, ResetGeneration(u, NONE)) /\ Queue(m, q)
  <2>1. PICK t : t = ResetGeneration(u, NONE) OBVIOUS
  <2>4. /\ DOMAIN t = Fields /\ t.gen = NONE /\ t.rejoin = TRUE /\ t.st = "unjoined"
        /\ \A f \in Fields \ {"gen", "mid", "rejoin", "st"} : t[f] = u[f]
    BY <2>1 DEF ResetGeneration, Fields
  <2>5. /\ t.join = r.join /\ t.pc = r.pc /\ t.coord = r.coord
        /\ t.rejoining = r.rejoining /\ t.held = r.held
    BY <1>2, <2>4 DEF Fields
  <2>6. Orderly(t, q) BY <1>1, <1>3, <2>4, <2>5 DEF Orderly, Free
  <2>7. Holds(group, m, t) BY <1>1, <2>4 DEF Holds, NONE
  <2>8. Requests(group, m, t, q) BY <1>1, <1>3, SameRequests
  <2>9. MemberInv(group, m, t, q) BY <2>6, <2>7, <2>8 DEF MemberInv
  <2> QED BY <1>5, <2>1, <2>9, OwnMoves
<1> QED BY <1>4, <1>5 DEF LeaveGroup

LEMMA UserMoves ==
  ASSUME JInv, ~Gap, NEW m \in Member, User(m)
  PROVE  JInv'
<1>a. PICK r, s : r = mem[m] /\ s = flight[m] OBVIOUS
<1>1. MemberInv(group, m, r, s) /\ Orderly(r, s) /\ DOMAIN r = Fields
  BY <1>a DEF JInv, MemberInv, Orderly
\* The end of a wait.
<1>2. PICK u : u = [r EXCEPT !.pc = "user", !.cf = "none"] OBVIOUS
<1>3. ASSUME NEW q, MemberInv(group, m, r, q), r.join # "ok" PROVE MemberInv(group, m, u, q)
  <2>1. /\ DOMAIN u = Fields /\ u.pc = "user" /\ u.coord = r.coord
        /\ u.rejoining = r.rejoining /\ \A f \in Fields \ Beside : u[f] = r[f]
    BY <1>1, <1>2 DEF Fields, Beside
  <2>2. (r.join # "none" => r.rejoining) /\ (r.join = "pending" => r.coord)
    BY <1>1 DEF Orderly
  <2> QED BY <1>3, <2>1, <2>2, TurnsBeside
<1>4. CASE Timeout(m)
  <2>1. r.join # "ok" BY <1>a, <1>1, <1>4 DEF Timeout, Runs, Orderly
  <2>2. MemberInv(group, m, u, GiveUp(s)) BY <1>1, <1>3, <2>1, GivesUp
  <2> QED BY <1>a, <1>2, <1>4, <2>2, OwnMoves DEF Timeout, Local, broker
<1>5. CASE Commit(m)
  <2>1. PICK t : t = [r EXCEPT !.pc = "commit"] OBVIOUS
  <2>2. /\ DOMAIN t = Fields /\ t.pc = "commit" /\ t.coord = r.coord /\ t.leaving = r.leaving
        /\ t.rejoining = r.rejoining /\ \A f \in Fields \ Beside : t[f] = r[f]
    BY <1>1, <2>1 DEF Fields, Beside
  <2>3. r.pc = "user" /\ ~r.leaving BY <1>a, <1>5 DEF Commit, Runs
  <2>4. /\ r.join # "ok" /\ (r.join # "none" => r.rejoining) /\ (r.join = "pending" => r.coord)
    BY <1>1, <2>3 DEF Orderly
  <2>5. MemberInv(group, m, t, s) BY <1>1, <2>2, <2>4, TurnsBeside
  <2> QED BY <1>a, <1>5, <2>1, <2>2, <2>3, <2>5, CommitTurnMoves DEF Commit
<1>6. CASE CommitDone(m)
  <2>1. r.join # "ok" BY <1>a, <1>1, <1>6 DEF CommitDone, Runs, Orderly
  <2>2. MemberInv(group, m, u, s) BY <1>1, <1>3, <2>1
  <2> QED BY <1>a, <1>2, <1>6, <2>2, OwnMoves DEF CommitDone, Alone, Local, broker
<1>7. CASE CommitAsync(m)
  <2>1. r.pc = "user" /\ ~r.leaving BY <1>a, <1>7 DEF CommitAsync, Runs
  <2>2. PICK at : at = Consumed(r) OBVIOUS
  <2>3. PICK q : q = CommitRequest(r, at, FALSE) OBVIOUS
  <2>4. PICK t : t = [r EXCEPT !.held = at] OBVIOUS
  <2>5. r.st = "stable" => r.sub /\ Free(r) BY <1>1, <2>1 DEF Orderly, Free
  <2>6. CASE r.st = "stable" /\ Queue(m, Append(s, q)) /\ UNCHANGED mem /\ Local
    <3>1. Sent(group, m, r, q) /\ q.kind \notin {"join", "sync"}
      BY <1>1, <2>2, <2>3, <2>5, <2>6, MayCommit
    <3>2. MemberInv(group, m, r, Append(s, q)) BY <1>1, <2>5, <2>6, <3>1, FreeGrows
    <3> QED BY <1>a, <2>6, <3>2, OwnMoves DEF Local, broker
  <2>7. CASE ~r.coord /\ Become(m, t) /\ UNCHANGED flight /\ Local
    <3>1. DOMAIN t = Fields /\ t.held = at /\ \A f \in Fields \ {"held"} : t[f] = r[f]
      BY <1>1, <2>4 DEF Fields
    <3>2. /\ t.st = r.st /\ t.join = r.join /\ t.pc = r.pc /\ t.coord = r.coord
          /\ t.rejoin = r.rejoin /\ t.rejoining = r.rejoining /\ t.leaving = r.leaving
          /\ t.gen = r.gen /\ t.mid = r.mid /\ t.sub = r.sub /\ t.asg = r.asg
          /\ t.given = r.given
      BY <3>1 DEF Fields
    <3>3. Orderly(t, s) BY <1>1, <2>7, <3>1, <3>2 DEF Orderly
    <3>4. r.st = "stable" => Owned(group, r.gen, <<m, r.mid>>, at)
      <4>1. r.st = "stable" => Shared(group, r.gen, <<m, r.mid>>, r.asg)
        BY <1>1, <2>5 DEF MemberInv, Holds, Share, Free
      <4>2. \A p \in Partition : at[p] # None => p \in r.asg BY <2>2 DEF Consumed
      <4> QED BY <4>1, <4>2 DEF Shared, Owned
    <3>5. Holds(group, m, t) BY <1>1, <3>1, <3>2, <3>4 DEF MemberInv, Holds, Share
    <3>6. MemberInv(group, m, t, s) BY <1>1, <3>2, <3>3, <3>5, SameRequests DEF MemberInv
    <3> QED BY <1>a, <2>7, <3>6, OwnMoves DEF Local, broker
  <2> QED BY <1>a, <1>7, <2>2, <2>3, <2>4, <2>6, <2>7
    DEF CommitAsync, CommitOffsetsAsync, CommitSent
<1>8. CASE Unsubscribe(m)
  <2>1. r.pc = "user" /\ ~r.leaving /\ r.sub /\ r.join = "none"
    BY <1>a, <1>8 DEF Unsubscribe, Runs
  <2>2. PICK c : c = CommitRequest(r, Consumed(r), FALSE) OBVIOUS
  <2>3. PICK q : q = IF CommitSent(m, r) /\ Consumed(r) # NoOffsets THEN Append(s, c) ELSE s
    OBVIOUS
  <2>4. MemberInv(group, m, r, q) /\ Free(r)
    <3>1. Free(r) BY <2>1 DEF Free
    <3>2. ASSUME r.st = "stable" PROVE MemberInv(group, m, r, Append(s, c))
      <4>1. Sent(group, m, r, c) /\ c.kind \notin {"join", "sync"}
        BY <1>1, <2>1, <2>2, <3>1, <3>2, MayCommit
      <4> QED BY <1>1, <3>1, <4>1, FreeGrows
    <3> QED BY <1>1, <2>3, <3>1, <3>2 DEF CommitSent
  <2>5. PICK v : v = Unsubscribed(r) OBVIOUS
  <2>6. /\ DOMAIN v = Fields /\ v.sub = FALSE
        /\ \A f \in Fields \ {"sub", "asg", "pos"} : v[f] = r[f]
    BY <1>1, <2>5 DEF Unsubscribed, Fields
  <2>7. LeaveGroup(m, v, q) /\ group' = group
    BY <1>a, <1>8, <2>2, <2>3, <2>5 DEF Unsubscribe, broker
  <2> QED BY <2>1, <2>4, <2>6, <2>7, LeaveMoves
<1>9. CASE Subscribe(m)
  <2>1. r.pc = "user" /\ ~r.leaving /\ ~r.sub BY <1>a, <1>9 DEF Subscribe, Runs
  <2>2. PICK t : t = Subscribed(r) OBVIOUS
  <2>3. DOMAIN t = Fields /\ t.sub = TRUE /\ \A f \in Fields \ {"sub"} : t[f] = r[f]
    BY <1>1, <2>2 DEF Subscribed, Fields
  <2>4. /\ t.st = r.st /\ t.join = r.join /\ t.pc = r.pc /\ t.coord = r.coord
        /\ t.rejoin = r.rejoin /\ t.rejoining = r.rejoining /\ t.leaving = r.leaving
        /\ t.gen = r.gen /\ t.mid = r.mid /\ t.held = r.held
    BY <2>3 DEF Fields
  <2>5. r.st = "unjoined" BY <1>1, <2>1 DEF Orderly
  <2>6. Orderly(t, s) BY <1>1, <2>1, <2>3, <2>4, <2>5 DEF Orderly
  <2>7. Holds(group, m, t) BY <1>1, <2>4, <2>5 DEF MemberInv, Holds
  <2>8. MemberInv(group, m, t, s) BY <1>1, <2>4, <2>6, <2>7, SameRequests DEF MemberInv
  <2> QED BY <1>a, <1>9, <2>2, <2>8, OwnMoves DEF Subscribe, Alone, Local, broker
<1> QED BY <1>4, <1>5, <1>6, <1>7, <1>8, <1>9 DEF User

LEMMA HeartbeatMoves ==
  ASSUME JInv, ~Gap, NEW m \in Member, HeartbeatThread(m)
  PROVE  JInv'
<1>a. PICK r, s : r = mem[m] /\ s = flight[m] OBVIOUS
<1>1. MemberInv(group, m, r, s) /\ Orderly(r, s) /\ DOMAIN r = Fields
  BY <1>a DEF JInv, MemberInv, Orderly
<1>2. Beats(m) => r.st = "stable" /\ ~r.leaving /\ Free(r)
  BY <1>a, <1>1 DEF Beats, Orderly, Free
<1>3. ASSUME NEW t, DOMAIN t = Fields, t.pc = r.pc, t.rejoining = r.rejoining, t.coord => r.coord,
             t.coord = r.coord \/ Free(r), \A f \in Fields \ Beside : t[f] = r[f]
      PROVE  MemberInv(group, m, t, s)
  <2>1. /\ t.pc \in {"prepare", "join"} => r.rejoin /\ r.sub
        /\ t.pc = "join" => t.rejoining
        /\ r.join # "none" => t.rejoining
        /\ r.join = "pending" => t.pc \in {"join", "user", "commit"} /\ t.coord
        /\ r.join = "ok" => t.pc = "join" /\ t.coord
    BY <1>1, <1>3 DEF Orderly, Free
  <2> QED BY <1>1, <1>3, <2>1, TurnsBeside
<1>4. CASE Heartbeat(m)
  <2>1. PICK q : q = Request("heartbeat", r.gen, r.mid) OBVIOUS
  <2>2. DOMAIN q = RequestFields /\ q.kind = "heartbeat" /\ q.answer = Waiting
    BY <2>1 DEF Request, RequestFields
  <2>3. Free(r) BY <1>2, <1>4 DEF Heartbeat
  <2>4. MemberInv(group, m, r, Append(s, q)) BY <1>1, <2>2, <2>3, MaySend, FreeGrows
  <2> QED BY <1>a, <1>4, <2>1, <2>4, OwnMoves DEF Heartbeat, Local, broker
<1>5. CASE HeartbeatOff(m)
  <2>1. PICK t : t = [r EXCEPT !.hb = FALSE] OBVIOUS
  <2>2. /\ DOMAIN t = Fields /\ t.pc = r.pc /\ t.coord = r.coord /\ t.rejoining = r.rejoining
        /\ \A f \in Fields \ Beside : t[f] = r[f]
    BY <1>1, <2>1 DEF Fields, Beside
  <2>3. MemberInv(group, m, t, s) BY <1>3, <2>2
  <2> QED BY <1>a, <1>5, <2>1, <2>3, OwnMoves DEF HeartbeatOff, Alone, Local, broker
<1>6. CASE SessionExpired(m)
  <2>1. PICK t : t = [r EXCEPT !.coord = FALSE] OBVIOUS
  <2>2. /\ DOMAIN t = Fields /\ t.pc = r.pc /\ t.coord = FALSE /\ t.rejoining = r.rejoining
        /\ \A f \in Fields \ Beside : t[f] = r[f]
    BY <1>1, <2>1 DEF Fields, Beside
  <2>3. Free(r) BY <1>2, <1>6 DEF SessionExpired
  <2>4. MemberInv(group, m, t, s) BY <1>3, <2>2, <2>3
  <2> QED BY <1>a, <1>6, <2>1, <2>4, OwnMoves DEF SessionExpired, broker
<1>7. CASE PollExpired(m)
  <2>1. /\ Free(r) /\ r.pc \notin {"prepare", "join"} /\ LeaveGroup(m, r, s) /\ group' = group
    BY <1>a, <1>2, <1>7 DEF PollExpired, broker
  <2> QED BY <1>1, <2>1, LeaveMoves
<1> QED BY <1>4, <1>5, <1>6, <1>7 DEF HeartbeatThread

----------------------------------------------------------------------------
(* Answers                                                                 *)

\* A join that fails leaves nothing behind.
LEMMA JoinFails ==
  ASSUME NEW g, NEW m, NEW r, NEW s, NEW t, MemberInv(g, m, r, s), r.join = "pending",
         g.gen \in Nat, DOMAIN t = Fields, t.gen \in {NONE, r.gen}, t.coord => r.coord,
         t.rejoin = TRUE,
         \A f \in Fields \ {"st", "gen", "mid", "coord", "rejoin"} : t[f] = r[f]
  PROVE  MemberInv(g, m, JoinFailed(t), <<>>)
<1>1. PICK u : u = JoinFailed(t) OBVIOUS
<1>2. /\ t.join = "pending" /\ t.pc = r.pc /\ t.sub = r.sub /\ t.rejoining = r.rejoining
      /\ t.leaving = r.leaving /\ t.held = r.held
  BY DEF Fields
<1>3. /\ DOMAIN u = Fields /\ u.join = "failed" /\ u.st = "unjoined"
      /\ \A f \in Fields \ {"join", "st"} : u[f] = t[f]
  BY <1>1, <1>2 DEF JoinFailed, Fields
<1>4. /\ u.pc = t.pc /\ u.sub = t.sub /\ u.rejoining = t.rejoining /\ u.leaving = t.leaving
      /\ u.held = t.held /\ u.gen = t.gen /\ u.coord = t.coord /\ u.rejoin = t.rejoin
  BY <1>3 DEF Fields
<1>5. MemberInv(g, m, u, <<>>) BY <1>2, <1>3, <1>4, OutOfJoin
<1> QED BY <1>1, <1>5

\* What an error leaves of a member whose join is pending.
LEMMA FallenFields ==
  ASSUME NEW r, NEW e, DOMAIN r = Fields, r.rejoin = TRUE
  PROVE  LET t == Fallen(r, e)
         IN  /\ DOMAIN t = Fields /\ t.gen \in {NONE, r.gen} /\ (t.coord => r.coord)
             /\ t.rejoin = TRUE
             /\ \A f \in Fields \ {"st", "gen", "mid", "coord", "rejoin"} : t[f] = r[f]
<1>1. PICK u, v : u = ResetGeneration(r, NONE) /\ v = [r EXCEPT !.coord = FALSE] OBVIOUS
<1>2. /\ DOMAIN u = Fields /\ u.gen = NONE /\ u.coord = r.coord /\ u.rejoin = TRUE
      /\ \A f \in Fields \ {"st", "gen", "mid", "coord", "rejoin"} : u[f] = r[f]
  BY <1>1 DEF ResetGeneration, Fields
<1>3. /\ DOMAIN v = Fields /\ v.gen = r.gen /\ v.coord = FALSE /\ v.rejoin = TRUE
      /\ \A f \in Fields \ {"st", "gen", "mid", "coord", "rejoin"} : v[f] = r[f]
  BY <1>1 DEF Fields
<1>4. PICK t : t = Fallen(r, e) OBVIOUS
<1>5. t \in {u, v, r} BY <1>1, <1>4 DEF Fallen
<1>6. /\ DOMAIN t = Fields /\ t.gen \in {NONE, r.gen} /\ (t.coord => r.coord) /\ t.rejoin = TRUE
      /\ \A f \in Fields \ {"st", "gen", "mid", "coord", "rejoin"} : t[f] = r[f]
  BY <1>2, <1>3, <1>5
<1> QED BY <1>4, <1>6

LEMMA MarkedToRejoin ==
  ASSUME NEW g, NEW m, NEW r, NEW s, MemberInv(g, m, r, s), Free(r)
  PROVE  /\ MemberInv(g, m, [r EXCEPT !.rejoin = TRUE], s)
         /\ Free([r EXCEPT !.rejoin = TRUE])
<1>1. PICK t : t = [r EXCEPT !.rejoin = TRUE] OBVIOUS
<1>2. DOMAIN r = Fields BY DEF MemberInv, Orderly
<1>3. DOMAIN t = Fields /\ t.rejoin = TRUE /\ \A f \in Fields \ {"rejoin"} : t[f] = r[f]
  BY <1>1, <1>2 DEF Fields
<1>4. /\ t.st = r.st /\ t.join = r.join /\ t.pc = r.pc /\ t.coord = r.coord /\ t.sub = r.sub
      /\ t.rejoining = r.rejoining /\ t.leaving = r.leaving /\ t.held = r.held
      /\ t.gen = r.gen /\ t.mid = r.mid /\ t.asg = r.asg /\ t.given = r.given
  BY <1>3 DEF Fields
<1>5. Orderly(t, s) BY <1>3, <1>4 DEF MemberInv, Orderly
<1>6. Holds(g, m, t) BY <1>4 DEF MemberInv, Holds, Share
<1>7. MemberInv(g, m, t, s) /\ Free(t)
  BY <1>4, <1>5, <1>6, SameRequests DEF MemberInv, Free
<1> QED BY <1>1, <1>7

\* The answer to a join: a new generation, and the request for its share.
LEMMA HandleJoinMoves ==
  ASSUME JInv, NEW m \in Member, HandleJoin(m) \/ HandleJoinError(m)
  PROVE  JInv'
<1>a. PICK r, s : r = mem[m] /\ s = flight[m] OBVIOUS
<1>b. PICK a : a = s[1].answer OBVIOUS
<1>1. /\ MemberInv(group, m, r, s) /\ Orderly(r, s) /\ Requests(group, m, r, s)
      /\ DOMAIN r = Fields /\ group.gen \in Nat /\ Holds(group, m, r)
  BY <1>a DEF JInv, MemberInv, Orderly, GroupInv
<1>2. s # <<>> /\ s[1].kind = "join" /\ group' = group
  BY <1>a DEF HandleJoin, HandleJoinError, Arrived, Done, Local, broker
<1>3. r.join = "pending" /\ Sent(group, m, r, s[1]) /\ Tail(s) = <<>>
  <2>1. /\ Sent(group, m, r, s[1]) /\ Len(s) \in Nat \ {0} /\ Len(Tail(s)) = Len(s) - 1
        /\ Requests(group, m, r, Tail(s))
    BY <1>1, <1>2, FewerRequests
  <2>2. 1 \in 1 .. Len(s) BY <2>1
  <2>3. r.join = "pending" /\ Len(s) = 1 BY <1>1, <1>2, <2>2 DEF Orderly
  <2>4. Tail(s) = <<>>
    <3>1. PICK t : t = Tail(s) OBVIOUS
    <3>2. t \in Seq(Entries(t)) /\ Len(t) = 0 BY <2>1, <2>3, <3>1 DEF Requests
    <3> QED BY <3>1, <3>2, EmptySeq
  <2> QED BY <2>1, <2>3, <2>4
<1>4. r.st = "rebalancing" /\ r.coord /\ r.rejoin = TRUE /\ r.sub /\ ~r.leaving /\ r.rejoining
      /\ r.held = NoOffsets /\ r.pc \in {"join", "user", "commit"}
  BY <1>1, <1>3 DEF Orderly
<1>5. CASE HandleJoin(m)
  <2>1. PICK t : t = [r EXCEPT !.gen = a.gen, !.mid = a.id] OBVIOUS
  <2>2. /\ DOMAIN t = Fields /\ t.gen = a.gen /\ t.mid = a.id
        /\ \A f \in Fields \ {"gen", "mid"} : t[f] = r[f]
    BY <1>1, <2>1 DEF Fields
  <2>3. /\ t.st = "rebalancing" /\ t.coord /\ t.rejoin /\ t.sub /\ ~t.leaving /\ t.rejoining
        /\ t.held = NoOffsets /\ t.pc \in {"join", "user", "commit"} /\ t.join = "pending"
    BY <1>3, <1>4, <2>2 DEF Fields
  <2>4. PICK plan : Become(m, t) /\
          Queue(m, Append(<<>>, [Request("sync", t.gen, t.mid) EXCEPT !.plan = plan]))
    BY <1>a, <1>b, <1>3, <1>4, <1>5, <2>1, <2>3 DEF HandleJoin, Said
  <2>5. PICK q : q = [Request("sync", t.gen, t.mid) EXCEPT !.plan = plan] OBVIOUS
  <2>6. /\ DOMAIN q = RequestFields /\ q.kind = "sync" /\ q.answer = Waiting
        /\ q.gen = t.gen /\ q.id = t.mid
    BY <2>5 DEF Request, RequestFields
  <2>7. a.gen \in Nat \ {0} /\ a.gen <= group.gen
    <3>1. a.error = "none" BY <1>a, <1>b, <1>5 DEF HandleJoin, Said
    <3> QED BY <1>b, <1>2, <1>3, <3>1 DEF Sent, Allowed
  <2>8. Sent(group, m, t, q)
    <3>1. DOMAIN Waiting = AnswerFields /\ Waiting.error = "waiting"
      BY DEF Waiting, AnswerFields
    <3> QED BY <2>2, <2>6, <2>7, <3>1 DEF Sent, Allowed, NONE
  <2>9. PICK u : u = Append(<<>>, q) OBVIOUS
  <2>10. u = <<q>> /\ Len(u) = 1 /\ u[1] = q BY <2>9
  <2>11. Requests(group, m, t, u)
    <3>1. Requests(group, m, t, <<>>) BY NoRequests
    <3> QED BY <2>8, <2>9, <3>1, MoreRequests
  <2>12. Orderly(t, u) BY <2>2, <2>3, <2>6, <2>10 DEF Orderly
  <2>13. Holds(group, m, t) BY <2>2, <2>3, <2>7 DEF Holds
  <2>14. MemberInv(group, m, t, u) BY <2>11, <2>12, <2>13 DEF MemberInv
  <2> QED BY <1>2, <2>4, <2>5, <2>9, <2>14, OwnMoves
<1>6. CASE HandleJoinError(m)
  <2>1. PICK u : u = ResetGeneration(r, a.id) OBVIOUS
  <2>2. /\ DOMAIN u = Fields /\ u.gen = NONE /\ u.coord = r.coord /\ u.rejoin = TRUE
        /\ \A f \in Fields \ {"st", "gen", "mid", "coord", "rejoin"} : u[f] = r[f]
    BY <1>1, <2>1 DEF ResetGeneration, Fields
  <2>3. MemberInv(group, m, JoinFailed(u), <<>>) BY <1>1, <1>3, <2>2, JoinFails
  <2>4. PICK t : t = Fallen(r, a.error) OBVIOUS
  <2>5. /\ DOMAIN t = Fields /\ t.gen \in {NONE, r.gen} /\ (t.coord => r.coord)
        /\ t.rejoin = TRUE
        /\ \A f \in Fields \ {"st", "gen", "mid", "coord", "rejoin"} : t[f] = r[f]
    BY ZenonT(40), <1>1, <1>4, <2>4, FallenFields
  <2>6. MemberInv(group, m, JoinFailed(t), <<>>) BY <1>1, <1>3, <2>5, JoinFails
  <2>7. Queue(m, <<>>) /\ (Become(m, JoinFailed(u)) \/ Become(m, JoinFailed(t)))
    BY <1>a, <1>b, <1>3, <1>6, <2>1, <2>4 DEF HandleJoinError, Said, Done
  <2> QED BY <1>2, <2>3, <2>6, <2>7, OwnMoves
<1> QED BY <1>5, <1>6

\* The answer with the share, and the one that says why there is none.
LEMMA HandleSyncMoves ==
  ASSUME JInv, ~Gap, NEW m \in Member, HandleSync(m) \/ HandleSyncError(m)
  PROVE  JInv'
<1>a. PICK r, s : r = mem[m] /\ s = flight[m] OBVIOUS
<1>b. PICK a : a = s[1].answer OBVIOUS
<1>1. /\ MemberInv(group, m, r, s) /\ Orderly(r, s) /\ Requests(group, m, r, s)
      /\ DOMAIN r = Fields /\ group.gen \in Nat /\ Holds(group, m, r)
  BY <1>a DEF JInv, MemberInv, Orderly, GroupInv
<1>2. s # <<>> /\ s[1].kind = "sync" /\ group' = group
  BY <1>a DEF HandleSync, HandleSyncError, Arrived, Done, Local, broker
<1>3. r.join = "pending" /\ Sent(group, m, r, s[1]) /\ Tail(s) = <<>>
  <2>1. /\ Sent(group, m, r, s[1]) /\ Len(s) \in Nat \ {0} /\ Len(Tail(s)) = Len(s) - 1
        /\ Requests(group, m, r, Tail(s))
    BY <1>1, <1>2, FewerRequests
  <2>2. 1 \in 1 .. Len(s) BY <2>1
  <2>3. r.join = "pending" /\ Len(s) = 1 BY <1>1, <1>2, <2>2 DEF Orderly
  <2>4. Tail(s) = <<>>
    <3>1. PICK t : t = Tail(s) OBVIOUS
    <3>2. t \in Seq(Entries(t)) /\ Len(t) = 0 BY <2>1, <2>3, <3>1 DEF Requests
    <3> QED BY <3>1, <3>2, EmptySeq
  <2> QED BY <2>1, <2>3, <2>4
<1>4. /\ r.coord /\ r.rejoin = TRUE /\ r.sub /\ ~r.leaving /\ r.rejoining /\ r.held = NoOffsets
  BY <1>1, <1>3 DEF Orderly
<1>5. CASE HandleSync(m)
  <2>1. PICK t : t = JoinSucceeded(r, a.parts) OBVIOUS
  <2>2. /\ DOMAIN t = Fields /\ t.join = "ok" /\ t.given = a.parts /\ t.st = "stable"
        /\ \A f \in Fields \ {"join", "given", "st", "hb"} : t[f] = r[f]
    BY <1>1, <2>1 DEF JoinSucceeded, Fields
  <2>3. /\ a.error = "none" /\ r.pc = "join" /\ Become(m, t) /\ Queue(m, <<>>)
    BY <1>a, <1>b, <1>3, <1>5, <2>1
    DEF HandleSync, Completes, Arrived, ClientPolls, Runs, Said, Done
  <2>4. /\ t.coord /\ t.rejoin /\ t.sub /\ ~t.leaving /\ t.rejoining
        /\ t.held = NoOffsets /\ t.pc = "join" /\ t.gen = r.gen /\ t.mid = r.mid
    BY <1>4, <2>2, <2>3 DEF Fields
  <2>5. r.gen # NONE /\ Shared(group, r.gen, <<m, r.mid>>, a.parts)
    BY <1>b, <1>2, <1>3, <2>3 DEF Sent, Allowed
  <2>6. Owned(group, r.gen, <<m, r.mid>>, NoOffsets) BY <2>5 DEF Shared, Owned, NoOffsets
  <2>7. Orderly(t, <<>>) BY <2>2, <2>4 DEF Orderly
  <2>8. Holds(group, m, t) BY <1>1, <2>2, <2>4, <2>5, <2>6 DEF Holds, Share
  <2>9. MemberInv(group, m, t, <<>>) BY <2>7, <2>8, NoRequests DEF MemberInv
  <2> QED BY <1>2, <2>3, <2>9, OwnMoves
<1>6. CASE HandleSyncError(m)
  <2>1. PICK t : t = Fallen(r, a.error) OBVIOUS
  <2>2. /\ DOMAIN t = Fields /\ t.gen \in {NONE, r.gen} /\ (t.coord => r.coord)
        /\ t.rejoin = TRUE
        /\ \A f \in Fields \ {"st", "gen", "mid", "coord", "rejoin"} : t[f] = r[f]
    BY ZenonT(40), <1>1, <1>4, <2>1, FallenFields
  <2>3. PICK u : u = [t EXCEPT !.rejoin = TRUE] OBVIOUS
  <2>4. /\ DOMAIN u = Fields /\ u.gen = t.gen /\ u.coord = t.coord /\ u.rejoin = TRUE
        /\ \A f \in Fields \ {"st", "gen", "mid", "coord", "rejoin"} : u[f] = t[f]
    BY <2>2, <2>3 DEF Fields
  <2>5. \A f \in Fields \ {"st", "gen", "mid", "coord", "rejoin"} : u[f] = r[f]
    BY <2>2, <2>4
  <2>6. MemberInv(group, m, JoinFailed(u), <<>>) BY <1>1, <1>3, <2>2, <2>4, <2>5, JoinFails
  <2>7. Queue(m, <<>>) /\ Become(m, JoinFailed(u))
    BY <1>a, <1>b, <1>3, <1>6, <2>1, <2>3 DEF HandleSyncError, Said, Done
  <2> QED BY <1>2, <2>6, <2>7, OwnMoves
<1> QED BY <1>5, <1>6

LEMMA HandleMoves ==
  ASSUME JInv, ~Gap, NEW m \in Member, Handle(m)
  PROVE  JInv'
<1>a. PICK r, s : r = mem[m] /\ s = flight[m] OBVIOUS
<1>b. PICK a : a = s[1].answer OBVIOUS
<1>1. MemberInv(group, m, r, s) /\ DOMAIN r = Fields /\ group.gen \in Nat
  BY <1>a DEF JInv, MemberInv, Orderly, GroupInv
<1>2. ASSUME s # <<>>, s[1].kind \notin {"join", "sync"}
      PROVE  /\ MemberInv(group, m, r, Tail(s)) /\ Free(r)
             /\ MemberInv(group, m, Fallen(r, a.error), Tail(s)) /\ Free(Fallen(r, a.error))
             /\ MemberInv(group, m, [r EXCEPT !.rejoin = TRUE], Tail(s))
             /\ Free([r EXCEPT !.rejoin = TRUE])
  <2>1. MemberInv(group, m, r, Tail(s)) /\ Free(r) BY <1>1, <1>2, FreeShrinks
  <2> QED BY <1>1, <2>1, FallenMoves, MarkedToRejoin
\* How a commit has ended, what was fetched, and that the member has left.
<1>3. ASSUME NEW x, NEW t, MemberInv(group, m, x, Tail(s)), Free(x), DOMAIN t = Fields,
             t.pc = x.pc, t.coord = x.coord, t.rejoining = x.rejoining,
             \A f \in Fields \ Beside : t[f] = x[f]
      PROVE  MemberInv(group, m, t, Tail(s))
  <2>1. x.join # "none" => x.rejoining BY <1>3 DEF MemberInv, Orderly
  <2>2. x.pc \in {"prepare", "join"} => x.rejoin /\ x.sub BY <1>3 DEF MemberInv, Orderly
  <2>3. x.pc = "join" => x.rejoining BY <1>3 DEF MemberInv, Orderly
  <2> QED BY <1>3, <2>1, <2>2, <2>3, TurnsBeside DEF Free
<1>4. ASSUME NEW t, MemberInv(group, m, t, Tail(s)), Done(m, t) PROVE JInv'
  BY <1>a, <1>4, OwnMoves DEF Done, Local, broker
<1>5. CASE HandleHeartbeat(m)
  <2>1. s # <<>> /\ s[1].kind = "heartbeat" BY <1>a, <1>5 DEF HandleHeartbeat, Arrived
  <2>2. Done(m, [r EXCEPT !.rejoin = TRUE]) \/ Done(m, Fallen(r, a.error))
    BY <1>a, <1>b, <1>5 DEF HandleHeartbeat, Said
  <2> QED BY <1>2, <1>4, <2>1, <2>2
<1>6. CASE HandleCommit(m)
  <2>1. s # <<>> /\ s[1].kind = "commit" BY <1>a, <1>6 DEF HandleCommit, Arrived
  <2>2. PICK x : x = IF a.error = "rebalancing" THEN [r EXCEPT !.rejoin = TRUE]
                     ELSE Fallen(r, a.error)
    OBVIOUS
  <2>3. MemberInv(group, m, x, Tail(s)) /\ Free(x) /\ DOMAIN x = Fields
    BY <1>2, <2>1, <2>2 DEF MemberInv, Orderly
  <2>4. PICK cf : Done(m, x) \/ Done(m, [x EXCEPT !.cf = cf])
    BY <1>a, <1>b, <1>6, <2>2 DEF HandleCommit, Said
  <2>5. PICK t : t = [x EXCEPT !.cf = cf] OBVIOUS
  <2>6. /\ DOMAIN t = Fields /\ t.pc = x.pc /\ t.coord = x.coord /\ t.rejoining = x.rejoining
        /\ \A f \in Fields \ Beside : t[f] = x[f]
    BY <2>3, <2>5 DEF Fields, Beside
  <2>7. MemberInv(group, m, t, Tail(s)) BY <1>3, <2>3, <2>6
  <2> QED BY <1>4, <2>3, <2>4, <2>5, <2>7
<1>7. CASE HandleOffsets(m)
  <2>1. s # <<>> /\ s[1].kind = "offsets" BY <1>a, <1>7 DEF HandleOffsets, Arrived
  <2>2. PICK x : x = Fallen(r, a.error) OBVIOUS
  <2>3. MemberInv(group, m, x, Tail(s)) /\ Free(x) /\ DOMAIN x = Fields
    BY <1>2, <2>1, <2>2 DEF MemberInv, Orderly
  <2>4. PICK key, got : Done(m, [x EXCEPT !.cache[key] = got])
    BY <1>a, <1>b, <1>7, <2>2 DEF HandleOffsets, Said
  <2>5. PICK t : t = [x EXCEPT !.cache[key] = got] OBVIOUS
  <2>6. /\ DOMAIN t = Fields /\ t.pc = x.pc /\ t.coord = x.coord /\ t.rejoining = x.rejoining
        /\ \A f \in Fields \ Beside : t[f] = x[f]
    BY <2>3, <2>5 DEF Fields, Beside
  <2>7. MemberInv(group, m, t, Tail(s)) BY <1>3, <2>3, <2>6
  <2> QED BY <1>4, <2>4, <2>5, <2>7
<1>8. CASE HandleLeave(m)
  <2>1. s # <<>> /\ s[1].kind = "leave" BY <1>a, <1>8 DEF HandleLeave, Arrived
  <2>2. PICK x : x = ResetGeneration(r, NONE) OBVIOUS
  <2>3. MemberInv(group, m, x, Tail(s)) /\ Free(x) BY <1>1, <1>2, <2>1, <2>2, ResetMoves
  <2>4. PICK t : t = [x EXCEPT !.leaving = FALSE] OBVIOUS
  <2>5. Done(m, t) BY <1>a, <1>8, <2>2, <2>4 DEF HandleLeave
  <2>6. /\ DOMAIN x = Fields /\ x.st = "unjoined" /\ x.gen = NONE /\ x.rejoin = TRUE
    BY <1>1, <2>2 DEF ResetGeneration, Fields
  <2>7. DOMAIN t = Fields /\ \A f \in Fields \ {"leaving"} : t[f] = x[f]
    BY <2>4, <2>6 DEF Fields
  <2>8. /\ t.st = x.st /\ t.join = x.join /\ t.pc = x.pc /\ t.coord = x.coord /\ t.sub = x.sub
        /\ t.rejoining = x.rejoining /\ t.held = x.held /\ t.rejoin = x.rejoin
        /\ t.gen = x.gen /\ t.mid = x.mid
    BY <2>7 DEF Fields
  <2>9. Orderly(t, Tail(s)) BY <2>3, <2>6, <2>7, <2>8 DEF MemberInv, Orderly, Free
  <2>10. Holds(group, m, t) BY <1>1, <2>6, <2>8 DEF Holds, NONE
  <2>11. MemberInv(group, m, t, Tail(s)) BY <2>3, <2>8, <2>9, <2>10, SameRequests DEF MemberInv
  <2> QED BY <1>4, <2>5, <2>11
<1> QED BY <1>5, <1>6, <1>7, <1>8, HandleJoinMoves, HandleSyncMoves DEF Handle

----------------------------------------------------------------------------
(* The coordinator                                                         *)

\* From the group g to the group h: what the plan has given out stays given,
\* for all who are of a generation so far.
Onward(g, h) ==
  /\ GroupInv(h) /\ g.gen \in Nat /\ g.gen <= h.gen
  /\ \A n \in 0 .. g.gen : \A id, x :
       /\ Shared(g, n, id, x) => Shared(h, n, id, x)
       /\ Owned(g, n, id, x) => Owned(h, n, id, x)

LEMMA Onwards ==
  ASSUME NEW g, NEW h, GroupInv(g), GroupInv(h),
         \/ h.gen = g.gen + 1
         \/ h.gen = g.gen /\ h.plan = g.plan /\ (h.phase = g.phase \/ h.phase # "completing")
         \/ h.gen = g.gen /\ g.phase = "completing"
  PROVE  Onward(g, h)
<1>1. g.gen \in Nat /\ g.gen <= h.gen BY DEF GroupInv
<1>2. \A n \in 0 .. g.gen : \A id, x :
        /\ Shared(g, n, id, x) => Shared(h, n, id, x)
        /\ Owned(g, n, id, x) => Owned(h, n, id, x)
  <2> TAKE n \in 0 .. g.gen
  <2> TAKE id, x
  <2>1. CASE h.gen = g.gen + 1
    <3>1. n # h.gen BY <1>1, <2>1
    <3> QED BY <3>1 DEF Shared, Owned
  <2>2. CASE h.gen = g.gen /\ h.plan = g.plan /\ (h.phase = g.phase \/ h.phase # "completing")
    BY <2>2 DEF Shared, Owned
  <2>3. CASE h.gen = g.gen /\ g.phase = "completing" BY <2>3 DEF Shared, Owned
  <2> QED BY <2>1, <2>2, <2>3
<1> QED BY <1>1, <1>2 DEF Onward

\* The requests s of member m, some of them answered.
Formed(s) == s \in Seq(Entries(s)) /\ \A i \in 1 .. Len(s) : DOMAIN s[i] = RequestFields
Answered(h, m, s, t) ==
  /\ Formed(t) /\ Len(t) = Len(s)
  /\ \A i \in 1 .. Len(s) :
       /\ \A f \in RequestFields \ {"answer"} : t[i][f] = s[i][f]
       /\ t[i].answer = s[i].answer \/ Allowed(h, m, s[i], t[i].answer)

LEMMA AnsweredTwice ==
  ASSUME NEW h, NEW m, NEW s, NEW t, NEW u, Formed(s), Answered(h, m, s, t), Answered(h, m, t, u)
  PROVE  Answered(h, m, s, u)
<1>1. ASSUME NEW i \in 1 .. Len(s)
      PROVE  /\ \A f \in RequestFields \ {"answer"} : u[i][f] = s[i][f]
             /\ u[i].answer = s[i].answer \/ Allowed(h, m, s[i], u[i].answer)
  <2>1. /\ \A f \in RequestFields \ {"answer"} : u[i][f] = t[i][f] /\ t[i][f] = s[i][f]
        /\ u[i].answer = t[i].answer \/ Allowed(h, m, t[i], u[i].answer)
        /\ t[i].answer = s[i].answer \/ Allowed(h, m, s[i], t[i].answer)
    BY DEF Answered
  <2>2. t[i].kind = s[i].kind /\ t[i].gen = s[i].gen /\ t[i].id = s[i].id
    BY <2>1 DEF RequestFields
  <2>3. ASSUME NEW a PROVE Allowed(h, m, t[i], a) <=> Allowed(h, m, s[i], a)
    BY <2>2 DEF Allowed
  <2> QED BY <2>1, <2>3
<1> QED BY <1>1 DEF Answered

LEMMA FormedEach ==
  ASSUME NEW s, NEW t, Formed(s), t = [i \in 1 .. Len(s) |-> t[i]],
         \A i \in 1 .. Len(s) : DOMAIN t[i] = RequestFields
  PROVE  Formed(t) /\ Len(t) = Len(s)
<1>1. Len(s) \in Nat BY DEF Formed
<1> DEFINE T == {t[i] : i \in 1 .. Len(s)}
<1>2. t \in Seq(T) /\ Len(t) = Len(s)
  <2>1. \A i \in 1 .. Len(s) : t[i] \in T OBVIOUS
  <2> HIDE DEF T
  <2>2. t \in [1 .. Len(s) -> T] BY <2>1
  <2> QED BY <1>1, <2>2
<1>3. Entries(t) = T BY <1>2 DEF Entries
<1> QED BY <1>2, <1>3 DEF Formed

LEMMA OneAnswered ==
  ASSUME NEW h, NEW m, NEW s, NEW i, NEW a, Formed(s), i \in 1 .. Len(s), Allowed(h, m, s[i], a)
  PROVE  Answered(h, m, s, [s EXCEPT ![i].answer = a])
<1>1. DOMAIN s = 1 .. Len(s) BY DEF Formed
<1>2. PICK x, y, t : x = s[i] /\ y = [x EXCEPT !.answer = a] /\ t = [s EXCEPT ![i].answer = a]
  OBVIOUS
<1>3. DOMAIN x = RequestFields BY <1>2 DEF Formed
<1>4. DOMAIN y = RequestFields /\ y.answer = a
      /\ \A f \in RequestFields \ {"answer"} : y[f] = x[f]
  BY <1>2, <1>3 DEF RequestFields
<1>5. \A j \in 1 .. Len(s) : t[j] = IF j = i THEN y ELSE s[j] BY <1>1, <1>2
<1>6. t = [j \in 1 .. Len(s) |-> t[j]] BY <1>1, <1>2
<1>7. Formed(t) /\ Len(t) = Len(s)
  <2>1. \A j \in 1 .. Len(s) : DOMAIN t[j] = RequestFields BY <1>4, <1>5 DEF Formed
  <2> QED BY <1>6, <2>1, FormedEach
<1>8. Answered(h, m, s, t) BY <1>2, <1>4, <1>5, <1>7 DEF Answered
<1> QED BY <1>2, <1>8

LEMMA AllReleased ==
  ASSUME NEW h, NEW f, NEW kind, NEW ans, NEW n \in Member, Formed(f[n]),
         \A i \in 1 .. Len(f[n]) : f[n][i].kind = kind /\ f[n][i].answer = Parked =>
           Allowed(h, n, f[n][i], ans[<<n, f[n][i].id>>])
  PROVE  Answered(h, n, f[n], Release(f, kind, ans)[n])
<1>1. PICK s, t : s = f[n] /\ t = Release(f, kind, ans)[n] OBVIOUS
<1>2. t = [i \in 1 .. Len(s) |-> IF s[i].kind = kind /\ s[i].answer = Parked
            THEN [s[i] EXCEPT !.answer = ans[<<n, s[i].id>>]] ELSE s[i]]
  BY <1>1 DEF Release
<1>3. ASSUME NEW i \in 1 .. Len(s)
      PROVE  /\ DOMAIN t[i] = RequestFields
             /\ \A x \in RequestFields \ {"answer"} : t[i][x] = s[i][x]
             /\ t[i].answer = s[i].answer \/ Allowed(h, n, s[i], t[i].answer)
  <2>1. PICK x, a : x = s[i] /\ a = ans[<<n, s[i].id>>] OBVIOUS
  <2>2. PICK y : y = [x EXCEPT !.answer = a] OBVIOUS
  <2>3. DOMAIN x = RequestFields BY <1>1, <2>1 DEF Formed
  <2>4. DOMAIN y = RequestFields /\ y.answer = a
        /\ \A e \in RequestFields \ {"answer"} : y[e] = x[e]
    BY <2>2, <2>3 DEF RequestFields
  <2>5. t[i] = IF x.kind = kind /\ x.answer = Parked THEN y ELSE x BY <1>2, <2>1, <2>2
  <2>6. x.kind = kind /\ x.answer = Parked => Allowed(h, n, x, a) BY <1>1, <2>1
  <2> QED BY <2>1, <2>3, <2>4, <2>5, <2>6
<1>4. t = [i \in 1 .. Len(s) |-> t[i]] BY <1>2
<1>5. Formed(t) /\ Len(t) = Len(s) BY <1>1, <1>3, <1>4, FormedEach
<1> QED BY <1>1, <1>3, <1>5 DEF Answered

\* A step of the coordinator: it answers requests, and moves the group on.
LEMMA MovesOn ==
  ASSUME NEW g, NEW h, NEW m, NEW r, NEW s, NEW t, MemberInv(g, m, r, s), Onward(g, h),
         Answered(h, m, s, t)
  PROVE  MemberInv(h, m, r, t)
<1>1. /\ Orderly(r, s) /\ Holds(g, m, r) /\ Requests(g, m, r, s) /\ Len(s) \in Nat
      /\ Formed(t) /\ Len(t) = Len(s)
  BY DEF MemberInv, Requests, Answered
<1>2. g.gen \in Nat /\ h.gen \in Nat /\ g.gen <= h.gen BY DEF Onward, GroupInv
<1>3. Holds(h, m, r)
  <2>1. r.gen \in 0 .. g.gen BY <1>1, <1>2 DEF Holds
  <2> QED BY <1>1, <1>2, <2>1 DEF Holds, Onward
<1>4. ASSUME NEW i \in 1 .. Len(s)
      PROVE  t[i].kind = s[i].kind /\ Sent(h, m, r, t[i])
  <2>1. PICK x, y : x = s[i] /\ y = t[i] OBVIOUS
  <2>2. Sent(g, m, r, x) BY <1>1, <2>1 DEF Requests
  <2>3. /\ DOMAIN y = RequestFields /\ \A f \in RequestFields \ {"answer"} : y[f] = x[f]
        /\ y.answer = x.answer \/ Allowed(h, m, x, y.answer)
    BY <1>1, <2>1 DEF Answered, Formed
  <2>4. y.kind = x.kind /\ y.gen = x.gen /\ y.id = x.id /\ y.at = x.at
    BY <2>3 DEF RequestFields
  <2>5. ASSUME y.kind = "sync" PROVE x.gen \in 0 .. g.gen
    BY <1>1, <1>2, <2>2, <2>4, <2>5 DEF Sent, Holds
  <2>6. Allowed(g, m, x, x.answer) => Allowed(h, m, x, x.answer)
    <3>1. PICK a : a = x.answer OBVIOUS
    <3>2. x.kind = "sync" => (Shared(g, x.gen, <<m, x.id>>, a.parts) =>
                               Shared(h, x.gen, <<m, x.id>>, a.parts))
      BY <2>4, <2>5 DEF Onward
    <3>3. Allowed(g, m, x, a) => Allowed(h, m, x, a) BY <1>2, <3>2 DEF Allowed
    <3> QED BY <3>1, <3>3
  <2>7. Allowed(h, m, x, y.answer) BY <2>2, <2>3, <2>6 DEF Sent
  <2>8. Allowed(h, m, y, y.answer) BY <2>4, <2>7 DEF Allowed
  <2>9. y.kind = "commit" =>
          y.gen \in Nat \ {0} /\ y.gen <= h.gen /\ Owned(h, y.gen, <<m, y.id>>, y.at)
    <3>1. y.kind = "commit" => x.gen \in 0 .. g.gen BY <1>2, <2>2, <2>4 DEF Sent
    <3> QED BY <1>2, <2>2, <2>4, <3>1 DEF Sent, Onward
  <2>10. Sent(h, m, r, y) BY <2>2, <2>3, <2>4, <2>8, <2>9 DEF Sent
  <2> QED BY <2>1, <2>4, <2>10
<1>5. Requests(h, m, r, t) BY <1>1, <1>4 DEF Requests, Formed
<1>6. Orderly(r, t)
  <2>1. s = <<>> => t = <<>> BY <1>1, EmptySeq DEF Formed
  <2>2. Len(s) = 1 => t[1].kind = s[1].kind BY <1>4
  <2> QED BY <1>1, <1>4, <2>1, <2>2 DEF Orderly
<1> QED BY <1>3, <1>5, <1>6 DEF MemberInv

LEMMA AllForm ==
  ASSUME JInv, NEW n \in Member
  PROVE  Formed(flight[n]) /\ Answered(group, n, flight[n], flight[n])
BY DEF JInv, MemberInv, Requests, Formed, Sent, Answered

LEMMA CoordinatorMoves ==
  ASSUME JInv, Onward(group, group'), mem' = mem, DOMAIN flight' = Member,
         \A n \in Member : Answered(group', n, flight[n], flight'[n])
  PROVE  JInv'
<1>1. GroupInv(group') BY DEF Onward
<1>2. \A n \in Member : MemberInv(group', n, mem'[n], flight'[n])
  <2> TAKE n \in Member
  <2>1. PICK g, h, r, s, t : /\ g = group /\ h = group' /\ r = mem[n] /\ s = flight[n]
                             /\ t = flight'[n]
    OBVIOUS
  <2>2. MemberInv(g, n, r, s) /\ Onward(g, h) /\ Answered(h, n, s, t) BY <2>1 DEF JInv
  <2>3. MemberInv(h, n, r, t) BY <2>2, MovesOn
  <2> QED BY <2>1, <2>3
<1> QED BY <1>1, <1>2 DEF JInv

\* One request is answered, on top of those that were released.
LEMMA Answering ==
  ASSUME JInv, Onward(group, group'), mem' = mem, NEW m \in Member,
         NEW i \in 1 .. Len(flight[m]), NEW a, NEW f, DOMAIN f = Member,
         \A n \in Member : Answered(group', n, flight[n], f[n]),
         Allowed(group', m, flight[m][i], a), flight' = [f EXCEPT ![m][i].answer = a]
  PROVE  JInv'
<1>a. PICK h, s, t : h = group' /\ s = flight[m] /\ t = f[m] OBVIOUS
<1>1. Answered(h, m, s, t) /\ Formed(s) /\ Allowed(h, m, s[i], a) /\ i \in 1 .. Len(s)
  BY <1>a, AllForm
<1>2. Formed(t) /\ Len(t) = Len(s) BY <1>1 DEF Answered
<1>3. Allowed(h, m, t[i], a)
  <2>1. t[i].kind = s[i].kind /\ t[i].gen = s[i].gen /\ t[i].id = s[i].id
    BY <1>1 DEF Answered, RequestFields
  <2> QED BY <1>1, <2>1 DEF Allowed
<1>4. PICK u : u = [t EXCEPT ![i].answer = a] OBVIOUS
<1>5. Answered(h, m, t, u) BY <1>1, <1>2, <1>3, <1>4, OneAnswered
<1>6. Answered(h, m, s, u) BY <1>1, <1>5, AnsweredTwice
<1>7. DOMAIN flight' = Member /\ \A n \in Member : flight'[n] = IF n = m THEN u ELSE f[n]
  BY <1>a, <1>4
<1>8. \A n \in Member : Answered(group', n, flight[n], flight'[n]) BY <1>a, <1>6, <1>7
<1> QED BY <1>7, <1>8, CoordinatorMoves

\* Errors may be the answer to anything.
LEMMA SaysError ==
  ASSUME NEW h, NEW m, NEW q, NEW e, NEW a, e # "none",
         a = Says(e) \/ \E n : a = [Says(e) EXCEPT !.id = n]
  PROVE  Allowed(h, m, q, a)
<1>1. DOMAIN a = AnswerFields /\ a.error = e BY DEF Says, Waiting, AnswerFields
<1> QED BY <1>1 DEF Allowed

LEMMA ParkedSays == \A h, m, q : Allowed(h, m, q, Parked)
<1>1. DOMAIN Parked = AnswerFields /\ Parked.error = "parked" BY DEF Waiting, Parked, AnswerFields
<1> QED BY <1>1 DEF Allowed

LEMMA Dismiss ==
  ASSUME JInv, NEW h
  PROVE  LET f == Release(flight, "sync", Dismissal)
         IN  DOMAIN f = Member /\ \A n \in Member : Answered(h, n, flight[n], f[n])
<1>1. ASSUME NEW n \in Member, NEW i \in 1 .. Len(flight[n]),
             flight[n][i].kind = "sync", flight[n][i].answer = Parked
      PROVE  Allowed(h, n, flight[n][i], Dismissal[<<n, flight[n][i].id>>])
  <2>1. Dismissal[<<n, flight[n][i].id>>] = Says("rebalancing")
    BY <1>1, ParkedAmong DEF Dismissal
  <2>2. Allowed(h, n, flight[n][i], Says("rebalancing")) BY SaysError
  <2> QED BY <2>1, <2>2
<1>2. \A n \in Member : Formed(flight[n]) BY AllForm
<1>3. \A n \in Member : Answered(h, n, flight[n], Release(flight, "sync", Dismissal)[n])
  BY <1>1, <1>2, AllReleased
<1> QED BY <1>3 DEF Release

LEMMA Stays == ASSUME JInv PROVE Onward(group, group)
BY Onwards DEF JInv

LEMMA BrokerSyncMoves ==
  ASSUME JInv, NEW m \in Member, NEW i, BrokerSync(m, i)
  PROVE  JInv'
<1>a. PICK g, q : g = group /\ q = flight[m][i] OBVIOUS
<1>1. /\ i \in 1 .. Len(flight[m]) /\ mem' = mem /\ q.kind = "sync" /\ GroupInv(g)
      /\ DOMAIN flight = Member /\ Onward(g, g) /\ Formed(flight[m])
  BY <1>a, Stays, AllForm DEF BrokerSync, IsNext, JInv
<1>2. ASSUME NEW a, Answer(m, i, a), UNCHANGED group, Allowed(g, m, q, a) PROVE JInv'
  BY <1>a, <1>1, <1>2, AllForm, Answering DEF Answer
<1>3. ASSUME NEW e, Answer(m, i, Says(e)), UNCHANGED group, e # "none" PROVE JInv'
  <2>1. Allowed(g, m, q, Says(e)) BY <1>3, SaysError
  <2> QED BY <1>2, <1>3, <2>1
<1>4. CASE Answer(m, i, Parked) /\ UNCHANGED group
  <2>1. Allowed(g, m, q, Parked) BY ParkedSays
  <2> QED BY <1>2, <1>4, <2>1
\* The leader's plan: the group is stable.
<1>5. ASSUME NEW h, group' = h, g.phase = "completing", q.gen = g.gen,
             h = [g EXCEPT !.phase = "stable", !.plan = q.plan],
             flight' = [Release(flight, "sync", [n \in ParkedIds("sync") |->
                          [Says("none") EXCEPT !.parts = q.plan[n]]])
                          EXCEPT ![m][i].answer = [Says("none") EXCEPT !.parts = q.plan[IdOf(m, i)]]]
      PROVE  JInv'
  <2>1. PICK share, f :
          /\ share = [n \in ParkedIds("sync") |-> [Says("none") EXCEPT !.parts = q.plan[n]]]
          /\ f = Release(flight, "sync", share)
    OBVIOUS
  <2>2. h.phase = "stable" /\ h.plan = q.plan /\ h.gen = g.gen /\ GroupInv(h)
    BY <1>1, <1>5 DEF GroupInv
  <2>3. Onward(g, h) BY <1>1, <1>5, <2>2, Onwards
  <2>4. ASSUME NEW n, NEW x, NEW a, a = [Says("none") EXCEPT !.parts = q.plan[<<n, x.id>>]],
               x.kind = "sync"
        PROVE  Allowed(h, n, x, a)
    <3>1. DOMAIN a = AnswerFields /\ a.parts = q.plan[<<n, x.id>>]
      BY <2>4 DEF Says, Waiting, AnswerFields
    <3> QED BY <2>2, <2>4, <3>1 DEF Allowed, Shared
  <2>5. ASSUME NEW n \in Member PROVE Answered(h, n, flight[n], f[n])
    <3>1. ASSUME NEW j \in 1 .. Len(flight[n]),
                 flight[n][j].kind = "sync", flight[n][j].answer = Parked
          PROVE  Allowed(h, n, flight[n][j], share[<<n, flight[n][j].id>>])
      <4>1. <<n, flight[n][j].id>> \in ParkedIds("sync") BY <3>1, ParkedAmong
      <4>2. share[<<n, flight[n][j].id>>]
              = [Says("none") EXCEPT !.parts = q.plan[<<n, flight[n][j].id>>]]
        BY <2>1, <4>1
      <4> QED BY <2>4, <3>1, <4>2
    <3>2. Formed(flight[n]) BY AllForm
    <3> QED BY <2>1, <3>1, <3>2, AllReleased
  <2>6. PICK a : a = [Says("none") EXCEPT !.parts = q.plan[<<m, q.id>>]] OBVIOUS
  <2>7. Allowed(h, m, q, a) BY <1>1, <2>4, <2>6
  <2>8. DOMAIN f = Member BY <2>1 DEF Release
  <2>9. flight' = [f EXCEPT ![m][i].answer = a] BY <1>a, <1>5, <2>1, <2>6 DEF IdOf
  <2> QED BY <1>a, <1>1, <1>5, <2>3, <2>5, <2>7, <2>8, <2>9, Answering
\* The plan is there.
<1>6. CASE /\ g.phase = "stable" /\ UNCHANGED group
           /\ Answer(m, i, [Says("none") EXCEPT !.parts = g.plan[IdOf(m, i)]])
  <2>1. PICK a : a = [Says("none") EXCEPT !.parts = g.plan[<<m, q.id>>]] OBVIOUS
  <2>2. DOMAIN a = AnswerFields /\ a.parts = g.plan[<<m, q.id>>]
    BY <2>1 DEF Says, Waiting, AnswerFields
  <2>3. Allowed(g, m, q, a) BY <1>1, <1>6, <2>2 DEF Allowed, Shared
  <2> QED BY <1>a, <1>2, <1>6, <2>1, <2>3 DEF IdOf
<1> QED BY <1>a, <1>3, <1>4, <1>5, <1>6 DEF BrokerSync, Current

LEMMA BrokerMoves ==
  ASSUME JInv, NEW m \in Member, Broker(m) \/ Refuse(m)
  PROVE  JInv'
<1>a. PICK g : g = group OBVIOUS
<1>1. GroupInv(g) /\ DOMAIN flight = Member /\ Onward(g, g) BY <1>a, Stays DEF JInv
<1>2. ASSUME NEW i \in 1 .. Len(flight[m]), NEW e, NEW a, e # "none", Answer(m, i, a),
             a = Says(e) \/ (\E n : a = [Says(e) EXCEPT !.id = n]),
             mem' = mem, Onward(g, group')
      PROVE  JInv'
  <2>1. \A n \in Member : Answered(group', n, flight[n], flight[n]) BY AllForm DEF Answered
  <2>2. Allowed(group', m, flight[m][i], a)
    <3>1. \A h, q : Allowed(h, m, q, a) BY <1>2, SaysError
    <3> QED BY <3>1
  <2> QED BY <1>a, <1>1, <1>2, <2>1, <2>2, Answering DEF Answer
\* The other requests may be answered with anything.
<1>3. ASSUME NEW i \in 1 .. Len(flight[m]), NEW a, Answer(m, i, a), mem' = mem, group' = group,
             flight[m][i].kind \notin {"join", "sync"}, DOMAIN a = AnswerFields
      PROVE  JInv'
  <2>1. Allowed(g, m, flight[m][i], a) BY <1>3 DEF Allowed
  <2> QED BY <1>a, <1>1, <1>3, <2>1, AllForm, Answering DEF Answer
<1>4. ASSUME NEW i, BrokerJoin(m, i) PROVE JInv'
  <2>1. i \in 1 .. Len(flight[m]) /\ mem' = mem BY <1>4 DEF BrokerJoin, IsNext
  <2>2. CASE /\ group' = [group EXCEPT !.known = @ \cup {<<m, issued[m] + 1>>}]
             /\ Answer(m, i, [Says("memberIdRequired") EXCEPT !.id = issued[m] + 1])
    <3>1. PICK h, a, n : /\ h = group' /\ n = issued[m] + 1
                         /\ a = [Says("memberIdRequired") EXCEPT !.id = n]
      OBVIOUS
    <3>2. h.gen = g.gen /\ h.plan = g.plan /\ h.phase = g.phase /\ GroupInv(h)
      BY <1>a, <1>1, <2>2, <3>1 DEF GroupInv
    <3>3. Onward(g, h) BY <1>1, <3>2, Onwards
    <3>4. \E k : a = [Says("memberIdRequired") EXCEPT !.id = k] BY <3>1
    <3>5. Answer(m, i, a) BY <2>2, <3>1
    <3> QED BY <1>2, <2>1, <3>1, <3>3, <3>4, <3>5
  <2>3. CASE /\ group' = [group EXCEPT
                  !.members = @ \cup {IdOf(m, i)}, !.known = @ \ {IdOf(m, i)},
                  !.phase = "preparing"]
             /\ flight' = [Release(flight, "sync", Dismissal) EXCEPT ![m][i].answer = Parked]
    <3>1. PICK h, f : h = group' /\ f = Release(flight, "sync", Dismissal) OBVIOUS
    <3>2. h.gen = g.gen /\ h.plan = g.plan /\ h.phase = "preparing" /\ GroupInv(h)
      BY <1>a, <1>1, <2>3, <3>1 DEF GroupInv
    <3>3. Onward(g, h) BY <1>1, <3>2, Onwards
    <3>4. DOMAIN f = Member /\ \A n \in Member : Answered(h, n, flight[n], f[n])
      BY <3>1, Dismiss
    <3>5. Allowed(h, m, flight[m][i], Parked) BY ParkedSays
    <3> QED BY <1>a, <2>1, <2>3, <3>1, <3>3, <3>4, <3>5, Answering
  <2>4. CASE Answer(m, i, Says("unknownMember")) /\ UNCHANGED group
    BY <1>a, <1>1, <1>2, <2>1, <2>4
  <2> QED BY <1>4, <2>2, <2>3, <2>4 DEF BrokerJoin
<1>5. ASSUME NEW e PROVE DOMAIN Says(e) = AnswerFields
  BY SaysNothing DEF AnswerFields
<1>6. ASSUME NEW i, BrokerHeartbeat(m, i) \/ BrokerCommit(m, i) PROVE JInv'
  BY <1>3, <1>5, <1>6 DEF BrokerHeartbeat, BrokerCommit, IsNext, broker
<1>7. ASSUME NEW i, BrokerOffsets(m, i) PROVE JInv'
  <2>1. PICK at : Answer(m, i, [Says("none") EXCEPT !.at = at]) BY <1>7 DEF BrokerOffsets
  <2>2. DOMAIN [Says("none") EXCEPT !.at = at] = AnswerFields BY <1>5
  <2> QED BY <1>3, <1>7, <2>1, <2>2 DEF BrokerOffsets, IsNext, broker
<1>8. ASSUME NEW i, BrokerLeave(m, i) PROVE JInv'
  <2>1. PICK h, f, a : /\ h = group' /\ f = Dismissed(flight, IdOf(m, i)) /\ a = Says("none")
    OBVIOUS
  <2>2. /\ i \in 1 .. Len(flight[m]) /\ mem' = mem /\ flight[m][i].kind = "leave"
        /\ flight' = [f EXCEPT ![m][i].answer = a] /\ h = Without(IdOf(m, i))
    BY <1>8, <2>1 DEF BrokerLeave, IsNext
  <2>3. h.gen = g.gen /\ h.plan = g.plan /\ (h.phase = g.phase \/ h.phase # "completing")
        /\ GroupInv(h)
    BY <1>a, <1>1, <2>2 DEF Without, GroupInv
  <2>4. Onward(g, h) BY <1>1, <2>3, Onwards
  <2>5. DOMAIN f = Member /\ \A n \in Member : Answered(h, n, flight[n], f[n])
    <3>1. CASE f = flight
      <4>1. \A n \in Member : Answered(h, n, flight[n], flight[n]) BY AllForm DEF Answered
      <4> QED BY <1>1, <3>1, <4>1
    <3>2. CASE f = Release(flight, "sync", Dismissal) BY <3>2, Dismiss
    <3> QED BY <2>1, <3>1, <3>2 DEF Dismissed
  <2>6. Allowed(h, m, flight[m][i], a) BY <1>5, <2>1, <2>2 DEF Allowed
  <2> QED BY <1>a, <2>1, <2>2, <2>4, <2>5, <2>6, Answering
<1>9. CASE Refuse(m)
  <2>1. PICK i \in 1 .. Len(flight[m]) : Answer(m, i, Says("notCoordinator"))
    BY <1>9 DEF Refuse
  <2>2. mem' = mem /\ group' = group BY <1>9 DEF Refuse, broker
  <2> QED BY <1>a, <1>1, <1>2, <2>1, <2>2
<1> QED BY <1>4, <1>6, <1>7, <1>8, <1>9, BrokerSyncMoves DEF Broker

LEMMA ExpiredMoves ==
  ASSUME JInv, Expired
  PROVE  JInv'
<1>1. PICK id : /\ group' = Without(id) /\ flight' = Dismissed(flight, id) /\ mem' = mem
  BY DEF Expired, BrokerExpire
<1>2. PICK g, h : g = group /\ h = group' OBVIOUS
<1>3. GroupInv(g) /\ DOMAIN flight = Member BY <1>2 DEF JInv
<1>4. h.gen = g.gen /\ h.plan = g.plan /\ (h.phase = g.phase \/ h.phase # "completing")
      /\ GroupInv(h)
  BY <1>1, <1>2, <1>3 DEF Without, GroupInv
<1>5. Onward(g, h) BY <1>3, <1>4, Onwards
<1>6. DOMAIN flight' = Member /\ \A n \in Member : Answered(h, n, flight[n], flight'[n])
  <2>1. CASE flight' = flight
    <3>1. \A n \in Member : Answered(h, n, flight[n], flight[n]) BY AllForm DEF Answered
    <3> QED BY <1>3, <2>1, <3>1
  <2>2. CASE flight' = Release(flight, "sync", Dismissal) BY <2>2, Dismiss
  <2> QED BY <1>1, <2>1, <2>2 DEF Dismissed
<1> QED BY <1>1, <1>2, <1>5, <1>6, CoordinatorMoves

\* A new generation: what was given out before is of an earlier one.
LEMMA GenerationMoves ==
  ASSUME JInv, BrokerGeneration
  PROVE  JInv'
<1>1. PICK g, h : g = group /\ h = group' OBVIOUS
<1>2. PICK leader : flight' = Release(flight, "join", [id \in group.members |->
        [Says("none") EXCEPT !.gen = group.gen + 1, !.id = id[2],
           !.ids = IF id = leader THEN group.members ELSE {}]])
  BY DEF BrokerGeneration
<1>3. PICK ans : ans = [id \in g.members |->
        [Says("none") EXCEPT !.gen = g.gen + 1, !.id = id[2],
           !.ids = IF id = leader THEN g.members ELSE {}]]
  OBVIOUS
<1>4. GroupInv(g) /\ DOMAIN flight = Member /\ g.gen \in Nat BY <1>1 DEF JInv, GroupInv
<1>5. h.gen = g.gen + 1 /\ GroupInv(h)
  <2>1. h = [g EXCEPT !.phase = "completing", !.gen = g.gen + 1, !.plan = <<>>]
    BY <1>1 DEF BrokerGeneration
  <2> QED BY <1>4, <2>1 DEF GroupInv
<1>6. Onward(g, h) BY <1>4, <1>5, Onwards
<1>7. ASSUME NEW n \in Member PROVE Answered(h, n, flight[n], flight'[n])
  <2>1. ASSUME NEW j \in 1 .. Len(flight[n]),
               flight[n][j].kind = "join", flight[n][j].answer = Parked
        PROVE  Allowed(h, n, flight[n][j], ans[<<n, flight[n][j].id>>])
    <3>1. PICK id : id = <<n, flight[n][j].id>> OBVIOUS
    <3>2. id \in g.members BY <1>1, <2>1, <3>1, ParkedAmong DEF BrokerGeneration
    <3>3. PICK a : a = [Says("none") EXCEPT !.gen = g.gen + 1, !.id = id[2],
                          !.ids = IF id = leader THEN g.members ELSE {}]
      OBVIOUS
    <3>4. ans[id] = a BY <1>3, <3>2, <3>3
    <3>5. DOMAIN a = AnswerFields /\ a.gen = g.gen + 1
      BY <3>3 DEF Says, Waiting, AnswerFields
    <3>6. Allowed(h, n, flight[n][j], a) BY <1>4, <1>5, <2>1, <3>5 DEF Allowed
    <3> QED BY <3>1, <3>4, <3>6
  <2>2. Formed(flight[n]) BY AllForm
  <2>3. flight' = Release(flight, "join", ans) BY <1>1, <1>2, <1>3
  <2> QED BY <2>1, <2>2, <2>3, AllReleased
<1>8. DOMAIN flight' = Member BY <1>2 DEF Release
<1> QED BY <1>1, <1>6, <1>7, <1>8, CoordinatorMoves DEF BrokerGeneration

----------------------------------------------------------------------------
(* Faults                                                                  *)

LEMMA NewMoves ==
  ASSUME NEW g, NEW m, g.gen \in Nat
  PROVE  MemberInv(g, m, NewMember, <<>>)
<1>1. PICK r : r = NewMember OBVIOUS
<1>2. DOMAIN r = Fields BY <1>1 DEF NewMember, Fields
<1>3. /\ r.pc = "user" /\ r.sub /\ ~r.coord /\ r.st = "unjoined" /\ r.gen = NONE /\ r.rejoin
      /\ ~r.leaving /\ r.join = "none"
  BY <1>1 DEF NewMember
<1>4. Orderly(r, <<>>) BY <1>2, <1>3 DEF Orderly
<1>5. Holds(g, m, r) BY <1>3 DEF Holds, NONE
<1>6. MemberInv(g, m, r, <<>>) BY <1>4, <1>5, NoRequests DEF MemberInv
<1> QED BY <1>1, <1>6

\* The connection is lost, and everything that was on it.
LEMMA DisconnectMoves ==
  ASSUME JInv, NEW m \in Member, Disconnect(m)
  PROVE  JInv'
<1>a. PICK r, s : r = mem[m] /\ s = flight[m] OBVIOUS
<1>b. PICK kinds : kinds = {flight[m][i].kind : i \in 1 .. Len(flight[m])} OBVIOUS
<1>1. /\ MemberInv(group, m, r, s) /\ Orderly(r, s) /\ DOMAIN r = Fields /\ group.gen \in Nat
      /\ Holds(group, m, r)
  BY <1>a DEF JInv, MemberInv, Orderly, GroupInv
<1>2. PICK cf, cache :
        LET x  == [r EXCEPT !.coord = FALSE, !.cf = cf, !.cache = cache]
            x1 == IF kinds \cap {"join", "sync"} # {} THEN JoinFailed(x) ELSE x
        IN  /\ Become(m, IF "leave" \in kinds
                         THEN [ResetGeneration(x1, NONE) EXCEPT !.leaving = FALSE] ELSE x1)
            /\ Queue(m, <<>>) /\ group' = group
  <2> DEFINE sync  == \E i \in 1 .. Len(flight[m]) : flight[m][i].sync
             cf    == IF sync THEN "retry" ELSE mem[m].cf
             cache == [k \in SUBSET Partition |->
                         IF mem[m].cache[k].st = "pending"
                         THEN [mem[m].cache[k] EXCEPT !.st = "failed"] ELSE mem[m].cache[k]]
             x     == [mem[m] EXCEPT !.coord = FALSE, !.cf = cf, !.cache = cache]
             x1    == IF kinds \cap {"join", "sync"} # {} THEN JoinFailed(x) ELSE x
  <2>1. /\ Become(m, IF "leave" \in kinds
                     THEN [ResetGeneration(x1, NONE) EXCEPT !.leaving = FALSE] ELSE x1)
        /\ Queue(m, <<>>) /\ group' = group
    BY <1>b DEF Disconnect, broker
  <2> HIDE DEF cf, cache
  <2> QED BY <1>a, <2>1
<1>3. PICK x : x = [r EXCEPT !.coord = FALSE, !.cf = cf, !.cache = cache] OBVIOUS
<1>4. PICK x1 : x1 = IF kinds \cap {"join", "sync"} # {} THEN JoinFailed(x) ELSE x OBVIOUS
<1>5. PICK x2 : x2 = IF "leave" \in kinds
                     THEN [ResetGeneration(x1, NONE) EXCEPT !.leaving = FALSE] ELSE x1
  OBVIOUS
<1>6. Become(m, x2) /\ Queue(m, <<>>) /\ group' = group BY <1>2, <1>3, <1>4, <1>5
<1>7. /\ DOMAIN x = Fields /\ x.coord = FALSE
      /\ \A f \in Fields \ {"coord", "cf", "cache"} : x[f] = r[f]
  BY <1>1, <1>3 DEF Fields
<1>8. /\ x.st = r.st /\ x.join = r.join /\ x.pc = r.pc /\ x.sub = r.sub
      /\ x.rejoining = r.rejoining /\ x.held = r.held /\ x.rejoin = r.rejoin
      /\ x.leaving = r.leaving /\ x.gen = r.gen /\ x.mid = r.mid /\ x.asg = r.asg
      /\ x.given = r.given
  BY <1>7 DEF Fields
<1>9. MemberInv(group, m, x1, <<>>) /\ Free(x1) /\ DOMAIN x1 = Fields
  <2>1. CASE r.join = "pending"
    <3>a. s[1].kind \in {"join", "sync"} /\ Len(s) = 1 BY <1>1, <2>1 DEF Orderly
    <3>1. s[1].kind \in {"join", "sync"} /\ 1 \in 1 .. Len(s) BY <3>a
    <3>2. kinds \cap {"join", "sync"} # {} BY <1>a, <1>b, <3>1
    <3>3. x1 = [x EXCEPT !.join = "failed", !.st = "unjoined"]
      BY <1>4, <1>8, <2>1, <3>2 DEF JoinFailed
    <3>4. /\ DOMAIN x1 = Fields /\ x1.join = "failed" /\ x1.st = "unjoined"
          /\ \A f \in Fields \ {"join", "st"} : x1[f] = x[f]
      BY <1>7, <3>3 DEF Fields
    <3>5. /\ x1.pc = x.pc /\ x1.sub = x.sub /\ x1.rejoining = x.rejoining
          /\ x1.held = x.held /\ x1.rejoin = x.rejoin /\ x1.leaving = x.leaving
          /\ x1.gen = x.gen /\ x1.coord = FALSE
      BY <1>7, <3>4 DEF Fields
    <3>6. x1.rejoin BY <1>1, <1>8, <2>1, <3>5 DEF Orderly
    <3>7. MemberInv(group, m, x1, <<>>) BY <1>1, <1>8, <2>1, <3>4, <3>5, <3>6, OutOfJoin
    <3> QED BY <3>4, <3>7 DEF Free
  <2>2. CASE r.join # "pending"
    <3>1. x1 = x BY <1>4, <1>8, <2>2 DEF JoinFailed
    <3>2. r.join # "ok" BY <1>1, <1>a DEF Orderly, Disconnect
    <3>3. Orderly(x, <<>>) BY <1>1, <1>7, <1>8, <2>2, <3>2 DEF Orderly
    <3>4. Holds(group, m, x) BY <1>1, <1>8 DEF Holds, Share
    <3>5. Free(x) BY <1>1, <1>8, <2>2, <3>2 DEF Orderly, Free
    <3> QED BY <1>7, <3>1, <3>3, <3>4, <3>5, NoRequests DEF MemberInv
  <2> QED BY <2>1, <2>2
<1>10. MemberInv(group, m, x2, <<>>)
  <2>1. CASE x2 = x1 BY <1>9, <2>1
  <2>2. CASE x2 = [ResetGeneration(x1, NONE) EXCEPT !.leaving = FALSE]
    <3>1. PICK y : y = ResetGeneration(x1, NONE) OBVIOUS
    <3>2. MemberInv(group, m, y, <<>>) /\ Free(y) BY <1>1, <1>9, <3>1, ResetMoves
    <3>3. /\ DOMAIN y = Fields /\ y.st = "unjoined" /\ y.gen = NONE /\ y.rejoin = TRUE
      BY <1>9, <3>1 DEF ResetGeneration, Fields
    <3>4. DOMAIN x2 = Fields /\ \A f \in Fields \ {"leaving"} : x2[f] = y[f]
      BY <2>2, <3>1, <3>3 DEF Fields
    <3>5. /\ x2.st = y.st /\ x2.join = y.join /\ x2.pc = y.pc /\ x2.coord = y.coord
          /\ x2.sub = y.sub /\ x2.rejoining = y.rejoining /\ x2.held = y.held
          /\ x2.rejoin = y.rejoin /\ x2.gen = y.gen
      BY <3>4 DEF Fields
    <3>6. Orderly(x2, <<>>) BY <3>2, <3>3, <3>4, <3>5 DEF MemberInv, Orderly, Free
    <3>7. Holds(group, m, x2) BY <1>1, <3>3, <3>5 DEF Holds, NONE
    <3> QED BY <3>6, <3>7, NoRequests DEF MemberInv
  <2> QED BY <1>5, <2>1, <2>2
<1> QED BY <1>6, <1>10, OwnMoves

----------------------------------------------------------------------------
LEMMA InitiallyMoves == Init => JInv
<1> SUFFICES ASSUME Init PROVE JInv OBVIOUS
<1>1. GroupInv(group) BY DEF Init, GroupInv, NONE
<1>2. group.gen \in Nat BY <1>1 DEF GroupInv
<1>3. \A m \in Member : MemberInv(group, m, NewMember, <<>>) BY <1>2, NewMoves
<1> QED BY <1>1, <1>3 DEF Init, JInv

LEMMA NextMoves == ~Gap /\ JInv /\ [Next]_vars => JInv'
<1> SUFFICES ASSUME ~Gap, JInv, [Next]_vars PROVE JInv' OBVIOUS
<1>1. ASSUME NEW m \in Member, Crash(m) PROVE JInv'
  <2>1. group.gen \in Nat BY DEF JInv, GroupInv
  <2>2. MemberInv(group, m, NewMember, <<>>) BY <2>1, NewMoves
  <2> QED BY <1>1, <2>2, OwnMoves DEF Crash, broker
<1>2. ASSUME NEW m \in Member,
             \/ Lookup(m) \/ Join(m) \/ Read(m) \/ User(m) \/ Handle(m)
             \/ HeartbeatThread(m) \/ Broker(m)
             \/ Refuse(m) \/ Disconnect(m) \/ Crash(m)
      PROVE  JInv'
  BY <1>1, <1>2, LookupMoves, JoinMoves, ReadMoves, UserMoves, HandleMoves, HeartbeatMoves,
     BrokerMoves, DisconnectMoves
<1>3. CASE BrokerGeneration BY <1>3, GenerationMoves
<1>4. CASE Expired BY <1>4, ExpiredMoves
<1>5. CASE UNCHANGED vars BY <1>5 DEF JInv, vars
<1> QED BY <1>2, <1>3, <1>4, <1>5 DEF Next

\* A member that is out of the group knows that it has to join, whichever of its
\* threads found out and through which answer (reset_generation, request_rejoin,
\* _handle_join_failure, maybe_leave_group).
THEOREM RejoinRemembered ==
  ASSUME ~Gap
  PROVE  Spec => []FallenOutRejoins
<1>1. JInv => FallenOutRejoins BY DEF JInv, MemberInv, Orderly, FallenOutRejoins
<1> QED BY <1>1, InitiallyMoves, NextMoves, PTL DEF Spec

\* A settled member reads the partitions of the coordinator's plan and no others:
\* the share of an earlier generation, an answer that comes after the member has
\* fallen out, a join that the caller gave up on leave no other one behind
\* (_on_join_complete, _handle_join_success).
THEOREM ShareIsPlanned ==
  ASSUME ~Gap
  PROVE  Spec => []SettledHoldShare
<1>1. JInv => SettledHoldShare
  <2> SUFFICES ASSUME JInv, NEW m \in Member, Settled(m)
               PROVE  mem[m].asg = group.plan[<<m, mem[m].mid>>]
    BY DEF SettledHoldShare
  <2>1. PICK g, r : g = group /\ r = mem[m] OBVIOUS
  <2>2. Holds(g, m, r) BY <2>1 DEF JInv, MemberInv
  <2> QED BY <2>1, <2>2 DEF Settled, Holds, Shared, Share
<1> QED BY <1>1, InitiallyMoves, NextMoves, PTL DEF Spec

\* Only the member to whom a partition was given last moves its committed
\* offset: a commit that was held back or sent before a rebalance never does
\* (_send_offset_commit_request, commit_offsets_async).
THEOREM CommitsAreOwn ==
  ASSUME ~Gap
  PROVE  Spec => OwnerCommits
<1> DEFINE Own == \A m \in Member : \A i \in 1 .. MaxInFlight : BrokerCommit(m, i) =>
                    \A p \in Partition : committed'[p] # committed[p] =>
                      p \in group.plan[IdOf(m, i)]
<1>1. JInv => Own
  <2> SUFFICES ASSUME JInv, NEW m \in Member, NEW i, BrokerCommit(m, i),
                      NEW p \in Partition, committed'[p] # committed[p]
               PROVE  p \in group.plan[IdOf(m, i)]
    OBVIOUS
  <2>1. PICK g, r, s, q : g = group /\ r = mem[m] /\ s = flight[m] /\ q = s[i] OBVIOUS
  <2>2. i \in 1 .. Len(s) /\ q.kind = "commit" BY <2>1 DEF BrokerCommit, IsNext
  <2>3. Sent(g, m, r, q) BY <2>1, <2>2 DEF JInv, MemberInv, Requests
  <2>4. Refusal(m, i, {"completing"}) = "none" BY DEF BrokerCommit
  <2>5. q.gen = g.gen /\ q.at[p] # None
    BY <2>1, <2>4 DEF BrokerCommit, Refusal, Current
  <2> QED BY <2>1, <2>2, <2>3, <2>5 DEF Sent, Owned, IdOf
<1>2. JInv /\ [Next]_vars => [Own]_vars BY <1>1
<1> HIDE DEF Own
<1>3. Spec => [][Own]_vars BY <1>2, InitiallyMoves, NextMoves, PTL DEF Spec
<1> QED BY <1>3 DEF OwnerCommits, Own
=============================================================================
