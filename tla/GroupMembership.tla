-------------------------- MODULE GroupMembership --------------------------
(***************************************************************************)
(* Consumer groups: kafka/coordinator/base.py and consumer.py, as the calls *)
(* of kafka/consumer/group.py use them, with the assignment and positions   *)
(* of kafka/consumer/subscription_state.py.                                 *)
(*                                                                          *)
(* Each member is a process with two threads. The caller's thread runs      *)
(* poll(), which joins the group where it has to, commit() and the rest;    *)
(* the heartbeat thread keeps the membership alive. Either thread handles   *)
(* the answers that have arrived when it polls the network client. The      *)
(* coordinator is a broker: one connection per member, on which requests    *)
(* are answered in order.                                                   *)
(***************************************************************************)
EXTENDS Naturals, Sequences, FiniteSets

CONSTANTS
  Member,      \* the consumers of one group
  Partition,   \* the partitions of the topic they subscribe to
  MaxOffset,   \* records per partition
  MaxInFlight, \* max_in_flight_requests_per_connection
  Calls,       \* what the application of each member does besides calls to
               \* poll() that last as long as they need
  Troubled,    \* the members to which faults happen
  MaxFaults,   \* bound: crashes, expired sessions, lost connections, refusals
  Gap          \* whether a join may complete outside the poll() that waits
               \* for it, and anything may run before the next poll() takes it

ASSUME MemberAssumption ==
  IsFiniteSet(Member) /\ Member # {} /\ IsFiniteSet(Partition)
ASSUME BoundAssumption ==
  /\ MaxOffset \in Nat /\ MaxInFlight \in Nat \ {0}
  /\ Calls \in [Member -> SUBSET {"commit", "commit_async", "unsubscribe", "timeout"}]
  /\ Troubled \subseteq Member
  /\ MaxFaults \in Nat /\ Gap \in BOOLEAN

VARIABLES
  mem,         \* the state of each member
  flight,      \* its requests to the coordinator, in order, with their answers
  group,       \* what the coordinator has of the group
  issued,      \* member ids the coordinator has given to a member so far
  committed,   \* the committed offset of each partition
  delivered,   \* history: the records some member has returned to its caller
  faults       \* faults so far

vars == <<mem, flight, group, issued, committed, delivered, faults>>
broker == <<group, issued, committed>>

Offset    == 0 .. MaxOffset
None      == MaxOffset + 1                 \* no position, nothing committed
Positions == [Partition -> Offset \cup {None}]
NoOffsets == [p \in Partition |-> None]
NONE      == 0                             \* DEFAULT_GENERATION_ID, UNKNOWN_MEMBER_ID

Id    == Member \X (Nat \ {NONE})          \* member ids: the n-th one of a member
Error == {"none", "unknownMember", "illegalGeneration", "rebalancing",
          "memberIdRequired", "notCoordinator"}

\* Requests, and what an answer holds; a request of no use to a kind is empty.
Waiting == [error |-> "waiting", gen |-> NONE, id |-> NONE,
            ids |-> {}, parts |-> {}, at |-> NoOffsets]
Parked  == [Waiting EXCEPT !.error = "parked"]
Says(e) == [Waiting EXCEPT !.error = e]
Request(kind, gen, id) ==
  [kind |-> kind, gen |-> gen, id |-> id, at |-> NoOffsets, sync |-> FALSE,
   key |-> {}, ids |-> {}, plan |-> <<>>, answer |-> Waiting]

NewMember ==
  [pc |-> "user", sub |-> TRUE, coord |-> FALSE, st |-> "unjoined",
   gen |-> NONE, mid |-> NONE, rejoin |-> TRUE, rejoining |-> FALSE,
   hb |-> FALSE, leaving |-> FALSE, join |-> "none", given |-> {},
   asg |-> {}, pos |-> NoOffsets, cf |-> "none", held |-> NoOffsets,
   cache |-> [k \in SUBSET Partition |-> [st |-> "none", at |-> NoOffsets]]]

Init ==
  /\ mem = [m \in Member |-> NewMember]
  /\ flight = [m \in Member |-> <<>>]
  /\ group = [phase |-> "empty", gen |-> NONE, members |-> {}, known |-> {},
              plan |-> <<>>]
  /\ issued = [m \in Member |-> 0]
  /\ committed = NoOffsets
  /\ delivered = [p \in Partition |-> {}]
  /\ faults = 0

SpendFault(m) == m \in Troubled /\ faults < MaxFaults /\ faults' = faults + 1

Become(m, r)  == mem' = [mem EXCEPT ![m] = r]
Queue(m, q)   == flight' = [flight EXCEPT ![m] = q]
Room(m)       == Len(flight[m]) < MaxInFlight
Local         == UNCHANGED <<broker, delivered, faults>>
Alone         == UNCHANGED flight /\ Local

-----------------------------------------------------------------------------
(* What the threads share                                                  *)

\* Faulty variant: the member forgets to rejoin.
ResetQuietly(r, id) ==
  [r EXCEPT !.gen = NONE, !.mid = id, !.st = "unjoined"]

\* reset_generation: the member has fallen out of the group.
ResetGeneration(r, id) ==
  [r EXCEPT !.gen = NONE, !.mid = id, !.rejoin = TRUE, !.st = "unjoined"]

\* all_consumed_offsets
Consumed(r) == [p \in Partition |-> IF p \in r.asg THEN r.pos[p] ELSE None]

\* _send_offset_commit_request: the commit goes out under the generation of a
\* stable member; a rebalancing or unjoined one fails it at once, and a node
\* that is unknown or busy is tried again.
CommitSent(m, r)    == r.coord /\ Room(m) /\ r.st = "stable"
CommitRefused(m, r) == r.coord /\ Room(m) /\ r.st # "stable"
CommitRequest(r, at, sync) ==
  [Request("commit", r.gen, r.mid) EXCEPT !.at = at, !.sync = sync]

\* The offsets that wait for a coordinator go out when it is found.
LookupDone(m) ==
  LET r == [mem[m] EXCEPT !.coord = TRUE]
  IN  /\ Become(m, [r EXCEPT !.held = NoOffsets])
      /\ \/ Queue(m, flight[m])              \* nothing held, or not connected yet
         \/ /\ r.held # NoOffsets /\ CommitSent(m, r)
            /\ Queue(m, Append(flight[m], CommitRequest(r, r.held, FALSE)))
      /\ Local

-----------------------------------------------------------------------------
(* The caller's thread. Its pc is where it waits: "user" is the caller's    *)
(* own code or the start of a call; "prepare", "join" and "offsets" are the *)
(* waits of poll(), and "commit" is the wait of commit().                   *)

\* maybe_leave_group holds both locks until the answer is there.
Runs(m, pc)  == mem[m].pc = pc /\ ~mem[m].leaving

\* ensure_coordinator_ready, in any call that needs the coordinator, and the
\* heartbeat thread's lookup.
Lookup(m) ==
  /\ ~mem[m].coord /\ ~mem[m].leaving
  /\ mem[m].pc \in {"user", "prepare", "join", "offsets", "commit"} \/ mem[m].hb
  /\ LookupDone(m)

\* One turn of commit_offsets_sync, which ends as it must or is tried again.
CommitTurn(m, r) ==
  \/ /\ CommitSent(m, r)
     /\ Become(m, [r EXCEPT !.cf = "pending"])
     /\ Queue(m, Append(flight[m], CommitRequest(r, Consumed(r), TRUE)))
  \/ /\ CommitRefused(m, r)
     /\ Become(m, [r EXCEPT !.cf = "fatal"])
     /\ UNCHANGED flight
  \/ /\ ~r.coord \/ ~Room(m)
     /\ Become(m, [r EXCEPT !.cf = "retry"])
     /\ UNCHANGED flight
CommitAgain(m) ==
  /\ Runs(m, "commit") \/ Runs(m, "prepare")
  /\ mem[m].cf = "retry" /\ mem[m].coord /\ Room(m)
  /\ CommitTurn(m, mem[m])
  /\ Local

\* The answer of a commit that was given up reaches nobody.
GiveUp(q) == [i \in 1 .. Len(q) |-> [q[i] EXCEPT !.sync = FALSE]]

\* need_rejoin, for a subscription and metadata that stay as they are.
NeedRejoin(r) == r.sub /\ r.rejoin

\* _maybe_auto_commit_offsets_sync, before the member gives its partitions up.
AutoCommit(m, r) == Consumed(r) # NoOffsets /\ CommitTurn(m, r)

\* join_group with a rebalance to prepare: first the offsets are committed.
\* After that, however it went, the heartbeat thread is held off and the
\* member waits to join.
HeldOff(r) == [r EXCEPT !.pc = "join", !.rejoining = TRUE, !.hb = FALSE, !.cf = "none"]
Rejoin(m) ==
  LET r == mem[m]
  IN  /\ Runs(m, "user") /\ NeedRejoin(r) /\ r.coord /\ ~r.rejoining
      /\ \/ AutoCommit(m, [r EXCEPT !.pc = "prepare"])
         \/ Consumed(r) = NoOffsets /\ Become(m, HeldOff(r)) /\ UNCHANGED flight
      /\ Local
Prepared(m) ==
  /\ Runs(m, "prepare")
  /\ Become(m, HeldOff(mem[m]))
  /\ Queue(m, GiveUp(flight[m])) /\ Local

\* poll() again, after it ran out of time or the join failed.
RejoinAgain(m) ==
  /\ Runs(m, "user") /\ NeedRejoin(mem[m]) /\ mem[m].coord /\ mem[m].rejoining
  /\ Become(m, [mem[m] EXCEPT !.pc = "join"]) /\ Alone

\* _initiate_join_group: the future of a join is kept until poll() takes it.
InitiateJoin(r) == [r EXCEPT !.st = "rebalancing", !.join = "pending"]

\* No request may be pending when the member joins, above all no other join.
SendJoin(m) ==
  LET r == mem[m]
  IN  /\ Runs(m, "join") /\ r.coord /\ r.join = "none" /\ flight[m] = <<>>
      /\ \/ /\ Become(m, InitiateJoin(r))
            /\ Queue(m, <<Request("join", r.gen, r.mid)>>)
            /\ Local
         \/ /\ SpendFault(m)                            \* the node is not ready
            /\ Become(m, [r EXCEPT !.st = "unjoined", !.join = "failed"])
            /\ UNCHANGED <<flight, broker, delivered>>

\* Faulty variant: the partitions that were taken away are kept.
JoinDoneKeeping(m) ==
  LET r == [mem[m] EXCEPT !.pc = "user", !.join = "none", !.given = {}]
  IN  /\ Runs(m, "join") /\ mem[m].join \in {"ok", "failed"}
      /\ Become(m, IF mem[m].join = "failed" THEN r
                   ELSE [r EXCEPT !.rejoining = FALSE, !.rejoin = FALSE,
                                  !.asg = @ \cup mem[m].given, !.pos = NoOffsets])
      /\ Alone

\* assign_from_subscribed: the new partitions, with no positions yet.
AssignFromSubscribed(r, parts) == [r EXCEPT !.asg = parts, !.pos = NoOffsets]

\* _on_join_complete runs without the lock: if the heartbeat thread has reset
\* the generation there is no assignor for it, and the assertion fails.
OnJoinComplete(r, parts) == IF r.gen = NONE THEN r ELSE AssignFromSubscribed(r, parts)

\* The join is done, and poll() goes on or starts over.
JoinDone(m) ==
  LET r == [mem[m] EXCEPT !.pc = "user", !.join = "none", !.given = {}]
      t == [r EXCEPT !.rejoining = FALSE, !.rejoin = FALSE]
  IN  /\ Runs(m, "join") /\ mem[m].join \in {"ok", "failed"}
      /\ Become(m, IF mem[m].join = "failed" THEN r ELSE OnJoinComplete(t, mem[m].given))
      /\ Alone

\* poll() or commit() runs out of time; what it waits for goes on.
Timeout(m) ==
  /\ "timeout" \in Calls[m]
  /\ \/ Runs(m, "join") /\ (Gap \/ mem[m].join \in {"none", "pending"})
     \/ Runs(m, "offsets") \/ Runs(m, "commit")
  /\ Become(m, [mem[m] EXCEPT !.pc = "user", !.cf = "none"])
  /\ Queue(m, GiveUp(flight[m])) /\ Local

-----------------------------------------------------------------------------
(* Positions and records                                                   *)

Missing(r)  == {p \in Partition : p \in r.asg /\ r.pos[p] = None}
Cached(r)   == r.cache[Missing(r)]
Forget(r)   == [r.cache EXCEPT ![Missing(r)] = [st |-> "none", at |-> NoOffsets]]

\* The caller polls, and there is nothing to join.
Polls(m) == Runs(m, "user") /\ mem[m].sub /\ mem[m].coord /\ ~NeedRejoin(mem[m])

\* Faulty variant: the position moves when the record is fetched.
ReturnAhead(m) ==
  /\ Polls(m) /\ Missing(mem[m]) = {}
  /\ \E p \in mem[m].asg :
       /\ mem[m].pos[p] < MaxOffset
       /\ Become(m, [mem[m] EXCEPT !.pos[p] = @ + 1])
  /\ UNCHANGED <<flight, broker, delivered, faults>>

\* A record is returned, and the position moves past it. Any other outcome
\* of such a poll changes nothing.
Return(m) ==
  /\ Polls(m) /\ Missing(mem[m]) = {}
  /\ \E p \in mem[m].asg :
       /\ mem[m].pos[p] < MaxOffset
       /\ Become(m, [mem[m] EXCEPT !.pos[p] = @ + 1])
       /\ delivered' = [delivered EXCEPT ![p] = @ \cup {mem[m].pos[p]}]
  /\ UNCHANGED <<flight, broker, faults>>

\* _update_fetch_positions, when a partition has no position: then
\* fetch_committed_offsets, with one request per set of partitions, whoever asks.
FindOffsets(m) ==
  /\ Polls(m) /\ Missing(mem[m]) # {}
  /\ Become(m, [mem[m] EXCEPT !.pc = "offsets"]) /\ Alone
SendOffsetFetch(m) ==
  LET r == mem[m]
  IN  /\ Runs(m, "offsets") /\ Cached(r).st = "none" /\ r.coord /\ Room(m)
      /\ Become(m, [r EXCEPT !.cache[Missing(r)].st = "pending"])
      /\ Queue(m, Append(flight[m],
                    [Request("offsets", NONE, NONE) EXCEPT !.key = Missing(r)]))
      /\ Local

\* The committed offsets become the positions; a partition without one is
\* reset to the start.
OffsetsDone(m) ==
  LET r == mem[m]
  IN  /\ Runs(m, "offsets")
      /\ \/ /\ Cached(r).st = "ok"
            /\ Become(m, [r EXCEPT !.pc = "user", !.cache = Forget(r),
                 !.pos = [p \in Partition |->
                            IF p \notin Missing(r) THEN r.pos[p]
                            ELSE IF Cached(r).at[p] # None THEN Cached(r).at[p]
                            ELSE 0]])
         \/ /\ Cached(r).st = "failed"
            /\ Become(m, [r EXCEPT !.cache = Forget(r)])
      /\ Alone

-----------------------------------------------------------------------------
(* Other calls                                                             *)

Commit(m) ==
  /\ "commit" \in Calls[m] /\ Runs(m, "user") /\ Consumed(mem[m]) # NoOffsets
  /\ CommitTurn(m, [mem[m] EXCEPT !.pc = "commit"])
  /\ Local
CommitDone(m) ==
  /\ Runs(m, "commit") /\ mem[m].cf \in {"ok", "fatal"}
  /\ Become(m, [mem[m] EXCEPT !.pc = "user", !.cf = "none"])
  /\ Alone

\* commit_offsets_async: without a coordinator the offsets wait for the lookup.
CommitOffsetsAsync(m, r, at) ==
  \/ /\ CommitSent(m, r)
     /\ Queue(m, Append(flight[m], CommitRequest(r, at, FALSE))) /\ UNCHANGED mem
  \/ ~r.coord /\ Become(m, [r EXCEPT !.held = at]) /\ UNCHANGED flight
\* commit_async, and poll() when a commit is due.
CommitAsync(m) ==
  /\ "commit_async" \in Calls[m] /\ Runs(m, "user") /\ Consumed(mem[m]) # NoOffsets
  /\ CommitOffsetsAsync(m, mem[m], Consumed(mem[m])) /\ Local

\* maybe_leave_group: the request is sent if the coordinator would know the
\* member; without one the member is out at once.
LeaveGroup(m, r, q) ==
  IF r.coord /\ r.st # "unjoined" /\ r.mid # NONE /\ Len(q) < MaxInFlight
  THEN /\ Become(m, [r EXCEPT !.leaving = TRUE])
       /\ Queue(m, Append(q, Request("leave", r.gen, r.mid)))
  ELSE /\ Become(m, ResetGeneration(r, NONE))
       /\ Queue(m, q)

\* The changes of SubscriptionState.
Subscribed(r)   == [r EXCEPT !.sub = TRUE]
Unsubscribed(r) == [r EXCEPT !.sub = FALSE, !.asg = {}, !.pos = NoOffsets]

\* unsubscribe commits what was consumed, gives the partitions up and leaves;
\* a join that is pending goes on.
Unsubscribe(m) ==
  LET r == mem[m]
      q == IF CommitSent(m, r) /\ Consumed(r) # NoOffsets
           THEN Append(flight[m], CommitRequest(r, Consumed(r), FALSE))
           ELSE flight[m]
  IN  /\ "unsubscribe" \in Calls[m] /\ Runs(m, "user") /\ r.sub /\ SpendFault(m)
      /\ (Gap \/ r.join = "none")
      /\ LeaveGroup(m, Unsubscribed(r), q)
      /\ UNCHANGED <<broker, delivered>>
Subscribe(m) ==
  /\ Runs(m, "user") /\ ~mem[m].sub
  /\ Become(m, Subscribed(mem[m])) /\ Alone

-----------------------------------------------------------------------------
(* The heartbeat thread                                                    *)

Beats(m) ==
  /\ mem[m].hb /\ mem[m].st = "stable" /\ ~mem[m].leaving
  /\ Gap \/ (mem[m].join # "ok")

\* A bound: one heartbeat in flight.
Heartbeat(m) ==
  /\ Beats(m) /\ mem[m].coord /\ Room(m)
  /\ \A i \in 1 .. Len(flight[m]) : flight[m][i].kind # "heartbeat"
  /\ Queue(m, Append(flight[m], Request("heartbeat", mem[m].gen, mem[m].mid)))
  /\ UNCHANGED mem /\ Local

\* The thread finds the group not stable and waits to be enabled.
HeartbeatOff(m) ==
  /\ mem[m].hb /\ mem[m].st # "stable" /\ ~mem[m].leaving
  /\ Become(m, [mem[m] EXCEPT !.hb = FALSE]) /\ Alone

\* No answer for session_timeout_ms.
SessionExpired(m) ==
  /\ Beats(m) /\ mem[m].coord /\ SpendFault(m)
  /\ Become(m, [mem[m] EXCEPT !.coord = FALSE])
  /\ UNCHANGED <<flight, broker, delivered>>

\* The caller has not polled for max_poll_interval_ms.
PollExpired(m) ==
  /\ Beats(m) /\ mem[m].coord /\ mem[m].pc \in {"user", "commit"} /\ SpendFault(m)
  /\ LeaveGroup(m, mem[m], flight[m])
  /\ UNCHANGED <<broker, delivered>>

-----------------------------------------------------------------------------
(* The coordinator: a broker, as the requests and answers above use it.     *)

\* It takes the requests of a connection one by one.
IsNext(m, i, kind) ==
  /\ i \in 1 .. Len(flight[m]) /\ flight[m][i].kind = kind
  /\ flight[m][i].answer = Waiting
  /\ \A j \in 1 .. i - 1 : flight[m][j].answer \notin {Waiting, Parked}
Answer(m, i, a) == flight' = [flight EXCEPT ![m][i].answer = a]

IdOf(m, i)    == <<m, flight[m][i].id>>
Known(m, i)   == IdOf(m, i) \in group.members
Current(m, i) == flight[m][i].gen = group.gen
ParkedAt(kind) ==
  {m \in Member : \E i \in 1 .. Len(flight[m]) :
                    flight[m][i].kind = kind /\ flight[m][i].answer = Parked}
ParkedIds(kind) ==
  UNION {{IdOf(m, i) : i \in {j \in 1 .. Len(flight[m]) :
            flight[m][j].kind = kind /\ flight[m][j].answer = Parked}} : m \in Member}

\* Every parked request of a kind is answered.
Release(f, kind, ans) ==
  [m \in Member |-> [i \in 1 .. Len(f[m]) |->
     IF f[m][i].kind = kind /\ f[m][i].answer = Parked
     THEN [f[m][i] EXCEPT !.answer = ans[<<m, f[m][i].id>>]] ELSE f[m][i]]]

Dismissal == [id \in ParkedIds("sync") |-> Says("rebalancing")]

\* A member without an id is given one, and may have to come back with it.
BrokerJoin(m, i) ==
  /\ IsNext(m, i, "join")
  /\ \/ /\ flight[m][i].id = NONE
        /\ issued' = [issued EXCEPT ![m] = @ + 1]
        /\ group' = [group EXCEPT !.known = @ \cup {<<m, issued[m] + 1>>}]
        /\ Answer(m, i, [Says("memberIdRequired") EXCEPT !.id = issued[m] + 1])
     \/ /\ flight[m][i].id # NONE
        /\ IF IdOf(m, i) \in group.members \cup group.known
           THEN /\ group' = [group EXCEPT
                     !.members = @ \cup {IdOf(m, i)}, !.known = @ \ {IdOf(m, i)},
                     !.phase = "preparing"]
                /\ flight' = [Release(flight, "sync", Dismissal)
                                EXCEPT ![m][i].answer = Parked]
           ELSE Answer(m, i, Says("unknownMember")) /\ UNCHANGED group
        /\ UNCHANGED issued
  /\ UNCHANGED <<mem, committed, delivered, faults>>

\* Everybody has joined: a new generation, one of them is its leader.
BrokerGeneration ==
  /\ group.phase = "preparing" /\ group.members # {}
  /\ ParkedIds("join") = group.members
  /\ group' = [group EXCEPT !.phase = "completing", !.gen = @ + 1, !.plan = <<>>]
  /\ \E leader \in group.members :
       flight' = Release(flight, "join", [id \in group.members |->
         [Says("none") EXCEPT !.gen = group.gen + 1, !.id = id[2],
            !.ids = IF id = leader THEN group.members ELSE {}]])
  /\ UNCHANGED <<mem, issued, committed, delivered, faults>>

BrokerSync(m, i) ==
  LET id == IdOf(m, i)
  IN  /\ IsNext(m, i, "sync")
      /\ \/ /\ ~Known(m, i) /\ Answer(m, i, Says("unknownMember"))
            /\ UNCHANGED group
         \/ /\ Known(m, i) /\ ~Current(m, i)
            /\ Answer(m, i, Says("illegalGeneration")) /\ UNCHANGED group
         \/ /\ Known(m, i) /\ Current(m, i) /\ group.phase = "preparing"
            /\ Answer(m, i, Says("rebalancing")) /\ UNCHANGED group
         \/ /\ Known(m, i) /\ Current(m, i) /\ group.phase = "completing"
            /\ IF flight[m][i].plan = <<>>
               THEN Answer(m, i, Parked) /\ UNCHANGED group
               ELSE /\ group' = [group EXCEPT !.phase = "stable",
                                              !.plan = flight[m][i].plan]
                    /\ flight' = [Release(flight, "sync", [n \in ParkedIds("sync") |->
                         [Says("none") EXCEPT !.parts = flight[m][i].plan[n]]])
                           EXCEPT ![m][i].answer =
                             [Says("none") EXCEPT !.parts = flight[m][i].plan[id]]]
         \/ /\ Known(m, i) /\ Current(m, i) /\ group.phase = "stable"
            /\ Answer(m, i, [Says("none") EXCEPT !.parts = group.plan[id]])
            /\ UNCHANGED group
  /\ UNCHANGED <<mem, issued, committed, delivered, faults>>

\* What every request of a member is refused with.
Refusal(m, i, phases) ==
  IF ~Known(m, i) THEN "unknownMember"
  ELSE IF ~Current(m, i) THEN "illegalGeneration"
  ELSE IF group.phase \in phases THEN "rebalancing" ELSE "none"

BrokerHeartbeat(m, i) ==
  /\ IsNext(m, i, "heartbeat")
  /\ Answer(m, i, Says(Refusal(m, i, {"preparing"})))
  /\ UNCHANGED <<mem, broker, delivered, faults>>
BrokerCommit(m, i) ==
  /\ IsNext(m, i, "commit")
  /\ Answer(m, i, Says(Refusal(m, i, {"completing"})))
  /\ committed' = IF Refusal(m, i, {"completing"}) # "none" THEN committed
                  ELSE [p \in Partition |-> IF flight[m][i].at[p] = None
                          THEN committed[p] ELSE flight[m][i].at[p]]
  /\ UNCHANGED <<mem, group, issued, delivered, faults>>
BrokerOffsets(m, i) ==
  /\ IsNext(m, i, "offsets")
  /\ Answer(m, i, [Says("none") EXCEPT !.at = [p \in Partition |->
       IF p \in flight[m][i].key THEN committed[p] ELSE None]])
  /\ UNCHANGED <<mem, broker, delivered, faults>>

\* A member is gone: the others have to join again.
Without(id) ==
  [group EXCEPT !.members = @ \ {id}, !.known = @ \ {id},
     !.phase = IF id \notin group.members THEN @
               ELSE IF group.members = {id} THEN "empty" ELSE "preparing"]
Dismissed(f, id) ==
  IF id \in group.members
  THEN Release(f, "sync", Dismissal) ELSE f

BrokerLeave(m, i) ==
  /\ IsNext(m, i, "leave")
  /\ group' = Without(IdOf(m, i))
  /\ flight' = [Dismissed(flight, IdOf(m, i)) EXCEPT ![m][i].answer = Says("none")]
  /\ UNCHANGED <<mem, issued, committed, delivered, faults>>

\* An id is dropped when nothing is heard of it: at once if no member uses it
\* any more, and by a fault of the network or a stalled member otherwise.
InUse(id) ==
  \/ mem[id[1]].mid = id[2]
  \/ \E i \in 1 .. Len(flight[id[1]]) : flight[id[1]][i].answer.id = id[2]
BrokerExpire(id) ==
  /\ id \in group.members \cup group.known
  /\ id \notin ParkedIds("join")
  /\ group' = Without(id) /\ flight' = Dismissed(flight, id)
  /\ IF InUse(id) THEN SpendFault(id[1]) ELSE UNCHANGED faults
  /\ UNCHANGED <<mem, issued, committed, delivered>>

-----------------------------------------------------------------------------
(* Answers, and what happens to them. They are handled in order, by the     *)
(* thread that polls the client: the caller's, or the heartbeat thread.     *)

Completes(m) == flight[m][1].kind = "sync" /\ flight[m][1].answer.error = "none"
ClientPolls(m) ==
  Completes(m) /\ ~Gap => Runs(m, "join")

Arrived(m, kind) ==
  /\ flight[m] # <<>> /\ flight[m][1].kind = kind
  /\ flight[m][1].answer \notin {Waiting, Parked} /\ ClientPolls(m)
Said(m) == flight[m][1].answer
Done(m, r) == Become(m, r) /\ Queue(m, Tail(flight[m])) /\ Local

\* _handle_join_failure, when the join is still pending.
JoinFailed(r) ==
  IF r.join = "pending" THEN [r EXCEPT !.join = "failed", !.st = "unjoined"] ELSE r

\* What an error does to the member, whatever was asked.
Fallen(r, e) ==
  IF e \in {"unknownMember", "illegalGeneration"} THEN ResetGeneration(r, NONE)
  ELSE IF e = "notCoordinator" THEN [r EXCEPT !.coord = FALSE]
  ELSE r

\* The shares a leader may give out: each partition to one member.
Plans(ids) ==
  {plan \in [ids -> SUBSET Partition] :
     /\ ids # {} => UNION {plan[id] : id \in ids} = Partition
     /\ \A i, j \in ids : i # j => plan[i] \cap plan[j] = {}}

\* Faulty variant: the member is stable before it has its share.
HandleJoinEarly(m) ==
  LET a == Said(m)
      r == [mem[m] EXCEPT !.gen = a.gen, !.mid = a.id, !.st = "stable"]
  IN  /\ Arrived(m, "join") /\ a.error = "none" /\ r.coord
      /\ Become(m, r)
      /\ \E plan \in Plans(a.ids) :
           Queue(m, Append(Tail(flight[m]),
             [Request("sync", r.gen, r.mid) EXCEPT !.plan = plan]))
      /\ Local

\* The join is answered: the member of a generation asks for its share, the
\* leader with everybody's. One that has left meanwhile asks all the same.
HandleJoin(m) ==
  LET a  == Said(m)
      r  == mem[m]
      r1 == IF r.st = "rebalancing" THEN [r EXCEPT !.gen = a.gen, !.mid = a.id]
            ELSE JoinFailed(r)
  IN  /\ Arrived(m, "join") /\ a.error = "none"
      /\ \/ /\ r1.coord /\ Become(m, r1)
            /\ \E plan \in Plans(a.ids) :
                 Queue(m, Append(Tail(flight[m]),
                   [Request("sync", r1.gen, r1.mid) EXCEPT !.plan = plan]))
            /\ Local
         \/ ~r1.coord /\ Done(m, JoinFailed(r1))
HandleJoinError(m) ==
  LET a == Said(m)
  IN  /\ Arrived(m, "join") /\ a.error # "none"
      /\ Done(m, JoinFailed(
           IF a.error = "memberIdRequired" THEN ResetGeneration(mem[m], a.id)
           ELSE Fallen(mem[m], a.error)))

\* _handle_join_success: the heartbeat thread may go on.
JoinSucceeded(r, parts) == [r EXCEPT !.join = "ok", !.given = parts, !.st = "stable", !.hb = TRUE]

\* The share of the generation: the member is stable, if it waits for it.
HandleSync(m) ==
  /\ Arrived(m, "sync") /\ Completes(m)
  /\ Done(m, IF mem[m].join = "pending" THEN JoinSucceeded(mem[m], Said(m).parts)
             ELSE mem[m])
HandleSyncError(m) ==
  /\ Arrived(m, "sync") /\ ~Completes(m)
  /\ Done(m, JoinFailed([Fallen(mem[m], Said(m).error) EXCEPT !.rejoin = TRUE]))

\* Faulty variant: a rebalance is not noticed.
HandleHeartbeatDeaf(m) ==
  /\ Arrived(m, "heartbeat")
  /\ Done(m, Fallen(mem[m], Said(m).error))

HandleHeartbeat(m) ==
  /\ Arrived(m, "heartbeat")
  /\ Done(m, IF Said(m).error = "rebalancing" THEN [mem[m] EXCEPT !.rejoin = TRUE]
             ELSE Fallen(mem[m], Said(m).error))

HandleCommit(m) ==
  LET e == Said(m).error
      r == IF e = "rebalancing" THEN [mem[m] EXCEPT !.rejoin = TRUE]
           ELSE Fallen(mem[m], e)
  IN  /\ Arrived(m, "commit")
      /\ Done(m, IF ~flight[m][1].sync THEN r
                 ELSE [r EXCEPT !.cf = IF e = "none" THEN "ok"
                                       ELSE IF e = "notCoordinator" THEN "retry"
                                       ELSE "fatal"])

HandleOffsets(m) ==
  /\ Arrived(m, "offsets")
  /\ Done(m, [Fallen(mem[m], Said(m).error) EXCEPT !.cache[flight[m][1].key] =
       IF Said(m).error = "none" THEN [st |-> "ok", at |-> Said(m).at]
       ELSE [st |-> "failed", at |-> NoOffsets]])

HandleLeave(m) ==
  /\ Arrived(m, "leave")
  /\ Done(m, [ResetGeneration(mem[m], NONE) EXCEPT !.leaving = FALSE])

-----------------------------------------------------------------------------
(* Faults                                                                  *)

\* The coordinator has moved, or is loading.
Refuse(m) ==
  /\ \E i \in 1 .. Len(flight[m]) :
       /\ IsNext(m, i, flight[m][i].kind) /\ flight[m][i].kind # "leave"
       /\ Answer(m, i, Says("notCoordinator"))
  /\ SpendFault(m) /\ UNCHANGED <<mem, broker, delivered>>

\* The connection is lost: every request on it fails, done or not.
Disconnect(m) ==
  LET kinds == {flight[m][i].kind : i \in 1 .. Len(flight[m])}
      sync  == \E i \in 1 .. Len(flight[m]) : flight[m][i].sync
      r     == [mem[m] EXCEPT !.coord = FALSE,
                  !.cf = IF sync THEN "retry" ELSE @,
                  !.cache = [k \in SUBSET Partition |->
                     IF @[k].st = "pending" THEN [@[k] EXCEPT !.st = "failed"]
                     ELSE @[k]]]
      r1    == IF kinds \cap {"join", "sync"} # {} THEN JoinFailed(r) ELSE r
  IN  /\ flight[m] # <<>> /\ SpendFault(m)
      /\ Become(m, IF "leave" \in kinds
                   THEN [ResetGeneration(r1, NONE) EXCEPT !.leaving = FALSE] ELSE r1)
      /\ Queue(m, <<>>) /\ UNCHANGED <<broker, delivered>>

\* The process dies and is started again.
Crash(m) ==
  /\ mem[m] # NewMember /\ SpendFault(m)
  /\ Become(m, NewMember) /\ Queue(m, <<>>)
  /\ UNCHANGED <<broker, delivered>>

-----------------------------------------------------------------------------
Join(m) ==
  \/ Rejoin(m) \/ RejoinAgain(m) \/ CommitAgain(m) \/ Prepared(m) \/ SendJoin(m)
  \/ JoinDone(m)
Read(m) ==
  Return(m) \/ FindOffsets(m) \/ SendOffsetFetch(m) \/ OffsetsDone(m)
User(m) ==
  \/ Timeout(m) \/ Commit(m) \/ CommitDone(m) \/ CommitAsync(m)
  \/ Unsubscribe(m) \/ Subscribe(m)
Handle(m) ==
  \/ HandleJoin(m) \/ HandleJoinError(m) \/ HandleSync(m) \/ HandleSyncError(m)
  \/ HandleHeartbeat(m) \/ HandleCommit(m) \/ HandleOffsets(m) \/ HandleLeave(m)
HeartbeatThread(m) ==
  Heartbeat(m) \/ HeartbeatOff(m) \/ SessionExpired(m) \/ PollExpired(m)
Broker(m) ==
  \E i \in 1 .. MaxInFlight :
    \/ BrokerJoin(m, i) \/ BrokerSync(m, i) \/ BrokerHeartbeat(m, i)
    \/ BrokerCommit(m, i) \/ BrokerOffsets(m, i) \/ BrokerLeave(m, i)
Expired == \E id \in group.members \cup group.known : BrokerExpire(id)

Next ==
  \/ \E m \in Member :
       \/ Lookup(m) \/ Join(m) \/ Read(m) \/ User(m) \/ Handle(m)
       \/ HeartbeatThread(m) \/ Broker(m)
       \/ Refuse(m) \/ Disconnect(m) \/ Crash(m)
  \/ BrokerGeneration \/ Expired

Spec == Init /\ [][Next]_vars

\* The application keeps polling, with polls that last as long as they need;
\* the heartbeat thread runs; requests are answered and the answers arrive.
Caller(m) == Join(m) \/ SendOffsetFetch(m) \/ OffsetsDone(m) \/ Subscribe(m)
FairSpec ==
  /\ Spec
  /\ \A m \in Member :
       /\ WF_vars(Lookup(m)) /\ WF_vars(Caller(m)) /\ WF_vars(Handle(m))
       /\ WF_vars(Heartbeat(m) \/ HeartbeatOff(m)) /\ WF_vars(Broker(m))
  /\ WF_vars(BrokerGeneration) /\ WF_vars(Expired)

-----------------------------------------------------------------------------
(* Properties                                                              *)

\* What is committed has been returned by some member's poll(): whoever goes
\* on from a committed offset leaves no record out, across rebalances,
\* expired sessions and crashes.
CommittedWasDelivered ==
  \A p \in Partition : committed[p] # None =>
    0 .. committed[p] - 1 \subseteq delivered[p]

\* The member of the current generation, as it sees it and as the coordinator
\* does.
Settled(m) ==
  /\ mem[m].st = "stable" /\ mem[m].gen = group.gen /\ mem[m].join = "none"
  /\ ~mem[m].rejoining /\ mem[m].sub
  /\ group.phase = "stable" /\ <<m, mem[m].mid>> \in group.members
\* Such a member reads the partitions the coordinator gave to it and no
\* others, so no two of them read the same one.
SettledHoldShare ==
  \A m \in Member : Settled(m) => mem[m].asg = group.plan[<<m, mem[m].mid>>]

\* A member that is out of the group knows that it has to join: otherwise its
\* poll() would return nothing for ever.
FallenOutRejoins ==
  \A m \in Member :
    mem[m].st = "unjoined" /\ ~mem[m].leaving => mem[m].rejoin

\* An offset is only committed by the member to whom the partition was given
\* last, so no member undoes what another has committed.
OwnerCommits ==
  [][\A m \in Member : \A i \in 1 .. MaxInFlight : BrokerCommit(m, i) =>
       \A p \in Partition : committed'[p] # committed[p] =>
         p \in group.plan[IdOf(m, i)]]_vars

\* Once the faults are over every member comes back to a group in which it
\* has its share, and no chain of rebalances goes on for ever.
EventuallySettled == \A m \in Member : []<>Settled(m)

=============================================================================
