----------------------------- MODULE Assignors -----------------------------
(***************************************************************************)
(* How the leader of a consumer group divides the partitions among the      *)
(* members: range.py, roundrobin.py and sticky/ in                          *)
(* kafka/coordinator/assignors.                                             *)
(*                                                                          *)
(* The group goes through generations. Between two of them members come,    *)
(* go, change their topics, and topics grow. Range and roundrobin work from *)
(* the subscriptions alone, in one step. Sticky works from what the members *)
(* report of the last assignment they got, which may be that of an earlier  *)
(* generation, and its loops (_perform_reassignments) take a step for each  *)
(* partition they look at. Members and topics are numbers, so that they     *)
(* have an order; a partition is a topic and an index. The sorted sets      *)
(* (sorted_set.py) are read from the sizes they are sorted by.              *)
(***************************************************************************)
EXTENDS Naturals, Sequences, FiniteSets, FiniteSetsExt, SequencesExt

CONSTANTS
  Member, Topic,
  Static,         \* the members with a group_instance_id
  Strategy,       \* "range", "roundrobin" or "sticky", those tried
  MaxPartitions,  \* bound: partitions of a topic
  MaxGeneration,  \* bound: generations of the group
  MaxChanges,     \* bound: changes to the group between two generations, of
                  \* which the first is any group that has changed
  MaxMissed,      \* bound: members that do not get an assignment
  Gap             \* whether the inputs on which an assignor goes wrong occur

ASSUME OrderAssumption ==
  Member \subseteq Nat /\ IsFiniteSet(Member) /\ Topic \subseteq Nat /\ IsFiniteSet(Topic)
ASSUME BoundAssumption ==
  /\ Strategy \subseteq {"range", "roundrobin", "sticky"} /\ Static \subseteq Member
  /\ {MaxPartitions, MaxGeneration, MaxChanges, MaxMissed} \subseteq Nat /\ Gap \in BOOLEAN

VARIABLES
  strategy,
  topics,      \* the subscription of each member, {} when it is not in the group
  counts,      \* the partitions of each topic in the metadata, 0 for unknown
  claims,      \* the assignment each member got last: its user data
  reported,    \* and the generation it was of, 0 for none
  generation,
  assignment,  \* the outcome of a rebalance, until sticky begins the next
  phase,       \* stable, joining, sort, place, new, all, given or raised
  work,        \* the StickyAssignmentExecutor
  changes, missed

group == <<strategy, topics, counts, claims, reported, generation>>
vars  == <<group, assignment, phase, work, changes, missed>>

Members       == {m \in Member : topics[m] # {}}
Partition     == Topic \X (0 .. MaxPartitions - 1)
Of(t)         == {t} \X (0 .. counts[t] - 1)
Partitions    == {p \in Partition : p[2] < counts[p[1]]}
Offer(m)      == {p \in Partitions : p[1] \in topics[m]}  \* consumer_to_all_potential_partitions
Takers(p)     ==                                          \* partition_to_all_potential_consumers
  {m \in Member : p \in Partitions /\ p[1] \in topics[m]}
\* The place of x in a sorted set, from 0: how many go before it.
Rank(x, S, before(_, _)) == Cardinality({y \in S : before(y, x)})
Before(p, q)  == p[1] < q[1] \/ (p[1] = q[1] /\ p[2] < q[2])
Smaller(a, m, n) ==                                       \* subscriptions_comparator_key
  \/ Cardinality(a[m]) < Cardinality(a[n])
  \/ Cardinality(a[m]) = Cardinality(a[n]) /\ m < n
Scarcer(p, q) ==                                          \* partitions_comparator_key
  \/ Cardinality(Takers(p)) < Cardinality(Takers(q))
  \/ Cardinality(Takers(p)) = Cardinality(Takers(q)) /\ Before(p, q)
Nothing       == [m \in Member |-> {}]
NoWork        == [held |-> Nothing]

Init ==
  /\ strategy \in Strategy
  /\ topics \in [Member -> SUBSET Topic] /\ counts \in [Topic -> 0 .. MaxPartitions]
  /\ claims = Nothing /\ reported = [m \in Member |-> 0] /\ generation = 0
  /\ assignment = Nothing /\ phase = "joining" /\ work = NoWork
  /\ changes = MaxChanges /\ missed = 0

----------------------------------------------------------------------------
(* Between two generations. *)

\* A member joins, leaves or asks for other topics.
Subscribe(m) ==
  /\ phase \in {"stable", "joining"} /\ changes < MaxChanges
  /\ \E ts \in (SUBSET Topic) \ {topics[m]} :
       /\ topics' = [topics EXCEPT ![m] = ts]
       /\ claims' = [claims EXCEPT ![m] = IF ts = {} THEN {} ELSE @]
       /\ reported' = [reported EXCEPT ![m] = IF ts = {} THEN 0 ELSE @]
  /\ phase' = "joining" /\ changes' = changes + 1
  /\ UNCHANGED <<strategy, counts, generation, assignment, work, missed>>

\* The metadata shows a topic with more or fewer partitions.
Resize(t) ==
  /\ phase \in {"stable", "joining"} /\ changes < MaxChanges
  /\ \E n \in (0 .. MaxPartitions) \ {counts[t]} : counts' = [counts EXCEPT ![t] = n]
  /\ phase' = "joining" /\ changes' = changes + 1
  /\ UNCHANGED <<strategy, topics, claims, reported, generation, assignment, work, missed>>

\* A member rejoins with nothing changed.
Rejoin ==
  /\ phase = "stable"
  /\ phase' = "joining"
  /\ UNCHANGED <<group, assignment, work, changes, missed>>

\* The members get their part of the assignment. Only sticky remembers it; some
\* members may have fallen out before it came, and keep what they had got before.
Deliver ==
  /\ phase = "given"
  /\ \/ strategy # "sticky" /\ UNCHANGED <<claims, reported, missed>>
     \/ /\ strategy = "sticky"
        /\ \E out \in SUBSET Members :
             LET got == Members \ out
             IN  /\ missed + Cardinality(out) <= MaxMissed /\ missed' = missed + Cardinality(out)
                 /\ claims' = [m \in Member |-> IF m \in got THEN assignment[m] ELSE claims[m]]
                 /\ reported' = [m \in Member |-> IF m \in got THEN generation ELSE reported[m]]
  /\ phase' = "stable"
  /\ UNCHANGED <<strategy, topics, counts, generation, assignment, work, changes>>

\* The outcome of a rebalance, or the error that assign() raises instead.
Give(a) ==
  /\ assignment' = a /\ phase' = "given" /\ generation' = generation + 1
Raise ==
  /\ phase' = "raised" /\ UNCHANGED <<assignment, generation>>

----------------------------------------------------------------------------
(* Range and roundrobin. *)

\* The members in the order that they are considered in: static ones, then
\* dynamic ones, each sorted. groupby is applied to an order of arrival: of
\* each kind only the last run of neighbours is kept.
Kind(o, i)  == o[i] \in Static
Ahead(m, n) == (m \in Static /\ n \notin Static) \/ ((m \in Static <=> n \in Static) /\ m < n)
LastRun(o, U, k) ==
  LET at == {i \in DOMAIN o : o[i] \in U}
  IN  {o[i] : i \in {j \in at : /\ Kind(o, j) = k
                             /\ \A l, n \in at : j <= l /\ l <= n /\ Kind(o, l) # k =>
                                  Kind(o, n) # k}}
Kept(o, U)  == LastRun(o, U, TRUE) \cup LastRun(o, U, FALSE)
Askers(t)   == {m \in Members : t \in topics[m]}

RangeShare(o, t, m) ==
  LET us    == Kept(o, Askers(t))
      each  == counts[t] \div Cardinality(us)
      extra == counts[t] % Cardinality(us)
      i     == Rank(m, us, Ahead)
      start == each * i + Min({i, extra})
  IN  {<<t, n>> : n \in start .. (start + each + (IF i < extra THEN 1 ELSE 0) - 1)}

\* Members that groupby dropped get nothing of the topic.
ByRange(o) ==
  [m \in Member |-> UNION {IF m \in Kept(o, Askers(t)) THEN RangeShare(o, t, m) ELSE {}
                           : t \in topics[m]}]

\* The n-th partition goes to the n-th member, round and round. The loop that
\* should skip a member takes a pair for a member and raises.
Asked == {p \in Partitions : Takers(p) # {}}
Turn(o, p) ==
  LET us == Kept(o, Members)
  IN  CHOOSE m \in us : Rank(m, us, Ahead) = Rank(p, Asked, Before) % Cardinality(us)
Skips(o)   == \E p \in Asked : p[1] \notin topics[Turn(o, p)]
ByTurns(o) == [m \in Member |-> {p \in Asked : Turn(o, p) = m}]

Arrivals == {o \in [1 .. Cardinality(Members) -> Members] : IsInjective(o)}
Grouped(o) == \A i, j \in DOMAIN o : i < j /\ Kind(o, j) => Kind(o, i)

AssignByOrder ==
  /\ phase = "joining" /\ strategy # "sticky" /\ generation < MaxGeneration /\ Members # {}
  /\ \E o \in Arrivals :
       /\ Gap \/ (Grouped(o) /\ (strategy = "roundrobin" => ~Skips(o)))
       /\ IF strategy = "range" THEN Give(ByRange(o))
          ELSE IF Skips(o) THEN Raise ELSE Give(ByTurns(o))
  /\ changes' = 0
  /\ UNCHANGED <<strategy, topics, counts, claims, reported, work, missed>>

----------------------------------------------------------------------------
(* Sticky: what the members report. *)

Claimants(p) == {m \in Members : p \in claims[m]}
Latest(p)    == {m \in Claimants(p) : \A n \in Claimants(p) : reported[n] <= reported[m]}
\* Of two members that report the same generation the first one counts.
Owner(p)     == Min(Latest(p))
Earlier(p)   == {m \in Claimants(p) \ Latest(p) :
                   \A n \in Claimants(p) \ Latest(p) : reported[n] <= reported[m]}
Claimed      == {p \in Partition : Claimants(p) # {}}

Identical ==  \* _are_subscriptions_identical
  /\ \A p, q \in Partitions : Takers(p) = Takers(q)
  /\ \A m, n \in Members : Offer(m) = Offer(n)

\* _init_current_assignments, and the first half of _populate_sorted_partitions:
\* with equal subscriptions the partitions are listed from the fullest member.
StartSticky ==
  /\ phase = "joining" /\ strategy = "sticky" /\ generation < MaxGeneration /\ Members # {}
  /\ Gap \/ \A p \in Claimed : Earlier(p) \subseteq Takers(p)
  /\ LET held  == [m \in Member |-> {p \in Claimed : Owner(p) = m}]
         lists == Claimed # {} /\ Identical
     IN  /\ work' = [held   |-> held,
                     former |-> [p \in {q \in Claimed : Earlier(q) # {}} |-> Min(Earlier(p))],
                     left   |-> IF lists THEN [m \in Member |-> held[m] \cap Partitions] ELSE Nothing,
                     sorted |-> <<>>]
         /\ phase' = "sort"
  /\ assignment' = Nothing /\ changes' = 0 /\ UNCHANGED <<group, missed>>

Fullest(a, S) == CHOOSE m \in S : \A n \in S \ {m} : Smaller(a, n, m)
Least(a, S)   == CHOOSE m \in S : \A n \in S \ {m} : Smaller(a, m, n)

\* It gives up one that somebody had before, else its last one.
ListNext ==
  /\ phase = "sort" /\ \E m \in Members : work.left[m] # {}
  /\ LET m == Fullest(work.left, Members)
         moved == work.left[m] \cap DOMAIN work.former
         last == CHOOSE p \in work.left[m] : \A q \in work.left[m] \ {p} : Before(q, p)
     IN  \E p \in IF moved # {} THEN moved ELSE {last} :
           work' = [work EXCEPT !.left[m] = @ \ {p}, !.sorted = Append(@, p)]
  /\ UNCHANGED <<group, assignment, phase, changes, missed>>

----------------------------------------------------------------------------
(* Sticky: the partitions that nobody has, and what may move at all. *)

StaysNothing(m) == {}  \* what they report is not used
StaysAll(m) == work.held[m] \cap Partitions  \* whatever its topics are now
Stays(m)        == {p \in work.held[m] \cap Partitions : p[1] \in topics[m]}
Revoked         == \E m \in Members : \E p \in work.held[m] \cap Partitions : p[1] \notin topics[m]
Movable(p)      == Cardinality(Takers(p)) >= 2
TakesPart(a, m) == Cardinality(a[m]) < Cardinality(Offer(m)) \/ \E p \in a[m] : Movable(p)

\* The rest of the list, from the scarcest, and _populate_partitions_to_reassign.
Keep ==
  /\ phase = "sort" /\ \A m \in Members : work.left[m] = {}
  /\ LET rest == Partitions \ ToSet(work.sorted)
         kept == [m \in Member |-> Stays(m)]
     IN  work' = [held |-> kept, former |-> work.former,
                  sorted |-> work.sorted \o [i \in 1 .. Cardinality(rest) |->
                               CHOOSE p \in rest : Rank(p, rest, Scarcer) = i - 1],
                  new |-> {p \in Partitions : \A m \in Members : p \notin kept[m]}, at |-> 1,
                  revoked |-> Revoked, first |-> \A m \in Members : kept[m] = {}]
  /\ phase' = "place"
  /\ UNCHANGED <<group, assignment, changes, missed>>

\* What is left of a list that is the part of work.sorted in a set.
Left(S) == {i \in DOMAIN work.sorted : i >= work.at /\ work.sorted[i] \in S}

\* _assign_partition: to the member with the least among those that can take it.
With(p) == IF Takers(p) = {} THEN work.held
           ELSE [work.held EXCEPT ![Least(work.held, Takers(p))] = @ \cup {p}]
Place ==
  /\ phase = "place" /\ Left(work.new) # {}
  /\ LET i == Min(Left(work.new))
     IN  work' = [work EXCEPT !.at = i + 1, !.held = With(work.sorted[i])]
  /\ UNCHANGED <<group, assignment, phase, changes, missed>>

\* balance() up to its passes: partitions that only one member can take, and
\* members that can neither gain nor lose anything, are put aside.
Narrow ==
  /\ phase = "place" /\ Left(work.new) = {}
  /\ LET taking == {m \in Members : TakesPart(work.held, m)}
         held   == [m \in Member |-> IF m \in taking THEN work.held[m] ELSE {}]
     IN  work' = [held |-> held, before |-> held, taking |-> taking, fixed |-> work.held,
                  former |-> work.former, moves |-> <<>>,
                  new |-> work.new, sorted |-> work.sorted, at |-> 1, modified |-> FALSE, changed |-> FALSE,
                  first |-> work.first]
  /\ phase' = IF work.revoked THEN "all" ELSE "new"
  /\ UNCHANGED <<group, assignment, changes, missed>>

----------------------------------------------------------------------------
(* Sticky: moving partitions for balance. work.moves maps a partition to the *)
(* member it was taken from and the one it is with (PartitionMovements).     *)

Size(m) == Cardinality(work.held[m])
Even(a, S) == \A m, n \in S : Cardinality(a[m]) <= Cardinality(a[n]) + 1

IsBalanced ==
  \/ Even(work.held, work.taking)
  \/ \A m, n \in work.taking : \A p \in Offer(m) \cap work.held[n] : Size(m) >= Size(n)

\* What is left of a pass: over the partitions that were free, or over all.
Pass     == Left({p \in IF phase = "new" THEN work.new ELSE Partitions : Movable(p)})
Holder(p) == CHOOSE m \in work.taking : p \in work.held[m]

\* get_partition_to_be_moved: rather one of the topic that went the other way.
Moved == DOMAIN work.moves
Instead(p, to) ==
  LET from == IF p \in Moved THEN work.moves[p][1] ELSE Holder(p)
      back == {q \in Moved : q[1] = p[1] /\ work.moves[q] = <<to, from>>}
  IN  IF back = {} THEN {p} ELSE back

\* move_partition: a partition that is back where it was has not moved.
Movements(q, to) ==
  LET src == IF q \in Moved THEN work.moves[q][1] ELSE Holder(q)
      now == IF src = to THEN Moved \ {q} ELSE Moved \cup {q}
  IN  [r \in now |-> IF r = q THEN <<src, to>> ELSE work.moves[r]]

\* Taking a member out of the sorted set where it is not raises.
Move(q, to, next) ==
  LET from == Holder(q)
  IN  IF to \notin work.taking \/ to = from
      THEN Raise /\ UNCHANGED work
      ELSE /\ work' = [work EXCEPT !.held[from] = @ \ {q}, !.held[to] = @ \cup {q},
                                   !.moves = Movements(q, to), !.at = next,
                                   !.modified = TRUE, !.changed = (phase = "all")]
           /\ UNCHANGED <<phase, assignment, generation>>

BetterLate(p) == \E m \in Takers(p) : Size(Holder(p)) > Size(m) + 2  \* a gain is missed
Returns(p) == p \in DOMAIN work.former /\ Size(Holder(p)) > Size(work.former[p]) + 1
BetterAny(p) == \E m \in Takers(p) : Size(Holder(p)) > Size(m)  \* a gain of nothing counts
Better(p)  == \E m \in Takers(p) : Size(Holder(p)) > Size(m) + 1
Chosen(p)  == IF Returns(p) THEN work.former[p] ELSE Least(work.held, Takers(p) \cap work.taking)

\* One partition of a pass.
Consider ==
  /\ phase \in {"new", "all"} /\ Pass # {} /\ ~IsBalanced
  /\ LET i == Min(Pass)
         p == work.sorted[i]
     IN  IF Returns(p) \/ Better(p)
         THEN \E q \in Instead(p, Chosen(p)) : Move(q, Chosen(p), i + 1)
         ELSE work' = [work EXCEPT !.at = i + 1] /\ UNCHANGED <<phase, assignment, generation>>
  /\ UNCHANGED <<strategy, topics, counts, claims, reported, changes, missed>>

\* _get_balance_score: the differences of all pairs.
Score(a) ==
  LET gap(m, n) == IF Cardinality(a[m]) > Cardinality(a[n])
                   THEN Cardinality(a[m]) - Cardinality(a[n]) ELSE 0
  IN  FoldSet(LAMBDA e, s : s + gap(e[1], e[2]), 0, work.taking \X work.taking)

Final(a) == [m \in Member |-> IF m \in work.taking THEN a[m] ELSE work.fixed[m]]

\* The end of a pass. It is repeated while it moves something; after the second
\* one the moves are given up when they have not improved the balance.
EndPass ==
  /\ phase \in {"new", "all"} /\ (Pass = {} \/ IsBalanced)
  /\ IF work.modified
     THEN /\ work' = [work EXCEPT !.at = 1, !.modified = FALSE]
          /\ UNCHANGED <<phase, assignment, generation>>
     ELSE IF phase = "new"
     THEN /\ work' = [work EXCEPT !.at = 1] /\ phase' = "all"
          /\ UNCHANGED <<assignment, generation>>
     ELSE /\ LET reverts == ~work.first /\ work.changed /\ Score(work.held) >= Score(work.before)
             IN  Give(Final(IF reverts THEN work.before ELSE work.held))
          /\ work' = NoWork
  /\ UNCHANGED <<strategy, topics, counts, claims, reported, changes, missed>>

Sticky == StartSticky \/ ListNext \/ Keep \/ Place \/ Narrow \/ Consider \/ EndPass

Next ==
  \/ \E m \in Member : Subscribe(m)
  \/ \E t \in Topic : Resize(t)
  \/ Rejoin \/ Deliver \/ AssignByOrder \/ Sticky

Spec     == Init /\ [][Next]_vars
FairSpec == Spec /\ WF_vars(Sticky)

----------------------------------------------------------------------------
(* Properties. *)

Divided == phase \in {"given", "stable"}

\* Each partition of a topic that somebody asked for is with exactly one member,
\* one that asked for its topic, and no assignor raises an error instead.
EachToOne ==
  /\ phase # "raised"
  /\ Divided => \A p \in Partitions :
       LET holders == {m \in Members : p \in assignment[m]}
       IN  holders \subseteq Takers(p) /\ Cardinality(holders) = IF Takers(p) = {} THEN 0 ELSE 1

\* The documented shares: by range a topic's partitions differ by at most one
\* between its subscribers; by turns the totals do when all ask for the same;
\* sticky leaves a member with two less than another one only when nothing of
\* the other one's can be given to it.
FairShares ==
  Divided =>
    /\ strategy = "range" => \A t \in Topic :
         Even([m \in Member |-> assignment[m] \cap Of(t)], {m \in Members : t \in topics[m]})
    /\ strategy = "roundrobin" /\ Identical => Even(assignment, Members)
    /\ strategy = "sticky" => \A m, n \in Members :
         Cardinality(assignment[m]) + 2 <= Cardinality(assignment[n]) =>
           assignment[n] \cap Offer(m) = {}

\* When all ask for the same, sticky takes nothing from a member that holds no
\* more than an equal share, and leaves one that holds more at least that.
Owned(m) == {p \in Offer(m) : Claimants(p) # {} /\ Owner(p) = m}
KeepsShare ==
  phase = "given" /\ strategy = "sticky" /\ Identical => \A m \in Members :
    Cardinality(assignment[m] \cap Owned(m)) >=
      Min({Cardinality(Owned(m)), Cardinality(Partitions) \div Cardinality(Members)})

\* A rebalance ends, with an assignment.
Returning == phase \in {"sort", "place", "new", "all"} ~> phase = "given"
=============================================================================
