-------------------------- MODULE AssignorsProofs --------------------------
(***************************************************************************)
(* For any members, topics, strategies and bounds, and the inputs that the  *)
(* assignors are made for: each partition that somebody asked for is given  *)
(* to exactly one member that asked for it, and range and roundrobin share  *)
(* fairly.                                                                  *)
(*                                                                          *)
(* The n-th of a sorted set is the element with n - 1 others before it. The *)
(* first part shows that these ranks are a bijection; the invariant follows *)
(* a partition through the phases of sticky; the last parts cut a topic     *)
(* into ranges, and count turns.                                            *)
(***************************************************************************)
EXTENDS Assignors, FiniteSetTheorems, TLAPS

\* A finite set, ordered by the elements that are below each of them.
Ordered(S, below) ==
  /\ IsFiniteSet(S) /\ below \in [S -> SUBSET S]
  /\ \A x \in S : x \notin below[x]
  /\ \A x, y \in S : x # y => x \in below[y] \/ y \in below[x]
  /\ \A x, y \in S : x \in below[y] => below[x] \subseteq below[y]

\* The rank of an element, how many are below it, is less than the size of the set.
LEMMA RankType ==
  ASSUME NEW S, NEW below, Ordered(S, below), NEW x \in S
  PROVE  /\ IsFiniteSet(below[x]) /\ Cardinality(below[x]) \in 0 .. Cardinality(S) - 1
         /\ Cardinality(S) \in Nat
<1>1. IsFiniteSet(S) /\ below[x] \subseteq S /\ x \notin below[x]
  BY DEF Ordered
<1>2. IsFiniteSet(below[x]) /\ IsFiniteSet(S \ {x})
  BY <1>1, FS_Subset
<1>3. Cardinality(S \ {x}) = Cardinality(S) - 1
  BY <1>1, FS_RemoveElement
<1>4. Cardinality(below[x]) <= Cardinality(S \ {x})
  BY <1>1, <1>2, FS_Subset
<1>5. Cardinality(below[x]) \in Nat /\ Cardinality(S) \in Nat
  BY <1>1, <1>2, FS_CardinalityType
<1> QED  BY <1>2, <1>3, <1>4, <1>5

\* It grows along the order,
LEMMA RankGrows ==
  ASSUME NEW S, NEW below, Ordered(S, below), NEW x \in S, NEW y \in S, x \in below[y]
  PROVE  Cardinality(below[x]) < Cardinality(below[y])
<1>1. below[x] \cup {x} \subseteq below[y] /\ x \notin below[x]
  BY DEF Ordered
<1>2. IsFiniteSet(below[x]) /\ IsFiniteSet(below[y])
  BY RankType
<1>3. Cardinality(below[x] \cup {x}) = Cardinality(below[x]) + 1
  BY <1>1, <1>2, FS_AddElement
<1>4. Cardinality(below[x] \cup {x}) <= Cardinality(below[y])
  BY <1>1, <1>2, FS_Subset
<1>5. Cardinality(below[x]) \in Nat /\ Cardinality(below[y]) \in Nat
  BY RankType
<1> QED  BY <1>3, <1>4, <1>5

\* ... so that no two elements share one,
LEMMA RankIsOne ==
  ASSUME NEW S, NEW below, Ordered(S, below), NEW x \in S, NEW y \in S,
         Cardinality(below[x]) = Cardinality(below[y])
  PROVE  x = y
<1> SUFFICES ASSUME x # y PROVE FALSE
  OBVIOUS
<1>1. x \in below[y] \/ y \in below[x]
  BY DEF Ordered
<1>2. Cardinality(below[x]) \in Int /\ Cardinality(below[y]) \in Int
  BY RankType
<1> QED  BY <1>1, <1>2, RankGrows

\* ... and each number below the size is one: ranks are a bijection. What code does
\* with the n-th of a sorted list is thus known without an induction over it.
LEMMA RankOnto ==
  ASSUME NEW S, NEW below, Ordered(S, below), NEW i \in 0 .. Cardinality(S) - 1
  PROVE  \E x \in S : Cardinality(below[x]) = i
<1> DEFINE n == Cardinality(S)
           rank == [x \in S |-> Cardinality(below[x])]
<1>1. IsFiniteSet(S) /\ n \in Nat
  BY FS_CardinalityType DEF Ordered
<1>2. IsFiniteSet(0 .. n - 1) /\ Cardinality(0 .. n - 1) = n
  BY <1>1, FS_Interval
<1>3. rank \in [S -> 0 .. n - 1]
  BY RankType
<1>4. \A x, y \in S : rank[x] = rank[y] => x = y
  BY RankIsOne
<1>5. rank \in Injection(S, 0 .. n - 1)
  BY <1>3, <1>4, Zenon DEF Injection, IsInjective
<1>6. rank \in Surjection(S, 0 .. n - 1)
  BY <1>2, <1>5, FS_Injection
<1>7. PICK x \in S : rank[x] = i
  BY <1>6 DEF Surjection
<1> QED  BY <1>7

\* The first and the last one of an ordered set.
LEMMA FirstOne ==
  ASSUME NEW S, NEW below, Ordered(S, below), S # {}
  PROVE  \E x \in S : \A y \in S \ {x} : x \in below[y]
<1>1. Cardinality(S) \in Nat /\ Cardinality(S) # 0
  BY FS_EmptySet, FS_CardinalityType DEF Ordered
<1>2. PICK x \in S : Cardinality(below[x]) = 0
  BY <1>1, RankOnto
<1>3. below[x] = {}
  BY <1>2, RankType, FS_EmptySet
<1> QED  BY <1>3 DEF Ordered

LEMMA LastOne ==
  ASSUME NEW S, NEW below, Ordered(S, below), S # {}
  PROVE  \E x \in S : \A y \in S \ {x} : y \in below[x]
<1>1. IsFiniteSet(S) /\ Cardinality(S) \in Nat /\ Cardinality(S) # 0
  BY FS_EmptySet, FS_CardinalityType DEF Ordered
<1>2. PICK x \in S : Cardinality(below[x]) = Cardinality(S) - 1
  BY <1>1, RankOnto
<1>3. below[x] \subseteq S \ {x}
  BY DEF Ordered
<1>4. IsFiniteSet(S \ {x}) /\ Cardinality(S \ {x}) = Cardinality(S) - 1
  BY <1>1, FS_RemoveElement
<1>5. below[x] = S \ {x}
  BY <1>2, <1>3, <1>4, FS_Subset
<1> QED  BY <1>5

-----------------------------------------------------------------------------
(* The orders of the assignors                                             *)

\* Numbers, partitions and members are ordered by the keys that they are sorted by.
LEMMA MinIn ==
  ASSUME NEW S \in SUBSET Nat, IsFiniteSet(S), S # {}
  PROVE  Min(S) \in S /\ \A y \in S : Min(S) <= y
<1> DEFINE below == [x \in S |-> {y \in S : y < x}]
<1>0. \A x, y, z \in S : /\ ~(x < x) /\ (x # y => x < y \/ y < x)
                         /\ (x < y /\ y < z => x < z)
  OBVIOUS
<1>1. Ordered(S, below)
  BY <1>0, Zenon DEF Ordered
<1> HIDE DEF below
<1>2. PICK x \in S : \A y \in S \ {x} : x \in below[y]
  BY <1>1, FirstOne
<1>3. \A y \in S : x <= y
  BY <1>2 DEF below
<1> QED  BY <1>3 DEF Min

\* A partition is a topic and an index; there are finitely many,
LEMMA PartitionFacts ==
  /\ IsFiniteSet(Partition)
  /\ \A p \in Partition : /\ p = <<p[1], p[2]>> /\ p[1] \in Topic
                          /\ p[1] \in Nat /\ p[2] \in Nat
<1>1. IsFiniteSet(0 .. MaxPartitions - 1)
  BY BoundAssumption, FS_Interval
<1>2. IsFiniteSet(Partition)
  BY <1>1, OrderAssumption, FS_Product DEF Partition
<1>3. \A p \in Partition : p = <<p[1], p[2]>> /\ p[1] \in Topic /\ p[2] \in 0 .. MaxPartitions - 1
  BY DEF Partition
<1>4. MaxPartitions \in Nat
  BY BoundAssumption
<1> QED  BY <1>2, <1>3, <1>4, OrderAssumption

\* ... so that sets of them have sizes,
LEMMA PartitionsSize ==
  ASSUME NEW a \in SUBSET Partition
  PROVE  IsFiniteSet(a) /\ Cardinality(a) \in Nat
BY PartitionFacts, FS_Subset, FS_CardinalityType

\* ... as those of members have.
LEMMA MembersSize ==
  ASSUME NEW S \in SUBSET Member
  PROVE  IsFiniteSet(S) /\ Cardinality(S) \in Nat
BY OrderAssumption, FS_Subset, FS_CardinalityType

\* Partitions by topic and index.
LEMMA BeforeOrders ==
  ASSUME NEW S \in SUBSET Partition
  PROVE  Ordered(S, [x \in S |-> {y \in S : Before(y, x)}])
<1> DEFINE below == [x \in S |-> {y \in S : Before(y, x)}]
<1>1. IsFiniteSet(S) /\ below \in [S -> SUBSET S]
  BY PartitionsSize
<1>2. \A x, y, z \in S : /\ ~Before(x, x) /\ (x # y => Before(x, y) \/ Before(y, x))
                         /\ (Before(x, y) /\ Before(y, z) => Before(x, z))
  BY PartitionFacts DEF Before
<1> QED  BY <1>1, <1>2, Zenon DEF Ordered

\* Members by the size of what they have.
LEMMA SmallerOrders ==
  ASSUME NEW S \in SUBSET Member, NEW a \in [Member -> SUBSET Partition]
  PROVE  Ordered(S, [x \in S |-> {y \in S : Smaller(a, y, x)}])
<1> DEFINE below == [x \in S |-> {y \in S : Smaller(a, y, x)}]
<1>1. IsFiniteSet(S) /\ below \in [S -> SUBSET S]
  BY MembersSize
<1>2. \A x \in S : Cardinality(a[x]) \in Nat /\ x \in Nat
  BY PartitionsSize, OrderAssumption
<1>3. \A x, y, z \in S :
        /\ ~Smaller(a, x, x) /\ (x # y => Smaller(a, x, y) \/ Smaller(a, y, x))
        /\ (Smaller(a, x, y) /\ Smaller(a, y, z) => Smaller(a, x, z))
  BY <1>2 DEF Smaller
<1> QED  BY <1>1, <1>3, Zenon DEF Ordered

\* Finitely many members can take a partition.
LEMMA TakersSize ==
  ASSUME NEW p
  PROVE  /\ Takers(p) \subseteq Member /\ IsFiniteSet(Takers(p))
         /\ Cardinality(Takers(p)) \in Nat
BY MembersSize DEF Takers

\* Partitions by how many can take them (partitions_comparator_key).
LEMMA ScarcerOrders ==
  ASSUME NEW S \in SUBSET Partition
  PROVE  Ordered(S, [x \in S |-> {y \in S : Scarcer(y, x)}])
<1> DEFINE below == [x \in S |-> {y \in S : Scarcer(y, x)}]
<1>1. IsFiniteSet(S) /\ below \in [S -> SUBSET S]
  BY PartitionsSize
<1>2. \A x, y, z \in S : /\ ~Before(x, x) /\ (x # y => Before(x, y) \/ Before(y, x))
                         /\ (Before(x, y) /\ Before(y, z) => Before(x, z))
  BY PartitionFacts DEF Before
<1>3. \A x \in S : Cardinality(Takers(x)) \in Nat
  BY TakersSize
<1>4. \A x, y, z \in S : /\ ~Scarcer(x, x) /\ (x # y => Scarcer(x, y) \/ Scarcer(y, x))
                         /\ (Scarcer(x, y) /\ Scarcer(y, z) => Scarcer(x, z))
  BY <1>2, <1>3 DEF Scarcer
<1> QED  BY <1>1, <1>4, Zenon DEF Ordered

\* Members, the static ones first (range.py:41-46).
LEMMA AheadOrders ==
  ASSUME NEW S \in SUBSET Member
  PROVE  Ordered(S, [x \in S |-> {y \in S : Ahead(y, x)}])
<1> DEFINE below == [x \in S |-> {y \in S : Ahead(y, x)}]
<1>1. IsFiniteSet(S) /\ below \in [S -> SUBSET S]
  BY MembersSize
<1>2. \A x, y, z \in S : /\ ~Ahead(x, x) /\ (x # y => Ahead(x, y) \/ Ahead(y, x))
                         /\ (Ahead(x, y) /\ Ahead(y, z) => Ahead(x, z))
  BY OrderAssumption DEF Ahead
<1> QED  BY <1>1, <1>2, Zenon DEF Ordered

\* The last by any key: the member that reported the latest generation.
LEMMA HighestIn ==
  ASSUME NEW S \in SUBSET Member, S # {}, NEW f \in [Member -> Nat]
  PROVE  \E m \in S : \A n \in S : f[n] <= f[m]
<1> DEFINE lower(y, x) == f[y] < f[x] \/ (f[y] = f[x] /\ y < x)
           below == [x \in S |-> {y \in S : lower(y, x)}]
<1>1. IsFiniteSet(S) /\ below \in [S -> SUBSET S]
  BY MembersSize
<1>2. \A x, y, z \in S : /\ ~lower(x, x) /\ (x # y => lower(x, y) \/ lower(y, x))
                         /\ (lower(x, y) /\ lower(y, z) => lower(x, z))
  BY OrderAssumption
<1>3. \A x, y \in S : lower(y, x) => f[y] <= f[x]
  OBVIOUS
<1> HIDE DEF lower
<1>4. Ordered(S, below)
  BY <1>1, <1>2, Zenon DEF Ordered
<1>5. PICK m \in S : \A n \in S \ {m} : n \in below[m]
  BY <1>4, LastOne
<1>6. \A n \in S \ {m} : f[n] <= f[m]
  BY <1>3, <1>5
<1> QED  BY <1>6

\* The member with the least, and the one with the most.
LEMMA LeastIn ==
  ASSUME NEW S \in SUBSET Member, S # {}, NEW a \in [Member -> SUBSET Partition]
  PROVE  /\ Least(a, S) \in S
         /\ \A n \in S : Cardinality(a[Least(a, S)]) <= Cardinality(a[n])
<1> DEFINE below == [x \in S |-> {y \in S : Smaller(a, y, x)}]
<1>1. Ordered(S, below)
  BY SmallerOrders
<1>2. PICK x \in S : \A y \in S \ {x} : x \in below[y]
  BY <1>1, FirstOne
<1>3. \A y \in S \ {x} : Smaller(a, x, y)
  BY <1>2
<1>4. Least(a, S) \in S /\ \A n \in S \ {Least(a, S)} : Smaller(a, Least(a, S), n)
  BY <1>3, Zenon DEF Least
<1>5. \A n \in S : Cardinality(a[n]) \in Nat
  BY PartitionsSize
<1> QED  BY <1>4, <1>5 DEF Smaller

LEMMA FullestIn ==
  ASSUME NEW S \in SUBSET Member, S # {}, NEW a \in [Member -> SUBSET Partition]
  PROVE  /\ Fullest(a, S) \in S
         /\ \A n \in S : Cardinality(a[n]) <= Cardinality(a[Fullest(a, S)])
<1> DEFINE below == [x \in S |-> {y \in S : Smaller(a, y, x)}]
<1>1. Ordered(S, below)
  BY SmallerOrders
<1>2. PICK x \in S : \A y \in S \ {x} : y \in below[x]
  BY <1>1, LastOne
<1>3. \A y \in S \ {x} : Smaller(a, y, x)
  BY <1>2
<1>4. Fullest(a, S) \in S /\ \A n \in S \ {Fullest(a, S)} : Smaller(a, n, Fullest(a, S))
  BY <1>3, Zenon DEF Fullest
<1>5. \A n \in S : Cardinality(a[n]) \in Nat
  BY PartitionsSize
<1> QED  BY <1>4, <1>5 DEF Smaller

-----------------------------------------------------------------------------
(* The inductive invariant                                                 *)

\* Nobody has what it did not ask for or what another one has, and nothing
\* that somebody asked for is left over.
Fits(a) ==
  /\ a \in [Member -> SUBSET Partition]
  /\ \A m \in Member : \A p \in a[m] : m \in Takers(p)
  /\ \A m, n \in Member : m # n => a[m] \cap a[n] = {}
Covers(a) == \A p \in Partitions : Takers(p) # {} => \E m \in Member : p \in a[m]
Right(a)  == Fits(a) /\ Covers(a)

\* Types, those of the work left to the phase that it belongs to.
Shape ==
  /\ strategy \in Strategy /\ topics \in [Member -> SUBSET Topic]
  /\ counts \in [Topic -> 0 .. MaxPartitions]
  /\ claims \in [Member -> SUBSET Partition] /\ reported \in [Member -> Nat]
  /\ generation \in Nat /\ assignment \in [Member -> SUBSET Partition]
  /\ phase \in {"stable", "joining", "sort", "place", "new", "all", "given"}

\* Who had a partition before can take it.
FormerType == UNION {[D -> Member] : D \in SUBSET Partition}
Formers(f) == f \in FormerType /\ \A p \in DOMAIN f : f[p] \in Takers(p)

\* A list of partitions without repetitions.
Listing(s) ==
  /\ s \in Seq(Partition) /\ \A i \in 1 .. Len(s) : s[i] \in Partitions
  /\ \A i, j \in 1 .. Len(s) : s[i] = s[j] => i = j

\* While the partitions are listed: they are with one member each, and those
\* that are listed are no longer left to list.
Sorting(w) ==
  /\ w \in [held : [Member -> SUBSET Partition], former : FormerType,
            left : [Member -> SUBSET Partition], sorted : Seq(Partition)]
  /\ \A m, n \in Member : m # n => w.held[m] \cap w.held[n] = {}
  /\ Formers(w.former) /\ Listing(w.sorted)
  /\ \A m \in Member : w.left[m] \subseteq w.held[m] \cap Partitions
  /\ \A i \in 1 .. Len(w.sorted) : \A m \in Member : w.sorted[i] \notin w.left[m]

\* While the free ones are placed: what a member holds it can take, and each
\* partition is with one, wanted by nobody, or still to come in the list.
Placing(w) ==
  /\ w \in [held : [Member -> SUBSET Partition], former : FormerType,
            sorted : Seq(Partition), new : SUBSET Partition, at : Nat,
            revoked : BOOLEAN, first : BOOLEAN]
  /\ Fits(w.held) /\ Formers(w.former) /\ Listing(w.sorted)
  /\ \A i \in 1 .. Len(w.sorted) : i >= w.at /\ w.sorted[i] \in w.new =>
       \A m \in Member : w.sorted[i] \notin w.held[m]
  /\ \A p \in Partitions :
       \/ \E m \in Member : p \in w.held[m]
       \/ Takers(p) = {}
       \/ \E i \in 1 .. Len(w.sorted) : i >= w.at /\ w.sorted[i] \in w.new /\ w.sorted[i] = p

\* What the members that take part and those that do not have together.
Joined(w, a) == [m \in Member |-> IF m \in w.taking THEN a[m] ELSE w.fixed[m]]
MovesType == UNION {[D -> Member \X Member] : D \in SUBSET Partition}

\* While partitions move, both what is held and what was held before is right:
\* with what has been put aside it would be an assignment. A member that can take
\* a movable partition takes part, and a partition that moved is where it moved to.
Balancing(w) ==
  /\ w \in [held : [Member -> SUBSET Partition], before : [Member -> SUBSET Partition],
            taking : SUBSET Member, fixed : [Member -> SUBSET Partition],
            former : FormerType, moves : MovesType, new : SUBSET Partition,
            sorted : Seq(Partition), at : Nat, modified : BOOLEAN, changed : BOOLEAN,
            first : BOOLEAN]
  /\ Right(Joined(w, w.held)) /\ Right(Joined(w, w.before))
  /\ Formers(w.former) /\ Listing(w.sorted)
  /\ \A p \in Partitions : Movable(p) => Takers(p) \subseteq w.taking
  /\ \A q \in DOMAIN w.moves :
       /\ q \in Partitions /\ Movable(q) /\ w.moves[q][1] # w.moves[q][2]
       /\ w.moves[q][2] \in w.taking /\ q \in w.held[w.moves[q][2]]

\* The inductive invariant. The phase "raised" is not in Shape: nobody gets there.
IInv ==
  /\ Shape
  /\ phase = "sort" => Sorting(work)
  /\ phase = "place" => Placing(work)
  /\ phase \in {"new", "all"} => Balancing(work)
  /\ phase \in {"given", "stable"} => Right(assignment)

\* While the group stays as it is, what speaks of it keeps its meaning.
Fixed == topics' = topics /\ counts' = counts

LEMMA FixedTakers ==
  ASSUME Fixed PROVE /\ Partitions' = Partitions /\ \A p : Takers(p)' = Takers(p)
                     /\ \A p : Movable(p)' = Movable(p)
BY DEF Fixed, Partitions, Takers, Movable

LEMMA FixedSorting == ASSUME Fixed, Sorting(work') PROVE Sorting(work)'
BY FixedTakers DEF Sorting, Formers, Listing
LEMMA FixedRight == ASSUME Fixed, Right(assignment') PROVE Right(assignment)'
BY FixedTakers DEF Right, Fits, Covers
LEMMA FixedPlacing == ASSUME Fixed, Placing(work') PROVE Placing(work)'
BY FixedTakers DEF Placing, Formers, Listing, Fits
LEMMA FixedBalancing == ASSUME Fixed, Balancing(work') PROVE Balancing(work)'
BY FixedTakers DEF Balancing, Formers, Listing, Right, Fits, Covers, Joined

-----------------------------------------------------------------------------
(* Sticky: what the members report                                         *)

\* The one who owns a reported partition is a member that reported it,
LEMMA OwnerIn ==
  ASSUME Shape, NEW p, Claimants(p) # {}
  PROVE  Owner(p) \in Claimants(p)
<1>1. Claimants(p) \subseteq Member
  BY DEF Claimants, Members
<1>2. reported \in [Member -> Nat]
  BY DEF Shape
<1>3. Latest(p) # {}
  BY <1>1, <1>2, HighestIn DEF Latest
<1>4. Latest(p) \subseteq Claimants(p)
  BY DEF Latest
<1>5. Latest(p) \in SUBSET Nat /\ IsFiniteSet(Latest(p))
  BY <1>1, <1>4, MembersSize, OrderAssumption
<1> QED  BY <1>3, <1>4, <1>5, MinIn DEF Owner

\* ... and so is the one who had it before.
LEMMA EarlierIn ==
  ASSUME NEW p, Earlier(p) # {}
  PROVE  Min(Earlier(p)) \in Earlier(p)
<1>1. Earlier(p) \subseteq Member
  BY DEF Earlier, Claimants, Members
<1>2. Earlier(p) \in SUBSET Nat /\ IsFiniteSet(Earlier(p))
  BY <1>1, MembersSize, OrderAssumption
<1> QED  BY <1>2, MinIn

LEMMA EmptyListing == Listing(<<>>)
BY DEF Listing

\* What is taken over from the reports is with one member each
\* (_init_current_assignments).
LEMMA StartStickyInv ==
  ASSUME IInv, StartSticky, ~Gap
  PROVE  IInv'
<1> DEFINE held   == [m \in Member |-> {p \in Claimed : Owner(p) = m}]
           D      == {q \in Claimed : Earlier(q) # {}}
           former == [p \in D |-> Min(Earlier(p))]
           lists  == Claimed # {} /\ Identical
           left   == IF lists THEN [m \in Member |-> held[m] \cap Partitions] ELSE Nothing
           w      == [held |-> held, former |-> former, left |-> left, sorted |-> <<>>]
<1>1. work' = w /\ phase' = "sort" /\ assignment' = Nothing /\ UNCHANGED group
  BY DEF StartSticky
<1>2. Shape' /\ Fixed
  BY <1>1 DEF IInv, Shape, group, Nothing, Fixed
<1>3. Claimed \subseteq Partition
  BY DEF Claimed
<1>4. held \in [Member -> SUBSET Partition]
  BY <1>3
<1>5. \A p \in D : former[p] \in Member /\ former[p] \in Takers(p)
  <2> SUFFICES ASSUME NEW p \in D PROVE former[p] \in Member /\ former[p] \in Takers(p)
    OBVIOUS
  <2>1. former[p] \in Earlier(p)
    BY EarlierIn
  <2>2. Earlier(p) \subseteq Takers(p)
    BY DEF StartSticky
  <2> QED  BY <2>1, <2>2 DEF Takers
<1>6. Formers(former)
  <2>1. former \in [D -> Member] /\ D \in SUBSET Partition /\ DOMAIN former = D
    BY <1>3, <1>5
  <2>2. former \in FormerType
    BY <2>1, Zenon DEF FormerType
  <2> QED  BY <1>5, <2>1, <2>2 DEF Formers
<1>7. /\ left \in [Member -> SUBSET Partition]
      /\ \A m \in Member : left[m] \subseteq held[m] \cap Partitions
  BY <1>4 DEF Nothing, Partitions
<1>8. \A m, n \in Member : m # n => held[m] \cap held[n] = {}
  OBVIOUS
<1>9. Sorting(w)
  <2> HIDE DEF held, former, left
  <2>1. /\ w \in [held : [Member -> SUBSET Partition], former : FormerType,
                  left : [Member -> SUBSET Partition], sorted : Seq(Partition)]
        /\ w.held = held /\ w.former = former /\ w.left = left /\ w.sorted = <<>>
    BY <1>4, <1>6, <1>7 DEF Formers
  <2> HIDE DEF w
  <2> QED  BY <2>1, <1>6, <1>7, <1>8, EmptyListing DEF Sorting
<1> HIDE DEF w
<1>10. Sorting(work)'
  BY <1>1, <1>2, <1>9, FixedSorting
<1> QED  BY <1>1, <1>2, <1>10 DEF IInv

\* A member's last partition is one of its own.
LEMMA LastIn ==
  ASSUME NEW S \in SUBSET Partition, S # {}
  PROVE  (CHOOSE p \in S : \A q \in S \ {p} : Before(q, p)) \in S
<1> DEFINE below == [x \in S |-> {y \in S : Before(y, x)}]
<1>1. Ordered(S, below)
  BY BeforeOrders
<1>2. PICK x \in S : \A y \in S \ {x} : y \in below[x]
  BY <1>1, LastOne
<1>3. \A y \in S \ {x} : Before(y, x)
  BY <1>2
<1> QED  BY <1>3, Zenon

\* A partition that is listed leaves the lists of the members.
LEMMA ListNextInv ==
  ASSUME IInv, ListNext
  PROVE  IInv'
<1>1. Sorting(work) /\ phase = "sort"
  BY DEF IInv, ListNext
<1> DEFINE m == Fullest(work.left, Members)
<1>2. Members \subseteq Member /\ work.left \in [Member -> SUBSET Partition]
  BY <1>1 DEF Members, Sorting
<1>3. PICK n \in Members : work.left[n] # {}
  BY DEF ListNext
<1>4. m \in Members /\ Cardinality(work.left[n]) <= Cardinality(work.left[m])
  BY <1>2, <1>3, FullestIn
<1>5. work.left[m] # {} /\ work.left[m] \subseteq Partition /\ m \in Member
  <2>1. work.left[n] \subseteq Partition /\ work.left[m] \subseteq Partition
    BY <1>2, <1>3, <1>4
  <2>2. Cardinality(work.left[n]) \in Nat /\ Cardinality(work.left[n]) # 0
    BY <1>3, <2>1, PartitionsSize, FS_EmptySet
  <2> QED  BY <1>2, <1>4, <2>1, <2>2, PartitionsSize, FS_EmptySet
<1>6. PICK p \in work.left[m] :
        work' = [work EXCEPT !.left[m] = @ \ {p}, !.sorted = Append(@, p)]
  <2>1. (CHOOSE p \in work.left[m] : \A q \in work.left[m] \ {p} : Before(q, p)) \in work.left[m]
    BY <1>5, LastIn
  <2> QED  BY <2>1 DEF ListNext
<1> HIDE DEF m
<1>7. p \in Partitions /\ p \in Partition
  BY <1>1, <1>5 DEF Sorting
<1>8. /\ work' \in [held : [Member -> SUBSET Partition], former : FormerType,
                    left : [Member -> SUBSET Partition], sorted : Seq(Partition)]
      /\ work'.held = work.held /\ work'.former = work.former
      /\ work'.left = [work.left EXCEPT ![m] = @ \ {p}]
      /\ work'.sorted = Append(work.sorted, p)
  <2> DEFINE left == [work.left EXCEPT ![m] = @ \ {p}]
             list == Append(work.sorted, p)
  <2>1. work \in [held : [Member -> SUBSET Partition], former : FormerType,
                  left : [Member -> SUBSET Partition], sorted : Seq(Partition)]
    BY <1>1 DEF Sorting
  <2>2. left \in [Member -> SUBSET Partition]
    BY <1>2, <1>5
  <2>3. list \in Seq(Partition)
    BY <2>1, <1>7
  <2>4. work' = [work EXCEPT !.left = left, !.sorted = list]
    BY <1>6, <2>1
  <2> HIDE DEF left, list
  <2>5. /\ work' \in [held : [Member -> SUBSET Partition], former : FormerType,
                      left : [Member -> SUBSET Partition], sorted : Seq(Partition)]
        /\ work'.held = work.held /\ work'.former = work.former
        /\ work'.left = left /\ work'.sorted = list
    BY <2>1, <2>2, <2>3, <2>4
  <2> QED  BY <2>5 DEF left, list
<1>9. /\ work.sorted \in Seq(Partition) /\ Listing(work.sorted)
      /\ work.left \in [Member -> SUBSET Partition]
  BY <1>1 DEF Sorting
<1>10. PICK k \in Nat : k = Len(work.sorted)
  BY <1>9
<1>11. /\ Len(work'.sorted) = k + 1 /\ work'.sorted[k + 1] = p
       /\ \A i \in 1 .. k : work'.sorted[i] = work.sorted[i]
  BY <1>7, <1>8, <1>9, <1>10
<1>12. \A i \in 1 .. k : work.sorted[i] # p /\ work.sorted[i] \in Partitions
  BY <1>1, <1>5, <1>10 DEF Sorting, Listing
<1>13. Listing(work'.sorted)
  BY <1>7, <1>8, <1>9, <1>10, <1>11, <1>12 DEF Listing
<1>14. \A x \in Member : work'.left[x] \subseteq work.left[x] /\ p \notin work'.left[x]
  <2> SUFFICES ASSUME NEW x \in Member
               PROVE  work'.left[x] \subseteq work.left[x] /\ p \notin work'.left[x]
    OBVIOUS
  <2>1. CASE x = m
    BY <1>8, <1>9, <2>1
  <2>2. CASE x # m
    BY <1>1, <1>5, <1>8, <1>9, <2>2 DEF Sorting
  <2> QED  BY <2>1, <2>2
<1>15. Sorting(work')
  <2>1. \A i \in 1 .. k + 1 : \A x \in Member : work'.sorted[i] \notin work'.left[x]
    <3> SUFFICES ASSUME NEW i \in 1 .. k + 1, NEW x \in Member
                 PROVE  work'.sorted[i] \notin work'.left[x]
      OBVIOUS
    <3>1. CASE i \in 1 .. k
      BY <1>1, <1>10, <1>11, <1>14, <3>1 DEF Sorting
    <3>2. CASE i = k + 1
      BY <1>11, <1>14, <3>2
    <3> QED  BY <3>1, <3>2, <1>10
  <2>2. \A x \in Member : work'.left[x] \subseteq work'.held[x] \cap Partitions
    BY <1>1, <1>8, <1>14 DEF Sorting
  <2> QED  BY <1>1, <1>8, <1>11, <1>13, <2>1, <2>2 DEF Sorting
<1>16. Shape' /\ Fixed /\ phase' = "sort"
  BY DEF ListNext, IInv, Shape, Fixed, group
<1> QED  BY <1>15, <1>16, FixedSorting DEF IInv

-----------------------------------------------------------------------------
(* Sticky: the partitions that nobody has                                  *)

\* A set in its order is a list of all its elements without repetitions.
LEMMA InOrder ==
  ASSUME NEW S, NEW below, Ordered(S, below), NEW t,
         t \in [1 .. Cardinality(S) -> S],
         \A i \in 1 .. Cardinality(S) : Cardinality(below[t[i]]) = i - 1
  PROVE  /\ \A i, j \in 1 .. Cardinality(S) : t[i] = t[j] => i = j
         /\ t \in Surjection(1 .. Cardinality(S), S)
<1>1. PICK n \in Nat : n = Cardinality(S)
  BY FS_CardinalityType DEF Ordered
<1>2. \A i \in 1 .. n : t[i] \in S /\ Cardinality(below[t[i]]) = i - 1
  BY <1>1
<1>4. \A i, j \in 1 .. n : t[i] = t[j] => i = j
  <2> SUFFICES ASSUME NEW i \in 1 .. n, NEW j \in 1 .. n, t[i] = t[j] PROVE i = j
    OBVIOUS
  <2>1. i - 1 = j - 1
    BY <1>2
  <2> QED  BY <2>1
<1>5. \A p \in S : \E i \in 1 .. n : t[i] = p
  <2> SUFFICES ASSUME NEW p \in S PROVE \E i \in 1 .. n : t[i] = p
    OBVIOUS
  <2>1. PICK k \in 0 .. n - 1 : k = Cardinality(below[p])
    BY <1>1, RankType
  <2>2. k + 1 \in 1 .. n /\ t[k + 1] \in S /\ Cardinality(below[t[k + 1]]) = k
    BY <1>2, <2>1
  <2> QED  BY <2>1, <2>2, RankIsOne
<1> QED  BY <1>1, <1>4, <1>5, Zenon DEF Surjection

\* u is s and then the n elements of t.
Joins(s, t, n, u) ==
  /\ Len(u) = Len(s) + n
  /\ \A i \in 1 .. Len(s) : u[i] = s[i]
  /\ \A i \in 1 .. n : u[Len(s) + i] = t[i]

\* A listing goes on with what is not in it yet.
LEMMA ListJoin ==
  ASSUME NEW s, Listing(s), NEW S \in SUBSET Partitions, NEW n \in Nat,
         NEW t \in [1 .. n -> S], \A i, j \in 1 .. n : t[i] = t[j] => i = j,
         \A i \in 1 .. Len(s) : s[i] \notin S
  PROVE  Listing(s \o t) /\ Joins(s, t, n, s \o t)
<1>1. s \in Seq(Partition) /\ S \subseteq Partition
  BY DEF Listing, Partitions
<1>2. t \in Seq(Partition) /\ Len(t) = n
  BY <1>1
<1>3. PICK k \in Nat : k = Len(s)
  BY <1>1
<1>0. s \o t \in Seq(Partition) /\ Len(s \o t) = Len(s) + Len(t)
  BY <1>1, <1>2
<1>4. PICK u \in Seq(Partition) : u = s \o t
  BY <1>0
<1>5. /\ Len(u) = k + n /\ \A i \in 1 .. k : u[i] = s[i]
      /\ \A i \in 1 .. n : u[k + i] = t[i]
  <2>1. Len(u) = k + n
    BY <1>0, <1>2, <1>3, <1>4
  <2>2. \A i \in 1 .. k : u[i] = s[i]
    BY <1>1, <1>2, <1>3, <1>4
  <2>3. \A i \in 1 .. n : u[k + i] = t[i]
    BY <1>1, <1>2, <1>3, <1>4
  <2> QED  BY <2>1, <2>2, <2>3
<1>6. \A i \in 1 .. k + n : i \in 1 .. k \/ (i - k \in 1 .. n /\ i = k + (i - k))
  BY <1>3
<1>7. \A i \in 1 .. k : s[i] \in Partitions /\ s[i] \notin S
  BY <1>3 DEF Listing
<1>8. \A i \in 1 .. k + n : \/ i \in 1 .. k /\ u[i] = s[i]
                            \/ i - k \in 1 .. n /\ u[i] = t[i - k] /\ u[i] \in S
  <2> SUFFICES ASSUME NEW i \in 1 .. k + n, i \notin 1 .. k
               PROVE  i - k \in 1 .. n /\ u[i] = t[i - k] /\ u[i] \in S
    BY <1>5
  <2>1. PICK j \in 1 .. n : i = k + j /\ j = i - k
    BY <1>6
  <2>2. u[k + j] = t[j] /\ t[j] \in S
    BY <1>5
  <2> QED  BY <2>1, <2>2
<1>9. \A i, j \in 1 .. k : s[i] = s[j] => i = j
  BY <1>3 DEF Listing
<1>10. Listing(u)
  <2>1. \A i \in 1 .. k + n : u[i] \in Partitions
    BY <1>7, <1>8
  <2>2. \A i, j \in 1 .. k + n : u[i] = u[j] => i = j
    <3> SUFFICES ASSUME NEW i \in 1 .. k + n, NEW j \in 1 .. k + n, u[i] = u[j]
                 PROVE  i = j
      OBVIOUS
    <3>1. CASE i \in 1 .. k /\ j \in 1 .. k
      BY <1>5, <1>9, <3>1
    <3>2. CASE i - k \in 1 .. n /\ j - k \in 1 .. n
      <4>1. t[i - k] = t[j - k]
        BY <1>5, <1>6, <3>2
      <4>2. i - k = j - k
        BY <3>2, <4>1
      <4> QED  BY <4>2, <1>3
    <3> QED  BY <1>7, <1>8, <3>1, <3>2, <1>5, <1>6
  <2> QED  BY <1>5, <2>1, <2>2 DEF Listing
<1>11. Joins(s, t, n, u)
  BY <1>3, <1>5 DEF Joins
<1> QED  BY <1>4, <1>10, <1>11

\* What members may keep they can take, and what nobody keeps is in the list to be
\* placed.
LEMMA KeepInv ==
  ASSUME IInv, Keep
  PROVE  IInv'
<1>1. Sorting(work) /\ phase = "sort" /\ topics \in [Member -> SUBSET Topic]
  BY DEF IInv, Keep, Shape
<1> DEFINE rest == Partitions \ ToSet(work.sorted)
           kept == [m \in Member |-> Stays(m)]
           tail == [i \in 1 .. Cardinality(rest) |->
                      CHOOSE p \in rest : Rank(p, rest, Scarcer) = i - 1]
           list == work.sorted \o tail
           free == {p \in Partitions : \A m \in Members : p \notin kept[m]}
<1>2. /\ work' = [held |-> kept, former |-> work.former, sorted |-> list, new |-> free,
                  at |-> 1, revoked |-> Revoked, first |-> \A m \in Members : kept[m] = {}]
      /\ phase' = "place" /\ UNCHANGED <<group, assignment, changes, missed>>
  BY DEF Keep
<1>3. rest \subseteq Partition /\ rest \subseteq Partitions
  BY DEF Partitions
<1>4. /\ Cardinality(rest) \in Nat /\ tail \in [1 .. Cardinality(rest) -> rest]
      /\ \A i, j \in 1 .. Cardinality(rest) : tail[i] = tail[j] => i = j
      /\ \A p \in rest : \E i \in 1 .. Cardinality(rest) : tail[i] = p
  <2> DEFINE below == [x \in rest |-> {y \in rest : Scarcer(y, x)}]
  <2>1. Ordered(rest, below)
    BY <1>3, ScarcerOrders
  <2>2. \A p \in rest : Rank(p, rest, Scarcer) = Cardinality(below[p])
    BY DEF Rank
  <2>3. PICK n \in Nat : n = Cardinality(rest)
    BY <2>1, FS_CardinalityType DEF Ordered
  <2> HIDE DEF below, rest
  <2>4. \A i \in 1 .. n : tail[i] \in rest /\ Cardinality(below[tail[i]]) = i - 1
    <3> SUFFICES ASSUME NEW i \in 1 .. n
                 PROVE  tail[i] \in rest /\ Cardinality(below[tail[i]]) = i - 1
      OBVIOUS
    <3>1. \E x \in rest : Cardinality(below[x]) = i - 1
      BY <2>1, <2>3, RankOnto
    <3>2. \E x \in rest : Rank(x, rest, Scarcer) = i - 1
      BY <3>1, <2>2
    <3>3. tail[i] = CHOOSE p \in rest : Rank(p, rest, Scarcer) = i - 1
      BY <2>3
    <3>4. tail[i] \in rest /\ Rank(tail[i], rest, Scarcer) = i - 1
      BY <3>2, <3>3, Zenon
    <3> QED  BY <2>2, <3>4
  <2>5. tail \in [1 .. n -> rest]
    BY <2>3, <2>4
  <2> HIDE DEF tail
  <2>6. /\ tail \in [1 .. Cardinality(rest) -> rest]
        /\ \A i \in 1 .. Cardinality(rest) : Cardinality(below[tail[i]]) = i - 1
    BY <2>3, <2>4, <2>5
  <2>7. /\ \A i, j \in 1 .. Cardinality(rest) : tail[i] = tail[j] => i = j
        /\ \A p \in rest : \E i \in 1 .. Cardinality(rest) : tail[i] = p
    <3>1. \A i \in 1 .. Cardinality(rest) : Cardinality(below[tail[i]]) = i - 1
      BY <2>6
    <3>2. tail \in [1 .. Cardinality(rest) -> rest]
      BY <2>6
    <3> HIDE DEF kept, list, free
    <3>3. \A i, j \in 1 .. Cardinality(rest) : tail[i] = tail[j] => i = j
      BY ONLY <2>1, <3>1, <3>2, InOrder
    <3>4. tail \in Surjection(1 .. Cardinality(rest), rest)
      BY ONLY <2>1, <3>1, <3>2, InOrder
    <3> QED  BY <3>3, <3>4, Zenon DEF Surjection
  <2> QED  BY <2>3, <2>6, <2>7
<1>5. \A i \in 1 .. Len(work.sorted) : work.sorted[i] \notin rest
  BY <1>1 DEF ToSet, Sorting, Listing
<1>6. \A p \in Partitions : p \in rest \/ \E i \in 1 .. Len(work.sorted) : work.sorted[i] = p
  BY <1>1 DEF ToSet, Sorting, Listing
<1>7. work.sorted \in Seq(Partition) /\ Listing(work.sorted)
  BY <1>1 DEF Sorting
<1> HIDE DEF rest, tail
<1>8. PICK n \in Nat : n = Cardinality(rest)
  BY <1>4
<1>9. PICK k \in Nat : k = Len(work.sorted)
  BY <1>7
<1>10. /\ Listing(list) /\ Len(list) = k + n
       /\ \A i \in 1 .. k : list[i] = work.sorted[i]
       /\ \A i \in 1 .. n : list[k + i] = tail[i]
  <2>1. /\ tail \in [1 .. n -> rest] /\ rest \in SUBSET Partitions
        /\ \A i, j \in 1 .. n : tail[i] = tail[j] => i = j
    BY <1>3, <1>4, <1>8
  <2>2. Listing(work.sorted \o tail) /\ Joins(work.sorted, tail, n, work.sorted \o tail)
    BY ONLY n \in Nat, <1>5, <1>7, <2>1, ListJoin
  <2>3. Listing(list) /\ Joins(work.sorted, tail, n, list)
    BY <2>2
  <2> HIDE DEF list
  <2> QED  BY <1>9, <2>3 DEF Joins
<1> HIDE DEF list
<1>11. \A p \in Partitions : \E i \in 1 .. Len(list) : list[i] = p
  <2> SUFFICES ASSUME NEW p \in Partitions PROVE \E i \in 1 .. k + n : list[i] = p
    BY <1>10
  <2>1. CASE p \in rest
    <3>1. PICK i \in 1 .. n : tail[i] = p
      BY <1>4, <1>8, <2>1
    <3>2. k + i \in 1 .. k + n /\ list[k + i] = p
      BY <1>10, <3>1
    <3> QED  BY <3>2
  <2>2. CASE p \notin rest
    <3>1. PICK i \in 1 .. k : work.sorted[i] = p
      BY <1>6, <1>9, <2>2
    <3>2. i \in 1 .. k + n /\ list[i] = p
      BY <1>10, <3>1
    <3> QED  BY <3>2
  <2> QED  BY <2>1, <2>2
<1>12. /\ kept \in [Member -> SUBSET Partition]
       /\ \A m \in Member : \A p \in kept[m] : m \in Takers(p) /\ p \in work.held[m]
  BY <1>1 DEF Sorting, Stays, Takers, Partitions
<1> HIDE DEF kept
<1>13. Fits(kept)
  <2>1. \A m, n_1 \in Member : m # n_1 => work.held[m] \cap work.held[n_1] = {}
    BY <1>1 DEF Sorting
  <2>2. \A m, n_1 \in Member : m # n_1 => kept[m] \cap kept[n_1] = {}
    BY <1>12, <2>1
  <2> QED  BY <1>12, <2>2, Zenon DEF Fits
<1>14. \A p \in Partitions : p \notin free => \E m \in Member : p \in kept[m]
  BY DEF Members
<1>15. \A p \in free, m \in Member : p \notin kept[m]
  <2> SUFFICES ASSUME NEW p \in free, NEW m \in Member, p \in kept[m] PROVE FALSE
    OBVIOUS
  <2>1. m \in Members
    BY <1>12 DEF Takers, Members
  <2> QED  BY <2>1
<1>16. free \in SUBSET Partition
  BY DEF Partitions
<1> HIDE DEF free
<1>17. /\ work' \in [held : [Member -> SUBSET Partition], former : FormerType,
                     sorted : Seq(Partition), new : SUBSET Partition, at : Nat,
                     revoked : BOOLEAN, first : BOOLEAN]
       /\ work'.held = kept /\ work'.former = work.former /\ work'.sorted = list
       /\ work'.new = free /\ work'.at = 1
  <2>1. work.former \in FormerType
    BY <1>1 DEF Sorting
  <2>2. Revoked \in BOOLEAN /\ (\A m \in Members : kept[m] = {}) \in BOOLEAN
    BY DEF Revoked
  <2>3. list \in Seq(Partition)
    BY <1>10 DEF Listing
  <2> QED  BY <1>2, <1>12, <1>16, <2>1, <2>2, <2>3
<1>18. Placing(work')
  <2>1. Formers(work.former)
    BY <1>1 DEF Sorting
  <2>2. \A i \in 1 .. Len(list) : list[i] \in free => \A m \in Member : list[i] \notin kept[m]
    BY <1>15
  <2>3. \A p \in Partitions :
          \/ \E m \in Member : p \in kept[m]
          \/ \E i \in 1 .. Len(list) : i >= 1 /\ list[i] \in free /\ list[i] = p
    BY <1>11, <1>14
  <2> QED  BY <1>10, <1>13, <1>17, <2>1, <2>2, <2>3 DEF Placing
<1>19. Shape' /\ Fixed /\ phase' = "place"
  BY <1>2 DEF IInv, Shape, Fixed, group
<1> QED  BY <1>18, <1>19, FixedPlacing DEF IInv

\* A partition that nobody has goes to one that can take it.
LEMMA FitsOneMore ==
  ASSUME NEW a, Fits(a), NEW p \in Partitions, NEW m \in Takers(p),
         \A n \in Member : p \notin a[n]
  PROVE  Fits([a EXCEPT ![m] = @ \cup {p}])
<1> DEFINE b == [a EXCEPT ![m] = @ \cup {p}]
<1>1. m \in Member /\ p \in Partition /\ a \in [Member -> SUBSET Partition]
  BY DEF Takers, Partitions, Fits
<1>2. /\ b \in [Member -> SUBSET Partition]
      /\ \A n \in Member : b[n] = IF n = m THEN a[n] \cup {p} ELSE a[n]
  BY <1>1
<1> HIDE DEF b
<1>3. \A n \in Member : \A q \in b[n] : n \in Takers(q)
  BY <1>2 DEF Fits
<1>4. \A n, k \in Member : n # k => b[n] \cap b[k] = {}
  BY <1>2 DEF Fits
<1>5. Fits(b)
  BY <1>2, <1>3, <1>4 DEF Fits
<1> QED  BY <1>5 DEF b

\* A partition that is placed is with nobody else (_assign_partition).
LEMMA PlaceInv ==
  ASSUME IInv, Place
  PROVE  IInv'
<1>1. Placing(work) /\ phase = "place"
  BY DEF IInv, Place
<1>2. work.sorted \in Seq(Partition) /\ Listing(work.sorted)
  BY <1>1 DEF Placing
<1>3. PICK k \in Nat : k = Len(work.sorted)
  BY <1>2
<1>4. PICK s \in Seq(Partition) : s = work.sorted
  BY <1>2
<1> DEFINE left == Left(work.new)
<1>5. left \subseteq 1 .. k /\ left # {}
  <2>1. DOMAIN work.sorted = 1 .. k
    BY <1>3, <1>4
  <2> QED  BY <2>1 DEF Place, Left
<1>6. IsFiniteSet(left) /\ left \in SUBSET Nat
  <2>1. IsFiniteSet(1 .. k)
    BY FS_Interval
  <2>2. IsFiniteSet(left)
    BY <1>5, <2>1, FS_Subset
  <2> QED  BY <1>5, <2>2
<1>7. PICK i \in 1 .. k : i = Min(left) /\ i \in left /\ \A j \in left : i <= j
  BY <1>5, <1>6, MinIn
<1>8. PICK p \in Partitions : p = work.sorted[i]
  BY <1>2, <1>3 DEF Listing
<1>9. p \in Partition /\ p \in work.new /\ \A m \in Member : p \notin work.held[m]
  BY <1>1, <1>3, <1>7, <1>8 DEF Left, Placing, Partitions
<1>10. PICK a : a = With(p)
  OBVIOUS
<1>11. /\ work' = [work EXCEPT !.at = i + 1, !.held = a]
       /\ phase' = "place" /\ UNCHANGED <<group, assignment>>
  <2>1. work' = [work EXCEPT !.at = Min(left) + 1, !.held = With(work.sorted[Min(left)])]
    BY DEF Place
  <2> HIDE DEF left
  <2> QED  BY <1>1, <1>7, <1>8, <1>10, <2>1 DEF Place
<1>12. Fits(work.held) /\ work.held \in [Member -> SUBSET Partition] /\ Takers(p) \subseteq Member
  BY <1>1, TakersSize DEF Placing, Fits
<1>13. /\ Fits(a) /\ a \in [Member -> SUBSET Partition]
       /\ \A m \in Member : work.held[m] \subseteq a[m] /\ a[m] \subseteq work.held[m] \cup {p}
       /\ Takers(p) # {} => \E m \in Member : p \in a[m]
  <2>1. CASE Takers(p) = {}
    BY <1>10, <1>12, <2>1 DEF With
  <2>2. CASE Takers(p) # {}
    <3>1. PICK m \in Takers(p) : m = Least(work.held, Takers(p))
      BY <1>12, <2>2, LeastIn
    <3>2. a = [work.held EXCEPT ![m] = @ \cup {p}] /\ m \in Member
      BY <1>10, <1>12, <2>2, <3>1 DEF With
    <3>3. Fits(a)
      BY <1>9, <1>12, <3>2, FitsOneMore
    <3>4. \A n \in Member : a[n] = IF n = m THEN work.held[n] \cup {p} ELSE work.held[n]
      BY <1>12, <3>2
    <3> QED  BY <1>9, <1>12, <3>2, <3>3, <3>4 DEF Fits
  <2> QED  BY <2>1, <2>2
<1>14. /\ work' \in [held : [Member -> SUBSET Partition], former : FormerType,
                     sorted : Seq(Partition), new : SUBSET Partition, at : Nat,
                     revoked : BOOLEAN, first : BOOLEAN]
       /\ work'.held = a /\ work'.former = work.former /\ work'.sorted = work.sorted
       /\ work'.new = work.new /\ work'.at = i + 1
  <2>1. work \in [held : [Member -> SUBSET Partition], former : FormerType,
                  sorted : Seq(Partition), new : SUBSET Partition, at : Nat,
                  revoked : BOOLEAN, first : BOOLEAN]
    BY <1>1 DEF Placing
  <2>2. a \in [Member -> SUBSET Partition] /\ i + 1 \in Nat
    BY <1>13
  <2>3. work' = [work EXCEPT !.at = i + 1, !.held = a]
    BY <1>11
  <2> HIDE DEF left
  <2> QED  BY <2>1, <2>2, <2>3
<1>15. /\ \A j \in 1 .. k : j >= i + 1 /\ work.sorted[j] \in work.new =>
            j \in left /\ work.sorted[j] # p
       /\ \A j \in left : j >= i + 1 \/ work.sorted[j] = p
  <2>1. work.at <= i /\ work.at \in Nat
    BY <1>1, <1>7 DEF Left, Placing
  <2>2. \A j \in 1 .. k : j >= i + 1 /\ work.sorted[j] \in work.new => j \in left
    BY <1>2, <1>3, <2>1 DEF Left
  <2>3. \A j \in 1 .. k : work.sorted[j] = p => j = i
    BY <1>2, <1>3, <1>8 DEF Listing
  <2> QED  BY <1>5, <1>7, <1>8, <2>2, <2>3
<1>16. Placing(work')
  <2>1. \A j \in 1 .. k : j >= i + 1 /\ work.sorted[j] \in work.new =>
          \A m \in Member : work.sorted[j] \notin a[m]
    <3> SUFFICES ASSUME NEW j \in 1 .. k, j >= i + 1, work.sorted[j] \in work.new,
                        NEW m \in Member
                 PROVE  work.sorted[j] \notin a[m]
      OBVIOUS
    <3>1. j \in left /\ work.sorted[j] # p
      BY <1>15
    <3>2. work.sorted[j] \notin work.held[m]
      BY <1>1, <1>3, <3>1 DEF Placing, Left
    <3> QED  BY <1>13, <3>1, <3>2
  <2>2. ASSUME NEW q \in Partitions
        PROVE  \/ \E m \in Member : q \in a[m]
               \/ Takers(q) = {}
               \/ \E j \in 1 .. k : j >= i + 1 /\ work.sorted[j] \in work.new /\ work.sorted[j] = q
    <3>1. CASE \E m \in Member : q \in work.held[m]
      BY <1>13, <3>1
    <3>2. CASE \E j \in 1 .. k : j \in left /\ work.sorted[j] = q
      <4>1. PICK j \in 1 .. k : j \in left /\ work.sorted[j] = q
        BY <3>2
      <4>2. CASE q = p
        BY <1>13, <4>2
      <4>3. CASE q # p
        <5>1. j >= i + 1 /\ work.sorted[j] \in work.new
          BY <1>15, <4>1, <4>3 DEF Left
        <5> QED  BY <4>1, <5>1
      <4> QED  BY <4>2, <4>3
    <3>3. \/ \E m \in Member : q \in work.held[m]
          \/ Takers(q) = {}
          \/ \E j \in 1 .. k : j \in left /\ work.sorted[j] = q
      BY <1>1, <1>2, <1>3 DEF Placing, Left
    <3> QED  BY <3>1, <3>2, <3>3
  <2> HIDE DEF left
  <2>3. Formers(work.former)
    BY <1>1 DEF Placing
  <2>4. Fits(work'.held) /\ Formers(work'.former) /\ Listing(work'.sorted)
    BY <1>2, <1>13, <1>14, <2>3
  <2>5. Len(work'.sorted) = k
    BY <1>3, <1>14
  <2>6. \A j \in 1 .. Len(work'.sorted) : j >= work'.at /\ work'.sorted[j] \in work'.new =>
          \A m \in Member : work'.sorted[j] \notin work'.held[m]
    BY <1>14, <2>1, <2>5
  <2>7. ASSUME NEW q \in Partitions
        PROVE  \/ \E m \in Member : q \in work'.held[m]
               \/ Takers(q) = {}
               \/ \E j \in 1 .. Len(work'.sorted) :
                    j >= work'.at /\ work'.sorted[j] \in work'.new /\ work'.sorted[j] = q
    BY <1>14, <2>2, <2>5
  <2> QED  BY <1>14, <2>4, <2>6, <2>7, Zenon DEF Placing
<1>17. Shape' /\ Fixed
  BY <1>11 DEF IInv, Shape, Fixed, group
<1> QED  BY <1>11, <1>16, <1>17, FixedPlacing DEF IInv

\* Two members that can take a partition both take part, unless one holds
\* nothing else than what it has alone.
LEMMA TakersTakePart ==
  ASSUME Shape, NEW a, Fits(a), NEW p \in Partitions, Movable(p), NEW m \in Takers(p)
  PROVE  m \in Members /\ TakesPart(a, m)
<1>1. m \in Member /\ m \in Members /\ p \in Offer(m)
  BY DEF Takers, Members, Offer, Shape
<1>2. a[m] \subseteq Offer(m)
  BY <1>1 DEF Fits, Takers, Offer
<1>3. Offer(m) \subseteq Partition
  BY DEF Offer, Partitions
<1>4. IsFiniteSet(Offer(m)) /\ Cardinality(a[m]) <= Cardinality(Offer(m))
      /\ Cardinality(a[m]) \in Nat /\ Cardinality(Offer(m)) \in Nat
      /\ (Cardinality(a[m]) = Cardinality(Offer(m)) => Offer(m) = a[m])
  BY <1>2, <1>3, PartitionsSize, FS_Subset
<1> QED  BY <1>1, <1>4 DEF TakesPart

\* Putting members and partitions aside for the balancing loses none of them
\* (balance).
LEMMA NarrowInv ==
  ASSUME IInv, Narrow
  PROVE  IInv'
<1>1. Placing(work) /\ phase = "place" /\ Shape
  BY DEF IInv, Narrow
<1> DEFINE taking == {m \in Members : TakesPart(work.held, m)}
           held   == [m \in Member |-> IF m \in taking THEN work.held[m] ELSE {}]
           w == [held |-> held, before |-> held, taking |-> taking, fixed |-> work.held,
                 former |-> work.former, moves |-> <<>>,
                 new |-> work.new, sorted |-> work.sorted, at |-> 1, modified |-> FALSE,
                 changed |-> FALSE, first |-> work.first]
<1>2. work' = w /\ phase' \in {"new", "all"} /\ UNCHANGED <<group, assignment>>
  BY DEF Narrow
<1>3. Fits(work.held) /\ work.held \in [Member -> SUBSET Partition]
  BY <1>1 DEF Placing, Fits
<1>4. Covers(work.held)
  BY <1>1 DEF Narrow, Placing, Left, Covers
<1>5. taking \subseteq Member /\ held \in [Member -> SUBSET Partition]
  BY <1>3 DEF Members
<1>6. <<>> \in MovesType /\ DOMAIN <<>> = {}
  <2>1. <<>> \in [{} -> Member \X Member]
    OBVIOUS
  <2> QED  BY <2>1 DEF MovesType
<1>7. \A p \in Partitions : Movable(p) => Takers(p) \subseteq taking
  BY <1>1, <1>3, TakersTakePart
<1>8. work.held = [m \in Member |-> IF m \in taking THEN held[m] ELSE work.held[m]]
  BY <1>3
<1> HIDE DEF taking, held
<1>9. /\ w \in [held : [Member -> SUBSET Partition], before : [Member -> SUBSET Partition],
                taking : SUBSET Member, fixed : [Member -> SUBSET Partition],
                former : FormerType, moves : MovesType, new : SUBSET Partition,
                sorted : Seq(Partition), at : Nat, modified : BOOLEAN, changed : BOOLEAN,
                first : BOOLEAN]
      /\ w.held = held /\ w.before = held /\ w.taking = taking /\ w.fixed = work.held
      /\ w.former = work.former /\ w.moves = <<>> /\ w.sorted = work.sorted
  BY <1>1, <1>3, <1>5, <1>6 DEF Placing
<1> HIDE DEF w
<1>10. Joined(w, held) = work.held
  BY <1>8, <1>9 DEF Joined
<1>11. Right(Joined(w, w.held)) /\ Right(Joined(w, w.before))
  BY <1>3, <1>4, <1>9, <1>10 DEF Right
<1>12. Formers(w.former) /\ Listing(w.sorted)
  BY <1>1, <1>9 DEF Placing
<1>13. Balancing(w)
  BY <1>6, <1>7, <1>9, <1>11, <1>12 DEF Balancing
<1>14. Shape' /\ Fixed
  BY <1>2 DEF IInv, Shape, Fixed, group
<1>15. Balancing(work')
  BY <1>2, <1>13
<1> QED  BY <1>2, <1>14, <1>15, FixedBalancing DEF IInv

-----------------------------------------------------------------------------
(* Sticky: moving partitions                                               *)

BalanceType ==
  [held : [Member -> SUBSET Partition], before : [Member -> SUBSET Partition],
   taking : SUBSET Member, fixed : [Member -> SUBSET Partition],
   former : FormerType, moves : MovesType, new : SUBSET Partition,
   sorted : Seq(Partition), at : Nat, modified : BOOLEAN, changed : BOOLEAN,
   first : BOOLEAN]

\* The parts of the work while it is balanced.
LEMMA BalanceFacts ==
  ASSUME Balancing(work)
  PROVE  /\ work \in BalanceType /\ work.held \in [Member -> SUBSET Partition]
         /\ work.taking \subseteq Member /\ work.moves \in MovesType /\ Moved \subseteq Partition
         /\ \A q \in Moved : work.moves[q] \in Member \X Member
<1>1. /\ work \in BalanceType /\ work.held \in [Member -> SUBSET Partition]
      /\ work.taking \subseteq Member /\ work.moves \in MovesType
  BY DEF Balancing, BalanceType
<1>2. PICK D \in SUBSET Partition : work.moves \in [D -> Member \X Member]
  BY <1>1 DEF MovesType
<1> QED  BY <1>1, <1>2 DEF Moved

\* A partition that can move has one holder, a member that takes part.
LEMMA HolderIn ==
  ASSUME Balancing(work), NEW p \in Partitions, Movable(p)
  PROVE  /\ Holder(p) \in work.taking /\ p \in work.held[Holder(p)]
         /\ \A m \in work.taking : p \in work.held[m] => m = Holder(p)
         /\ Takers(p) \subseteq work.taking
<1>1. Takers(p) # {} /\ Takers(p) \subseteq work.taking /\ work.taking \subseteq Member
  <2>1. Cardinality(Takers(p)) # 0
    BY TakersSize DEF Movable
  <2>2. Takers(p) # {}
    BY <2>1, FS_EmptySet
  <2> QED  BY <2>2, BalanceFacts DEF Balancing
<1>2. Right(Joined(work, work.held))
  BY DEF Balancing
<1>3. PICK m \in Member : p \in Joined(work, work.held)[m]
  BY <1>1, <1>2 DEF Right, Covers
<1>4. m \in Takers(p)
  BY <1>2, <1>3 DEF Right, Fits
<1>5. \A n \in work.taking : Joined(work, work.held)[n] = work.held[n]
  BY <1>1 DEF Joined
<1>6. m \in work.taking /\ p \in work.held[m]
  BY <1>1, <1>3, <1>4, <1>5
<1>7. Holder(p) \in work.taking /\ p \in work.held[Holder(p)]
  BY <1>6, Zenon DEF Holder
<1>8. \A n \in work.taking : p \in work.held[n] => n = Holder(p)
  BY <1>1, <1>2, <1>5, <1>7 DEF Right, Fits
<1> QED  BY <1>1, <1>7, <1>8

\* A partition that goes from one member to another one that can take it.
Shifted(a, q, from, to) == [a EXCEPT ![from] = @ \ {q}, ![to] = @ \cup {q}]

IsShifted(a, q, from, to, b) ==
  /\ b \in [Member -> SUBSET Partition]
  /\ \A m \in Member : b[m] =
       IF m = from THEN a[m] \ {q} ELSE IF m = to THEN a[m] \cup {q} ELSE a[m]

\* A move gives a partition from one member to another,
LEMMA ShiftedIs ==
  ASSUME NEW a \in [Member -> SUBSET Partition], NEW q \in Partition,
         NEW from \in Member, NEW to \in Member, from # to
  PROVE  IsShifted(a, q, from, to, Shifted(a, q, from, to))
BY DEF Shifted, IsShifted

\* ... and each partition is with one member still.
LEMMA ShiftRight ==
  ASSUME NEW a, Right(a), NEW q \in Partitions, NEW from \in Member, q \in a[from],
         NEW to \in Takers(q), from # to
  PROVE  Right(Shifted(a, q, from, to))
<1>1. a \in [Member -> SUBSET Partition] /\ q \in Partition /\ to \in Member
  BY DEF Right, Fits, Partitions, Takers
<1> DEFINE b == Shifted(a, q, from, to)
<1>2. /\ b \in [Member -> SUBSET Partition]
      /\ \A m \in Member : b[m] =
           IF m = from THEN a[m] \ {q} ELSE IF m = to THEN a[m] \cup {q} ELSE a[m]
  <2>1. IsShifted(a, q, from, to, Shifted(a, q, from, to))
    BY <1>1, ShiftedIs
  <2> QED  BY <2>1 DEF IsShifted
<1> HIDE DEF b
<1>3. \A m \in Member : \A p \in b[m] : m \in Takers(p)
  BY <1>2 DEF Right, Fits
<1>4. \A m, n \in Member : m # n => b[m] \cap b[n] = {}
  <2>1. \A n \in Member : q \in a[n] => n = from
    BY DEF Right, Fits
  <2> QED  BY <1>2, <2>1 DEF Right, Fits
<1>5. \A p \in Partitions : Takers(p) # {} => \E m \in Member : p \in b[m]
  <2> SUFFICES ASSUME NEW p \in Partitions, Takers(p) # {} PROVE \E m \in Member : p \in b[m]
    OBVIOUS
  <2>1. PICK m \in Member : p \in a[m]
    BY DEF Right, Covers
  <2>2. CASE p = q
    BY <1>1, <1>2, <2>2
  <2>3. CASE p # q
    BY <1>2, <2>1, <2>3
  <2> QED  BY <2>2, <2>3
<1>6. Right(b)
  BY <1>2, <1>3, <1>4, <1>5 DEF Right, Fits, Covers
<1> QED  BY <1>6 DEF b

\* The member that is to get a partition can take it and is not its holder, so that
\* no move raises,
LEMMA ChosenIn ==
  ASSUME Balancing(work), NEW p \in Partitions, Movable(p), Returns(p) \/ Better(p)
  PROVE  Chosen(p) \in Takers(p) /\ Chosen(p) # Holder(p)
<1>1. /\ Holder(p) \in work.taking /\ Takers(p) \subseteq work.taking
      /\ work.taking \subseteq Member /\ work.held \in [Member -> SUBSET Partition]
  BY HolderIn, BalanceFacts
<1>2. \A m \in Member : Size(m) \in Nat
  BY <1>1, PartitionsSize DEF Size
<1>3. CASE Returns(p)
  <2>1. work.former[p] \in Takers(p)
    BY <1>3 DEF Returns, Balancing, Formers
  <2>2. Size(Holder(p)) > Size(work.former[p]) + 1
    BY <1>3 DEF Returns
  <2>3. work.former[p] # Holder(p)
    BY <1>1, <1>2, <2>1, <2>2
  <2> QED  BY <1>3, <2>1, <2>3 DEF Chosen
<1>4. CASE ~Returns(p)
  <2>1. PICK m \in Takers(p) : Size(Holder(p)) > Size(m) + 1
    BY <1>4 DEF Better
  <2>2. Takers(p) \cap work.taking = Takers(p)
    BY <1>1
  <2>3. PICK c : c = Least(work.held, Takers(p))
    OBVIOUS
  <2>4. c \in Takers(p) /\ Size(c) <= Size(m)
    BY <1>1, <2>1, <2>3, LeastIn, TakersSize DEF Size
  <2>5. Chosen(p) = c
    BY <1>4, <2>2, <2>3 DEF Chosen
  <2> QED  BY <1>1, <1>2, <2>1, <2>4, <2>5
<1> QED  BY <1>3, <1>4

\* ... whichever partition of the topic is moved instead.
LEMMA InsteadIn ==
  ASSUME Balancing(work), NEW p \in Partitions, Movable(p), NEW to \in Takers(p),
         to # Holder(p), NEW q \in Instead(p, to)
  PROVE  q \in Partitions /\ Movable(q) /\ to \in Takers(q) /\ to # Holder(q)
<1> DEFINE from == IF p \in Moved THEN work.moves[p][1] ELSE Holder(p)
           back == {r \in Moved : r[1] = p[1] /\ work.moves[r] = <<to, from>>}
<1>1. CASE q = p
  BY <1>1
<1>2. CASE q \in back
  <2>1. /\ q \in Partitions /\ Movable(q) /\ work.moves[q][1] # work.moves[q][2]
        /\ work.moves[q][2] \in work.taking /\ q \in work.held[work.moves[q][2]]
    BY <1>2 DEF Moved, Balancing
  <2>2. q[1] = p[1] /\ work.moves[q][1] = to /\ work.moves[q][2] = from
    BY <1>2
  <2>3. Holder(q) = from
    BY <2>1, <2>2, HolderIn
  <2>4. to \in Takers(q)
    BY <2>1, <2>2 DEF Takers
  <2> QED  BY <2>1, <2>2, <2>3, <2>4
<1> QED  BY <1>1, <1>2 DEF Instead

\* A partition that has moved is with the member that its last move names.
MovesRight(moves, held, taking) ==
  \A q \in DOMAIN moves :
    /\ q \in Partitions /\ Movable(q) /\ moves[q][1] # moves[q][2]
    /\ moves[q][2] \in taking /\ q \in held[moves[q][2]]

\* The moves that are remembered are those of partitions that are where they say
\* (move_partition).
LEMMA MovementsRight ==
  ASSUME Balancing(work), NEW q \in Partitions, Movable(q), NEW to \in Takers(q),
         to # Holder(q), NEW b, b = Shifted(work.held, q, Holder(q), to)
  PROVE  Movements(q, to) \in MovesType /\ MovesRight(Movements(q, to), b, work.taking)
<1> DEFINE src == IF q \in Moved THEN work.moves[q][1] ELSE Holder(q)
           now == IF src = to THEN Moved \ {q} ELSE Moved \cup {q}
           moves == [r \in now |-> IF r = q THEN <<src, to>> ELSE work.moves[r]]
<1>1. /\ Holder(q) \in Member /\ to \in Member /\ q \in Partition /\ to \in work.taking
      /\ Moved \subseteq Partition /\ work.held \in [Member -> SUBSET Partition]
      /\ work.taking \subseteq Member /\ \A r \in Moved : work.moves[r] \in Member \X Member
  BY BalanceFacts, HolderIn DEF Partitions
<1>2. src \in Member
  BY <1>1
<1>3. now \subseteq Partition /\ moves \in [now -> Member \X Member] /\ DOMAIN moves = now
  BY <1>1, <1>2
<1>4. moves \in MovesType
  BY <1>3, Zenon DEF MovesType
<1>5. \A m \in Member : b[m] = IF m = Holder(q) THEN work.held[m] \ {q}
                               ELSE IF m = to THEN work.held[m] \cup {q} ELSE work.held[m]
  <2>1. IsShifted(work.held, q, Holder(q), to, Shifted(work.held, q, Holder(q), to))
    BY <1>1, ShiftedIs
  <2> QED  BY <2>1 DEF IsShifted
<1>6. ASSUME NEW r \in now
      PROVE  /\ r \in Partitions /\ Movable(r) /\ moves[r][1] # moves[r][2]
             /\ moves[r][2] \in work.taking /\ r \in b[moves[r][2]]
  <2>1. CASE r = q
    <3>1. moves[r] = <<src, to>> /\ src # to
      BY <1>6, <2>1
    <3>2. q \in b[to]
      BY <1>1, <1>5
    <3> QED  BY <1>1, <2>1, <3>1, <3>2
  <2>2. CASE r # q
    <3>1. r \in Moved /\ moves[r] = work.moves[r]
      BY <1>6, <2>2
    <3>2. /\ r \in Partitions /\ Movable(r) /\ work.moves[r][1] # work.moves[r][2]
          /\ work.moves[r][2] \in work.taking /\ r \in work.held[work.moves[r][2]]
      BY <3>1 DEF Moved, Balancing
    <3>3. r \in b[work.moves[r][2]]
      BY <1>1, <1>5, <2>2, <3>2
    <3> QED  BY <3>1, <3>2, <3>3
  <2> QED  BY <2>1, <2>2
<1>7. MovesRight(moves, b, work.taking)
  BY <1>3, <1>6, Zenon DEF MovesRight
<1> QED  BY <1>4, <1>7 DEF Movements

\* A move of a movable partition to one that can take it keeps the balance right.
LEMMA MoveBalancing ==
  ASSUME Balancing(work), NEW q \in Partitions, Movable(q), NEW to \in Takers(q),
         to # Holder(q), NEW next \in Nat, Move(q, to, next)
  PROVE  Balancing(work') /\ UNCHANGED <<phase, assignment, generation>>
<1>1. /\ work \in BalanceType /\ work.held \in [Member -> SUBSET Partition]
      /\ work.taking \subseteq Member /\ q \in Partition
  BY BalanceFacts DEF Partitions
<1>2. to \in work.taking /\ Holder(q) \in work.taking /\ q \in work.held[Holder(q)]
  BY HolderIn
<1>3. /\ work' = [work EXCEPT !.held[Holder(q)] = @ \ {q}, !.held[to] = @ \cup {q},
                              !.moves = Movements(q, to), !.at = next,
                              !.modified = TRUE, !.changed = (phase = "all")]
      /\ UNCHANGED <<phase, assignment, generation>>
  BY <1>2 DEF Move
<1>4. PICK b : b = Shifted(work.held, q, Holder(q), to)
  OBVIOUS
<1>5. PICK moves : moves = Movements(q, to)
  OBVIOUS
<1>6. /\ b \in [Member -> SUBSET Partition]
      /\ \A m \in Member : b[m] = IF m = Holder(q) THEN work.held[m] \ {q}
                                  ELSE IF m = to THEN work.held[m] \cup {q} ELSE work.held[m]
  <2>1. to \in Member /\ Holder(q) \in Member
    BY <1>1, <1>2
  <2>2. IsShifted(work.held, q, Holder(q), to, Shifted(work.held, q, Holder(q), to))
    BY <1>1, <2>1, ShiftedIs
  <2> QED  BY <1>4, <2>2 DEF IsShifted
<1>7. moves \in MovesType /\ MovesRight(moves, b, work.taking)
  BY <1>4, <1>5, MovementsRight
<1>8. /\ work' \in BalanceType
      /\ work'.held = b /\ work'.moves = moves /\ work'.taking = work.taking
      /\ work'.fixed = work.fixed /\ work'.before = work.before
      /\ work'.former = work.former /\ work'.sorted = work.sorted
  <2>1. work' = [work EXCEPT !.held = b, !.moves = moves, !.at = next,
                             !.modified = TRUE, !.changed = (phase = "all")]
    BY <1>1, <1>3, <1>4, <1>5 DEF Shifted, BalanceType
  <2> QED  BY <1>1, <1>6, <1>7, <2>1 DEF BalanceType
<1>9. Joined(work', work'.held) = Shifted(Joined(work, work.held), q, Holder(q), to)
  <2> DEFINE old == Joined(work, work.held)
  <2>1. old \in [Member -> SUBSET Partition]
    BY DEF Balancing, Right, Fits
  <2>2. \A m \in Member : old[m] = IF m \in work.taking THEN work.held[m] ELSE work.fixed[m]
    BY DEF Joined
  <2> HIDE DEF old
  <2>0. IsShifted(old, q, Holder(q), to, Shifted(old, q, Holder(q), to))
    BY <1>1, <1>2, <2>1, ShiftedIs
  <2>3. PICK new : new = Shifted(old, q, Holder(q), to)
    OBVIOUS
  <2>4. /\ new \in [Member -> SUBSET Partition]
        /\ \A m \in Member : new[m] =
             IF m = Holder(q) THEN old[m] \ {q} ELSE IF m = to THEN old[m] \cup {q} ELSE old[m]
    BY <2>0, <2>3 DEF IsShifted
  <2>5. Joined(work', b) = [m \in Member |-> IF m \in work.taking THEN b[m] ELSE work.fixed[m]]
    BY <1>8 DEF Joined
  <2>6. ASSUME NEW m \in Member
        PROVE  (IF m \in work.taking THEN b[m] ELSE work.fixed[m]) = new[m]
    <3>1. CASE m \in work.taking
      BY <1>6, <2>2, <2>4, <3>1
    <3>2. CASE m \notin work.taking
      BY <1>2, <2>2, <2>4, <3>2
    <3> QED  BY <3>1, <3>2
  <2>7. Joined(work', b) = new
    BY <2>4, <2>5, <2>6
  <2> QED  BY <1>8, <2>3, <2>7 DEF old
<1>10. Right(Joined(work', work'.held))
  <2>1. Right(Joined(work, work.held)) /\ q \in Joined(work, work.held)[Holder(q)]
    BY <1>1, <1>2 DEF Balancing, Joined
  <2> QED  BY <1>1, <1>2, <1>9, <2>1, ShiftRight
<1>11. Right(Joined(work', work'.before))
  BY <1>8 DEF Joined, Balancing
<1>12. Balancing(work')
  BY <1>7, <1>8, <1>10, <1>11 DEF Balancing, BalanceType, MovesRight
<1> QED  BY <1>3, <1>12

\* What a step of balancing leaves alone.
LEMMA BalanceStep ==
  ASSUME IInv, UNCHANGED <<strategy, topics, counts, claims, reported>>, generation' \in Nat,
         assignment' \in [Member -> SUBSET Partition],
         \/ phase' \in {"new", "all"} /\ Balancing(work')
         \/ phase' = "given" /\ Right(assignment')
  PROVE  IInv'
<1>1. Fixed /\ Shape'
  BY DEF IInv, Shape, Fixed
<1>2. CASE phase' \in {"new", "all"} /\ Balancing(work')
  BY <1>1, <1>2, FixedBalancing DEF IInv
<1>3. CASE phase' = "given" /\ Right(assignment')
  BY <1>1, <1>3, FixedRight DEF IInv
<1> QED  BY <1>2, <1>3

\* Only the place in the list and the flags change.
LEMMA BalancingGoesOn ==
  ASSUME Balancing(work), NEW w, w \in BalanceType,
         w.held = work.held, w.before = work.before, w.taking = work.taking,
         w.fixed = work.fixed, w.former = work.former, w.moves = work.moves,
         w.sorted = work.sorted
  PROVE  Balancing(w)
<1>1. Joined(w, w.held) = Joined(work, work.held) /\ Joined(w, w.before) = Joined(work, work.before)
  BY DEF Joined
<1> QED  BY <1>1 DEF Balancing, BalanceType

\* A partition is passed over.
LEMMA PassingOn ==
  ASSUME Balancing(work), work \in BalanceType, NEW at \in Nat
  PROVE  Balancing([work EXCEPT !.at = at])
<1> DEFINE w == [work EXCEPT !.at = at]
<1>1. w \in BalanceType
  BY DEF BalanceType
<1>2. /\ w.held = work.held /\ w.before = work.before
      /\ w.taking = work.taking /\ w.fixed = work.fixed
      /\ w.former = work.former /\ w.moves = work.moves
      /\ w.sorted = work.sorted
  BY DEF BalanceType
<1> HIDE DEF w
<1>3. Balancing(w)
  BY <1>1, <1>2, BalancingGoesOn
<1> QED  BY <1>3 DEF w

\* A pass begins again.
LEMMA PassAgain ==
  ASSUME Balancing(work), work \in BalanceType
  PROVE  Balancing([work EXCEPT !.at = 1, !.modified = FALSE])
<1> DEFINE w == [work EXCEPT !.at = 1, !.modified = FALSE]
<1>1. w \in BalanceType
  BY DEF BalanceType
<1>2. /\ w.held = work.held /\ w.before = work.before
      /\ w.taking = work.taking /\ w.fixed = work.fixed
      /\ w.former = work.former /\ w.moves = work.moves
      /\ w.sorted = work.sorted
  BY DEF BalanceType
<1> HIDE DEF w
<1>3. Balancing(w)
  BY <1>1, <1>2, BalancingGoesOn
<1> QED  BY <1>3 DEF w

\* A partition is considered (_perform_reassignments).
LEMMA ConsiderInv ==
  ASSUME IInv, Consider
  PROVE  IInv'
<1>1. /\ Balancing(work) /\ phase \in {"new", "all"} /\ generation \in Nat
      /\ assignment \in [Member -> SUBSET Partition]
      /\ UNCHANGED <<strategy, topics, counts, claims, reported>>
  BY DEF IInv, Shape, Consider
<1>2. work \in BalanceType /\ Listing(work.sorted) /\ work.sorted \in Seq(Partition)
  BY BalanceFacts, <1>1 DEF Balancing, Listing
<1>3. PICK k \in Nat : k = Len(work.sorted) /\ DOMAIN work.sorted = 1 .. k
  BY <1>2
<1>4. Pass \subseteq 1 .. k /\ Pass # {} /\ \A i \in Pass : Movable(work.sorted[i])
  BY <1>3 DEF Consider, Pass, Left
<1>5. IsFiniteSet(Pass) /\ Pass \in SUBSET Nat
  <2>1. IsFiniteSet(1 .. k)
    BY FS_Interval
  <2>2. IsFiniteSet(Pass)
    BY <1>4, <2>1, FS_Subset
  <2> QED  BY <1>4, <2>2
<1>6. PICK i \in 1 .. k : i = Min(Pass) /\ Movable(work.sorted[i])
  BY <1>4, <1>5, MinIn
<1>7. PICK p \in Partitions : p = work.sorted[i] /\ Movable(p)
  BY <1>2, <1>3, <1>6 DEF Listing
<1>8. CASE Returns(p) \/ Better(p)
  <2>1. PICK to \in Takers(p) : to = Chosen(p) /\ to # Holder(p)
    BY <1>1, <1>7, <1>8, ChosenIn
  <2>2. PICK q \in Instead(p, to) : Move(q, to, i + 1)
    BY <1>6, <1>7, <1>8, <2>1 DEF Consider
  <2>3. q \in Partitions /\ Movable(q) /\ to \in Takers(q) /\ to # Holder(q)
    BY <1>1, <1>7, <2>1, InsteadIn
  <2>4. Balancing(work') /\ UNCHANGED <<phase, assignment, generation>>
    BY <1>1, <2>2, <2>3, MoveBalancing
  <2> QED  BY <1>1, <2>4, BalanceStep
<1>9. CASE ~(Returns(p) \/ Better(p))
  <2>1. work' = [work EXCEPT !.at = i + 1] /\ UNCHANGED <<phase, assignment, generation>>
    BY <1>6, <1>7, <1>9 DEF Consider
  <2>2. i + 1 \in Nat
    BY <1>6
  <2>3. Balancing(work')
    BY <1>1, <1>2, <2>1, <2>2, PassingOn
  <2> QED  BY <1>1, <2>1, <2>3, BalanceStep
<1> QED  BY <1>8, <1>9

\* At the end of the passes the outcome is right, whether the moves are kept or
\* given up.
LEMMA EndPassInv ==
  ASSUME IInv, EndPass
  PROVE  IInv'
<1>1. /\ Balancing(work) /\ phase \in {"new", "all"} /\ generation \in Nat
      /\ assignment \in [Member -> SUBSET Partition] /\ work \in BalanceType
      /\ UNCHANGED <<strategy, topics, counts, claims, reported>>
  BY BalanceFacts DEF IInv, Shape, EndPass
<1>2. CASE work.modified \/ phase = "new"
  <2>1. /\ phase' \in {"new", "all"} /\ UNCHANGED <<assignment, generation>>
        /\ \/ work' = [work EXCEPT !.at = 1, !.modified = FALSE]
           \/ work' = [work EXCEPT !.at = 1]
    BY <1>1, <1>2 DEF EndPass
  <2>3. Balancing(work')
    BY <1>1, <2>1, PassingOn, PassAgain
  <2> QED  BY <1>1, <2>1, <2>3, BalanceStep
<1>3. CASE ~work.modified /\ phase # "new"
  <2>1. /\ phase' = "given" /\ generation' = generation + 1
        /\ \/ assignment' = Final(work.held) \/ assignment' = Final(work.before)
    BY <1>3 DEF EndPass, Give
  <2>2. Final(work.held) = Joined(work, work.held) /\ Final(work.before) = Joined(work, work.before)
    BY DEF Final, Joined
  <2>3. Right(assignment')
    BY <1>1, <2>1, <2>2 DEF Balancing
  <2>4. assignment' \in [Member -> SUBSET Partition]
    BY <2>3 DEF Right, Fits
  <2> QED  BY <1>1, <2>1, <2>3, <2>4, BalanceStep
<1> QED  BY <1>2, <1>3

-----------------------------------------------------------------------------
(* Between two generations                                                 *)

\* The steps outside of an assignor: while the group changes nothing is divided.
LEMMA InitInv == Init => IInv
<1> SUFFICES ASSUME Init PROVE IInv
  OBVIOUS
<1>1. Shape
  BY DEF Init, Shape, Nothing
<1> QED  BY <1>1 DEF Init, IInv

\* A change to the group, after which it has to rebalance.
LEMMA JoiningInv ==
  ASSUME Shape', phase' = "joining"
  PROVE  IInv'
BY DEF IInv

LEMMA SubscribeInv ==
  ASSUME IInv, NEW m \in Member, Subscribe(m)
  PROVE  IInv'
<1>1. PICK ts \in SUBSET Topic :
        /\ topics' = [topics EXCEPT ![m] = ts]
        /\ claims' = [claims EXCEPT ![m] = IF ts = {} THEN {} ELSE @]
        /\ reported' = [reported EXCEPT ![m] = IF ts = {} THEN 0 ELSE @]
  BY DEF Subscribe
<1>2. Shape' /\ phase' = "joining"
  BY <1>1 DEF IInv, Shape, Subscribe
<1> QED  BY <1>2, JoiningInv

LEMMA ResizeInv ==
  ASSUME IInv, NEW t \in Topic, Resize(t)
  PROVE  IInv'
<1>1. Shape' /\ phase' = "joining"
  BY DEF IInv, Shape, Resize
<1> QED  BY <1>1, JoiningInv

LEMMA RejoinInv ==
  ASSUME IInv, Rejoin
  PROVE  IInv'
<1>1. Shape' /\ phase' = "joining"
  BY DEF IInv, Shape, Rejoin, group
<1> QED  BY <1>1, JoiningInv

\* Members report what they got.
LEMMA DeliverInv ==
  ASSUME IInv, Deliver
  PROVE  IInv'
<1>1. /\ phase = "given" /\ phase' = "stable" /\ Right(assignment)
      /\ UNCHANGED <<strategy, topics, counts, generation, assignment>>
  BY DEF IInv, Deliver
<1>2. /\ claims' \in [Member -> SUBSET Partition] /\ reported' \in [Member -> Nat]
  <2>1. CASE UNCHANGED <<claims, reported>>
    BY <2>1 DEF IInv, Shape
  <2>2. CASE \E got \in SUBSET Members :
               /\ claims' = [m \in Member |-> IF m \in got THEN assignment[m] ELSE claims[m]]
               /\ reported' = [m \in Member |-> IF m \in got THEN generation ELSE reported[m]]
    BY <2>2 DEF IInv, Shape
  <2> QED  BY <2>1, <2>2 DEF Deliver
<1>3. Shape' /\ Fixed
  BY <1>1, <1>2 DEF IInv, Shape, Fixed
<1>4. Right(assignment)'
  BY <1>1, <1>3, FixedRight
<1> QED  BY <1>1, <1>3, <1>4 DEF IInv

-----------------------------------------------------------------------------
(* Range and roundrobin                                                    *)

\* When static members come before dynamic ones groupby drops nobody.
LEMMA KeptAll ==
  ASSUME NEW o \in Arrivals, Grouped(o), NEW U \in SUBSET Members
  PROVE  Kept(o, U) = U
<1>1. IsFiniteSet(Members) /\ Cardinality(Members) \in Nat
  BY MembersSize DEF Members
<1>2. PICK k \in Nat : k = Cardinality(Members)
  BY <1>1
<1>3. o \in [1 .. k -> Members] /\ IsInjective(o)
  BY <1>2 DEF Arrivals
<1>4. IsFiniteSet(1 .. k) /\ Cardinality(1 .. k) = k
  BY FS_Interval
<1>5. o \in Injection(1 .. k, Members)
  BY <1>3, Zenon DEF Injection
<1>6. o \in Surjection(1 .. k, Members)
  BY <1>1, <1>2, <1>4, <1>5, FS_Injection
<1>7. \A m \in Members : \E i \in 1 .. k : o[i] = m
  BY <1>6 DEF Surjection
<1>8. DOMAIN o = 1 .. k
  BY <1>3
<1>9. \A j, l, n \in 1 .. k : /\ ~Kind(o, l) /\ l <= n => ~Kind(o, n)
                              /\ ~Kind(o, j) /\ j <= l => Kind(o, l) = FALSE
  BY <1>8 DEF Grouped, Kind
<1>10. Kept(o, U) \subseteq U
  BY DEF Kept, LastRun
<1>11. ASSUME NEW m \in U PROVE m \in Kept(o, U)
  <2>1. PICK i \in 1 .. k : o[i] = m
    BY <1>7
  <2>2. CASE Kind(o, i)
    <3>1. m \in LastRun(o, U, TRUE)
      BY <1>8, <1>9, <2>1, <2>2 DEF LastRun
    <3> QED  BY <3>1 DEF Kept
  <2>3. CASE ~Kind(o, i)
    <3> DEFINE at == {j \in DOMAIN o : o[j] \in U}
    <3>1. \A l, n \in at : i <= l /\ l <= n /\ Kind(o, l) # FALSE => Kind(o, n) # FALSE
      BY <1>8, <1>9, <2>1, <2>3
    <3>2. i \in at /\ Kind(o, i) = FALSE
      BY <1>8, <2>1, <2>3 DEF Kind
    <3>3. o[i] \in LastRun(o, U, FALSE)
      BY <3>1, <3>2, Zenon DEF LastRun
    <3>4. m \in LastRun(o, U, FALSE)
      BY <2>1, <3>3
    <3> QED  BY <3>4 DEF Kept
  <2> QED  BY <2>2, <2>3
<1> QED  BY <1>10, <1>11

\* By turns each partition has one member whose turn it is.
LEMMA TurnIn ==
  ASSUME NEW o \in Arrivals, Grouped(o), Members # {}, NEW p \in Asked
  PROVE  Turn(o, p) \in Members
<1> DEFINE i == Rank(p, Asked, Before) % Cardinality(Members)
<1>1. IsFiniteSet(Members) /\ Cardinality(Members) \in Nat /\ Members \subseteq Member
  BY MembersSize DEF Members
<1>2. Cardinality(Members) # 0
  BY <1>1, FS_EmptySet
<1>3. Asked \in SUBSET Partition
  BY DEF Asked, Partitions
<1>4. Rank(p, Asked, Before) \in Nat
  <2>1. IsFiniteSet({y \in Asked : Before(y, p)})
    BY <1>3, PartitionsSize
  <2> QED  BY <2>1, FS_CardinalityType DEF Rank
<1>5. i \in 0 .. Cardinality(Members) - 1
  BY <1>1, <1>2, <1>4
<1> HIDE DEF i
<1> DEFINE below == [x \in Members |-> {y \in Members : Ahead(y, x)}]
<1>6. Ordered(Members, below)
  BY <1>1, AheadOrders
<1> HIDE DEF below
<1>7. PICK m \in Members : Cardinality(below[m]) = i
  BY <1>5, <1>6, RankOnto
<1>8. Rank(m, Members, Ahead) = i
  BY <1>7 DEF Rank, below
<1>9. Kept(o, Members) = Members
  BY KeptAll
<1>10. Turn(o, p) = CHOOSE n \in Members : Rank(n, Members, Ahead) = i
  BY <1>9 DEF Turn, i
<1> QED  BY <1>8, <1>10, Zenon

\* The turns give each partition that is asked for to one member, one that asked.
LEMMA TurnsRight ==
  ASSUME NEW o \in Arrivals, Grouped(o), ~Skips(o), Members # {}
  PROVE  Right(ByTurns(o))
<1>1. \A p \in Asked : /\ p \in Partitions /\ p \in Partition /\ Turn(o, p) \in Member
                       /\ Turn(o, p) \in Takers(p)
  BY TurnIn DEF Asked, Partitions, Members, Skips, Takers
<1>2. ByTurns(o) \in [Member -> SUBSET Partition]
  BY <1>1 DEF ByTurns
<1>3. \A m \in Member : ByTurns(o)[m] = {p \in Asked : Turn(o, p) = m}
  BY DEF ByTurns
<1>4. Fits(ByTurns(o))
  BY <1>1, <1>2, <1>3 DEF Fits
<1>5. Covers(ByTurns(o))
  BY <1>1, <1>3 DEF Covers, Asked
<1> QED  BY <1>4, <1>5 DEF Right

\* By range the indexes of a topic are cut into stretches, the first ones of
\* which are one longer than the others.
Start(each, extra, i) == each * i + (IF i <= extra THEN i ELSE extra)
Stretch(each, extra, i) ==
  Start(each, extra, i) .. (Start(each, extra, i) + each + (IF i < extra THEN 1 ELSE 0) - 1)

\* A stretch begins where the one before it ends,
LEMMA StartNext ==
  ASSUME NEW each \in Nat, NEW extra \in Nat, NEW i \in Nat
  PROVE  /\ Start(each, extra, i) \in Nat /\ Start(each, extra, i + 1) \in Nat
         /\ Start(each, extra, i + 1) = Start(each, extra, i) + each + (IF i < extra THEN 1 ELSE 0)
<1>1. each * i \in Nat /\ each * (i + 1) = each * i + each
  OBVIOUS
<1> QED  BY <1>1 DEF Start

\* ... and no later one begins earlier.
LEMMA StartGrows ==
  ASSUME NEW each \in Nat, NEW extra \in Nat, NEW i \in Nat, NEW j \in Nat, i <= j
  PROVE  Start(each, extra, i) <= Start(each, extra, j)
<1>1. each * i \in Nat /\ each * j \in Nat /\ each * i <= each * j
  OBVIOUS
<1> QED  BY <1>1 DEF Start

LEMMA StretchIs ==
  ASSUME NEW each \in Nat, NEW extra \in Nat, NEW i \in Nat
  PROVE  Stretch(each, extra, i) = Start(each, extra, i) .. (Start(each, extra, i + 1) - 1)
<1>1. PICK a \in Nat : a = Start(each, extra, i)
  BY StartNext
<1>2. Start(each, extra, i + 1) = a + each + (IF i < extra THEN 1 ELSE 0)
  BY <1>1, StartNext
<1> QED  BY <1>1, <1>2 DEF Stretch

LEMMA StretchesAre ==
  ASSUME NEW each \in Nat, NEW extra \in Nat
  PROVE  \A i \in Nat : Stretch(each, extra, i) =
           Start(each, extra, i) .. (Start(each, extra, i + 1) - 1)
<1> TAKE i \in Nat
<1>1. Stretch(each, extra, i) = Start(each, extra, i) .. (Start(each, extra, i + 1) - 1)
  BY ONLY each \in Nat, extra \in Nat, i \in Nat, StretchIs
<1> QED  BY <1>1

\* The stretches cut up the indexes.
Divides(c, k, each, extra) ==
  /\ c \in Nat /\ k \in Nat /\ each \in Nat /\ extra \in Nat
  /\ c = each * k + extra /\ extra < k
CutUp(c, k, each, extra) ==
  /\ \A i \in 0 .. k - 1 : Stretch(each, extra, i) \subseteq 0 .. c - 1
  /\ \A i, j \in 0 .. k - 1 : i # j => Stretch(each, extra, i) \cap Stretch(each, extra, j) = {}
  /\ \A n \in 0 .. c - 1 : \E i \in 0 .. k - 1 : n \in Stretch(each, extra, i)

\* The quotient and the remainder.
LEMMA DivisionDivides ==
  ASSUME NEW c \in Nat, NEW k \in Nat \ {0}
  PROVE  Divides(c, k, c \div k, c % k)
<1>1. c = (c \div k) * k + (c % k) /\ (c % k) < k /\ c \div k \in Nat /\ c % k \in Nat
  OBVIOUS
<1> QED  BY <1>1 DEF Divides

LEMMA Stretches ==
  ASSUME NEW c, NEW k, NEW each, NEW extra, Divides(c, k, each, extra)
  PROVE  CutUp(c, k, each, extra)
<1>1. /\ c \in Nat /\ k \in Nat /\ each \in Nat /\ extra \in Nat
      /\ c = each * k + extra /\ extra < k
  BY DEF Divides
<1> DEFINE S == [i \in Nat |-> Start(each, extra, i)]
<1>2. S[k] = c
  BY <1>1 DEF Start
<1>3. S \in [Nat -> Nat] /\ S[0] = 0
  <2>1. S \in [Nat -> Nat]
    BY <1>1, StartNext
  <2>2. each * 0 = 0
    BY <1>1
  <2> QED  BY <1>1, <2>1, <2>2 DEF Start
<1>0. \A i \in Nat : Stretch(each, extra, i) =
        Start(each, extra, i) .. (Start(each, extra, i + 1) - 1)
  BY ONLY <1>1, StretchesAre
<1>4. \A i \in Nat : Stretch(each, extra, i) = S[i] .. (S[i + 1] - 1)
  <2>1. ASSUME NEW i \in Nat PROVE Stretch(each, extra, i) = S[i] .. (S[i + 1] - 1)
    <3>1. i + 1 \in Nat
      OBVIOUS
    <3>2. S[i] = Start(each, extra, i) /\ S[i + 1] = Start(each, extra, i + 1)
      BY <3>1
    <3>3. Stretch(each, extra, i) = Start(each, extra, i) .. (Start(each, extra, i + 1) - 1)
      BY <1>0
    <3> QED  BY ONLY <3>2, <3>3
  <2> QED  BY <2>1
<1>5. \A i, j \in Nat : i <= j => S[i] <= S[j]
  BY <1>1, StartGrows
<1> HIDE DEF S
<1>6. ASSUME NEW i \in 0 .. k - 1
      PROVE  Stretch(each, extra, i) \subseteq 0 .. c - 1
  <2>1. i \in Nat /\ i + 1 \in Nat /\ i + 1 <= k
    BY <1>1
  <2>2. S[i + 1] <= c /\ S[i] \in Nat /\ S[i + 1] \in Nat
    BY <1>1, <1>2, <1>3, <1>5, <2>1
  <2>3. Stretch(each, extra, i) = S[i] .. (S[i + 1] - 1)
    BY <1>4, <2>1
  <2>4. PICK a \in Nat, b \in Nat : a = S[i] /\ b = S[i + 1] /\ b <= c
    BY <2>2
  <2>5. a .. (b - 1) \subseteq 0 .. c - 1
    BY ONLY <2>4, <1>1
  <2> QED  BY ONLY <2>3, <2>4, <2>5
<1>7. ASSUME NEW i \in 0 .. k - 1, NEW j \in 0 .. k - 1, i < j
      PROVE  Stretch(each, extra, i) \cap Stretch(each, extra, j) = {}
  <2>1. /\ i \in Nat /\ i + 1 \in Nat /\ i + 1 <= j /\ j \in Nat /\ j + 1 \in Nat
    BY <1>1, <1>7
  <2>2. S[i + 1] <= S[j] /\ {S[i], S[j], S[i + 1], S[j + 1]} \subseteq Nat
    BY <1>3, <1>5, <2>1
  <2>3. /\ Stretch(each, extra, i) = S[i] .. (S[i + 1] - 1)
        /\ Stretch(each, extra, j) = S[j] .. (S[j + 1] - 1)
    BY <1>4, <2>1
  <2> HIDE DEF S
  <2>4. ASSUME NEW n \in Stretch(each, extra, i) \cap Stretch(each, extra, j) PROVE FALSE
    <3>1. n \in S[i] .. (S[i + 1] - 1) /\ n \in S[j] .. (S[j + 1] - 1)
      BY <2>3
    <3>2. PICK b \in Nat, d \in Nat : b = S[i + 1] /\ d = S[j] /\ b <= d
      BY <2>2
    <3>3. n \in Int /\ n <= b - 1 /\ d <= n
      BY <2>2, <3>1, <3>2
    <3> QED  BY <3>2, <3>3
  <2> QED  BY <2>4
<1>8. ASSUME NEW n \in 0 .. c - 1
      PROVE  \E i \in 0 .. k - 1 : n \in Stretch(each, extra, i)
  <2> DEFINE later == {i \in 1 .. k : n < S[i]}
  <2>1. later \in SUBSET Nat /\ IsFiniteSet(later)
    <3>1. IsFiniteSet(1 .. k)
      BY <1>1, FS_Interval
    <3> QED  BY <1>1, <3>1, FS_Subset
  <2>2. k \in later
    BY <1>1, <1>2
  <2>3. PICK i \in later : i = Min(later) /\ \A j \in later : i <= j
    BY <2>1, <2>2, MinIn
  <2>4. i \in 1 .. k /\ n < S[i] /\ i - 1 \in 0 .. k - 1 /\ (i - 1) + 1 = i
    BY <1>1, <2>3
  <2>5. i - 1 \notin later
    BY <1>1, <2>3, <2>4
  <2>6. S[i - 1] <= n
    BY <1>1, <1>3, <2>4, <2>5
  <2>7. S[i] \in Nat /\ S[i - 1] \in Nat
    BY <1>3, <2>4
  <2>8. Stretch(each, extra, i - 1) = S[i - 1] .. (S[i] - 1)
    BY <1>4, <2>4
  <2>9. n \in Stretch(each, extra, i - 1)
    BY <1>1, <2>4, <2>6, <2>7, <2>8
  <2> QED  BY <2>4, <2>9
<1>9. \A i, j \in 0 .. k - 1 : i # j => Stretch(each, extra, i) \cap Stretch(each, extra, j) = {}
  BY <1>1, <1>7
<1> QED  BY <1>6, <1>8, <1>9 DEF CutUp

LEMMA MinOfTwo ==
  ASSUME NEW i \in Nat, NEW j \in Nat
  PROVE  Min({i, j}) = IF i <= j THEN i ELSE j
<1>1. IsFiniteSet({i, j}) /\ {i, j} \in SUBSET Nat /\ {i, j} # {}
  <2>1. IsFiniteSet({i}) /\ {i, j} = {i} \cup {j}
    BY FS_Singleton
  <2>2. IsFiniteSet({i} \cup {j})
    BY <2>1, FS_AddElement
  <2> QED  BY <2>1, <2>2
<1>2. Min({i, j}) \in {i, j} /\ \A y \in {i, j} : Min({i, j}) <= y
  BY <1>1, MinIn
<1> QED  BY <1>2

\* The part that a subscriber gets of a topic's indexes.
Ticket(t, m) ==
  Stretch(counts[t] \div Cardinality(Askers(t)), counts[t] % Cardinality(Askers(t)),
          Rank(m, Askers(t), Ahead))

\* The subscribers of a topic have ranks, one each.
LEMMA AskersRank ==
  ASSUME NEW t, NEW m \in Askers(t)
  PROVE  /\ Cardinality(Askers(t)) \in Nat \ {0}
         /\ Rank(m, Askers(t), Ahead) \in 0 .. Cardinality(Askers(t)) - 1
         /\ \A n \in Askers(t) : Rank(m, Askers(t), Ahead) = Rank(n, Askers(t), Ahead) => m = n
         /\ \A i \in 0 .. Cardinality(Askers(t)) - 1 :
              \E n \in Askers(t) : Rank(n, Askers(t), Ahead) = i
<1> DEFINE S == Askers(t)
           below == [x \in S |-> {y \in S : Ahead(y, x)}]
<1>1. S \in SUBSET Member
  BY DEF Askers, Members
<1>2. IsFiniteSet(S) /\ Cardinality(S) \in Nat
  BY <1>1, MembersSize
<1>3. Cardinality(S) # 0
  BY <1>2, FS_EmptySet
<1>4. Ordered(S, below)
  BY <1>1, AheadOrders
<1>5. \A x \in S : Cardinality(below[x]) = Rank(x, S, Ahead)
  BY DEF Rank
<1> HIDE DEF below, S
<1>6. m \in S
  BY DEF S
<1>7. Rank(m, S, Ahead) \in 0 .. Cardinality(S) - 1
  BY <1>4, <1>5, <1>6, RankType
<1>8. \A n \in S : Rank(m, S, Ahead) = Rank(n, S, Ahead) => m = n
  <2> SUFFICES ASSUME NEW n \in S, Rank(m, S, Ahead) = Rank(n, S, Ahead) PROVE m = n
    OBVIOUS
  <2>1. Cardinality(below[m]) = Cardinality(below[n])
    BY <1>5, <1>6
  <2> QED  BY <1>4, <1>6, <2>1, RankIsOne
<1>9. \A i \in 0 .. Cardinality(S) - 1 : \E n \in S : Rank(n, S, Ahead) = i
  <2> SUFFICES ASSUME NEW i \in 0 .. Cardinality(S) - 1 PROVE \E n \in S : Rank(n, S, Ahead) = i
    OBVIOUS
  <2>1. PICK n \in S : Cardinality(below[n]) = i
    BY <1>4, RankOnto
  <2> QED  BY <1>5, <2>1
<1> QED  BY <1>2, <1>3, <1>7, <1>8, <1>9 DEF S

\* A share is the subscriber's stretch of the topic.
LEMMA ShareIs ==
  ASSUME Shape, NEW o \in Arrivals, Grouped(o), NEW t \in Topic, NEW m \in Askers(t)
  PROVE  RangeShare(o, t, m) = {<<t, n>> : n \in Ticket(t, m)}
<1>1. Kept(o, Askers(t)) = Askers(t)
  BY KeptAll DEF Askers
<1>2. PICK c \in Nat : c = counts[t]
  BY BoundAssumption DEF Shape
<1>3. PICK k \in Nat : k = Cardinality(Askers(t)) /\ k > 0
  BY AskersRank
<1>4. PICK i \in Nat : i = Rank(m, Askers(t), Ahead)
  BY AskersRank
<1>5. PICK each \in Nat, extra \in Nat : each = c \div k /\ extra = c % k
  BY <1>3
<1>6. Min({i, extra}) = IF i <= extra THEN i ELSE extra
  BY MinOfTwo
<1>7. RangeShare(o, t, m) =
        {<<t, n>> : n \in (each * i + Min({i, extra})) ..
                          ((each * i + Min({i, extra})) + each + (IF i < extra THEN 1 ELSE 0) - 1)}
  BY <1>1, <1>2, <1>3, <1>4, <1>5 DEF RangeShare
<1>8. Start(each, extra, i) = each * i + Min({i, extra})
  BY <1>6 DEF Start
<1>9. Stretch(each, extra, i) =
        (each * i + Min({i, extra})) ..
          ((each * i + Min({i, extra})) + each + (IF i < extra THEN 1 ELSE 0) - 1)
  BY <1>8 DEF Stretch
<1>10. Ticket(t, m) = Stretch(each, extra, i)
  BY <1>2, <1>3, <1>4, <1>5 DEF Ticket
<1> QED  BY <1>7, <1>9, <1>10

\* The shares of a topic cut it up.
LEMMA Tickets ==
  ASSUME Shape, NEW t \in Topic
  PROVE  /\ \A m \in Askers(t) : Ticket(t, m) \subseteq 0 .. counts[t] - 1
         /\ \A m, n \in Askers(t) : m # n => Ticket(t, m) \cap Ticket(t, n) = {}
         /\ Askers(t) # {} => \A n \in 0 .. counts[t] - 1 : \E m \in Askers(t) : n \in Ticket(t, m)
<1> SUFFICES ASSUME NEW x \in Askers(t)
             PROVE  /\ \A m \in Askers(t) : Ticket(t, m) \subseteq 0 .. counts[t] - 1
                    /\ \A m, n \in Askers(t) : m # n => Ticket(t, m) \cap Ticket(t, n) = {}
                    /\ \A n \in 0 .. counts[t] - 1 : \E m \in Askers(t) : n \in Ticket(t, m)
  OBVIOUS
<1>1. PICK c \in Nat : c = counts[t]
  BY BoundAssumption DEF Shape
<1>2. PICK k \in Nat : k = Cardinality(Askers(t)) /\ k > 0
  BY AskersRank
<1>3. PICK each, extra : each = c \div k /\ extra = c % k
  OBVIOUS
<1>4. \A m \in Askers(t) : Ticket(t, m) = Stretch(each, extra, Rank(m, Askers(t), Ahead))
  BY <1>1, <1>2, <1>3 DEF Ticket
<1>5. CutUp(c, k, each, extra)
  <2>1. k \in Nat \ {0}
    BY <1>2
  <2>2. Divides(c, k, c \div k, c % k)
    BY <2>1, DivisionDivides
  <2>3. Divides(c, k, each, extra)
    BY <1>3, <2>2
  <2> QED  BY <2>3, Stretches
<1>6. /\ \A m \in Askers(t) : Rank(m, Askers(t), Ahead) \in 0 .. k - 1
      /\ \A m, n \in Askers(t) : Rank(m, Askers(t), Ahead) = Rank(n, Askers(t), Ahead) => m = n
      /\ \A i \in 0 .. k - 1 : \E n \in Askers(t) : Rank(n, Askers(t), Ahead) = i
  BY <1>2, AskersRank
<1> QED  BY ONLY <1>1, <1>4, <1>5, <1>6 DEF CutUp

\* The ranges give each partition that is asked for to one member, one that asked.
LEMMA RangesRight ==
  ASSUME Shape, NEW o \in Arrivals, Grouped(o)
  PROVE  Right(ByRange(o))
<1>0. /\ \A t \in Topic : counts[t] \in 0 .. MaxPartitions /\ MaxPartitions \in Nat
      /\ topics \in [Member -> SUBSET Topic]
  BY BoundAssumption DEF Shape
<1>1. \A t \in Topic : Kept(o, Askers(t)) = Askers(t)
  BY KeptAll DEF Askers
<1>2. \A t \in Topic : \A m \in Askers(t) :
        RangeShare(o, t, m) = {<<t, n>> : n \in Ticket(t, m)}
  BY ShareIs
<1>3. \A m \in Member : \A t \in topics[m] : m \in Askers(t) /\ t \in Topic
  BY <1>0 DEF Askers, Members
<1>4. \A m \in Member : ByRange(o)[m] = UNION {RangeShare(o, t, m) : t \in topics[m]}
  <2>1. ASSUME NEW m \in Member, NEW t \in topics[m]
        PROVE  (IF m \in Kept(o, Askers(t)) THEN RangeShare(o, t, m) ELSE {}) = RangeShare(o, t, m)
    BY <1>1, <1>3
  <2>2. \A m \in Member :
          ByRange(o)[m] = UNION {IF m \in Kept(o, Askers(t)) THEN RangeShare(o, t, m) ELSE {}
                                 : t \in topics[m]}
    BY DEF ByRange
  <2> QED  BY <2>1, <2>2
<1>5. \A m \in Member : \A p : p \in ByRange(o)[m] <=>
        \E t \in topics[m] : \E n \in Ticket(t, m) : p = <<t, n>>
  BY <1>2, <1>3, <1>4
<1>6. \A t \in Topic :
        /\ \A m \in Askers(t) : Ticket(t, m) \subseteq 0 .. counts[t] - 1
        /\ \A m, n \in Askers(t) : m # n => Ticket(t, m) \cap Ticket(t, n) = {}
        /\ Askers(t) # {} => \A n \in 0 .. counts[t] - 1 : \E m \in Askers(t) : n \in Ticket(t, m)
  BY Tickets
<1>7. \A t \in Topic : \A n \in 0 .. counts[t] - 1 : <<t, n>> \in Partitions
  BY <1>0 DEF Partitions, Partition
<1>8. ASSUME NEW m \in Member, NEW p \in ByRange(o)[m]
      PROVE  p \in Partition /\ m \in Takers(p)
  <2>1. PICK t \in topics[m] : \E n \in Ticket(t, m) : p = <<t, n>>
    BY <1>5
  <2>2. PICK n \in Ticket(t, m) : p = <<t, n>>
    BY <2>1
  <2>3. p \in Partitions /\ p[1] \in topics[m]
    BY <1>3, <1>6, <1>7, <2>2
  <2> QED  BY <2>3 DEF Takers, Partitions
<1>9. ByRange(o) \in [Member -> SUBSET Partition]
  <2>1. ByRange(o) = [m \in Member |-> ByRange(o)[m]]
    BY DEF ByRange
  <2> QED  BY <1>8, <2>1
<1>10. ASSUME NEW m \in Member, NEW n \in Member, m # n
       PROVE  ByRange(o)[m] \cap ByRange(o)[n] = {}
  <2> SUFFICES ASSUME NEW p \in ByRange(o)[m], p \in ByRange(o)[n]
               PROVE  FALSE
    OBVIOUS
  <2>1. PICK t \in topics[m] : \E i \in Ticket(t, m) : p = <<t, i>>
    BY <1>5
  <2>2. PICK u \in topics[n] : \E j \in Ticket(u, n) : p = <<u, j>>
    BY <1>5
  <2>3. PICK i \in Ticket(t, m), j \in Ticket(u, n) : p = <<t, i>> /\ p = <<u, j>>
    BY <2>1, <2>2
  <2>4. t = u /\ i = j
    BY <2>3
  <2>5. i \in Ticket(t, m) /\ i \in Ticket(t, n)
    BY <2>3, <2>4
  <2> QED  BY <1>3, <1>6, <1>10, <2>4, <2>5
<1>11. Covers(ByRange(o))
  <2> SUFFICES ASSUME NEW p \in Partitions, Takers(p) # {}
               PROVE  \E m \in Member : p \in ByRange(o)[m]
    BY DEF Covers
  <2>1. p = <<p[1], p[2]>> /\ p[1] \in Topic /\ p[2] \in 0 .. counts[p[1]] - 1
    BY <1>0, PartitionFacts DEF Partitions
  <2>2. Askers(p[1]) # {}
    BY <1>3 DEF Takers
  <2>3. PICK m \in Askers(p[1]) : p[2] \in Ticket(p[1], m)
    BY <1>6, <2>1, <2>2
  <2>4. m \in Member /\ p[1] \in topics[m]
    BY DEF Askers, Members
  <2> QED  BY <1>5, <2>1, <2>3, <2>4
<1> QED  BY <1>8, <1>9, <1>10, <1>11 DEF Right, Fits

\* Range and roundrobin leave each partition with one member, and do not raise.
LEMMA AssignByOrderInv ==
  ASSUME ~Gap, IInv, AssignByOrder
  PROVE  IInv'
<1>1. PICK o \in Arrivals :
        /\ Grouped(o) /\ (strategy = "roundrobin" => ~Skips(o))
        /\ IF strategy = "range" THEN Give(ByRange(o))
           ELSE IF Skips(o) THEN Raise ELSE Give(ByTurns(o))
  BY DEF AssignByOrder
<1>2. Shape /\ strategy \in {"range", "roundrobin"}
  BY BoundAssumption DEF IInv, Shape, AssignByOrder
<1>3. /\ UNCHANGED <<strategy, topics, counts, claims, reported>> /\ Members # {}
      /\ generation \in Nat
  BY <1>2 DEF AssignByOrder, Shape
<1>4. \/ Give(ByRange(o))
      \/ ~Skips(o) /\ Give(ByTurns(o))
  BY <1>1, <1>2
<1>5. Right(assignment') /\ phase' = "given" /\ generation' = generation + 1
  BY <1>1, <1>2, <1>3, <1>4, RangesRight, TurnsRight DEF Give
<1>6. assignment' \in [Member -> SUBSET Partition] /\ generation' \in Nat
  BY <1>3, <1>5 DEF Right, Fits
<1> QED  BY <1>3, <1>5, <1>6, BalanceStep

-----------------------------------------------------------------------------
(* The theorem                                                             *)

\* Every step keeps the invariant.
LEMMA StepInv ==
  ASSUME ~Gap, IInv, [Next]_vars
  PROVE  IInv'
<1>1. ASSUME NEW m \in Member, Subscribe(m) PROVE IInv'
  BY <1>1, SubscribeInv
<1>2. ASSUME NEW t \in Topic, Resize(t) PROVE IInv'
  BY <1>2, ResizeInv
<1>3. CASE Rejoin
  BY <1>3, RejoinInv
<1>4. CASE Deliver
  BY <1>4, DeliverInv
<1>5. CASE AssignByOrder
  BY <1>5, AssignByOrderInv
<1>6. CASE StartSticky
  BY <1>6, StartStickyInv
<1>7. CASE ListNext
  BY <1>7, ListNextInv
<1>8. CASE Keep
  BY <1>8, KeepInv
<1>9. CASE Place
  BY <1>9, PlaceInv
<1>10. CASE Narrow
  BY <1>10, NarrowInv
<1>11. CASE Consider
  BY <1>11, ConsiderInv
<1>12. CASE EndPass
  BY <1>12, EndPassInv
<1>13. CASE UNCHANGED vars
  <2>1. Fixed /\ Shape'
    BY <1>13 DEF vars, group, Fixed, IInv, Shape
  <2>2. UNCHANGED <<phase, work, assignment>>
    BY <1>13 DEF vars
  <2> QED  BY <2>1, <2>2, FixedSorting, FixedPlacing, FixedBalancing, FixedRight DEF IInv
<1> QED
  BY <1>1, <1>2, <1>3, <1>4, <1>5, <1>6, <1>7, <1>8, <1>9, <1>10, <1>11, <1>12, <1>13
  DEF Next, Sticky

LEMMA Invariance == ~Gap => (Spec => []IInv)
<1>1. ~Gap /\ IInv /\ [Next]_vars => IInv'
  BY StepInv
<1>2. CASE ~Gap
  <2>1. IInv /\ [Next]_vars => IInv'
    BY <1>1, <1>2
  <2> QED  BY <2>1, InitInv, PTL DEF Spec
<1> QED  BY <1>2

\* The invariant holds what the property says.
LEMMA OneHolder ==
  ASSUME IInv
  PROVE  EachToOne
<1>1. phase # "raised"
  BY DEF IInv, Shape
<1>2. ASSUME Divided, NEW p \in Partitions
      PROVE  LET holders == {m \in Members : p \in assignment[m]}
             IN  /\ holders \subseteq Takers(p)
                 /\ Cardinality(holders) = IF Takers(p) = {} THEN 0 ELSE 1
  <2> DEFINE holders == {m \in Members : p \in assignment[m]}
  <2>1. Fits(assignment) /\ Covers(assignment)
    BY <1>2 DEF IInv, Divided, Right
  <2>2. Members \subseteq Member /\ \A m \in Member : p \in assignment[m] => m \in Members
    BY <2>1 DEF Fits, Members, Takers
  <2>3. holders \subseteq Takers(p)
    BY <2>1, <2>2 DEF Fits
  <2>4. CASE Takers(p) = {}
    <3>1. holders = {}
      BY <2>3, <2>4
    <3> QED  BY <2>4, <3>1, FS_EmptySet
  <2>5. CASE Takers(p) # {}
    <3>1. PICK m \in Member : p \in assignment[m]
      BY <2>1, <2>5 DEF Covers
    <3>2. holders = {m}
      BY <2>1, <2>2, <3>1 DEF Fits
    <3> QED  BY <2>3, <2>5, <3>2, FS_Singleton
  <2> QED  BY <2>4, <2>5
<1> QED  BY <1>1, <1>2 DEF EachToOne

\* On the inputs that the assignors are made for, whatever the members, the
\* topics, the strategies and the bounds: each partition of a topic that a
\* member asked for goes to exactly one member, one that asked for it
\* (assign() of range.py, roundrobin.py and sticky_assignor.py).
THEOREM EachPartitionToOne == ~Gap => (Spec => []EachToOne)
<1>1. IInv => EachToOne
  BY OneHolder
<1> QED  BY <1>1, Invariance, PTL

-----------------------------------------------------------------------------
(* Fair shares by range and by turns                                       *)

\* Two sets that a function pairs off have one size.
LEMMA SameSize ==
  ASSUME NEW S, NEW T, IsFiniteSet(S), NEW f \in [S -> T],
         \A x, y \in S : f[x] = f[y] => x = y, \A y \in T : \E x \in S : f[x] = y
  PROVE  Cardinality(T) = Cardinality(S)
<1>1. f \in Injection(S, T)
  BY Zenon DEF Injection, IsInjective
<1>2. f \in Surjection(S, T)
  BY DEF Surjection
<1>3. ExistsBijection(S, T)
  BY <1>1, <1>2, Zenon DEF ExistsBijection, Bijection
<1> QED  BY <1>3, FS_Bijection

\* A stretch is each long, or one longer.
LEMMA StretchSize ==
  ASSUME NEW each \in Nat, NEW extra \in Nat, NEW i \in Nat
  PROVE  Cardinality(Stretch(each, extra, i)) \in each .. each + 1
         /\ IsFiniteSet(Stretch(each, extra, i))
<1>1. PICK a \in Nat : a = Start(each, extra, i)
  BY StartNext
<1>2. PICK more \in 0 .. 1 : more = IF i < extra THEN 1 ELSE 0
  OBVIOUS
<1>3. PICK b \in Int : b = a + each + more - 1
  OBVIOUS
<1>4. Stretch(each, extra, i) = a .. b
  BY <1>1, <1>2, <1>3 DEF Stretch
<1>5. IsFiniteSet(a .. b) /\ Cardinality(a .. b) = IF a > b THEN 0 ELSE b - a + 1
  BY FS_Interval
<1>6. Cardinality(a .. b) = each + more
  BY <1>3, <1>5
<1> QED  BY <1>2, <1>4, <1>5, <1>6

\* Of a topic each subscriber gets as much as any other one, or one more.
LEMMA RangesFair ==
  ASSUME Shape, NEW o \in Arrivals, Grouped(o), NEW t \in Topic
  PROVE  Even([m \in Member |-> ByRange(o)[m] \cap Of(t)], Askers(t))
<1>1. Askers(t) \subseteq Member /\ \A m \in Askers(t) : t \in topics[m]
  BY DEF Askers, Members
<1>2. ASSUME NEW m \in Askers(t)
      PROVE  ByRange(o)[m] \cap Of(t) = {<<t, n>> : n \in Ticket(t, m)}
  <2>1. ByRange(o)[m] = UNION {IF m \in Kept(o, Askers(u)) THEN RangeShare(o, u, m) ELSE {}
                               : u \in topics[m]}
    BY <1>1 DEF ByRange
  <2>2. \A u \in topics[m] : u \in Topic /\ m \in Askers(u)
    BY <1>1 DEF Shape, Askers, Members
  <2>3. \A u \in topics[m] : Kept(o, Askers(u)) = Askers(u)
    BY KeptAll DEF Askers
  <2>4. \A u \in topics[m] : RangeShare(o, u, m) = {<<u, n>> : n \in Ticket(u, m)}
    BY <2>2, ShareIs
  <2>5. \A p : p \in ByRange(o)[m] <=> \E u \in topics[m] : \E n \in Ticket(u, m) : p = <<u, n>>
    BY <2>1, <2>2, <2>3, <2>4
  <2>6. Ticket(t, m) \subseteq 0 .. counts[t] - 1
    BY Tickets
  <2> QED  BY <1>1, <2>5, <2>6 DEF Of
<1>3. PICK each \in Nat :
        \A m \in Askers(t) : Cardinality(ByRange(o)[m] \cap Of(t)) \in each .. each + 1
  <2>1. CASE Askers(t) = {}
    BY <2>1
  <2>2. CASE Askers(t) # {}
    <3>1. PICK k \in Nat \ {0} : k = Cardinality(Askers(t))
      BY <2>2, AskersRank
    <3>2. counts[t] \in Nat
      BY BoundAssumption DEF Shape
    <3>3. PICK each \in Nat, extra \in Nat : each = counts[t] \div k /\ extra = counts[t] % k
      BY <3>1, <3>2
    <3>4. ASSUME NEW m \in Askers(t)
          PROVE  Cardinality(ByRange(o)[m] \cap Of(t)) \in each .. each + 1
      <4>1. PICK i \in Nat : i = Rank(m, Askers(t), Ahead)
        BY AskersRank
      <4>2. Ticket(t, m) = Stretch(each, extra, i)
        BY <3>1, <3>3, <4>1 DEF Ticket
      <4>3. IsFiniteSet(Ticket(t, m)) /\ Cardinality(Ticket(t, m)) \in each .. each + 1
        BY ONLY <4>2, StretchSize, each \in Nat, extra \in Nat, i \in Nat
      <4> DEFINE f == [n \in Ticket(t, m) |-> <<t, n>>]
                 T == {<<t, n>> : n \in Ticket(t, m)}
      <4>4. /\ f \in [Ticket(t, m) -> T] /\ \A x, y \in Ticket(t, m) : f[x] = f[y] => x = y
            /\ \A y \in T : \E x \in Ticket(t, m) : f[x] = y
        OBVIOUS
      <4> HIDE DEF f, T
      <4>5. Cardinality(T) = Cardinality(Ticket(t, m))
        BY <4>3, <4>4, SameSize
      <4> QED  BY <1>2, <4>3, <4>5 DEF T
    <3> QED  BY <3>4
  <2> QED  BY <2>1, <2>2
<1>4. \A m, n \in Askers(t) :
        Cardinality(ByRange(o)[m] \cap Of(t)) <= Cardinality(ByRange(o)[n] \cap Of(t)) + 1
  BY <1>3
<1> QED  BY <1>1, <1>4 DEF Even

\* What a number is composed of by the size of a round and the place in it.
LEMMA DivUnique ==
  ASSUME NEW k \in Nat \ {0}, NEW j \in Nat, NEW r \in 0 .. k - 1, NEW x \in Nat,
         x = j * k + r
  PROVE  x % k = r /\ x \div k = j
<1>1. x = (x \div k) * k + (x % k) /\ x % k \in 0 .. k - 1 /\ x \div k \in Nat
  OBVIOUS
<1>2. PICK q \in Nat, s \in 0 .. k - 1 : q = x \div k /\ s = x % k
  BY <1>1
<1>3. j * k + r = q * k + s
  BY <1>1, <1>2
<1>4. CASE j < q
  <2>1. (j + 1) * k <= q * k /\ (j + 1) * k = j * k + k /\ j * k \in Nat /\ q * k \in Nat
    BY ONLY k \in Nat, j \in Nat, q \in Nat, <1>4
  <2> QED  BY ONLY k \in Nat, <2>1, <1>3, r \in 0 .. k - 1, s \in 0 .. k - 1
<1>5. CASE q < j
  <2>1. (q + 1) * k <= j * k /\ (q + 1) * k = q * k + k /\ j * k \in Nat /\ q * k \in Nat
    BY ONLY k \in Nat, j \in Nat, q \in Nat, <1>5
  <2> QED  BY ONLY k \in Nat, <2>1, <1>3, r \in 0 .. k - 1, s \in 0 .. k - 1
<1>6. CASE q = j
  <2>1. s = r
    BY ONLY k \in Nat, j \in Nat, <1>3, <1>6, r \in 0 .. k - 1, s \in 0 .. k - 1
  <2> QED  BY ONLY <1>2, <1>6, <2>1
<1> QED  BY <1>4, <1>5, <1>6

\* How often the place r comes in n turns with rounds of k.
Rounds(n, k, r) == 0 .. ((n \div k) + (IF r < n % k THEN 1 ELSE 0) - 1)

\* A place comes n \div k times, or once more,
LEMMA RoundsSize ==
  ASSUME NEW n \in Nat, NEW k \in Nat \ {0}, NEW r \in 0 .. k - 1
  PROVE  Cardinality(Rounds(n, k, r)) \in n \div k .. (n \div k) + 1
<1>1. PICK q \in Nat : q = n \div k
  OBVIOUS
<1>2. PICK more \in 0 .. 1 : more = IF r < n % k THEN 1 ELSE 0
  OBVIOUS
<1>3. PICK b \in Int : b = q + more - 1
  OBVIOUS
<1>4. Cardinality(0 .. b) = IF 0 > b THEN 0 ELSE b - 0 + 1
  BY FS_Interval
<1>5. Cardinality(0 .. b) \in q .. q + 1
  BY ONLY <1>3, <1>4, q \in Nat, more \in 0 .. 1
<1>6. Rounds(n, k, r) = 0 .. b
  BY <1>1, <1>2, <1>3 DEF Rounds
<1> QED  BY <1>1, <1>5, <1>6

\* ... in the rounds in which it is below n.
LEMMA RoundsAre ==
  ASSUME NEW n \in Nat, NEW k \in Nat \ {0}, NEW r \in 0 .. k - 1, NEW j \in Nat
  PROVE  j \in Rounds(n, k, r) <=> j * k + r < n
<1>1. PICK q \in Nat, e \in 0 .. k - 1 : q = n \div k /\ e = n % k /\ n = q * k + e
  OBVIOUS
<1>2. j \in Rounds(n, k, r) <=> IF r < e THEN j <= q ELSE j < q
  BY <1>1 DEF Rounds
<1>3. j * k \in Nat /\ q * k \in Nat
  OBVIOUS
<1>4. CASE j < q
  <2>1. (j + 1) * k <= q * k /\ (j + 1) * k = j * k + k
    BY ONLY k \in Nat, j \in Nat, q \in Nat, <1>4
  <2>2. j * k + r < n
    BY ONLY <1>1, <1>3, <2>1, k \in Nat, r \in 0 .. k - 1, e \in 0 .. k - 1, q \in Nat
  <2> QED  BY ONLY <1>2, <1>4, <2>2, j \in Nat, q \in Nat
<1>5. CASE q < j
  <2>1. (q + 1) * k <= j * k /\ (q + 1) * k = q * k + k
    BY ONLY k \in Nat, j \in Nat, q \in Nat, <1>5
  <2>2. ~(j * k + r < n)
    BY ONLY <1>1, <1>3, <2>1, k \in Nat, r \in 0 .. k - 1, e \in 0 .. k - 1, q \in Nat
  <2> QED  BY ONLY <1>2, <1>5, <2>2, j \in Nat, q \in Nat
<1>6. CASE q = j
  <2>1. j * k + r < n <=> r < e
    BY ONLY <1>1, <1>3, <1>6, r \in 0 .. k - 1, e \in 0 .. k - 1, k \in Nat
  <2> QED  BY ONLY <1>2, <1>6, <2>1, j \in Nat, q \in Nat
<1> QED  BY <1>4, <1>5, <1>6

\* By turns each member gets as much as any other one, or one more.
LEMMA TurnsFair ==
  ASSUME NEW o \in Arrivals, Grouped(o), Members # {}
  PROVE  Even(ByTurns(o), Members)
<1>1. IsFiniteSet(Members) /\ Cardinality(Members) \in Nat /\ Members \subseteq Member
  BY MembersSize DEF Members
<1>2. PICK k \in Nat \ {0} : k = Cardinality(Members)
  BY <1>1, FS_EmptySet
<1>3. Asked \in SUBSET Partition /\ IsFiniteSet(Asked)
  BY PartitionsSize DEF Asked, Partitions
<1>4. PICK n \in Nat : n = Cardinality(Asked)
  BY <1>3, FS_CardinalityType
<1> DEFINE rank == [p \in Asked |-> Rank(p, Asked, Before)]
           place == [m \in Members |-> Rank(m, Members, Ahead)]
<1>5. /\ rank \in [Asked -> 0 .. n - 1]
      /\ \A p, q \in Asked : rank[p] = rank[q] => p = q
      /\ \A i \in 0 .. n - 1 : \E p \in Asked : rank[p] = i
  <2> DEFINE below == [x \in Asked |-> {y \in Asked : Before(y, x)}]
  <2>1. Ordered(Asked, below)
    BY <1>3, BeforeOrders
  <2>2. \A p \in Asked : rank[p] = Cardinality(below[p])
    BY DEF Rank
  <2>3. rank = [p \in Asked |-> rank[p]]
    OBVIOUS
  <2> HIDE DEF below, rank
  <2>4. \A p \in Asked : rank[p] \in 0 .. n - 1
    BY <1>4, <2>1, <2>2, RankType
  <2>5. ASSUME NEW p \in Asked, NEW q \in Asked, rank[p] = rank[q] PROVE p = q
    <3>1. Cardinality(below[p]) = Cardinality(below[q])
      BY <2>2, <2>5
    <3> QED  BY <2>1, <3>1, RankIsOne
  <2>6. ASSUME NEW i \in 0 .. n - 1 PROVE \E p \in Asked : rank[p] = i
    <3>1. PICK p \in Asked : Cardinality(below[p]) = i
      BY <1>4, <2>1, RankOnto
    <3> QED  BY <2>2, <3>1
  <2>7. rank \in [Asked -> 0 .. n - 1]
    BY <2>3, <2>4
  <2> QED  BY <2>5, <2>6, <2>7
<1>6. /\ place \in [Members -> 0 .. k - 1]
      /\ \A p, q \in Members : place[p] = place[q] => p = q
      /\ \A i \in 0 .. k - 1 : \E p \in Members : place[p] = i
  <2> DEFINE below == [x \in Members |-> {y \in Members : Ahead(y, x)}]
  <2>1. Ordered(Members, below)
    BY <1>1, AheadOrders
  <2>2. \A p \in Members : place[p] = Cardinality(below[p])
    BY DEF Rank
  <2>3. place = [p \in Members |-> place[p]]
    OBVIOUS
  <2> HIDE DEF below, place
  <2>4. \A p \in Members : place[p] \in 0 .. k - 1
    BY <1>2, <2>1, <2>2, RankType
  <2>5. ASSUME NEW p \in Members, NEW q \in Members, place[p] = place[q] PROVE p = q
    <3>1. Cardinality(below[p]) = Cardinality(below[q])
      BY <2>2, <2>5
    <3> QED  BY <2>1, <3>1, RankIsOne
  <2>6. ASSUME NEW i \in 0 .. k - 1 PROVE \E p \in Members : place[p] = i
    <3>1. PICK p \in Members : Cardinality(below[p]) = i
      BY <1>2, <2>1, RankOnto
    <3> QED  BY <2>2, <3>1
  <2>7. place \in [Members -> 0 .. k - 1]
    BY <2>3, <2>4
  <2> QED  BY <2>5, <2>6, <2>7
<1>7. \A p \in Asked : Turn(o, p) = CHOOSE m \in Members : place[m] = rank[p] % k
  <2>1. Kept(o, Members) = Members
    BY KeptAll
  <2>2. \A p \in Asked : Turn(o, p) = CHOOSE m \in Members : Rank(m, Members, Ahead) = rank[p] % k
    BY <1>2, <2>1 DEF Turn
  <2>3. \A m \in Members : place[m] = Rank(m, Members, Ahead)
    OBVIOUS
  <2>4. \A p \in Asked : (CHOOSE m \in Members : Rank(m, Members, Ahead) = rank[p] % k)
                           = CHOOSE m \in Members : place[m] = rank[p] % k
    BY <2>3
  <2> QED  BY <2>2, <2>4
<1> HIDE DEF rank, place
<1>8. \A p \in Asked : \A m \in Members : Turn(o, p) = m <=> place[m] = rank[p] % k
  <2> SUFFICES ASSUME NEW p \in Asked, NEW m \in Members
               PROVE  Turn(o, p) = m <=> place[m] = rank[p] % k
    OBVIOUS
  <2>1. rank[p] % k \in 0 .. k - 1
    BY <1>5
  <2>2. PICK t \in Members : place[t] = rank[p] % k
    BY <1>6, <2>1
  <2>3. Turn(o, p) \in Members /\ place[Turn(o, p)] = rank[p] % k
    BY <1>7, <2>2, Zenon
  <2> QED  BY <1>6, <2>3
<1>9. ASSUME NEW m \in Members
      PROVE  Cardinality(ByTurns(o)[m]) \in n \div k .. (n \div k) + 1
  <2> DEFINE S == {p \in Asked : Turn(o, p) = m}
             T == Rounds(n, k, place[m])
             f == [p \in S |-> rank[p] \div k]
  <2>1. PICK r \in 0 .. k - 1 : r = place[m]
    BY <1>6
  <2>2. \A p \in S : /\ rank[p] \in 0 .. n - 1 /\ rank[p] \div k \in Nat
                     /\ rank[p] = (rank[p] \div k) * k + r
    <3> SUFFICES ASSUME NEW p \in S
                 PROVE  /\ rank[p] \in 0 .. n - 1 /\ rank[p] \div k \in Nat
                        /\ rank[p] = (rank[p] \div k) * k + r
      OBVIOUS
    <3>1. PICK x \in 0 .. n - 1 : x = rank[p]
      BY <1>5
    <3>2. x % k = r
      BY <1>8, <2>1, <3>1
    <3>3. x = (x \div k) * k + (x % k) /\ x \div k \in Nat
      OBVIOUS
    <3> QED  BY <3>1, <3>2, <3>3
  <2>3. f \in [S -> T]
    <3> SUFFICES ASSUME NEW p \in S PROVE rank[p] \div k \in T
      OBVIOUS
    <3>1. PICK x \in 0 .. n - 1, j \in Nat : x = rank[p] /\ j = rank[p] \div k /\ x = j * k + r
      BY <2>2
    <3>2. j * k + r < n
      BY <3>1
    <3>3. j \in Rounds(n, k, r)
      BY <3>2, RoundsAre
    <3> QED  BY <2>1, <3>1, <3>3
  <2>4. \A p, q \in S : f[p] = f[q] => p = q
    <3> SUFFICES ASSUME NEW p \in S, NEW q \in S, f[p] = f[q] PROVE p = q
      OBVIOUS
    <3>1. rank[p] \div k = rank[q] \div k
      OBVIOUS
    <3>2. rank[p] = rank[q]
      BY <2>2, <3>1
    <3> QED  BY <1>5, <3>2
  <2>5. \A j \in T : \E p \in S : f[p] = j
    <3> SUFFICES ASSUME NEW j \in T PROVE \E p \in S : rank[p] \div k = j
      OBVIOUS
    <3>1. j \in Nat /\ j \in Rounds(n, k, r)
      BY <2>1 DEF Rounds
    <3>2. j * k + r < n /\ j * k + r \in Nat
      BY <3>1, RoundsAre
    <3>3. PICK x \in 0 .. n - 1 : x = j * k + r
      BY <3>2
    <3>4. PICK p \in Asked : rank[p] = x
      BY <1>5
    <3>5. x % k = r /\ x \div k = j
      BY <3>1, <3>3, DivUnique
    <3>6. p \in S
      BY <1>8, <2>1, <3>4, <3>5
    <3> QED  BY <3>4, <3>5, <3>6
  <2>6. IsFiniteSet(S)
    BY <1>3, FS_Subset
  <2> HIDE DEF S, T, f
  <2>7. Cardinality(T) = Cardinality(S)
    BY <2>3, <2>4, <2>5, <2>6, SameSize
  <2>8. Cardinality(T) \in n \div k .. (n \div k) + 1
    BY <2>1, RoundsSize DEF T
  <2>9. ByTurns(o)[m] = S
    BY <1>1 DEF ByTurns, S
  <2> QED  BY <2>7, <2>8, <2>9
<1>10. PICK q \in Nat : q = n \div k
  OBVIOUS
<1>11. \A m \in Members : Cardinality(ByTurns(o)[m]) \in q .. q + 1
  BY <1>9, <1>10
<1> QED  BY <1>11 DEF Even

\* What the two assignors leave stays fair until the group changes.
Sharing ==
  /\ phase \in {"sort", "place", "new", "all"} => strategy = "sticky"
  /\ phase \in {"given", "stable"} =>
       /\ strategy = "range" => \A t \in Topic :
            Even([m \in Member |-> assignment[m] \cap Of(t)], Askers(t))
       /\ strategy = "roundrobin" => Even(assignment, Members)

\* The outcome of range and of roundrobin is fair,
LEMMA SharingByOrder ==
  ASSUME ~Gap, IInv, AssignByOrder
  PROVE  Sharing'
<1>1. PICK o \in Arrivals :
        /\ Grouped(o) /\ (strategy = "roundrobin" => ~Skips(o))
        /\ IF strategy = "range" THEN Give(ByRange(o))
           ELSE IF Skips(o) THEN Raise ELSE Give(ByTurns(o))
  BY DEF AssignByOrder
<1>2. /\ Shape /\ strategy \in {"range", "roundrobin"} /\ Members # {}
      /\ UNCHANGED <<strategy, topics, counts>>
  BY BoundAssumption DEF IInv, Shape, AssignByOrder
<1>3. Members' = Members /\ \A t : Askers(t)' = Askers(t) /\ Of(t)' = Of(t)
  BY <1>2 DEF Members, Askers, Of
<1>4. CASE strategy = "range"
  <2>1. phase' = "given" /\ assignment' = ByRange(o)
    BY <1>1, <1>4 DEF Give
  <2>2. \A t \in Topic : Even([m \in Member |-> ByRange(o)[m] \cap Of(t)], Askers(t))
    BY <1>1, <1>2, RangesFair
  <2>3. \A t \in Topic : Even([m \in Member |-> assignment[m] \cap Of(t)], Askers(t))'
    BY <1>3, <2>1, <2>2 DEF Even
  <2> QED  BY <1>2, <1>4, <2>1, <2>3 DEF Sharing
<1>5. CASE strategy = "roundrobin"
  <2>1. phase' = "given" /\ assignment' = ByTurns(o)
    BY <1>1, <1>5 DEF Give
  <2>2. Even(ByTurns(o), Members)
    BY <1>1, <1>2, TurnsFair
  <2>3. Even(assignment, Members)'
    BY <1>3, <2>1, <2>2 DEF Even
  <2> QED  BY <1>2, <1>5, <2>1, <2>3 DEF Sharing
<1> QED  BY <1>2, <1>4, <1>5

\* ... and stays so while it is in use.
LEMMA SharingKept ==
  ASSUME Sharing, UNCHANGED <<strategy, topics, counts, assignment>>,
         phase' = phase \/ (phase = "given" /\ phase' = "stable")
  PROVE  Sharing'
<1>1. Members' = Members /\ \A t : Askers(t)' = Askers(t) /\ Of(t)' = Of(t)
  BY DEF Members, Askers, Of
<1>2. phase' \in {"given", "stable"} => phase \in {"given", "stable"}
  OBVIOUS
<1>3. ASSUME phase \in {"given", "stable"}, strategy = "range", NEW t \in Topic
      PROVE  Even([m \in Member |-> assignment[m] \cap Of(t)], Askers(t))'
  <2>1. Even([m \in Member |-> assignment[m] \cap Of(t)], Askers(t))
    BY <1>3 DEF Sharing
  <2> QED  BY <1>1, <2>1 DEF Even
<1>4. ASSUME phase \in {"given", "stable"}, strategy = "roundrobin"
      PROVE  Even(assignment, Members)'
  <2>1. Even(assignment, Members)
    BY <1>4 DEF Sharing
  <2> QED  BY <1>1, <2>1 DEF Even
<1>5. phase' \in {"sort", "place", "new", "all"} => strategy' = "sticky"
  BY DEF Sharing
<1> QED  BY <1>2, <1>3, <1>4, <1>5 DEF Sharing

LEMMA SharingStep ==
  ASSUME ~Gap, IInv, Sharing, [Next]_vars
  PROVE  Sharing'
<1>1. CASE (\E m \in Member : Subscribe(m)) \/ (\E t \in Topic : Resize(t)) \/ Rejoin
  <2>1. phase' = "joining"
    BY <1>1 DEF Subscribe, Resize, Rejoin
  <2> QED  BY <2>1 DEF Sharing
<1>2. CASE Deliver \/ UNCHANGED vars
  <2>1. /\ UNCHANGED <<strategy, topics, counts, assignment>>
        /\ phase' = phase \/ (phase = "given" /\ phase' = "stable")
    BY <1>2 DEF Deliver, vars, group
  <2> QED  BY <2>1, SharingKept
<1>3. CASE AssignByOrder
  BY <1>3, SharingByOrder
<1>4. CASE Sticky
  <2>1. strategy = "sticky"
    BY <1>4 DEF Sticky, StartSticky, ListNext, Keep, Place, Narrow, Consider, EndPass, Sharing
  <2>2. strategy' = strategy
    BY <1>4 DEF Sticky, StartSticky, ListNext, Keep, Place, Narrow, Consider, EndPass, group
  <2> QED  BY <2>1, <2>2 DEF Sharing
<1> QED  BY <1>1, <1>2, <1>3, <1>4 DEF Next

\* Range and roundrobin share fairly, whatever the members, the topics and the
\* bounds: of each topic the subscribers' parts differ by at most one (assign()
\* of range.py), and by turns the totals do (assign() of roundrobin.py).
THEOREM OrderedSharesFair == ~Gap => (Spec => [](strategy # "sticky" => FairShares))
<1>1. Init => Sharing
  BY DEF Init, Sharing
<1>2. IInv /\ Sharing => (strategy # "sticky" => FairShares)
  BY DEF FairShares, Sharing, Divided, Askers, Members
<1>3. ~Gap /\ IInv /\ Sharing /\ [Next]_vars => Sharing'
  BY SharingStep
<1>4. CASE ~Gap
  <2>1. IInv /\ Sharing /\ [Next]_vars => Sharing'
    BY <1>3, <1>4
  <2> QED  BY <1>1, <1>2, <1>4, <2>1, Invariance, PTL DEF Spec
<1> QED  BY <1>4
=============================================================================
