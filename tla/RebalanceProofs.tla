-------------------------- MODULE RebalanceProofs ---------------------------
(***************************************************************************)
(* Proofs about the ranges of Partitions and about Rebalance, for every    *)
(* number of partitions and every finite set of proxy ids.                 *)
(***************************************************************************)
EXTENDS Rebalance, FiniteSetTheorems, TLAPS

(* Integer division of the partitions among n proxies.                     *)
LEMMA RangeSizeFacts ==
  ASSUME NEW n \in Nat \ {0}
  PROVE  /\ RangeSize(n) \in Nat
         /\ RangeSize(n) * n <= PartitionCount
         /\ PartitionCount < RangeSize(n) * n + n
         /\ n <= PartitionCount => RangeSize(n) >= 1
  BY PartitionCountAssumption DEF RangeSize

(* The range before the last one ends where the last one starts.           *)
LEMMA StartsIncrease ==
  ASSUME NEW n \in Nat \ {0}, NEW i \in 0 .. n - 1, NEW j \in 0 .. n - 1,
         i < j
  PROVE  i * RangeSize(n) + RangeSize(n) <= j * RangeSize(n)
  <1> DEFINE r == RangeSize(n)
  <1>1. r \in Nat
    BY RangeSizeFacts
  <1>2. (i + 1) * r <= j * r
    BY <1>1
  <1>3. (i + 1) * r = i * r + r
    BY <1>1
  <1> QED
    BY <1>1, <1>2, <1>3

(* No partition lies in the ranges of two positions.                       *)
LEMMA RangesDisjoint ==
  ASSUME NEW n \in Nat \ {0}, NEW i \in 0 .. n - 1, NEW j \in 0 .. n - 1,
         NEW p \in AllPartitions,
         Within(p, RangeOf(i, n)), Within(p, RangeOf(j, n))
  PROVE  i = j
  <1> DEFINE r == RangeSize(n)
  <1>1. r \in Nat
    BY RangeSizeFacts
  <1>2. ASSUME NEW a \in 0 .. n - 1, NEW b \in 0 .. n - 1, a < b,
               Within(p, RangeOf(a, n)), Within(p, RangeOf(b, n))
        PROVE  FALSE
    <2>1. a * r \in Nat /\ b * r \in Nat
      BY <1>1
    <2>2. a * r + r <= b * r
      BY <1>2, StartsIncrease
    <2>3. p <= a * r + r - 1 /\ b * r <= p
      BY <1>2 DEF Within, RangeOf
    <2> HIDE DEF r
    <2> QED
      BY <1>1, <2>1, <2>2, <2>3 DEF AllPartitions
  <1> QED
    BY <1>2

(* The looked-up position is a position, and its range holds the partition.*)
LEMMA OwnerInRange ==
  ASSUME NEW n \in 1 .. PartitionCount, NEW p \in AllPartitions
  PROVE  /\ OwnerIndex(p, n) \in 0 .. n - 1
         /\ Within(p, RangeOf(OwnerIndex(p, n), n))
  <1> DEFINE r == RangeSize(n)
             k == p \div r
  <1>1. r \in Nat /\ r >= 1
    BY RangeSizeFacts, PartitionCountAssumption
  <1> HIDE DEF r
  <1>2. k \in Nat /\ k * r <= p /\ p < k * r + r
    BY <1>1, PartitionCountAssumption DEF AllPartitions
  <1>3. OwnerIndex(p, n) = IF k >= n THEN n - 1 ELSE k
    BY DEF OwnerIndex, r
  <1>4. CASE k >= n
    <2>1. (n - 1) * r <= k * r
      BY <1>1, <1>2, <1>4
    <2>2. (n - 1) * r <= p
      BY <1>1, <1>2, <2>1, PartitionCountAssumption DEF AllPartitions
    <2> QED
      BY <1>3, <1>4, <2>2, PartitionCountAssumption
      DEF Within, RangeOf, AllPartitions, r
  <1>5. CASE ~(k >= n)
    <2>1. k \in 0 .. n - 1 /\ OwnerIndex(p, n) = k
      BY <1>2, <1>3, <1>5, PartitionCountAssumption
    <2>2. k * r <= p /\ p <= k * r + r - 1 /\ p <= PartitionCount - 1
      BY <1>1, <1>2, PartitionCountAssumption DEF AllPartitions
    <2> HIDE DEF k
    <2> QED
      BY <2>1, <2>2 DEF Within, RangeOf, r
  <1> QED
    BY <1>4, <1>5

(* Every partition lies in the range of some position.                     *)
LEMMA RangesCover ==
  ASSUME NEW n \in Nat \ {0}, NEW p \in AllPartitions
  PROVE  \E i \in 0 .. n - 1 : Within(p, RangeOf(i, n))
  <1>1. CASE n <= PartitionCount
    BY <1>1, OwnerInRange
  <1>2. CASE ~(n <= PartitionCount)
    <2>1. RangeSize(n) = 0
      <3>1. RangeSize(n) \in Nat /\ RangeSize(n) * n <= PartitionCount
        BY RangeSizeFacts
      <3>2. RangeSize(n) >= 1 => RangeSize(n) * n >= n
        BY <3>1
      <3> QED
        BY <1>2, <3>1, <3>2, PartitionCountAssumption
    <2>2. Within(p, RangeOf(n - 1, n))
      BY <2>1, PartitionCountAssumption DEF Within, RangeOf, AllPartitions
    <2> QED
      BY <2>2
  <1> QED
    BY <1>1, <1>2

-----------------------------------------------------------------------------
(* The members of a finite set of ids occupy the positions 0 .. n-1, each  *)
(* once: what sort.Strings does to a slice of distinct ids.                *)
LEMMA RankBijective ==
  ASSUME NEW S, S \subseteq Nat, IsFiniteSet(S)
  PROVE  /\ IsFiniteSet(S) /\ Cardinality(S) \in Nat
         /\ S # {} => Cardinality(S) \in Nat \ {0}
         /\ \A a \in S : Rank(a, S) \in 0 .. Cardinality(S) - 1
         /\ \A a, b \in S : Rank(a, S) = Rank(b, S) => a = b
         /\ \A i \in 0 .. Cardinality(S) - 1 : \E a \in S : Rank(a, S) = i
  <1> DEFINE n == Cardinality(S)
             Below(a) == {q \in S : q < a}
             T == 0 .. n - 1
  <1>1. S \subseteq Nat /\ IsFiniteSet(S) /\ n \in Nat
    BY FS_CardinalityType
  <1>2. S # {} => n # 0
    BY <1>1, FS_EmptySet
  <1>3. ASSUME NEW a \in S
        PROVE  /\ Rank(a, S) \in T
               /\ IsFiniteSet(Below(a)) /\ Cardinality(Below(a)) \in Nat
    <2>1. Below(a) \in SUBSET S /\ Below(a) # S
      BY <1>1
    <2>2. /\ IsFiniteSet(Below(a)) /\ Cardinality(Below(a)) <= n
          /\ Cardinality(Below(a)) # n
      BY <1>1, <2>1, FS_Subset
    <2>3. Cardinality(Below(a)) \in Nat
      BY <2>2, FS_CardinalityType
    <2>4. Rank(a, S) = Cardinality(Below(a))
      BY DEF Rank
    <2> HIDE DEF n, Below
    <2> QED
      BY <1>1, <2>2, <2>3, <2>4
  <1>4. ASSUME NEW a \in S, NEW b \in S, a < b
        PROVE  Rank(a, S) < Rank(b, S)
    <2>1. Below(a) \in SUBSET Below(b) /\ Below(a) # Below(b)
      <3>1. a \in Below(b) /\ a \notin Below(a)
        BY <1>1, <1>4
      <3>2. \A q \in Below(a) : q \in Below(b)
        BY <1>1, <1>4
      <3> QED
        BY <3>1, <3>2, ZenonT(60)
    <2>2. /\ Cardinality(Below(a)) <= Cardinality(Below(b))
          /\ Cardinality(Below(a)) # Cardinality(Below(b))
      BY <1>3, <2>1, FS_Subset, ZenonT(60)
    <2>3. /\ Rank(a, S) = Cardinality(Below(a))
          /\ Rank(b, S) = Cardinality(Below(b))
      BY DEF Rank
    <2>4. Cardinality(Below(a)) \in Nat /\ Cardinality(Below(b)) \in Nat
      BY <1>3, ZenonT(60)
    <2> HIDE DEF Below
    <2> QED
      BY <2>2, <2>3, <2>4
  <1>5. \A a, b \in S : Rank(a, S) = Rank(b, S) => a = b
    <2> SUFFICES ASSUME NEW a \in S, NEW b \in S, a # b
                 PROVE  Rank(a, S) # Rank(b, S)
      OBVIOUS
    <2>1. a < b \/ b < a
      BY <1>1
    <2>2. Rank(a, S) \in T /\ Rank(b, S) \in T
      BY <1>3, ZenonT(60)
    <2> QED
      BY <1>1, <1>4, <2>1, <2>2
  <1>6. \A i \in T : \E a \in S : Rank(a, S) = i
    <2> DEFINE f == [a \in S |-> Rank(a, S)]
    <2>1. f \in Injection(S, T)
      BY <1>3, <1>5, ZenonT(60) DEF Injection, IsInjective
    <2>2. IsFiniteSet(T) /\ Cardinality(T) = n
      <3>1. /\ IsFiniteSet(T)
            /\ Cardinality(T) = IF 0 > n - 1 THEN 0 ELSE (n - 1) - 0 + 1
        <4>1. 0 \in Int /\ n - 1 \in Int
          BY <1>1
        <4> QED BY <4>1, FS_Interval, ZenonT(60)
      <3> HIDE DEF n
      <3> QED
        BY <1>1, <3>1
    <2>3. f \in Surjection(S, T)
      BY <2>1, <2>2, FS_Injection
    <2> QED
      BY <2>3, ZenonT(60) DEF Surjection
  <1> QED
    BY <1>1, <1>2, <1>3, <1>5, <1>6, ZenonT(60)

-----------------------------------------------------------------------------
(* Whichever of the ids are registered, they occupy the positions 0 .. n-1,*)
(* each once.                                                              *)
LEMMA MembersRanked ==
  ASSUME NEW S \in SUBSET Ids
  PROVE  /\ IsFiniteSet(S) /\ Cardinality(S) \in Nat
         /\ S # {} => Cardinality(S) \in Nat \ {0}
         /\ \A a \in S : Rank(a, S) \in 0 .. Cardinality(S) - 1
         /\ \A a, b \in S : Rank(a, S) = Rank(b, S) => a = b
         /\ \A i \in 0 .. Cardinality(S) - 1 : \E a \in S : Rank(a, S) = i
  <1>1. S \subseteq Nat /\ IsFiniteSet(S)
    BY IdsAssumption, FS_Subset, ZenonT(60)
  <1> QED
    BY <1>1, RankBijective, ZenonT(60)

(* The registered proxies are always known ids, and the reported ranges    *)
(* are those of the current set (RebalanceOnProxyJoin and Leave).          *)
THEOREM TypeCorrect == Spec => []TypeOK
  <1>1. Init => TypeOK
    BY DEF Init, TypeOK
  <1>2. TypeOK /\ [Next]_vars => TypeOK'
    <2> SUFFICES ASSUME TypeOK, [Next]_vars
                 PROVE  TypeOK'
      OBVIOUS
    <2>1. ASSUME NEW id \in Ids, RebalanceOnProxyJoin(id)
          PROVE  TypeOK'
      BY <2>1 DEF TypeOK, RebalanceOnProxyJoin
    <2>2. ASSUME NEW id \in Ids, RebalanceOnProxyLeave(id)
          PROVE  TypeOK'
      BY <2>2 DEF TypeOK, RebalanceOnProxyLeave
    <2>3. CASE UNCHANGED vars
      BY <2>3 DEF TypeOK, vars
    <2> QED
      BY <2>1, <2>2, <2>3 DEF Next
  <1> QED
    BY <1>1, <1>2, PTL DEF Spec

(* For every number of partitions and every set of proxies, however it     *)
(* came about, the ranges of ComputeAllRanges cover each partition exactly *)
(* once and stay inside 0 .. PartitionCount-1.                             *)
THEOREM CoverageHolds == Spec => []Coverage
  <1>1. TypeOK => Coverage
    <2> SUFFICES ASSUME TypeOK, members # {}
                 PROVE  ValidatePartitionCoverage(members)
      BY DEF Coverage
    <2> DEFINE n == Cardinality(members)
               ranges == ComputeAllRanges(members)
    <2>1. n \in Nat \ {0}
      BY MembersRanked DEF TypeOK
    <2>2. \A id \in members : /\ Rank(id, members) \in 0 .. n - 1
                              /\ ranges[id] = RangeOf(Rank(id, members), n)
      BY MembersRanked DEF TypeOK, ComputeAllRanges
    <2>3. ASSUME NEW p \in AllPartitions
          PROVE  \E id \in members : Within(p, ranges[id])
      <3>1. PICK i \in 0 .. n - 1 : Within(p, RangeOf(i, n))
        BY <2>1, RangesCover
      <3>2. PICK id \in members : Rank(id, members) = i
        BY MembersRanked DEF TypeOK
      <3> QED
        BY <2>2, <3>1, <3>2
    <2>4. ASSUME NEW p \in AllPartitions, NEW a \in members, NEW b \in members,
                 Within(p, ranges[a]), Within(p, ranges[b])
          PROVE  a = b
      <3>1. Rank(a, members) = Rank(b, members)
        BY <2>1, <2>2, <2>4, RangesDisjoint
      <3> QED
        BY <3>1, MembersRanked, SMTT(60) DEF TypeOK
    <2>5. ASSUME NEW id \in members
          PROVE  0 <= ranges[id].start /\ ranges[id].end < PartitionCount
      <3> DEFINE i == Rank(id, members)
                 r == RangeSize(n)
      <3>1. i \in 0 .. n - 1 /\ r \in Nat /\ r * n <= PartitionCount
        BY <2>1, <2>2, RangeSizeFacts
      <3>2. i * r \in Nat
        BY <3>1
      <3>3. i < n - 1 => i * r + r <= PartitionCount
        <4>1. (i + 1) * r = i * r + r /\ (i < n - 1 => (i + 1) * r <= n * r)
          BY <2>1, <3>1
        <4>2. n * r = r * n
          BY <2>1, <3>1
        <4> HIDE DEF i, r, n
        <4> QED
          BY <2>1, <3>1, <3>2, <4>1, <4>2, PartitionCountAssumption
      <3>4. /\ ranges[id].start = i * r
            /\ ranges[id].end = IF i = n - 1 THEN PartitionCount - 1
                                            ELSE i * r + r - 1
        <4>1. ranges[id] = [start |-> i * r,
                            end |-> IF i = n - 1 THEN PartitionCount - 1
                                                 ELSE i * r + r - 1]
          BY <2>2 DEF RangeOf
        <4> HIDE DEF ranges, i, r, n
        <4> QED
          BY <4>1
      <3> HIDE DEF i, r, n, ranges
      <3> QED
        BY <2>1, <3>1, <3>2, <3>3, <3>4, PartitionCountAssumption
    <2> QED
      BY <2>3, <2>4, <2>5 DEF ValidatePartitionCoverage
  <1> QED
    BY <1>1, TypeCorrect, PTL

(* With no more proxies than partitions, GetProxyForPartitionFromSet       *)
(* returns exactly the proxy whose range, as ComputeRangesFromProxySet     *)
(* gives it, contains the partition.                                       *)
THEOREM LookupInvertsHolds == Spec => []LookupInverts
  <1>1. TypeOK => LookupInverts
    <2> DEFINE n == Cardinality(members)
    <2> SUFFICES ASSUME TypeOK, n \in 1 .. PartitionCount,
                        NEW p \in AllPartitions
                 PROVE  GetProxyForPartitionFromSet(p, members) =
                          {id \in members :
                             \E r \in ComputeRangesFromProxySet(id, members) :
                               Within(p, r)}
      BY DEF LookupInverts
    <2>1. members # {} /\ n \in Nat \ {0}
      BY FS_EmptySet, MembersRanked, PartitionCountAssumption DEF TypeOK
    <2>2. ~LookupPanics(members)
      BY RangeSizeFacts, <2>1 DEF LookupPanics
    <2>3. /\ OwnerIndex(p, n) \in 0 .. n - 1
          /\ Within(p, RangeOf(OwnerIndex(p, n), n))
      BY OwnerInRange
    <2>4. ASSUME NEW id \in members
          PROVE  Rank(id, members) = OwnerIndex(p, n)
                   <=> Within(p, RangeOf(Rank(id, members), n))
      <3>1. Rank(id, members) \in 0 .. n - 1
        BY MembersRanked DEF TypeOK
      <3> QED
        BY <2>1, <2>3, <3>1, RangesDisjoint
    <2>5. ASSUME NEW id \in members
          PROVE  (\E r \in ComputeRangesFromProxySet(id, members) : Within(p, r))
                   <=> Within(p, RangeOf(Rank(id, members), n))
      BY DEF ComputeRangesFromProxySet
    <2> QED
      BY <2>1, <2>2, <2>4, <2>5 DEF GetProxyForPartitionFromSet
  <1> QED
    BY <1>1, TypeCorrect, PTL

=============================================================================
