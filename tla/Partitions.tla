----------------------------- MODULE Partitions -----------------------------
(***************************************************************************)
(* The partition arithmetic of prism-admin (partition_manager.go): which   *)
(* of the partitions 0 .. PartitionCount-1 each registered proxy serves.   *)
(* Nothing is stored; every answer is computed from the set of proxies.    *)
(*                                                                         *)
(* A proxy id is a natural number.  The code sorts the ids as strings; the *)
(* position of an id in the sorted slice is its Rank here.                 *)
(***************************************************************************)
EXTENDS Integers, FiniteSets

CONSTANT PartitionCount  \* 256 in the code

ASSUME PartitionCountAssumption == PartitionCount \in Nat \ {0}

AllPartitions == 0 .. PartitionCount - 1

(* Positions count from 0 as in the sorted slice.                          *)
Rank(id, members) == Cardinality({q \in members : q < id})

RangeSize(n) == PartitionCount \div n

(* Mutant: the last proxy does not get the remaining partitions.           *)
RangeOfTruncated(i, n) ==
  [start |-> i * RangeSize(n), end |-> (i + 1) * RangeSize(n) - 1]

(* The range of the proxy at position i of n.                              *)
RangeOf(i, n) ==
  [start |-> i * RangeSize(n),
   end   |-> IF i = n - 1 THEN PartitionCount - 1
                          ELSE i * RangeSize(n) + RangeSize(n) - 1]

Within(p, range) == range.start <= p /\ p <= range.end

(* The ranges of one proxy: none when it is not in the set.                *)
ComputeRangesFromProxySet(id, members) ==
  IF id \in members THEN {RangeOf(Rank(id, members), Cardinality(members))}
                    ELSE {}

ComputeAllRanges(members) ==
  [id \in members |-> RangeOf(Rank(id, members), Cardinality(members))]

(* Mutant: the remainder is not clamped to the last proxy.                 *)
OwnerIndexWraps(p, n) == (p \div RangeSize(n)) % n

(* The position of the proxy that owns partition p.  With more proxies     *)
(* than partitions the range size is 0 and the code divides by it; no      *)
(* position is defined then.                                               *)
OwnerIndex(p, n) ==
  LET i == p \div RangeSize(n) IN IF i >= n THEN n - 1 ELSE i

(* Does the lookup divide by zero?                                         *)
LookupPanics(members) == RangeSize(Cardinality(members)) = 0

(* The proxies the lookup returns for p: one, or none when it fails.       *)
GetProxyForPartitionFromSet(p, members) ==
  IF members = {} \/ LookupPanics(members) \/ p \notin AllPartitions
    THEN {}
    ELSE {id \in members :
            Rank(id, members) = OwnerIndex(p, Cardinality(members))}

(* Every partition lies in the range of exactly one proxy.                 *)
ValidatePartitionCoverage(members) ==
  LET ranges == ComputeAllRanges(members)
  IN /\ \A p \in AllPartitions :
          /\ \E id \in members : Within(p, ranges[id])
          /\ \A a, b \in members :
               Within(p, ranges[a]) /\ Within(p, ranges[b]) => a = b
     /\ \A id \in members :
          /\ 0 <= ranges[id].start
          /\ ranges[id].end < PartitionCount

=============================================================================
