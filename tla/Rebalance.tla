----------------------------- MODULE Rebalance ------------------------------
(***************************************************************************)
(* Proxies joining and leaving, and the ranges partition_manager.go        *)
(* computes before and after (RebalanceOnProxyJoin, RebalanceOnProxyLeave).*)
(***************************************************************************)
EXTENDS Partitions

CONSTANT Ids  \* the proxy ids that may register

ASSUME IdsAssumption == Ids \subseteq Nat /\ IsFiniteSet(Ids)

VARIABLES members,   \* the registered proxies
          oldRanges, \* ranges before the last change
          newRanges  \* ranges after it

vars == <<members, oldRanges, newRanges>>

Init ==
  /\ members = {}
  /\ oldRanges = ComputeAllRanges({})
  /\ newRanges = ComputeAllRanges({})

RebalanceOnProxyJoin(id) ==
  /\ id \notin members
  /\ oldRanges' = ComputeAllRanges(members)
  /\ newRanges' = ComputeAllRanges(members \cup {id})
  /\ members' = members \cup {id}

RebalanceOnProxyLeave(id) ==
  /\ id \in members
  /\ oldRanges' = ComputeAllRanges(members)
  /\ newRanges' = ComputeAllRanges(members \ {id})
  /\ members' = members \ {id}

Next == \E id \in Ids : RebalanceOnProxyJoin(id) \/ RebalanceOnProxyLeave(id)

Spec == Init /\ [][Next]_vars

-----------------------------------------------------------------------------
(* The registered proxies are known ids and the reported ranges are those  *)
(* of the current set (RebalanceOnProxyJoin, RebalanceOnProxyLeave).       *)
TypeOK ==
  /\ members \in SUBSET Ids
  /\ newRanges = ComputeAllRanges(members)
  /\ \E before \in SUBSET Ids : oldRanges = ComputeAllRanges(before)

(* However proxies join and leave, as soon as one is registered the ranges *)
(* cover every partition once: no gap, no overlap, nothing outside         *)
(* (ComputeAllRanges, what ValidatePartitionCoverage checks).              *)
Coverage == members # {} => ValidatePartitionCoverage(members)

(* With no more proxies than partitions, the lookup of a partition's owner *)
(* is the inverse of the range computation: it returns exactly the proxy   *)
(* whose range contains the partition (GetProxyForPartitionFromSet against *)
(* ComputeRangesFromProxySet).                                             *)
LookupInverts ==
  Cardinality(members) \in 1 .. PartitionCount =>
    \A p \in AllPartitions :
      GetProxyForPartitionFromSet(p, members) =
        {id \in members :
           \E r \in ComputeRangesFromProxySet(id, members) : Within(p, r)}

=============================================================================
