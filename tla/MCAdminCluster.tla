--------------------------- MODULE MCAdminCluster ---------------------------
(* Instances of AdminCluster for model checking: four partitions, the      *)
(* namespaces in the last one.  The proxy ids are numbers, so only the     *)
(* nodes are symmetric.                                                    *)
EXTENDS AdminCluster, TLC

MCOneProxy == 1 .. 1
MCTwoProxies == 1 .. 2
MCPartitionOf == [x \in Namespaces |-> 3]
MCNodeSymmetry == Permutations(Nodes)
=============================================================================
