---------------------------- MODULE MCProducer ----------------------------
(* Instances of Producer for model checking. *)
EXTENDS Producer

(* A producer without options whose owner lets it run. *)
Plain ==
  [batchSize |-> 0, dedup |-> FALSE, claimCheck |-> FALSE, sinkFaults |-> {},
   storeFaults |-> FALSE, expires |-> FALSE, cancels |-> FALSE,
   stops |-> FALSE, maxCalls |-> 2]

Faulty == {"refused", "unanswered"}

(* Batching with a failing sink, a Stop and a cancelled context. *)
Batching ==
  [Plain EXCEPT !.batchSize = 2, !.sinkFaults = Faulty, !.cancels = TRUE,
                !.stops = TRUE]

(* Batching that nothing disturbs. *)
Quiet == [Plain EXCEPT !.batchSize = 2, !.dedup = TRUE, !.maxCalls = 3]

(* Batching and deduplication, everything failing now and then. *)
Filtering ==
  [Plain EXCEPT !.batchSize = 2, !.dedup = TRUE, !.sinkFaults = Faulty,
                !.storeFaults = TRUE, !.expires = TRUE]

(* No batching; deduplication and claim checks against a failing sink, and *)
(* against failing stores as well. *)
Direct ==
  [Plain EXCEPT !.dedup = TRUE, !.claimCheck = TRUE, !.sinkFaults = Faulty,
                !.stops = TRUE]

DirectFailing == [Direct EXCEPT !.storeFaults = TRUE, !.stops = FALSE]

AllSetups  == {Batching, Quiet, Filtering, Direct, DirectFailing}
StopSetups == {[Plain EXCEPT !.batchSize = 2, !.stops = TRUE]}
===========================================================================
