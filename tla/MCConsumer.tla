---------------------------- MODULE MCConsumer ----------------------------
(* Instances of Consumer for model checking. *)
EXTENDS Consumer

(* A consumer that runs undisturbed while its work fails now and then. *)
Working ==
  [autoCommit |-> TRUE, deleteAfterRead |-> TRUE,
   faults |-> {"processor", "objects", "dlq"},
   stops |-> FALSE, starts |-> 1, crashes |-> 0]

AllFaults == {"processor", "store", "objects", "dlq", "subscribe"}

Crashing == [Working EXCEPT !.faults = AllFaults, !.starts = 3, !.crashes = 2]
Stopping == [Working EXCEPT !.faults = AllFaults, !.stops = TRUE]

(* Without auto-commit and without the deletion of claims. *)
Manual ==
  [Working EXCEPT !.autoCommit = FALSE, !.deleteAfterRead = FALSE,
                  !.starts = 2, !.crashes = 1]

AllSetups     == {Working, Crashing, Stopping, Manual}
RestartSetups == {[Working EXCEPT !.faults = {"processor"}, !.stops = TRUE,
                                  !.starts = 2]}
===========================================================================
