------------------------------ MODULE MCQueues ------------------------------
(* Instances of Rebalance and Filter, of the work queue and of the         *)
(* operator's reconciler.  In a behaviour one of them runs, part; the      *)
(* others stay as they are at first.  Filter has initial states only.      *)
EXTENDS Rebalance, Filter

CONSTANTS MaxId, Procs, Delays, BaseDelay, MaxDelay, Width, Jitters, MaxFails, MaxTime

VARIABLES
  part,
  items, now, notified, draining, fails, taken,
  conf, spec, status, server, cache, seen, fresh, queued, pc, cur, valid, missed

rebalance == vars
queue     == <<items, now, notified, draining, fails, taken>>
operator  == <<conf, spec, status, server, cache, seen, fresh, queued, pc, cur, valid, missed>>
all       == <<part, meta, rebalance, queue, operator>>

-----------------------------------------------------------------------------
(* Rebalance, for any subset of the ids, and Filter.                       *)
MCIds == 1 .. MaxId

MCStrings == {<<>>, <<1>>, <<1, 2>>, <<2, 1>>}
MCValues ==
  {[type |-> t, val |-> n] : t \in {"int", "int64"}, n \in 1 .. 2}
  \cup {[type |-> "bool", val |-> 1]}
  \cup {[type |-> "string", val |-> s] : s \in {<<>>, <<1, 2>>, <<1, 1, 2>>}}

Q == INSTANCE WorkQueue

-----------------------------------------------------------------------------
(* The operator: changes of the scaler with API errors, to and from KEDA,  *)
(* with a scaler at work, with a restart, with deletions by hand, of labels, *)
(* service and image, without KEDA, and with a trigger that is not valid.  *)

Off  == [auto |-> "off", image |-> 1, labels |-> 1, replicas |-> 1, min |-> 1, service |-> 0,
         triggers |-> TRUE]
Hpa  == [Off EXCEPT !.auto = "hpa"]
Keda == [Off EXCEPT !.auto = "keda"]
Operating == [specs |-> {Off, Keda}, keda |-> TRUE, edits |-> 1, errors |-> 0, crashes |-> 0,
              scales |-> 0, deletes |-> 0]
OperatorSetups ==
  { [Operating EXCEPT !.specs = {Hpa, Keda}, !.errors = 1],
    Operating,
    [Operating EXCEPT !.specs = {Off, Hpa}, !.scales = 1],
    [Operating EXCEPT !.specs = {Hpa, Keda}, !.crashes = 1],
    [Operating EXCEPT !.specs = {Off, Hpa}, !.deletes = 1],
    [Operating EXCEPT !.specs = {[Off EXCEPT !.service = 1], [Off EXCEPT !.image = 2],
                                 [Hpa EXCEPT !.labels = 2, !.service = 2]}],
    [Operating EXCEPT !.specs = {Off, Keda, [Off EXCEPT !.auto = "bad"]}, !.keda = FALSE],
    [Operating EXCEPT !.specs = {[Off EXCEPT !.replicas = 2], [Keda EXCEPT !.triggers = FALSE]}] }

O == INSTANCE Operator WITH Setups <- OperatorSetups

-----------------------------------------------------------------------------
Some(set) == CHOOSE x \in set : TRUE

MCInit ==
  /\ part \in {"rebalance", "filter", "queue", "operator"}
  /\ FilterInit /\ (part # "filter" => meta = <<>>)
  /\ Init /\ Q!Init
  /\ O!Init /\ (part # "operator" => conf = Some(OperatorSetups) /\ spec = Some(conf.specs))

MCNext ==
  /\ UNCHANGED <<part, meta>>
  /\ \/ part = "rebalance" /\ Next   /\ UNCHANGED <<queue, operator>>
     \/ part = "queue"     /\ Q!Next /\ UNCHANGED <<rebalance, operator>>
     \/ part = "operator"  /\ O!Next /\ UNCHANGED <<rebalance, queue>>

(* The queue: time passes, and the consumer keeps draining the queue.      *)
QueueFairness ==
  /\ WF_queue(part = "queue" /\ Q!Tick) /\ WF_queue(part = "queue" /\ Q!ConsumerTicks)
  /\ WF_queue(part = "queue" /\ (Q!Dequeue \/ Q!DrainEnds))

(* The operator: a queued pattern is reconciled, watches deliver, pods     *)
(* come up, and what belonged to a deleted pattern is collected.           *)
OperatorFairness ==
  /\ WF_operator(part = "operator" /\ O!Reconcile)
  /\ WF_operator(part = "operator" /\ O!Rollout)
  /\ WF_operator(part = "operator" /\ \E o \in O!Objects : O!Collect(o))
  /\ \A o \in O!Objects \cup {"pattern"} : WF_operator(part = "operator" /\ O!Watch(o))

MCSpec == MCInit /\ [][MCNext]_all /\ QueueFairness /\ OperatorFairness

-----------------------------------------------------------------------------
(* Filter: comparisons, matches and connectives mean what they should      *)
(* (Evaluate of filter/ast.go).                                            *)
FilterLaws == part = "filter" => LawsHold
(* WorkQueue: the earliest item goes first, none is postponed, and a retry *)
(* is delayed within the cap.                                              *)
ScheduleKept == Q!ScheduleKept
(* WorkQueue: an item that comes due is taken.                             *)
QueuedIsServed == Q!QueuedIsServed
(* Operator: in the end the cluster is what the spec asks for.             *)
Converges == O!Converges
=============================================================================
