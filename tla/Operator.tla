------------------------------ MODULE Operator ------------------------------
(***************************************************************************)
(* The Kubernetes operator (prism-operator): the reconciler of one         *)
(* PrismPattern, with its HPA and KEDA halves, between a user who edits    *)
(* the pattern, an autoscaler that sets the replicas and an API server     *)
(* whose calls may fail.                                                   *)
(*                                                                         *)
(* The reconciler reads through a cache that follows the server with a     *)
(* delay; fresh says of which objects the cache holds the last version.    *)
(* An Update of any other version is a conflict, a Create of what exists   *)
(* and a Delete of what does not are errors, and an error queues the       *)
(* pattern again.  A read and the write that follows it are one step: what *)
(* comes between them in the code makes the write fail.  A write that      *)
(* changes nothing makes no version and no event.                          *)
(***************************************************************************)
EXTENDS Naturals

CONSTANTS Setups   \* configurations (see conf)

VARIABLES
  conf,
  spec, status,    \* of the pattern, at the server
  server, cache,   \* the other objects, at the server and in the cache
  seen, fresh,     \* the spec in the cache; whose last version the cache holds
  queued,          \* the pattern is in the controller's queue
  pc, cur, valid,  \* the reconciler: its step, the spec it read, of the last version
  missed           \* a clean-up did not see the ScaledObject that was there

vars == <<conf, spec, status, server, cache, seen, fresh, queued, pc, cur, valid, missed>>

(* The specs the user chooses from; whether KEDA is installed; bounds on   *)
(* the edits, API errors, restarts of the operator, changes of replicas    *)
(* and deletions by hand.                                                  *)
Specs == conf.specs
KEDA  == conf.keda
Left(what) == conf[what] > 0
Spend(what) == conf' = [conf EXCEPT ![what] = @ - 1]

Absent  == [kind |-> "absent"]
NoSpec  == [auto |-> "none"]
Objects == {"deployment", "service", "hpa", "scaledobject"}
Enabled(s) == s.auto # "off"

Init ==
  /\ conf \in Setups
  /\ spec \in conf.specs /\ status = "" /\ seen = spec
  /\ server = [o \in Objects |-> Absent] /\ cache = server
  /\ fresh = Objects \cup {"pattern"} /\ queued = TRUE
  /\ pc = "idle" /\ cur = NoSpec /\ valid = FALSE /\ missed = FALSE

-----------------------------------------------------------------------------
(* The server and the cache.                                               *)

Put(o, v) ==
  /\ server' = [server EXCEPT ![o] = v]
  /\ fresh' = IF v = server[o] THEN fresh ELSE fresh \ {o}

(* Mutant: the controller does not watch the deployments.                  *)
OwnsServices(o) == o \in {"pattern", "service", "hpa"}

(* SetupWithManager: what the controller watches.                          *)
Owns(o) == o \in {"pattern", "deployment", "service", "hpa"}

Watch(o) ==
  /\ o \notin fresh /\ fresh' = fresh \cup {o}
  /\ IF o = "pattern" THEN seen' = spec /\ UNCHANGED cache
                      ELSE cache' = [cache EXCEPT ![o] = server[o]] /\ UNCHANGED seen
  /\ queued' = (queued \/ Owns(o))
  /\ UNCHANGED <<conf, spec, status, server, pc, cur, valid, missed>>

-----------------------------------------------------------------------------
(* The steps of Reconcile.                                                 *)

Returns == pc' = "idle" /\ cur' = NoSpec /\ valid' = FALSE
Fails   == Returns /\ queued' = TRUE /\ UNCHANGED <<server, fresh>>
GoTo(s) == pc' = s /\ UNCHANGED <<cur, valid, queued>>

Fetch ==
  /\ pc = "idle" /\ queued /\ queued' = FALSE
  /\ IF seen = NoSpec THEN UNCHANGED <<pc, cur, valid>>
     ELSE pc' = "deployment" /\ cur' = seen /\ valid' = ("pattern" \in fresh)
  /\ UNCHANGED <<conf, spec, status, server, cache, seen, fresh, missed>>

(* An API call that fails for a reason outside this model.                 *)
ApiError ==
  /\ pc # "idle" /\ Left("errors") /\ Spend("errors")
  /\ Fails
  /\ UNCHANGED <<spec, status, cache, seen, missed>>

(* Get, then Create what is not there or Update what is.                   *)
CreateOrUpdate(o, new, merged, next) ==
  \/ /\ cache[o] = Absent /\ server[o] = Absent
     /\ Put(o, new) /\ GoTo(next)
  \/ /\ cache[o] # Absent /\ o \in fresh
     /\ Put(o, merged) /\ GoTo(next)
  \/ /\ o \notin fresh /\ (cache[o] = Absent => server[o] # Absent)
     /\ Fails

(* Get, then Delete what is there.                                         *)
DeleteIfThere(o, next) ==
  \/ /\ cache[o] = Absent
     /\ UNCHANGED <<server, fresh>> /\ GoTo(next)
  \/ /\ cache[o] # Absent /\ server[o] # Absent
     /\ Put(o, Absent) /\ GoTo(next)
  \/ /\ cache[o] # Absent /\ server[o] = Absent
     /\ Fails

PodSpec(s) == [image |-> s.image]

InitialReplicas == IF Enabled(cur) THEN cur.min ELSE cur.replicas

(* A Deployment's selector, made from the pattern's labels, cannot change. *)
ReconcileDeployment ==
  /\ pc = "deployment"
  /\ LET found  == cache["deployment"]
         new    == [kind |-> "deployment", pod |-> PodSpec(cur), labels |-> cur.labels,
                    replicas |-> InitialReplicas, pods |-> 0, ready |-> 0]
         merged == [found EXCEPT !.pod = PodSpec(cur),
                                 !.replicas = IF Enabled(cur) THEN @ ELSE cur.replicas]
     IN IF found # Absent /\ found.labels # cur.labels THEN Fails
        ELSE CreateOrUpdate("deployment", new, IF found = Absent THEN new ELSE merged, "service")
  /\ UNCHANGED <<conf, spec, status, cache, seen, missed>>

(* Without a service in the spec nothing is done, nor removed.             *)
ReconcileService ==
  /\ pc = "service"
  /\ LET new == [kind |-> "service", port |-> cur.service, labels |-> cur.labels]
     IN IF cur.service = 0 THEN GoTo("scaler") /\ UNCHANGED <<server, fresh>>
        ELSE CreateOrUpdate("service", new, new, "scaler")
  /\ UNCHANGED <<conf, spec, status, cache, seen, missed>>

(* ReconcileHPA and ReconcileKEDA, which fails when KEDA is not installed  *)
(* or a trigger is not valid; and their removal, for KEDA nothing when it  *)
(* is not installed.                                                       *)
ReconcileHPA(next) ==
  LET new == [kind |-> "hpa", min |-> cur.min] IN CreateOrUpdate("hpa", new, new, next)

BuildTriggers(s) == s.triggers   \* whether all of them are valid

ReconcileKEDA(next) ==
  LET new == [kind |-> "scaledobject", min |-> cur.min]
  IN IF KEDA /\ BuildTriggers(cur) THEN CreateOrUpdate("scaledobject", new, new, next) ELSE Fails

DeleteHPA(next) == DeleteIfThere("hpa", next)

DeleteScaledObject(next) ==
  IF KEDA THEN DeleteIfThere("scaledobject", next)
          ELSE GoTo(next) /\ UNCHANGED <<server, fresh>>

(* reconcileAutoscaling, first half: the scaler of the spec is made, or    *)
(* the HPA removed.                                                        *)
ReconcileAutoscaling ==
  /\ pc = "scaler"
  /\ CASE cur.auto = "off"  -> DeleteHPA("cleanup")
       [] cur.auto = "hpa"  -> ReconcileHPA("cleanup")
       [] cur.auto = "keda" -> ReconcileKEDA("cleanup")
       [] OTHER -> Fails
  /\ UNCHANGED <<conf, spec, status, cache, seen, missed>>

(* Second half: the other scaler is removed.                               *)
CleanUpScaler ==
  /\ pc = "cleanup"
  /\ IF cur.auto = "keda"
       THEN DeleteHPA("status") /\ UNCHANGED missed
       ELSE /\ DeleteScaledObject("status")
            /\ missed' = (missed \/ (/\ cache["scaledobject"] = Absent
                                    /\ server["scaledobject"] # Absent))
  /\ UNCHANGED <<conf, spec, status, cache, seen>>

Phase(d) ==
  IF d = Absent \/ d.replicas = 0 THEN "Pending"
  ELSE IF d.ready = d.replicas THEN "Running"
  ELSE IF d.pods > 0 THEN "Progressing" ELSE "Pending"

(* The condition carries the time, to the second: an update that changes   *)
(* no phase is a new version all the same unless it is quick.              *)
UpdateStatus ==
  /\ pc = "status"
  /\ IF ~valid THEN Fails /\ UNCHANGED status
     ELSE /\ status' = Phase(cache["deployment"])
          /\ fresh' \in {fresh \ {"pattern"}} \cup (IF status' = status THEN {fresh} ELSE {})
          /\ Returns /\ UNCHANGED <<queued, server>>
  /\ UNCHANGED <<conf, spec, cache, seen, missed>>

(* The operator restarts: the cache is filled and the pattern queued.      *)
Restart ==
  /\ Left("crashes") /\ Spend("crashes")
  /\ cache' = server /\ seen' = spec /\ fresh' = Objects \cup {"pattern"}
  /\ queued' = TRUE /\ Returns /\ missed' = FALSE
  /\ UNCHANGED <<spec, status, server>>

-----------------------------------------------------------------------------
(* Around it: the user, the scaler, the kubelets, the garbage collector.   *)

Edit ==
  /\ spec # NoSpec /\ Left("edits") /\ Spend("edits")
  /\ spec' \in (Specs \cup {NoSpec}) \ {spec}
  /\ fresh' = fresh \ {"pattern"} /\ valid' = FALSE
  /\ UNCHANGED <<status, server, cache, seen, queued, pc, cur, missed>>

ByHand(o) ==
  /\ server[o] # Absent /\ o # "scaledobject" /\ Left("deletes") /\ Spend("deletes")
  /\ Put(o, Absent)
  /\ UNCHANGED <<spec, status, cache, seen, queued, pc, cur, valid, missed>>

Scale ==
  /\ server["deployment"] # Absent /\ Left("scales") /\ Spend("scales")
  /\ \E o \in {"hpa", "scaledobject"} :
       /\ server[o] # Absent
       /\ \E n \in server[o].min .. (server[o].min + 1) :
            Put("deployment", [server["deployment"] EXCEPT !.replicas = n])
  /\ UNCHANGED <<spec, status, cache, seen, queued, pc, cur, valid, missed>>

Rollout ==
  LET d == server["deployment"]
  IN /\ d # Absent
     /\ \/ d.pods # d.replicas /\ Put("deployment", [d EXCEPT !.pods = d.replicas])
        \/ /\ d.pods = d.replicas /\ d.ready # d.pods
           /\ Put("deployment", [d EXCEPT !.ready = d.pods])
     /\ UNCHANGED <<conf, spec, status, cache, seen, queued, pc, cur, valid, missed>>

Collect(o) ==
  /\ spec = NoSpec /\ server[o] # Absent /\ Put(o, Absent)
  /\ UNCHANGED <<conf, spec, status, cache, seen, queued, pc, cur, valid, missed>>

-----------------------------------------------------------------------------
Reconcile ==
  \/ Fetch \/ ReconcileDeployment \/ ReconcileService \/ ReconcileAutoscaling
  \/ CleanUpScaler \/ UpdateStatus

Next ==
  \/ Reconcile \/ ApiError \/ Restart \/ Edit \/ Scale \/ Rollout
  \/ \E o \in Objects : ByHand(o) \/ Collect(o)
  \/ \E o \in Objects \cup {"pattern"} : Watch(o)

Spec == Init /\ [][Next]_vars

-----------------------------------------------------------------------------
(* What the reconciler can bring about: a spec it accepts, for the labels  *)
(* the Deployment was made with, whose old ScaledObject it has seen.       *)
Reconcilable ==
  /\ spec.auto \in {"off", "hpa", "keda"} /\ ~missed
  /\ spec.auto = "keda" => KEDA /\ BuildTriggers(spec)
  /\ server["deployment"] # Absent => server["deployment"].labels = spec.labels

Matches ==
  LET d == server["deployment"]
  IN /\ d # Absent /\ d.pod = PodSpec(spec)
     /\ spec.auto = "off" => d.replicas = spec.replicas
     /\ spec.service # 0 => server["service"] # Absent /\ server["service"].port = spec.service
     /\ server["hpa"] = IF spec.auto = "hpa" THEN [kind |-> "hpa", min |-> spec.min] ELSE Absent
     /\ server["scaledobject"] = IF spec.auto = "keda" THEN [kind |-> "scaledobject", min |-> spec.min]
                                 ELSE Absent
     /\ status = Phase(d)

(* However edits, API errors, conflicts, stale reads, restarts and an      *)
(* autoscaler interleave with Reconcile, in the end the cluster is what    *)
(* the spec asks for: the Deployment, exactly the scaler that was chosen   *)
(* and no other, fixed replicas where there is none, and a true status.    *)
Converges == <>[](Reconcilable => Matches)
=============================================================================
