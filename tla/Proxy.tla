------------------------------- MODULE Proxy --------------------------------
(***************************************************************************)
(* The proxy (prism-proxy): its main, the pattern manager that spawns,     *)
(* connects, initializes, starts, checks, drains and stops the pattern     *)
(* processes, and the drain-on-shutdown sequence; and the plugin host at   *)
(* the other end (pkg/plugin: BootstrapWithConfig, LifecycleService).      *)
(*                                                                         *)
(* An operation of the manager holds the write lock of its map from its    *)
(* first step to its last, so one is under way at a time, while processes  *)
(* come up and die.  A port comes from the pattern's name, and two names   *)
(* can have the same.  Calls of a dead process fail; a live one answers.   *)
(***************************************************************************)
EXTENDS Naturals, Sequences

CONSTANTS
  MaxAttempts,  \* of connect_client, 5 in the code
  Setups        \* configurations (see conf)

VARIABLES
  conf,
  stage,        \* of main, and of drain_and_shutdown
  todo,         \* patterns that this stage has still to deal with
  op,           \* the operation that holds the lock
  status,       \* of each pattern: its PatternStatus
  child, client, \* of each pattern: its process; the process its client reaches
  procs         \* the processes spawned

vars == <<conf, stage, todo, op, status, child, client, procs>>

Patterns == conf.patterns   \* ProxyConfig.patterns
Port(p)  == conf.port[p]    \* 9000 + the sum of the name's characters % 1000
Faults   == conf.faults     \* processes die, calls fail
Api      == conf.api        \* the manager is also used after the start
MaxSpawns == conf.spawns    \* bound: processes spawned

NoOp == [p |-> "", step |-> "", tries |-> 0]

Init ==
  /\ conf \in Setups
  /\ stage = "starting" /\ todo = conf.patterns /\ op = NoOp
  /\ status = [p \in Patterns |-> "Uninitialized"]
  /\ child = [p \in Patterns |-> 0] /\ client = child
  /\ procs = <<>>

Procs     == 1 .. Len(procs)
IsUp(n)   == procs[n].state = "up"
Alive     == {n \in Procs : procs[n].state \in {"booting", "up"}}
Begins(p, s) == op' = [p |-> p, step |-> s, tries |-> 0]
Step(s)   == op.step = s
GoTo(s)   == op' = [op EXCEPT !.step = s, !.tries = 0]
Set(p, s) == status' = [status EXCEPT ![p] = s]

(* The plugin host's LifecycleService hands each call, "initialize",       *)
(* "start", "drain" or "stop", to the plugin; asked has the calls that     *)
(* were sent to a process.                                                 *)
Host(n, what) == procs' = [procs EXCEPT ![n].asked = @ \cup {what}]
HostHealth    == {"Running"} \cup (IF Faults THEN {"Degraded", "Failed"} ELSE {})

(* A call of pattern p's client: its process answers it, or it fails.      *)
Calls(p, what) == client[p] # 0 /\ IsUp(client[p]) /\ Host(client[p], what)

CallFails(p, what) ==
  IF client[p] = 0 THEN UNCHANGED procs
                   ELSE (~IsUp(client[p]) \/ Faults) /\ Host(client[p], what)

-----------------------------------------------------------------------------
(* start_pattern.  A step that fails leaves the status Failed, and the     *)
(* process as it is.                                                       *)

StartFails ==
  /\ Set(op.p, "Failed") /\ op' = NoOp

Spawn ==
  /\ Step("spawn")
  /\ \/ /\ Len(procs) < MaxSpawns
        /\ procs' = Append(procs, [pat |-> op.p, state |-> "booting", own |-> FALSE,
                                   asked |-> {}])
        /\ child' = [child EXCEPT ![op.p] = Len(procs) + 1]
        /\ GoTo("connect") /\ UNCHANGED status
     \/ /\ Faults /\ StartFails /\ UNCHANGED <<procs, child>>
  /\ UNCHANGED <<conf, stage, todo, client>>

(* connect_client reaches whichever process listens on the port.           *)
ConnectClient ==
  /\ Step("connect")
  /\ \/ \E n \in Procs :
          /\ IsUp(n) /\ Port(procs[n].pat) = Port(op.p)
          /\ client' = [client EXCEPT ![op.p] = n]
          /\ procs' = [procs EXCEPT ![n].own = @ \/ procs[n].pat = op.p]
          /\ GoTo("initialize") /\ UNCHANGED status
     \/ /\ \A n \in Procs : ~(IsUp(n) /\ Port(procs[n].pat) = Port(op.p))
        /\ IF op.tries + 1 < MaxAttempts
             THEN op' = [op EXCEPT !.tries = @ + 1] /\ UNCHANGED status
             ELSE StartFails
        /\ UNCHANGED <<client, procs>>
  /\ UNCHANGED <<conf, stage, todo, child>>

InitializePattern ==
  /\ Step("initialize")
  /\ \/ Calls(op.p, "initialize") /\ GoTo("start") /\ UNCHANGED status
     \/ CallFails(op.p, "initialize") /\ StartFails
  /\ UNCHANGED <<conf, stage, todo, child, client>>

StartPattern ==
  /\ Step("start")
  /\ \/ Calls(op.p, "start") /\ Set(op.p, "Running") /\ op' = NoOp
     \/ CallFails(op.p, "start") /\ StartFails
  /\ UNCHANGED <<conf, stage, todo, child, client>>

(* health_check: nothing unless the pattern runs; an error changes nothing. *)
HealthCheck(p) ==
  /\ Api /\ stage = "serving" /\ op = NoOp
  /\ status[p] \in {"Running", "Degraded"}
  /\ \/ /\ client[p] # 0 /\ IsUp(client[p])
        /\ status' \in {[status EXCEPT ![p] = s] : s \in HostHealth}
     \/ (~IsUp(client[p]) \/ Faults) /\ UNCHANGED status
  /\ UNCHANGED <<conf, stage, todo, op, child, client, procs>>

-----------------------------------------------------------------------------
(* drain_pattern and stop_pattern.                                         *)

DrainPattern(p) ==
  /\ Calls(p, "drain") \/ CallFails(p, "drain")
  /\ UNCHANGED <<conf, stage, op, status, child, client>>

(* Mutant: only a pattern that runs is stopped.                            *)
StopPatternIfRunning ==
  /\ Step("stop")
  /\ IF status[op.p] \in {"Running", "Degraded"}
       THEN /\ Calls(op.p, "stop") \/ CallFails(op.p, "stop")
            /\ GoTo("kill") /\ UNCHANGED status
       ELSE Set(op.p, "Stopped") /\ op' = NoOp /\ UNCHANGED procs
  /\ UNCHANGED <<conf, stage, todo, child, client>>

(* Mutant: the process is killed without a Stop.                           *)
StopPatternByKill ==
  /\ Step("stop") /\ GoTo("kill")
  /\ UNCHANGED <<conf, stage, todo, status, child, client, procs>>

StopPattern ==
  /\ Step("stop")
  /\ Calls(op.p, "stop") \/ CallFails(op.p, "stop")
  /\ GoTo("kill")
  /\ UNCHANGED <<conf, stage, todo, status, child, client>>

(* The process is killed and waited for.                                   *)
KillProcess ==
  /\ Step("kill")
  /\ procs' = IF child[op.p] \in Alive THEN [procs EXCEPT ![child[op.p]].state = "killed"]
              ELSE procs
  /\ child' = [child EXCEPT ![op.p] = 0]
  /\ Set(op.p, "Stopped") /\ op' = NoOp
  /\ UNCHANGED <<conf, stage, todo, client>>

-----------------------------------------------------------------------------
(* The plugin host: Initialize, then the control plane's port, which       *)
(* another process may have, then Start.  An error of any of them ends the *)
(* process.                                                                *)
PortTaken(n) == \E m \in Procs : IsUp(m) /\ Port(procs[m].pat) = Port(procs[n].pat)

BootstrapWithConfig(n) ==
  \/ ~PortTaken(n) /\ procs' = [procs EXCEPT ![n].state = "up"]
  \/ (Faults \/ PortTaken(n)) /\ procs' = [procs EXCEPT ![n].state = "exited"]

ServeBackendDriver(n) ==
  /\ procs[n].state = "booting"
  /\ BootstrapWithConfig(n)
  /\ UNCHANGED <<conf, stage, todo, op, status, child, client>>

Dies(n) ==
  /\ Faults /\ IsUp(n)
  /\ procs' = [procs EXCEPT ![n].state = "exited"]
  /\ UNCHANGED <<conf, stage, todo, op, status, child, client>>

-----------------------------------------------------------------------------
(* main: start the patterns, serve, and on ctrl_c drain and stop.  After   *)
(* the start, the manager may be asked to stop a pattern, and to start one *)
(* that is stopped.                                                        *)

StartNext ==
  /\ stage = "starting" /\ op = NoOp
  /\ \/ \E p \in todo : /\ Begins(p, "spawn") /\ Set(p, "Starting")
                        /\ todo' = todo \ {p} /\ UNCHANGED stage
     \/ todo = {} /\ stage' = "serving" /\ UNCHANGED <<todo, op, status>>
  /\ UNCHANGED <<conf, child, client, procs>>

Manage(p) ==
  /\ Api /\ stage = "serving" /\ op = NoOp
  /\ \/ Begins(p, "stop") /\ Set(p, "Stopping")
     \/ status[p] = "Stopped" /\ Len(procs) < MaxSpawns
        /\ Begins(p, "spawn") /\ Set(p, "Starting")
  /\ UNCHANGED <<conf, stage, todo, child, client, procs>>

CtrlC ==
  /\ stage = "serving" /\ stage' = "draining" /\ todo' = Patterns
  /\ UNCHANGED <<conf, op, status, child, client, procs>>

DrainNext ==
  /\ stage = "draining" /\ op = NoOp
  /\ \E p \in todo : DrainPattern(p) /\ todo' = todo \ {p}

(* The count of frontend connections is always zero.                       *)
Drained ==
  /\ stage = "draining" /\ op = NoOp /\ todo = {}
  /\ stage' = "stopping" /\ todo' = Patterns
  /\ UNCHANGED <<conf, op, status, child, client, procs>>

StopNext ==
  /\ stage = "stopping" /\ op = NoOp
  /\ \/ \E p \in todo : /\ Begins(p, "stop") /\ Set(p, "Stopping")
                        /\ todo' = todo \ {p} /\ UNCHANGED stage
     \/ todo = {} /\ stage' = "exited" /\ UNCHANGED <<todo, op, status>>
  /\ UNCHANGED <<conf, child, client, procs>>

Manager ==
  \/ Spawn \/ ConnectClient \/ InitializePattern \/ StartPattern \/ StopPattern \/ KillProcess

Next ==
  \/ Manager \/ StartNext \/ CtrlC \/ DrainNext \/ Drained \/ StopNext
  \/ \E p \in Patterns : Manage(p) \/ HealthCheck(p)
  \/ \E n \in Procs : ServeBackendDriver(n) \/ Dies(n)

Spec == Init /\ [][Next]_vars

-----------------------------------------------------------------------------
(* When the proxy has shut down, none of the pattern processes it spawned  *)
(* runs: the ones whose start failed in any of its steps, that it never    *)
(* reached, or that share a port with another pattern included.            *)
NoneLeftBehind == stage = "exited" => Alive = {}

(* A plugin that the proxy is connected to is asked to stop before its     *)
(* process is killed, and in a shutdown asked to drain before that; it may *)
(* fail to do so.                                                          *)
GracefulOrder ==
  \A n \in Procs :
    procs[n].state = "killed" /\ procs[n].own =>
      /\ "stop" \in procs[n].asked
      /\ stage \in {"stopping", "exited"} /\ ~Api => "drain" \in procs[n].asked
=============================================================================
