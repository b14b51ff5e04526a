--------------------------- MODULE ProcLifecycle ---------------------------
(***************************************************************************)
(* What the process manager promises about each process (pkg/procmgr,      *)
(* types.go, ProcessState): a one-way walk from the first update to the    *)
(* moment SyncKnownProcesses forgets the finished process.                 *)
(***************************************************************************)
CONSTANT Procs

VARIABLE phase

Phases == {"Absent", "Starting", "Syncing", "Terminating", "Terminated", "Finished"}

(* The phases a process may enter from each phase.  A termination request  *)
(* may be the first thing the manager hears of a process.                  *)
Successors ==
  [f \in Phases |->
     CASE f = "Absent" -> {"Starting", "Terminating"}
       [] f = "Starting" -> {"Syncing", "Terminating"}
       [] f = "Syncing" -> {"Terminating"}
       [] f = "Terminating" -> {"Terminated"}
       [] f = "Terminated" -> {"Finished"}
       [] f = "Finished" -> {"Absent"}]

Init == phase = [p \in Procs |-> "Absent"]

(* One call of SyncKnownProcesses moves any number of processes.           *)
Next ==
  /\ phase' \in [Procs -> Phases]
  /\ \A p \in Procs : phase'[p] = phase[p] \/ phase'[p] \in Successors[phase[p]]

Spec == Init /\ [][Next]_phase
=============================================================================
