------------------------------ MODULE Launcher ------------------------------
(***************************************************************************)
(* The pattern launcher: the LaunchPattern and TerminatePattern calls of   *)
(* its service (pkg/launcher/service.go), the isolation managers between   *)
(* the service and the process manager (pkg/isolation), the syncer that    *)
(* starts, checks, restarts and stops the operating system's processes     *)
(* (syncer.go), the orphan detector (cleanup.go), and the program's        *)
(* shutdown (cmd/pattern-launcher).                                        *)
(*                                                                         *)
(* The process manager is here what ProcMgr shows of it: one worker for    *)
(* each process id, at most one call of the syncer at a time, a pending    *)
(* update that a later one replaces, and states that only go forward.  A   *)
(* request names its process id through its isolation level; the syncer    *)
(* names processes by the launcher's default level instead.                *)
(***************************************************************************)
EXTENDS Integers, FiniteSets

CONSTANTS
  MaxErrors,  \* 5 in the code
  Setups      \* configurations (see conf)

NoOne == "-"   \* of pend and comp: nobody waits for the termination

VARIABLES
  conf,
  phase,         \* of the program: "up", "stopping", "down", "exited", "crashed"
  call, calls,   \* of each client: its call; calls so far
  im, info,      \* of each request: the manager's entry; the service's entry
  state, pend,   \* of each request's process: state and pending update
  pc, seen, made, comp,  \* of its worker: place, handles read and made, whom to tell
  closed,        \* clients whose CompletedCh is closed
  handle,        \* the syncer's map: of each syncer id, a launch or 0
  launches, os, by, doomed, waited, errs, \* launches: process, worker, context done, Wait called, errors
  orphans,       \* processes the orphan detector is about to terminate
  healthless     \* of each syncer id: launches since it was last healthy

vars == <<conf, phase, call, calls, im, info, state, pend, pc, seen, made, comp,
          closed, handle, launches, os, by, doomed, waited, errs, orphans,
          healthless>>

service == <<conf, phase, call, calls, im, info>>
worker  == <<state, pend, pc, seen, made, comp, closed>>
launched == <<launches, by, doomed, waited, orphans>>

MaxLaunches == conf.launches  \* bound: processes started
MaxCalls    == conf.calls     \* bound: calls of the service
Faults      == conf.faults    \* processes fail, and health checks time out
Reqs        == conf.requests
Clients     == conf.clients   \* callers of the service

-----------------------------------------------------------------------------
(* Discover and Validate: the patterns whose manifest is complete and      *)
(* whose executable can be run.                                            *)
Valid(m) ==
  /\ m.named /\ m.executable
  /\ m.level \in {"none", "namespace", "session"}
  /\ m.port \in 1 .. 65535

Discover == {m.pattern : m \in {d \in conf.manifests : Valid(d)}}

(* IsolationKey.ProcessID at an isolation level.                           *)
ProcessID(level, r) ==
  CASE level = "none"      -> <<"shared">>
    [] level = "namespace" -> <<"ns", r.namespace>>
    [] level = "session"   -> <<"session", r.session>>

PID(r) == ProcessID(r.level, r)
SID(r) == ProcessID(conf.default, r)
SIDs   == {SID(r) : r \in Reqs}

ValidRequest(r) ==
  /\ r.pattern \in Discover
  /\ r.level = "namespace" => r.namespace # ""
  /\ r.level = "session" => r.session # ""

Idle == [op |-> "", req |-> <<>>]
Off  == [on |-> FALSE, pid |-> 0]

Init ==
  /\ conf \in Setups
  /\ phase = IF Discover = {} THEN "exited" ELSE "up"
  /\ call = [c \in Clients |-> Idle] /\ calls = 0
  /\ im = [r \in Reqs |-> FALSE] /\ info = [r \in Reqs |-> Off]
  /\ state = [r \in Reqs |-> "none"] /\ pend = [r \in Reqs |-> NoOne]
  /\ pc = [r \in Reqs |-> "idle"] /\ seen = [r \in Reqs |-> 0]
  /\ made = seen /\ comp = pend /\ closed = {}
  /\ handle = [s \in SIDs |-> 0]
  /\ launches = 0
  /\ os = [n \in 1 .. MaxLaunches |-> "none"] /\ by = [n \in 1 .. MaxLaunches |-> <<>>]
  /\ doomed = {} /\ waited = {} /\ orphans = {}
  /\ errs = [n \in 1 .. MaxLaunches |-> 0] /\ healthless = [s \in SIDs |-> 0]

Alive == {n \in 1 .. MaxLaunches : os[n] \in {"booting", "ok", "bad"}}
Runs  == phase \notin {"exited", "crashed"}

Killed(n) == IF n \in Alive THEN [os EXCEPT ![n] = "killed"] ELSE os

-----------------------------------------------------------------------------
(* The service and the isolation manager.                                  *)

At(c, p) == call[c].op = p
GoTo(c, p) == call' = [call EXCEPT ![c].op = p]
Return(c)  == call' = [call EXCEPT ![c] = Idle]

(* GetOrCreateProcess returns a process that syncs already, and else sends *)
(* an update, which a finished process ignores.                            *)
GetOrCreateProcess(c, r) ==
  /\ im' = [im EXCEPT ![r] = TRUE]
  /\ IF im[r] /\ state[r] = "syncing"
       THEN /\ call' = [call EXCEPT ![c] = [op |-> "got", req |-> r]]
            /\ UNCHANGED <<state, pend>>
       ELSE /\ call' = [call EXCEPT ![c] = [op |-> "launching", req |-> r]]
            /\ pend'  = [pend EXCEPT ![r] = IF state[r] = "finished" THEN @ ELSE NoOne]
            /\ state' = [state EXCEPT ![r] = IF @ = "none" THEN "starting" ELSE @]

LaunchPattern(c, r) ==
  /\ phase = "up" /\ At(c, "") /\ calls < MaxCalls
  /\ ValidRequest(r)
  /\ calls' = calls + 1
  /\ GetOrCreateProcess(c, r)
  /\ UNCHANGED <<conf, phase, info, pc, seen, made, comp, closed, handle, launched, os, errs,
                 healthless>>

(* It polls the state, for 5 seconds.                                      *)
LaunchWaits(c) ==
  /\ Runs /\ At(c, "launching")
  /\ IF state[call[c].req] = "syncing" THEN GoTo(c, "got") ELSE Return(c)
  /\ UNCHANGED <<conf, phase, calls, im, info, worker, handle, launched, os, errs, healthless>>

LaunchStores(c) ==
  /\ Runs /\ At(c, "got") /\ GoTo(c, "reply")
  /\ info' = [info EXCEPT ![call[c].req] = [on |-> TRUE, pid |-> 0]]
  /\ UNCHANGED <<conf, phase, calls, im, worker, handle, launched, os, errs, healthless>>

(* The reply reads the entry again; it may be gone.                        *)
LaunchReplies(c) ==
  /\ Runs /\ At(c, "reply") /\ Return(c)
  /\ phase' = IF info[call[c].req].on THEN phase ELSE "crashed"
  /\ UNCHANGED <<conf, calls, im, info, worker, handle, launched, os, errs, healthless>>

(* handleTerminationRequest: the first one cancels the process's context,  *)
(* which its operating system processes were started with.                 *)
Terminates(R) ==
  /\ state' = [r \in Reqs |->
                 IF r \in R /\ state[r] \in {"starting", "syncing"} THEN "terminating"
                                                                    ELSE state[r]]
  /\ doomed' = doomed \cup {n \in 1 .. launches :
                 by[n] \in R /\ state[by[n]] \in {"starting", "syncing"}}

TerminateProcess(c, r) ==
  /\ im[r]
  /\ Terminates({r})
  /\ pend' = [pend EXCEPT ![r] = IF state[r] = "finished" THEN @ ELSE c]

TerminatePattern(c, r) ==
  /\ phase = "up" /\ At(c, "") /\ calls < MaxCalls
  /\ info[r].on
  /\ calls' = calls + 1
  /\ call' = [call EXCEPT ![c] = [op |-> "ending", req |-> r]]
  /\ TerminateProcess(c, r)
  /\ UNCHANGED <<conf, phase, im, info, pc, seen, made, comp, closed, handle, launches, by,
                 waited, orphans, os, errs, healthless>>

(* The termination completes, or the time for it is over.                  *)
TerminateWaits(c) ==
  /\ Runs /\ At(c, "ending")
  /\ IF c \in closed
       THEN GoTo(c, "untrack") /\ im' = [im EXCEPT ![call[c].req] = FALSE]
       ELSE Return(c) /\ UNCHANGED im
  /\ closed' = closed \ {c}
  /\ UNCHANGED <<conf, phase, calls, info, state, pend, pc, seen, made, comp, handle, launched,
                 os, errs, healthless>>

TerminateUntracks(c) ==
  /\ Runs /\ At(c, "untrack") /\ Return(c)
  /\ info' = [info EXCEPT ![call[c].req] = Off]
  /\ UNCHANGED <<conf, phase, calls, im, worker, handle, launched, os, errs, healthless>>

-----------------------------------------------------------------------------
(* The worker of a process: SyncProcess.                                   *)

(* A worker comes to step p with the handles h read and n made, or is done. *)
Moves(r, p, h, n) ==
  /\ pc' = [pc EXCEPT ![r] = p]
  /\ seen' = [seen EXCEPT ![r] = h] /\ made' = [made EXCEPT ![r] = n]
Ends(r) == Moves(r, "idle", 0, 0)

Cancelled(r) == state[r] \notin {"starting", "syncing"} \/ phase = "down"

(* Bound: errors are not counted beyond MaxErrors.                         *)
OneMore(e) == IF e < MaxErrors THEN e + 1 ELSE e

(* SyncProcess returns without an error.                                   *)
Synced(r) ==
  /\ Ends(r)
  /\ state' = [state EXCEPT ![r] = IF @ = "starting" THEN "syncing" ELSE @]
  /\ healthless' = [healthless EXCEPT ![SID(r)] = 0]

(* The process is alive (or dead and never waited for), but unhealthy:     *)
(* it is killed, and given up after MaxErrors errors.                      *)
(* Mutant: it is left to its own.                                          *)
UnhealthyLeft(r, h) ==
  /\ errs' = [errs EXCEPT ![h] = OneMore(@)]
  /\ IF errs'[h] >= MaxErrors
       THEN Ends(r) /\ state' = [state EXCEPT ![r] = "terminating"]
       ELSE Moves(r, "launch", h, 0) /\ UNCHANGED state
  /\ UNCHANGED <<os, healthless>>

Unhealthy(r, h) ==
  /\ errs' = [errs EXCEPT ![h] = OneMore(@)]
  /\ os' = Killed(h)
  /\ IF errs'[h] >= MaxErrors
       THEN Ends(r) /\ state' = [state EXCEPT ![r] = "terminating"]
       ELSE Moves(r, "launch", h, 0) /\ UNCHANGED state
  /\ UNCHANGED healthless

CheckHealth(h) == os[h] = "ok"

SyncProcess(r) ==
  /\ Runs /\ pc[r] = "idle" /\ state[r] \in {"starting", "syncing"}
  /\ pend' = [pend EXCEPT ![r] = NoOne]
  /\ LET h == handle[SID(r)] IN
     IF h = 0 \/ os[h] = "gone"
       THEN Moves(r, "launch", h, 0) /\ UNCHANGED <<state, os, errs, healthless>>
       ELSE \/ /\ CheckHealth(h) /\ Synced(r)
               /\ errs' = [errs EXCEPT ![h] = 0] /\ UNCHANGED os
            \/ /\ ~CheckHealth(h) \/ Faults
               /\ Unhealthy(r, h)
  /\ UNCHANGED <<service, comp, closed, handle, launched>>

(* launchProcess.  The new handle takes over the errors of the former one. *)
(* Mutant: it starts with none.                                            *)
StartsAfresh(r) ==
  /\ launches < MaxLaunches /\ ~Cancelled(r)
  /\ launches' = launches + 1 /\ Moves(r, "wait", seen[r], launches')
  /\ os' = [os EXCEPT ![launches'] = "booting"] /\ by' = [by EXCEPT ![launches'] = r]
  /\ handle' = [handle EXCEPT ![SID(r)] = launches']
  /\ healthless' = [healthless EXCEPT ![SID(r)] = @ + 1]
  /\ UNCHANGED errs

Starts(r) ==
  /\ launches < MaxLaunches /\ ~Cancelled(r)
  /\ launches' = launches + 1 /\ Moves(r, "wait", seen[r], launches')
  /\ os' = [os EXCEPT ![launches'] = "booting"] /\ by' = [by EXCEPT ![launches'] = r]
  /\ errs' = [errs EXCEPT ![launches'] = IF seen[r] = 0 THEN 0 ELSE errs[seen[r]]]
  /\ handle' = [handle EXCEPT ![SID(r)] = launches']
  /\ healthless' = [healthless EXCEPT ![SID(r)] = @ + 1]

StartFails(r) ==
  /\ Faults \/ Cancelled(r) \/ launches = MaxLaunches
  /\ Ends(r)
  /\ errs' = IF seen[r] = 0 THEN errs ELSE [errs EXCEPT ![seen[r]] = OneMore(@)]
  /\ UNCHANGED <<launches, os, by, handle, healthless>>

LaunchProcess(r) ==
  /\ Runs /\ pc[r] = "launch"
  /\ Starts(r) \/ StartFails(r)
  /\ UNCHANGED <<service, state, pend, comp, closed, doomed, waited, orphans>>

(* The service's entry of the syncer's process id gets the process of the  *)
(* handle that was there before the launch; there may be no such handle.   *)
Tracked(r) == {q \in Reqs : PID(q) = SID(r) /\ info[q].on}

RecordPID(r) ==
  /\ phase' = IF Tracked(r) # {} /\ seen[r] = 0 THEN "crashed" ELSE phase
  /\ info' = [q \in Reqs |-> IF q \in Tracked(r) THEN [info[q] EXCEPT !.pid = seen[r]]
                                                 ELSE info[q]]

(* waitForHealthy and the rest of SyncProcess.                             *)
WaitForHealthy(r) ==
  /\ Runs /\ pc[r] = "wait"
  /\ LET n == made[r] IN
     \/ /\ CheckHealth(n) /\ Synced(r) /\ RecordPID(r)
        /\ errs' = [errs EXCEPT ![n] = 0] /\ UNCHANGED os
     \/ /\ ~CheckHealth(n) \/ Faults \/ Cancelled(r)
        /\ os' = Killed(n) /\ errs' = [errs EXCEPT ![n] = OneMore(@)]
        /\ Ends(r) /\ UNCHANGED <<state, healthless, phase, info>>
  /\ UNCHANGED <<conf, call, calls, im, pend, comp, closed, handle, launched>>

-----------------------------------------------------------------------------
(* The worker: SyncTerminatingProcess and SyncTerminatedProcess.           *)

(* The first one returns without an error.                                 *)
Terminated(r, c) ==
  /\ Ends(r) /\ comp' = [comp EXCEPT ![r] = NoOne]
  /\ state' = [state EXCEPT ![r] = "terminated"]
  /\ closed' = closed \cup ({c} \ {NoOne})
  /\ pend' = [pend EXCEPT ![r] = NoOne]

(* SIGTERM.  Wait on a process that was waited for before returns at once. *)
SyncTerminatingProcess(r) ==
  /\ Runs /\ pc[r] = "idle" /\ state[r] = "terminating"
  /\ LET h == handle[SID(r)] IN
     IF h = 0
       THEN Terminated(r, pend[r]) /\ UNCHANGED waited
       ELSE /\ Moves(r, IF h \in waited THEN "again" ELSE "grace", h, 0)
            /\ waited' = waited \cup {h}
            /\ comp' = [comp EXCEPT ![r] = pend[r]]
            /\ pend' = [pend EXCEPT ![r] = NoOne] /\ UNCHANGED <<state, closed>>
  /\ UNCHANGED <<service, handle, launches, os, by, doomed, orphans, errs, healthless>>

(* Mutant: the end of the grace period counts as the exit.                 *)
ExitsUnchecked(r) ==
  /\ Runs /\ pc[r] \in {"grace", "kill", "again"}
  /\ Terminated(r, comp[r])
  /\ UNCHANGED <<service, handle, launched, os, errs, healthless>>

Exits(r) ==
  /\ Runs /\ pc[r] \in {"grace", "kill", "again"}
  /\ pc[r] = "again" \/ os[seen[r]] \in {"zombie", "gone"}
  /\ os' = IF os[seen[r]] = "zombie" THEN [os EXCEPT ![seen[r]] = "gone"] ELSE os
  /\ Terminated(r, comp[r])
  /\ UNCHANGED <<service, handle, launched, errs, healthless>>

(* Mutant: the process is not killed.                                      *)
GraceEndsInVain(r) ==
  /\ Runs /\ pc[r] = "grace" /\ Moves(r, "kill", seen[r], 0)
  /\ UNCHANGED <<service, state, pend, comp, closed, handle, launched, os, errs, healthless>>

GraceEnds(r) ==
  /\ Runs /\ pc[r] = "grace" /\ Moves(r, "kill", seen[r], 0)
  /\ os' = Killed(seen[r])
  /\ UNCHANGED <<service, state, pend, comp, closed, handle, launched, errs, healthless>>

(* Not dead 5 seconds after SIGKILL: an error, retried without a channel.  *)
GivesUp(r) ==
  /\ Runs /\ Faults /\ pc[r] = "kill" /\ os[seen[r]] = "killed"
  /\ Ends(r) /\ comp' = [comp EXCEPT ![r] = NoOne]
  /\ UNCHANGED <<service, state, pend, closed, handle, launched, os, errs, healthless>>

SyncTerminatedProcess(r) ==
  /\ Runs /\ pc[r] = "idle" /\ state[r] = "terminated"
  /\ handle' = [handle EXCEPT ![SID(r)] = 0]
  /\ state' = [state EXCEPT ![r] = "finished"]
  /\ UNCHANGED <<service, pend, pc, seen, made, comp, closed, launched, os, errs, healthless>>

-----------------------------------------------------------------------------
(* The operating system, and what else kills processes.                    *)

BecomesHealthy(n) ==
  /\ os[n] = "booting" /\ os' = [os EXCEPT ![n] = "ok"]
  /\ UNCHANGED <<service, worker, handle, launched, errs, healthless>>

GoesBad(n) ==
  /\ Faults /\ n \in Alive /\ os[n] # "bad" /\ os' = [os EXCEPT ![n] = "bad"]
  /\ UNCHANGED <<service, worker, handle, launched, errs, healthless>>

(* A process ends: by itself, on SIGTERM, or killed.                       *)
Dies(n) ==
  /\ os[n] = "killed" \/ (n \in Alive /\ (Faults \/ n \in waited))
  /\ os' = [os EXCEPT ![n] = IF n \in waited THEN "gone" ELSE "zombie"]
  /\ UNCHANGED <<service, worker, handle, launched, errs, healthless>>

(* exec.CommandContext kills the process when its context is done.         *)
CtxKills(n) ==
  /\ Runs /\ n \in doomed /\ n \in Alive
  /\ os' = Killed(n)
  /\ UNCHANGED <<service, worker, handle, launched, errs, healthless>>

(* detectAndCleanup: pattern processes whose PID the service does not have *)
(* when it looks are asked to end, and killed, one after another.          *)
TrackedPIDs          == {info[r].pid : r \in {q \in Reqs : info[q].on}}
FindPatternProcesses == Alive

DetectAndCleanup ==
  /\ Runs /\ conf.detector /\ orphans = {}
  /\ orphans' = FindPatternProcesses \ TrackedPIDs
  /\ UNCHANGED <<service, worker, handle, launches, by, doomed, waited, os, errs, healthless>>

TerminateOrphan(n) ==
  /\ Runs /\ n \in orphans
  /\ orphans' = orphans \ {n}
  /\ os' = Killed(n)
  /\ UNCHANGED <<service, worker, handle, launches, by, doomed, waited, errs, healthless>>

-----------------------------------------------------------------------------
(* The program: a signal ends the server, which finishes its calls; then   *)
(* the managers shut down, and the program ends when their workers have,   *)
(* or when the time for that is over.                                      *)

Signal ==
  /\ phase = "up" /\ conf.stops /\ phase' = "stopping"
  /\ UNCHANGED <<conf, call, calls, im, info, worker, handle, launched, os, errs, healthless>>

Shutdown ==
  /\ phase = "stopping" /\ \A c \in Clients : At(c, "")
  /\ phase' = "down"
  /\ state' = [r \in Reqs |->
                 IF state[r] \in {"starting", "syncing"} THEN "terminating" ELSE state[r]]
  /\ doomed' = 1 .. launches
  /\ pend' = [r \in Reqs |-> NoOne]
  /\ UNCHANGED <<conf, call, calls, im, info, pc, seen, made, comp, closed, handle, launches,
                 by, waited, orphans, os, errs, healthless>>

Exit ==
  /\ phase = "down" /\ phase' = "exited"
  /\ UNCHANGED <<conf, call, calls, im, info, worker, handle, launched, os, errs, healthless>>

Worker(r) ==
  \/ SyncProcess(r) \/ LaunchProcess(r) \/ WaitForHealthy(r)
  \/ SyncTerminatingProcess(r) \/ Exits(r) \/ GraceEnds(r) \/ GivesUp(r)
  \/ SyncTerminatedProcess(r)

Caller(c) ==
  \/ LaunchWaits(c) \/ LaunchStores(c) \/ LaunchReplies(c)
  \/ TerminateWaits(c) \/ TerminateUntracks(c)

Next ==
  \/ \E c \in Clients : \/ Caller(c)
                        \/ \E r \in Reqs : LaunchPattern(c, r) \/ TerminatePattern(c, r)
  \/ \E r \in Reqs : Worker(r)
  \/ \E n \in 1 .. launches : \/ BecomesHealthy(n) \/ GoesBad(n) \/ Dies(n)
                              \/ CtxKills(n) \/ TerminateOrphan(n)
  \/ DetectAndCleanup \/ Signal \/ Shutdown \/ Exit

Spec == Init /\ [][Next]_vars

(* Workers run, and a killed process dies in the end.                      *)
Fairness ==
  /\ \A r \in UNION {s.requests : s \in Setups} : WF_vars(r \in Reqs /\ Worker(r))
  /\ WF_vars(\E n \in 1 .. launches : os[n] = "killed" /\ Dies(n))

-----------------------------------------------------------------------------
(* Each syncer id has one process id, the case of a launcher whose         *)
(* requests all use the default isolation level.                           *)
OneLevel == \A r, q \in Reqs : SID(r) = SID(q) => r = q

(* No process runs beside its successor, or after its termination: of the  *)
(* processes started for an id only the one its handle names may run, any  *)
(* other has ended or was killed, and none runs once the id is terminated, *)
(* which is what TerminatePattern answers.  Restarts come after a kill,    *)
(* failed launches are killed, and the exit is waited for.                 *)
NoStrayProcess ==
  OneLevel => \A n \in Alive :
    handle[SID(by[n])] = n /\ state[by[n]] \notin {"terminated", "finished"}

(* The circuit breaker: a pattern that never gets healthy is launched at   *)
(* most 3 times, since each launch costs it two errors of the 5 allowed,   *)
(* one after the launch and one at the next check.                         *)
BreakerTrips ==
  OneLevel => \A s \in SIDs : 2 * (healthless[s] - 1) < MaxErrors

(* Processes that are to terminate come to their end and are cleaned up,    *)
(* whether they obey SIGTERM, have to be killed, or outlive the kill for a  *)
(* while, unless the program itself ends first.                             *)
TerminationFinishes ==
  (\E r \in Reqs : state[r] \in {"terminating", "terminated"})
    ~> (~Runs \/ \A r \in Reqs : state[r] \notin {"terminating", "terminated"})

=============================================================================
