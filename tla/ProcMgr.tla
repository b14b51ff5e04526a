------------------------------ MODULE ProcMgr ------------------------------
(***************************************************************************)
(* The process manager of pkg/procmgr (manager.go, types.go).              *)
(*                                                                         *)
(* A managed process is known to the manager by an id.  The first update   *)
(* for an unknown id allocates a processStatus, a signal channel of        *)
(* capacity one and a worker goroutine.  The three are allocated together, *)
(* and SyncKnownProcesses forgets the first two together, so the model     *)
(* allocates one numbered object for all three.  A worker keeps the id it  *)
(* was started for and the channel it reads: after its status has been     *)
(* forgotten it still runs, and it finds whatever status its id has NOW.   *)
(*                                                                         *)
(* The manager's mutex protects short sections.  Each section is one       *)
(* action; the code between two sections (the calls of the syncer, the     *)
(* signals sent after an unlock) is where the interleavings are.           *)
(***************************************************************************)
EXTENDS Integers, FiniteSets

CONSTANTS Procs,        \* process ids
          MaxObjects,   \* bound: statuses ever allocated
          MaxUpdates,   \* bound: calls of UpdateProcess by clients
          GraceReqs,    \* grace periods a termination request may carry
          DefaultGrace, \* the 10 seconds of handleTerminationRequest
          Channels,     \* may a termination request carry a completion channel
          Reconciles,   \* does anyone call SyncKnownProcesses
          ShutsDown     \* does anyone call Shutdown

ASSUME ConstantsAssumption ==
  /\ MaxObjects \in Nat \ {0}
  /\ MaxUpdates \in Nat
  /\ GraceReqs \subseteq Nat
  /\ DefaultGrace \in Nat \ {0}
  /\ Channels \subseteq BOOLEAN
  /\ Reconciles \in BOOLEAN
  /\ ShutsDown \in BOOLEAN

VARIABLES cur,     \* processStatuses, processUpdates: id -> object, 0 when absent
          made,    \* how many objects have been allocated
          owner,   \* the id an object's worker was started for
          st,      \* object -> processStatus
          sig,     \* object -> is there a signal in its channel
          wpc,     \* object -> where its worker goroutine stands
          won,     \* object -> the object its worker's pointers refer to
          wupd,    \* object -> the worker's copy of the active update
          queue,   \* ids in the work queue
          cons,    \* the work queue consumer goroutine
          down,    \* progress of Shutdown
          toStop,  \* ids Shutdown has still to send a termination request
          asked,   \* object -> Config version of the last update it accepted
          nver,    \* calls of UpdateProcess by clients so far
          closed   \* completion channels that have been closed

vars == <<cur, made, owner, st, sig, wpc, won, wupd, queue, cons,
          down, toStop, asked, nver, closed>>

Objects == 1..MaxObjects

NoGrace == -1
NoProc == "none"

ASSUME NoProcAssumption == NoProc \notin Procs

(* An update: its type, the version of the Config it carries (0: nil) and  *)
(* its completion channel (0: none).                                       *)
Update == [kind : {"apply", "sync", "terminate"},
           cfg : 0..MaxUpdates, done : 0..MaxUpdates]

NoUpdate == [kind |-> "none", cfg |-> 0, done |-> 0]

SyncUpdate(cfg) == [kind |-> "sync", cfg |-> cfg, done |-> 0]

(* processStatus: the timestamps are kept as whether they are set.         *)
Status == [synced : BOOLEAN, terminating : BOOLEAN, terminated : BOOLEAN,
           finished : BOOLEAN, working : BOOLEAN,
           pending : Update \cup {NoUpdate}, active : Update \cup {NoUpdate},
           grace : Nat, ctx : {"nil", "live", "cancelled"}]

NewStatus == [synced |-> FALSE, terminating |-> FALSE, terminated |-> FALSE,
              finished |-> FALSE, working |-> FALSE,
              pending |-> NoUpdate, active |-> NoUpdate,
              grace |-> 0, ctx |-> "nil"]

State(s) == IF s.finished THEN "Finished"
            ELSE IF s.terminated THEN "Terminated"
            ELSE IF s.terminating THEN "Terminating"
            ELSE IF s.synced THEN "Syncing"
            ELSE "Starting"

ShuttingDown == down # "up"

(* The process contexts are children of shutdownCtx.                       *)
CtxDone(s) == s.ctx = "cancelled" \/ (s.ctx = "live" /\ ShuttingDown)

WorkerPC == {"unborn", "idle", "decide", "syncing", "terminating",
             "terminated", "complete", "signal", "exited"}

TypeOK ==
  /\ cur \in [Procs -> 0..MaxObjects]
  /\ made \in 0..MaxObjects
  /\ owner \in [Objects -> Procs \cup {NoProc}]
  /\ st \in [Objects -> Status]
  /\ sig \in [Objects -> BOOLEAN]
  /\ wpc \in [Objects -> WorkerPC]
  /\ won \in [Objects -> Objects]
  /\ wupd \in [Objects -> Update \cup {NoUpdate}]
  /\ queue \subseteq Procs
  /\ cons \in [pc : {"wait", "lookup", "signal", "exited"},
               id : Procs \cup {NoProc}, obj : Objects]
  /\ down \in {"up", "cancelled", "sending", "stopped", "timeout"}
  /\ toStop \subseteq Procs
  /\ asked \in [Objects -> 0..MaxUpdates]
  /\ nver \in 0..MaxUpdates
  /\ closed \subseteq 1..MaxUpdates

Init ==
  /\ cur = [p \in Procs |-> 0]
  /\ made = 0
  /\ owner = [o \in Objects |-> NoProc]
  /\ st = [o \in Objects |-> NewStatus]
  /\ sig = [o \in Objects |-> FALSE]
  /\ wpc = [o \in Objects |-> "unborn"]
  /\ won = [o \in Objects |-> 1]
  /\ wupd = [o \in Objects |-> NoUpdate]
  /\ queue = {}
  /\ cons = [pc |-> "wait", id |-> NoProc, obj |-> 1]
  /\ down = "up"
  /\ toStop = {}
  /\ asked = [o \in Objects |-> 0]
  /\ nver = 0
  /\ closed = {}

-----------------------------------------------------------------------------
(* Client calls *)

GraceAfter(grace, g) ==
  IF g = NoGrace THEN (IF grace = 0 THEN DefaultGrace ELSE grace)
  ELSE IF grace = 0 \/ g < grace THEN g
  ELSE grace

(* Mutant: the context is not cancelled.                                   *)
TerminateWithoutCancel(s, g) ==
  [s EXCEPT !.terminating = TRUE, !.grace = GraceAfter(s.grace, g)]

(* Both cancellations of the code run only when the status was not yet     *)
(* terminating, and the second one always runs then.                       *)
HandleTerminationRequest(s, g) ==
  [s EXCEPT !.terminating = TRUE,
            !.grace = GraceAfter(s.grace, g),
            !.ctx = IF ~s.terminating /\ s.ctx = "live" THEN "cancelled"
                    ELSE s.ctx]

(* UpdateProcess on a known id: an update of a finished process is dropped. *)
Resubmit(p, u, g) ==
  LET o == cur[p]
      s == IF u.kind = "terminate" THEN HandleTerminationRequest(st[o], g)
           ELSE st[o]
  IN /\ cur[p] # 0
     /\ IF st[o].finished
        THEN UNCHANGED <<st, sig, asked>>
        ELSE /\ st' = [st EXCEPT ![o] = [s EXCEPT !.pending = u]]
             /\ sig' = [sig EXCEPT ![o] = TRUE]
             /\ asked' = [asked EXCEPT ![o] = u.cfg]
     /\ UNCHANGED <<cur, made, owner, wpc>>

(* UpdateProcess on an unknown id: allocate, start the worker, signal it.  *)
Submit(p, u, g) ==
  LET o == made + 1
      s == IF u.kind = "terminate" THEN HandleTerminationRequest(NewStatus, g)
           ELSE NewStatus
  IN /\ cur[p] = 0
     /\ made < MaxObjects
     /\ made' = o
     /\ cur' = [cur EXCEPT ![p] = o]
     /\ owner' = [owner EXCEPT ![o] = p]
     /\ st' = [st EXCEPT ![o] = [s EXCEPT !.pending = u]]
     /\ sig' = [sig EXCEPT ![o] = TRUE]
     /\ wpc' = [wpc EXCEPT ![o] = "idle"]
     /\ asked' = [asked EXCEPT ![o] = u.cfg]

UpdateProcess(p, u, g) == Resubmit(p, u, g) \/ Submit(p, u, g)

(* Every client call carries a new version of the process's Config.        *)
ClientApply(p) ==
  /\ nver < MaxUpdates
  /\ nver' = nver + 1
  /\ UpdateProcess(p, [kind |-> "apply", cfg |-> nver + 1, done |-> 0], NoGrace)
  /\ UNCHANGED <<won, wupd, queue, cons, down, toStop, closed>>

ClientTerminate(p, g, withChannel) ==
  /\ nver < MaxUpdates
  /\ nver' = nver + 1
  /\ UpdateProcess(p, [kind |-> "terminate", cfg |-> nver + 1,
                       done |-> IF withChannel THEN nver + 1 ELSE 0], g)
  /\ UNCHANGED <<won, wupd, queue, cons, down, toStop, closed>>

(* SyncKnownProcesses: finished orphans are forgotten, the other orphans   *)
(* start terminating; no worker is signalled.                              *)
SyncKnownProcesses(desired) ==
  LET orphans == {p \in Procs \ desired : cur[p] # 0}
      gone == {p \in orphans : st[cur[p]].finished}
      stopping == {cur[p] : p \in {q \in orphans \ gone :
                                     ~st[cur[q]].terminating}}
  IN /\ Reconciles
     /\ orphans # {}
     /\ cur' = [p \in Procs |-> IF p \in gone THEN 0 ELSE cur[p]]
     /\ st' = [o \in Objects |->
                 IF o \in stopping THEN HandleTerminationRequest(st[o], NoGrace)
                 ELSE st[o]]
     /\ UNCHANGED <<made, owner, sig, wpc, won, wupd, queue, cons, down,
                    toStop, asked, nver, closed>>

-----------------------------------------------------------------------------
(* A worker goroutine: processWorkerLoop and processUpdate *)

ReceiveSignal(o) ==
  /\ wpc[o] = "idle"
  /\ sig[o]
  /\ sig' = [sig EXCEPT ![o] = FALSE]

(* The id is unknown or finished: the worker exits.                        *)
WorkerExits(o) ==
  LET c == cur[owner[o]]
  IN /\ ReceiveSignal(o)
     /\ c # 0 => st[c].finished
     /\ wpc' = [wpc EXCEPT ![o] = "exited"]
     /\ UNCHANGED <<cur, made, owner, st, won, wupd, queue, cons, down,
                    toStop, asked, nver, closed>>

(* Another update is in progress, or there is none to do.                  *)
WorkerSkips(o) ==
  LET c == cur[owner[o]]
  IN /\ ReceiveSignal(o)
     /\ c # 0
     /\ ~st[c].finished
     /\ st[c].working \/ st[c].pending = NoUpdate
     /\ UNCHANGED <<cur, made, owner, st, wpc, won, wupd, queue, cons, down,
                    toStop, asked, nver, closed>>

(* The locked part of processUpdate, with the dispatch of executeSync.     *)
WorkerTakes(o) ==
  LET c == cur[owner[o]]
      s == st[c]
  IN /\ ReceiveSignal(o)
     /\ c # 0
     /\ ~s.finished /\ ~s.working /\ s.pending # NoUpdate
     /\ st' = [st EXCEPT ![c] =
                 [s EXCEPT !.active = s.pending, !.pending = NoUpdate,
                           !.working = TRUE,
                           !.ctx = IF s.ctx = "nil" \/ CtxDone(s) THEN "live"
                                   ELSE s.ctx]]
     /\ won' = [won EXCEPT ![o] = c]
     /\ wupd' = [wupd EXCEPT ![o] = s.pending]
     /\ wpc' = [wpc EXCEPT ![o] =
                  IF s.terminated THEN "terminated"
                  ELSE IF s.terminating THEN "terminating"
                  ELSE "decide"]
     /\ UNCHANGED <<cur, made, owner, queue, cons, down, toStop, asked, nver, closed>>

(* Mutant: executeSync trusts the state it was given.                      *)
WorkerDecidesBlindly(o) ==
  /\ wpc[o] = "decide"
  /\ wpc' = [wpc EXCEPT ![o] = "syncing"]
  /\ UNCHANGED <<cur, made, owner, st, sig, won, wupd, queue, cons, down,
                 toStop, asked, nver, closed>>

(* executeSync looks at the status again before a normal sync.             *)
WorkerDecides(o) ==
  /\ wpc[o] = "decide"
  /\ wpc' = [wpc EXCEPT ![o] =
               IF st[won[o]].terminating THEN "terminating" ELSE "syncing"]
  /\ UNCHANGED <<cur, made, owner, st, sig, won, wupd, queue, cons, down,
                 toStop, asked, nver, closed>>

(* Mutant: the terminating mark is assigned rather than added.             *)
SyncReturnsOverwrites(o, terminal, ok) ==
  LET s == st[won[o]]
  IN /\ wpc[o] = "syncing"
     /\ st' = [st EXCEPT ![won[o]] =
                 [s EXCEPT !.synced = s.synced \/ ok, !.terminating = terminal]]
     /\ wpc' = [wpc EXCEPT ![o] = "complete"]
     /\ UNCHANGED <<cur, made, owner, sig, won, wupd, queue, cons, down, toStop,
                    asked, nver, closed>>

(* SyncProcess returns (terminal, err).                                    *)
SyncReturns(o, terminal, ok) ==
  LET s == st[won[o]]
  IN /\ wpc[o] = "syncing"
     /\ st' = [st EXCEPT ![won[o]] =
                 [s EXCEPT !.synced = s.synced \/ ok,
                           !.terminating = s.terminating \/ terminal,
                           !.grace = IF terminal THEN GraceAfter(s.grace, NoGrace)
                                     ELSE s.grace]]
     /\ wpc' = [wpc EXCEPT ![o] = "complete"]
     /\ UNCHANGED <<cur, made, owner, sig, won, wupd, queue, cons, down, toStop,
                    asked, nver, closed>>

(* SyncTerminatingProcess returns.  On success the status is terminated,   *)
(* the completion channel OF THIS UPDATE is closed and whatever update was *)
(* pending is replaced by the one that triggers the terminated phase.      *)
TerminatingReturns(o, ok) ==
  /\ wpc[o] = "terminating"
  /\ IF ok
     THEN /\ st' = [st EXCEPT ![won[o]] =
                      [@ EXCEPT !.terminated = TRUE,
                                !.pending = SyncUpdate(wupd[o].cfg)]]
          /\ closed' = closed \cup ({wupd[o].done} \ {0})
     ELSE UNCHANGED <<st, closed>>
  /\ wpc' = [wpc EXCEPT ![o] = "complete"]
  /\ UNCHANGED <<cur, made, owner, sig, won, wupd, queue, cons, down, toStop,
                 asked, nver>>

(* SyncTerminatedProcess returns.                                          *)
TerminatedReturns(o, ok) ==
  /\ wpc[o] = "terminated"
  /\ IF ok THEN st' = [st EXCEPT ![won[o]].finished = TRUE] ELSE UNCHANGED st
  /\ wpc' = [wpc EXCEPT ![o] = "complete"]
  /\ UNCHANGED <<cur, made, owner, sig, won, wupd, queue, cons, down, toStop,
                 asked, nver, closed>>

(* Mutant: an update that arrived meanwhile is left to the work queue.     *)
CompleteWorkSilently(o) ==
  LET p == owner[o]
      c == cur[p]
  IN /\ wpc[o] = "complete"
     /\ IF c # 0 THEN st' = [st EXCEPT ![c].working = FALSE] ELSE UNCHANGED st
     /\ queue' = IF c # 0 /\ ~st[c].finished THEN queue \cup {p} ELSE queue
     /\ wpc' = [wpc EXCEPT ![o] = "idle"]
     /\ UNCHANGED <<cur, made, owner, sig, won, wupd, cons, down, toStop, asked,
                    nver, closed>>

(* Mutant: a process with an update to do is not queued as well.           *)
CompleteWorkWithoutRequeue(o) ==
  LET p == owner[o]
      c == cur[p]
      signal == c # 0 /\ st[c].pending # NoUpdate
  IN /\ wpc[o] = "complete"
     /\ IF c # 0 THEN st' = [st EXCEPT ![c].working = FALSE] ELSE UNCHANGED st
     /\ wpc' = [wpc EXCEPT ![o] = IF signal THEN "signal" ELSE "idle"]
     /\ won' = IF signal THEN [won EXCEPT ![o] = c] ELSE won
     /\ UNCHANGED <<cur, made, owner, sig, wupd, queue, cons, down, toStop,
                    asked, nver, closed>>

(* completeWork looks the id up again: the status it finds need not be the *)
(* one the worker has been working on.                                     *)
CompleteWork(o) ==
  LET p == owner[o]
      c == cur[p]
      requeue == c # 0 /\ ~st[c].finished
      signal == requeue /\ st[c].pending # NoUpdate
  IN /\ wpc[o] = "complete"
     /\ IF c # 0 THEN st' = [st EXCEPT ![c].working = FALSE] ELSE UNCHANGED st
     /\ queue' = IF requeue THEN queue \cup {p} ELSE queue
     /\ wpc' = [wpc EXCEPT ![o] = IF signal THEN "signal" ELSE "idle"]
     /\ won' = IF signal THEN [won EXCEPT ![o] = c] ELSE won
     /\ UNCHANGED <<cur, made, owner, sig, wupd, cons, down, toStop, asked, nver,
                    closed>>

(* The signal completeWork sends after its unlock.                         *)
WorkerSignals(o) ==
  /\ wpc[o] = "signal"
  /\ sig' = [sig EXCEPT ![won[o]] = TRUE]
  /\ wpc' = [wpc EXCEPT ![o] = "idle"]
  /\ UNCHANGED <<cur, made, owner, st, won, wupd, queue, cons, down, toStop,
                 asked, nver, closed>>

(* Mutant: the worker of a process that still needs it does not stop.      *)
WorkerStopsWhenFinished(o) ==
  /\ wpc[o] = "idle"
  /\ ShuttingDown
  /\ st[o].finished
  /\ wpc' = [wpc EXCEPT ![o] = "exited"]
  /\ UNCHANGED <<cur, made, owner, st, sig, won, wupd, queue, cons, down,
                 toStop, asked, nver, closed>>

WorkerStops(o) ==
  /\ wpc[o] = "idle"
  /\ ShuttingDown
  /\ wpc' = [wpc EXCEPT ![o] = "exited"]
  /\ UNCHANGED <<cur, made, owner, st, sig, won, wupd, queue, cons, down,
                 toStop, asked, nver, closed>>

-----------------------------------------------------------------------------
(* The work queue consumer goroutine.  When an item becomes ready is left  *)
(* open: any queued id may be the next one Dequeue returns.                *)

ConsumerDequeues(p) ==
  /\ cons.pc = "wait"
  /\ p \in queue
  /\ queue' = queue \ {p}
  /\ cons' = [cons EXCEPT !.pc = "lookup", !.id = p]
  /\ UNCHANGED <<cur, made, owner, st, sig, wpc, won, wupd, down, toStop,
                 asked, nver, closed>>

(* Mutant: the consumer replaces an update that is already pending.        *)
ConsumerOverwrites ==
  LET c == cur[cons.id]
  IN /\ cons.pc = "lookup"
     /\ IF c = 0
        THEN /\ cons' = [cons EXCEPT !.pc = "wait"]
             /\ UNCHANGED st
        ELSE /\ cons' = [cons EXCEPT !.pc = "signal", !.obj = c]
             /\ st' = [st EXCEPT ![c].pending = SyncUpdate(st[c].active.cfg)]
     /\ UNCHANGED <<cur, made, owner, sig, wpc, won, wupd, queue, down, toStop,
                    asked, nver, closed>>

(* Without a pending update the consumer makes one from the active Config. *)
ConsumerLooksUp ==
  LET c == cur[cons.id]
  IN /\ cons.pc = "lookup"
     /\ IF c = 0
        THEN /\ cons' = [cons EXCEPT !.pc = "wait"]
             /\ UNCHANGED st
        ELSE /\ cons' = [cons EXCEPT !.pc = "signal", !.obj = c]
             /\ IF st[c].pending = NoUpdate
                THEN st' = [st EXCEPT ![c].pending = SyncUpdate(st[c].active.cfg)]
                ELSE UNCHANGED st
     /\ UNCHANGED <<cur, made, owner, sig, wpc, won, wupd, queue, down, toStop,
                    asked, nver, closed>>

ConsumerSignals ==
  /\ cons.pc = "signal"
  /\ sig' = [sig EXCEPT ![cons.obj] = TRUE]
  /\ cons' = [cons EXCEPT !.pc = "wait"]
  /\ UNCHANGED <<cur, made, owner, st, wpc, won, wupd, queue, down, toStop,
                 asked, nver, closed>>

ConsumerStops ==
  /\ cons.pc = "wait"
  /\ ShuttingDown
  /\ cons' = [cons EXCEPT !.pc = "exited"]
  /\ UNCHANGED <<cur, made, owner, st, sig, wpc, won, wupd, queue, down,
                 toStop, asked, nver, closed>>

-----------------------------------------------------------------------------
(* Shutdown: cancel, list the processes, send each a termination request,  *)
(* wait for every goroutine or for the caller's deadline.                  *)

ShutdownCancels ==
  /\ ShutsDown
  /\ down = "up"
  /\ down' = "cancelled"
  /\ UNCHANGED <<cur, made, owner, st, sig, wpc, won, wupd, queue, cons,
                 toStop, asked, nver, closed>>

ShutdownLists ==
  /\ down = "cancelled"
  /\ down' = "sending"
  /\ toStop' = {p \in Procs : cur[p] # 0}
  /\ UNCHANGED <<cur, made, owner, st, sig, wpc, won, wupd, queue, cons,
                 asked, nver, closed>>

ShutdownTerminates(p) ==
  /\ down = "sending"
  /\ p \in toStop
  /\ toStop' = toStop \ {p}
  /\ UpdateProcess(p, [kind |-> "terminate", cfg |-> 0, done |-> 0], NoGrace)
  /\ UNCHANGED <<won, wupd, queue, cons, down, nver, closed>>

(* wg.Wait returns: Shutdown returns nil.                                  *)
ShutdownReturns ==
  /\ down = "sending"
  /\ toStop = {}
  /\ cons.pc = "exited"
  /\ \A o \in Objects : wpc[o] \in {"unborn", "exited"}
  /\ down' = "stopped"
  /\ UNCHANGED <<cur, made, owner, st, sig, wpc, won, wupd, queue, cons,
                 toStop, asked, nver, closed>>

(* The context given to Shutdown ends first: Shutdown returns its error.   *)
ShutdownTimesOut ==
  /\ down = "sending"
  /\ toStop = {}
  /\ down' = "timeout"
  /\ UNCHANGED <<cur, made, owner, st, sig, wpc, won, wupd, queue, cons,
                 toStop, asked, nver, closed>>

-----------------------------------------------------------------------------
Client ==
  \/ \E p \in Procs : ClientApply(p)
  \/ \E p \in Procs, g \in GraceReqs \cup {NoGrace}, ch \in Channels :
        ClientTerminate(p, g, ch)
  \/ \E desired \in SUBSET Procs : SyncKnownProcesses(desired)

SyncerReturns(o) ==
  \/ \E terminal, ok \in BOOLEAN : SyncReturns(o, terminal, ok)
  \/ \E ok \in BOOLEAN : TerminatingReturns(o, ok)
  \/ \E ok \in BOOLEAN : TerminatedReturns(o, ok)

Worker(o) ==
  \/ WorkerExits(o)
  \/ WorkerSkips(o)
  \/ WorkerTakes(o)
  \/ WorkerDecides(o)
  \/ SyncerReturns(o)
  \/ CompleteWork(o)
  \/ WorkerSignals(o)
  \/ WorkerStops(o)

Consumer ==
  \/ \E p \in Procs : ConsumerDequeues(p)
  \/ ConsumerLooksUp
  \/ ConsumerSignals
  \/ ConsumerStops

Shutdown ==
  \/ ShutdownCancels
  \/ ShutdownLists
  \/ \E p \in Procs : ShutdownTerminates(p)
  \/ ShutdownReturns
  \/ ShutdownTimesOut

Next ==
  \/ Client
  \/ \E o \in Objects : Worker(o)
  \/ Consumer
  \/ Shutdown

Spec == Init /\ [][Next]_vars

(* Goroutines keep running, every queued item becomes ready, a call of the *)
(* syncer returns, and a syncer that is retried for ever succeeds in the   *)
(* end.  A select statement picks among its ready cases at random, so a    *)
(* goroutine that selects again and again notices the shutdown.  Nothing   *)
(* is assumed of the clients.                                              *)
Fairness ==
  /\ \A o \in Objects :
       /\ WF_vars(Worker(o))
       /\ SF_vars(TerminatingReturns(o, TRUE))
       /\ SF_vars(TerminatedReturns(o, TRUE))
       /\ SF_vars(WorkerStops(o))
  /\ WF_vars(ConsumerLooksUp \/ ConsumerSignals)
  /\ SF_vars(ConsumerStops)
  /\ \A p \in Procs : SF_vars(ConsumerDequeues(p))

FairSpec == Spec /\ Fairness

-----------------------------------------------------------------------------
(* Properties *)

(* The phases between the lock of processUpdate and the lock of            *)
(* completeWork.                                                           *)
Busy(o) == wpc[o] \in {"decide", "syncing", "terminating", "terminated", "complete"}

(* A syncer call for the process is in flight.                             *)
Calling(o) == wpc[o] \in {"syncing", "terminating", "terminated"}

(* Someone will send, or has sent, the signal that makes a worker look at  *)
(* the pending update of object c of process p.                            *)
SignalDue(p, c) ==
  \/ sig[c]
  \/ cons.pc = "signal" /\ cons.obj = c
  \/ \E o \in Objects : owner[o] = p /\ (Busy(o) \/ (wpc[o] = "signal" /\ won[o] = c))

(* The lifecycle of ProcLifecycle, as the status the id maps to shows it.  *)
Phase == [p \in Procs |-> IF cur[p] = 0 THEN "Absent" ELSE State(st[cur[p]])]

Lifecycle == INSTANCE ProcLifecycle WITH phase <- Phase

(* The phases of a process only move forward, whoever moves them, and the  *)
(* only way back is that SyncKnownProcesses forgets it: ProcMgr implements *)
(* ProcLifecycle ("State machine with immutable transitions").             *)
OneWayLifecycle == Lifecycle!Spec

(* No process is forgotten.  While the manager is up, a process that is    *)
(* not finished has a worker, and either an update is pending and its      *)
(* worker will be signalled, or an update is being worked on, or the work  *)
(* queue will bring it up again.  The one-slot channels, the dropped       *)
(* signals and the working flag never lose the last wake-up.               *)
NoProcessForgotten ==
  \A p \in Procs :
    LET c == cur[p]
    IN (c # 0 /\ ~ShuttingDown) =>
         st[c].finished \/
         /\ wpc[c] # "exited"
         /\ st[c].pending # NoUpdate => SignalDue(p, c)
         /\ st[c].pending = NoUpdate =>
              \/ p \in queue
              \/ cons.pc = "lookup" /\ cons.id = p
              \/ \E o \in Objects : owner[o] = p /\ Busy(o)

(* The process of o was never forgotten and created again, so that o's     *)
(* worker is the only one it has.                                          *)
OnlyWorker(o) == \A other \in Objects : owner[other] = owner[o] => other = o

(* A normal sync that is still running when its process is told to stop    *)
(* has had its context cancelled ("Cancel context to interrupt             *)
(* long-running sync"), unless a second worker of a process created again  *)
(* gave it a new context.                                                  *)
StopInterruptsSync ==
  \A o \in Objects :
    (wpc[o] = "syncing" /\ st[won[o]].terminating /\ OnlyWorker(o))
      => CtxDone(st[won[o]])

(* "Once terminating, cannot return to sync": no normal sync begins on a   *)
(* status that has been told to stop, whenever the request came.           *)
OnceStoppingNeverSynced ==
  [][\A o \in Objects : (wpc[o] # "syncing" /\ wpc'[o] = "syncing")
        => ~st[won'[o]].terminating]_vars

(* "Pending + active update model (prevents lost updates)": until it is    *)
(* terminated, the Config a status accepted last is the one pending or,    *)
(* when nothing is pending, the one last worked on.                        *)
NoUpdateLost ==
  \A p \in Procs :
    cur[p] # 0 =>
      LET s == st[cur[p]]
      IN ~s.terminated =>
           asked[cur[p]] = (IF s.pending # NoUpdate THEN s.pending ELSE s.active).cfg

(* At most one syncer call per process is in flight: the process has one   *)
(* worker goroutine and the working flag guards it.                        *)
OneCallPerProcess ==
  \A o1, o2 \in Objects :
    (o1 # o2 /\ Calling(o1) /\ Calling(o2)) => owner[o1] # owner[o2]

(* A process that has been told to stop is finished in the end, or the     *)
(* manager is shut down first.                                             *)
TerminationCompletes ==
  \A o \in Objects :
    st[o].terminating ~> (st[o].finished \/ ShuttingDown)

(* After a shutdown every goroutine of the manager ends, even those that   *)
(* updates arriving late have started.                                     *)
Drained == /\ cons.pc = "exited"
           /\ \A o \in Objects : wpc[o] \in {"unborn", "exited"}

ShutdownDrains == ShuttingDown ~> []Drained
=============================================================================
