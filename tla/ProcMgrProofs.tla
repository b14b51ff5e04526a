--------------------------- MODULE ProcMgrProofs ---------------------------
(***************************************************************************)
(* Proofs about ProcMgr, for any set of processes and any bounds.          *)
(***************************************************************************)
EXTENDS ProcMgr, TLAPS

(* What the type invariant needs to be inductive: a running worker knows a *)
(* process, the consumer looks up a process it took from the queue, and    *)
(* the ids map to allocated objects.                                       *)
WellFormed ==
  /\ \A o \in Objects : wpc[o] # "unborn" => owner[o] \in Procs
  /\ cons.pc = "lookup" => cons.id \in Procs
  /\ \A p \in Procs : cur[p] <= made

TypeInv == TypeOK /\ WellFormed

(* The updates are well typed, and no update is the empty one.             *)
LEMMA UpdateFacts ==
  /\ NoUpdate \notin Update
  /\ \A u \in Update \cup {NoUpdate} : u.cfg \in 0..MaxUpdates /\ u.done \in 0..MaxUpdates
  /\ \A c \in 0..MaxUpdates : SyncUpdate(c) \in Update
BY ConstantsAssumption DEF Update, NoUpdate, SyncUpdate

(* The grace period a termination request leaves is a number.              *)
LEMMA GraceAfterType ==
  ASSUME NEW grace \in Nat, NEW g \in GraceReqs \cup {NoGrace}
  PROVE  GraceAfter(grace, g) \in Nat
BY ConstantsAssumption DEF GraceAfter, NoGrace

(* A termination request changes only the mark, the grace period and the   *)
(* context of a status.                                                    *)
LEMMA TerminationRequest ==
  ASSUME NEW s \in Status, NEW g \in GraceReqs \cup {NoGrace}
  PROVE  /\ HandleTerminationRequest(s, g) \in Status
         /\ HandleTerminationRequest(s, g).terminating
         /\ HandleTerminationRequest(s, g).terminated = s.terminated
         /\ HandleTerminationRequest(s, g).finished = s.finished
         /\ HandleTerminationRequest(s, g).synced = s.synced
         /\ HandleTerminationRequest(s, g).pending = s.pending
         /\ HandleTerminationRequest(s, g).active = s.active
<1>1. GraceAfter(s.grace, g) \in Nat
  BY GraceAfterType DEF Status
<1> QED
  BY <1>1, ZenonT(60) DEF HandleTerminationRequest, Status

(* A status that has just been allocated is well typed.                    *)
LEMMA NewStatusType == NewStatus \in Status
BY DEF NewStatus, Status

(* UpdateProcess keeps the types, on a known id and on an unknown one.     *)
LEMMA UpdateProcessType ==
  ASSUME TypeInv, NEW p \in Procs, NEW u \in Update,
         NEW g \in GraceReqs \cup {NoGrace}, UpdateProcess(p, u, g)
  PROVE  /\ cur' \in [Procs -> 0..MaxObjects]
         /\ made' \in 0..MaxObjects
         /\ owner' \in [Objects -> Procs \cup {NoProc}]
         /\ st' \in [Objects -> Status]
         /\ sig' \in [Objects -> BOOLEAN]
         /\ wpc' \in [Objects -> WorkerPC]
         /\ asked' \in [Objects -> 0..MaxUpdates]
         /\ \A o \in Objects : wpc'[o] # "unborn" => owner'[o] \in Procs
         /\ \A q \in Procs : cur'[q] <= made'
<1>1. u.cfg \in 0..MaxUpdates
  BY UpdateFacts
<1>2. CASE Resubmit(p, u, g)
  <2> DEFINE o == cur[p]
             s == IF u.kind = "terminate"
                  THEN HandleTerminationRequest(st[o], g) ELSE st[o]
  <2>1. o \in Objects
    BY <1>2, ConstantsAssumption DEF Resubmit, TypeInv, TypeOK, Objects
  <2>2. s \in Status
    BY <2>1, TerminationRequest DEF TypeInv, TypeOK
  <2>3. [s EXCEPT !.pending = u] \in Status
    BY <2>2 DEF Status
  <2>4. st' \in [Objects -> Status]
    BY <1>2, <2>1, <2>3 DEF Resubmit, TypeInv, TypeOK
  <2> QED
    BY <1>1, <1>2, <2>1, <2>4, ZenonT(60) DEF Resubmit, TypeInv, TypeOK, WellFormed
<1>3. CASE Submit(p, u, g)
  <2> DEFINE o == made + 1
             s == IF u.kind = "terminate"
                  THEN HandleTerminationRequest(NewStatus, g) ELSE NewStatus
  <2>1. o \in Objects
    BY <1>3, ConstantsAssumption, SMTT(60) DEF Submit, TypeInv, TypeOK, Objects
  <2>2. s \in Status
    BY NewStatusType, TerminationRequest
  <2>3. [s EXCEPT !.pending = u] \in Status
    BY <2>2 DEF Status
  <2>4. st' \in [Objects -> Status]
    BY <1>3, <2>1, <2>3 DEF Submit, TypeInv, TypeOK
  <2>5. /\ cur' \in [Procs -> 0..MaxObjects]
        /\ made' \in 0..MaxObjects
        /\ \A q \in Procs : cur'[q] <= made'
    BY <1>3, ConstantsAssumption DEF Submit, TypeInv, TypeOK, WellFormed
  <2>6. /\ owner' \in [Objects -> Procs \cup {NoProc}]
        /\ sig' \in [Objects -> BOOLEAN]
        /\ wpc' \in [Objects -> WorkerPC]
        /\ asked' \in [Objects -> 0..MaxUpdates]
    BY <1>1, <1>3, <2>1 DEF Submit, TypeInv, TypeOK, WorkerPC
  <2>7. \A x \in Objects : wpc'[x] # "unborn" => owner'[x] \in Procs
    BY <1>3, <2>1 DEF Submit, TypeInv, TypeOK, WellFormed
  <2> QED
    BY <2>4, <2>5, <2>6, <2>7
<1> QED
  BY <1>2, <1>3 DEF UpdateProcess

-----------------------------------------------------------------------------
(* A manager that has just been made is well typed.                        *)
LEMMA InitTypeInv == Init => TypeInv
BY NewStatusType, ConstantsAssumption
DEF Init, TypeInv, TypeOK, WellFormed, Objects, WorkerPC

(* A worker that has received a signal serves a known process.             *)
LEMMA WorkerLookup ==
  ASSUME TypeInv, NEW o \in Objects, wpc[o] # "unborn"
  PROVE  cur[owner[o]] \in 0..MaxObjects
BY DEF TypeInv, TypeOK, WellFormed

(* Every step keeps the types.                                             *)
LEMMA NextTypeInv == TypeInv /\ [Next]_vars => TypeInv'
<1> SUFFICES ASSUME TypeInv, [Next]_vars PROVE TypeInv'
  OBVIOUS
<1> USE ConstantsAssumption
<1>1. ASSUME NEW p \in Procs, ClientApply(p) PROVE TypeInv'
  <2>1. [kind |-> "apply", cfg |-> nver + 1, done |-> 0] \in Update
    BY <1>1 DEF ClientApply, Update, TypeInv, TypeOK
  <2>2. /\ NoGrace \in GraceReqs \cup {NoGrace}
        /\ nver + 1 \in 0..MaxUpdates
    BY <1>1 DEF ClientApply, TypeInv, TypeOK
  <2> QED
    BY <1>1, <2>1, <2>2, UpdateProcessType, ZenonT(60) DEF ClientApply, TypeInv, TypeOK, WellFormed
<1>2. ASSUME NEW p \in Procs, NEW g \in GraceReqs \cup {NoGrace},
             NEW ch \in Channels, ClientTerminate(p, g, ch)
      PROVE  TypeInv'
  <2>1. [kind |-> "terminate", cfg |-> nver + 1,
         done |-> IF ch THEN nver + 1 ELSE 0] \in Update
    BY <1>2 DEF ClientTerminate, Update, TypeInv, TypeOK
  <2> QED
    BY <1>2, <2>1, UpdateProcessType DEF ClientTerminate, TypeInv, TypeOK, WellFormed
<1>3. ASSUME NEW desired \in SUBSET Procs, SyncKnownProcesses(desired) PROVE TypeInv'
  <2>1. st' \in [Objects -> Status]
    BY <1>3, TerminationRequest, ZenonT(60) DEF SyncKnownProcesses, TypeInv, TypeOK
  <2> QED
    BY <1>3, <2>1 DEF SyncKnownProcesses, TypeInv, TypeOK, WellFormed
<1>4. ASSUME NEW o \in Objects, Worker(o) PROVE TypeInv'
  <2>1. CASE WorkerExits(o)
    BY <2>1 DEF WorkerExits, ReceiveSignal, TypeInv, TypeOK, WellFormed, WorkerPC
  <2>2. CASE WorkerSkips(o)
    BY <2>2, SMTT(60) DEF WorkerSkips, ReceiveSignal, TypeInv, TypeOK, WellFormed
  <2>3. CASE WorkerTakes(o)
    <3> DEFINE c == cur[owner[o]]
    <3>1. c \in Objects
      BY <2>3, WorkerLookup DEF WorkerTakes, ReceiveSignal, Objects
    <3>2. st[c] \in Status
      BY <3>1, SMTT(60) DEF TypeInv, TypeOK
    <3>3. /\ st' \in [Objects -> Status]
          /\ st[c].pending \in Update \cup {NoUpdate}
      BY <2>3, <3>1, <3>2, ZenonT(60) DEF WorkerTakes, Status, TypeInv, TypeOK
    <3>4. /\ sig' \in [Objects -> BOOLEAN]
          /\ wpc' \in [Objects -> WorkerPC]
          /\ won' \in [Objects -> Objects]
          /\ wupd' \in [Objects -> Update \cup {NoUpdate}]
      BY <2>3, <3>1, <3>3 DEF WorkerTakes, ReceiveSignal, TypeInv, TypeOK, WorkerPC
    <3>5. \A x \in Objects : wpc'[x] # "unborn" => owner'[x] \in Procs
      BY <2>3 DEF WorkerTakes, ReceiveSignal, TypeInv, TypeOK, WellFormed
    <3> QED
      BY <2>3, <3>3, <3>4, <3>5, ZenonT(60) DEF WorkerTakes, TypeInv, TypeOK, WellFormed
  <2>4. CASE WorkerDecides(o)
    BY <2>4 DEF WorkerDecides, TypeInv, TypeOK, WellFormed, WorkerPC
  <2>5. ASSUME NEW terminal \in BOOLEAN, NEW ok \in BOOLEAN,
               SyncReturns(o, terminal, ok)
        PROVE  TypeInv'
    <3>1. won[o] \in Objects /\ st[won[o]] \in Status
      BY DEF TypeInv, TypeOK
    <3>2. st' \in [Objects -> Status]
      <4> DEFINE s == st[won[o]]
      <4>1. s.grace \in Nat /\ GraceAfter(s.grace, NoGrace) \in Nat
        BY <3>1, GraceAfterType, ZenonT(60) DEF Status
      <4>2. [s EXCEPT !.synced = s.synced \/ ok,
                      !.terminating = s.terminating \/ terminal,
                      !.grace = IF terminal THEN GraceAfter(s.grace, NoGrace)
                                ELSE s.grace] \in Status
        BY <3>1, <4>1, ZenonT(60) DEF Status
      <4> QED
        BY <2>5, <3>1, <4>2 DEF SyncReturns, TypeInv, TypeOK
    <3> QED
      BY <2>5, <3>2 DEF SyncReturns, TypeInv, TypeOK, WellFormed, WorkerPC
  <2>6. ASSUME NEW ok \in BOOLEAN, TerminatingReturns(o, ok) PROVE TypeInv'
    <3>1. /\ won[o] \in Objects
          /\ st[won[o]] \in Status
          /\ SyncUpdate(wupd[o].cfg) \in Update
          /\ wupd[o].done \in 0..MaxUpdates
      BY UpdateFacts DEF TypeInv, TypeOK
    <3>2. st' \in [Objects -> Status]
      <4>1. [st[won[o]] EXCEPT !.terminated = TRUE,
                               !.pending = SyncUpdate(wupd[o].cfg)] \in Status
        BY <3>1, ZenonT(60) DEF Status
      <4> QED
        BY <2>6, <3>1, <4>1 DEF TerminatingReturns, TypeInv, TypeOK
    <3>3. closed' \subseteq 1..MaxUpdates
      BY <2>6, <3>1 DEF TerminatingReturns, TypeInv, TypeOK
    <3> QED
      BY <2>6, <3>2, <3>3, ZenonT(60) DEF TerminatingReturns, TypeInv, TypeOK, WellFormed, WorkerPC
  <2>7. ASSUME NEW ok \in BOOLEAN, TerminatedReturns(o, ok) PROVE TypeInv'
    <3>1. won[o] \in Objects /\ st[won[o]] \in Status
      BY DEF TypeInv, TypeOK
    <3>2. st' \in [Objects -> Status]
      <4>1. [st[won[o]] EXCEPT !.finished = TRUE] \in Status
        BY <3>1, ZenonT(60) DEF Status
      <4> QED
        <5>1. st' = st \/ st' = [st EXCEPT ![won[o]] = [st[won[o]] EXCEPT !.finished = TRUE]]
          BY <2>7 DEF TerminatedReturns
        <5> QED
          BY <3>1, <4>1, <5>1, ZenonT(60) DEF TypeInv, TypeOK
    <3> QED
      BY <2>7, <3>2, ZenonT(60) DEF TerminatedReturns, TypeInv, TypeOK, WellFormed, WorkerPC
  <2>8. CASE CompleteWork(o)
    <3> DEFINE c == cur[owner[o]]
    <3>1. owner[o] \in Procs /\ c \in 0..MaxObjects
      BY <2>8, WorkerLookup DEF CompleteWork, TypeInv, WellFormed
    <3>2. c # 0 => c \in Objects
      BY <3>1 DEF Objects
    <3>3. st' \in [Objects -> Status]
      <4>1. ASSUME c # 0 PROVE [st[c] EXCEPT !.working = FALSE] \in Status
        <5>1. st[c] \in Status
          BY <4>1, <3>2 DEF TypeInv, TypeOK
        <5> QED
          BY <5>1, ZenonT(60) DEF Status
      <4> QED
        BY <2>8, <3>2, <4>1 DEF CompleteWork, TypeInv, TypeOK
    <3>4. /\ queue' \subseteq Procs
          /\ wpc' \in [Objects -> WorkerPC]
          /\ won' \in [Objects -> Objects]
      BY <2>8, <3>1, <3>2 DEF CompleteWork, TypeInv, TypeOK, WorkerPC
    <3>5. \A x \in Objects : wpc'[x] # "unborn" => owner'[x] \in Procs
      BY <2>8, <3>1 DEF CompleteWork, TypeInv, TypeOK, WellFormed
    <3> QED
      BY <2>8, <3>3, <3>4, <3>5 DEF CompleteWork, TypeInv, TypeOK, WellFormed
  <2>9. CASE WorkerSignals(o)
    BY <2>9 DEF WorkerSignals, TypeInv, TypeOK, WellFormed, WorkerPC
  <2>10. CASE WorkerStops(o)
    BY <2>10 DEF WorkerStops, TypeInv, TypeOK, WellFormed, WorkerPC
  <2> QED
    BY <1>4, <2>1, <2>2, <2>3, <2>4, <2>5, <2>6, <2>7, <2>8, <2>9, <2>10
    DEF Worker, SyncerReturns
<1>5. CASE Consumer
  <2>1. ASSUME NEW p \in Procs, ConsumerDequeues(p) PROVE TypeInv'
    BY <2>1, ZenonT(60) DEF ConsumerDequeues, TypeInv, TypeOK, WellFormed
  <2>2. CASE ConsumerLooksUp
    <3> DEFINE c == cur[cons.id]
    <3>1. c \in 0..MaxObjects
      BY <2>2 DEF ConsumerLooksUp, TypeInv, TypeOK, WellFormed
    <3>2. c # 0 => c \in Objects
      BY <3>1 DEF Objects
    <3>3. st' \in [Objects -> Status]
      <4>1. ASSUME c # 0
            PROVE  [st[c] EXCEPT !.pending = SyncUpdate(st[c].active.cfg)] \in Status
        <5>1. st[c] \in Status
          BY <4>1, <3>2 DEF TypeInv, TypeOK
        <5>2. SyncUpdate(st[c].active.cfg) \in Update
          BY <5>1, UpdateFacts DEF Status
        <5> QED
          BY <5>1, <5>2 DEF Status
      <4> QED
        BY <2>2, <3>2, <4>1 DEF ConsumerLooksUp, TypeInv, TypeOK
    <3>4. cons' \in [pc : {"wait", "lookup", "signal", "exited"},
                     id : Procs \cup {NoProc}, obj : Objects]
      <4>1. CASE c = 0
        BY <2>2, <4>1 DEF ConsumerLooksUp, TypeInv, TypeOK
      <4>2. CASE c # 0
        <5>1. cons' = [cons EXCEPT !.pc = "signal", !.obj = c]
          BY <2>2, <4>2, Zenon DEF ConsumerLooksUp
        <5>2. c \in Objects
          BY <3>2, <4>2
        <5> HIDE DEF c
        <5> QED
          BY <5>1, <5>2, ZenonT(60) DEF TypeInv, TypeOK
      <4> QED
        BY <4>1, <4>2
    <3>5. cons'.pc # "lookup"
      BY <2>2, ZenonT(60) DEF ConsumerLooksUp, TypeInv, TypeOK
    <3> QED
      BY <2>2, <3>3, <3>4, <3>5 DEF ConsumerLooksUp, TypeInv, TypeOK, WellFormed
  <2>3. CASE ConsumerSignals
    BY <2>3 DEF ConsumerSignals, TypeInv, TypeOK, WellFormed
  <2>4. CASE ConsumerStops
    BY <2>4 DEF ConsumerStops, TypeInv, TypeOK, WellFormed
  <2> QED
    BY <1>5, <2>1, <2>2, <2>3, <2>4 DEF Consumer
<1>6. CASE Shutdown
  <2>1. CASE ShutdownCancels
    BY <2>1 DEF ShutdownCancels, TypeInv, TypeOK, WellFormed
  <2>2. CASE ShutdownLists
    BY <2>2 DEF ShutdownLists, TypeInv, TypeOK, WellFormed
  <2>3. ASSUME NEW p \in Procs, ShutdownTerminates(p) PROVE TypeInv'
    <3>1. [kind |-> "terminate", cfg |-> 0, done |-> 0] \in Update
      BY DEF Update
    <3> QED
      BY <2>3, <3>1, UpdateProcessType, ZenonT(60) DEF ShutdownTerminates, TypeInv, TypeOK, WellFormed
  <2>4. CASE ShutdownReturns
    BY <2>4 DEF ShutdownReturns, TypeInv, TypeOK, WellFormed
  <2>5. CASE ShutdownTimesOut
    BY <2>5 DEF ShutdownTimesOut, TypeInv, TypeOK, WellFormed
  <2> QED
    BY <1>6, <2>1, <2>2, <2>3, <2>4, <2>5 DEF Shutdown
<1>7. CASE UNCHANGED vars
  BY <1>7 DEF vars, TypeInv, TypeOK, WellFormed
<1> QED
  BY <1>1, <1>2, <1>3, <1>4, <1>5, <1>6, <1>7 DEF Next, Client

(* The state of the manager is well typed in every reachable state: the    *)
(* ids map to allocated objects and every running worker, whichever life   *)
(* of the process it was started in, serves a known process.               *)
THEOREM TypeCorrect == Spec => []TypeOK
<1>1. Spec => []TypeInv
  BY InitTypeInv, NextTypeInv, PTL DEF Spec
<1> QED
  BY <1>1, PTL DEF TypeInv

-----------------------------------------------------------------------------
(* The lifecycle.  The timestamps of a status are only ever set, in the    *)
(* order terminating, terminated, finished.  A worker that has been told   *)
(* to run a later phase acts on a status that has reached the earlier one; *)
(* this is what makes the order inductive, because the status is not       *)
(* looked at again when the syncer returns.                                *)
Ordered(s) == (s.finished => s.terminated) /\ (s.terminated => s.terminating)

LifeInv ==
  /\ \A o \in Objects : Ordered(st[o])
  /\ \A o \in Objects : wpc[o] \in {"decide", "terminating", "terminated"} => won[o] <= made
  /\ \A o \in Objects : wpc[o] = "terminating" => st[won[o]].terminating
  /\ \A o \in Objects : wpc[o] = "terminated" => st[won[o]].terminated

(* What one step may do to the timestamps of a status.                     *)
FlagStep(s, t) ==
  /\ s.synced => t.synced
  /\ s.terminating => t.terminating
  /\ s.terminated => t.terminated
  /\ s.finished => t.finished
  /\ (t.terminated /\ ~s.terminated) => s.terminating /\ (t.finished => s.finished)
  /\ (t.finished /\ ~s.finished) => s.terminated

Advance(s, t) == State(t) = State(s) \/ State(t) \in Lifecycle!Successors[State(s)]

(* A step of the timestamps keeps their order.                             *)
LEMMA FlagStepOrdered ==
  ASSUME NEW s \in Status, NEW t \in Status, Ordered(s), FlagStep(s, t)
  PROVE  Ordered(t)
BY DEF Ordered, FlagStep, Status

(* A step of the timestamps is a step of the lifecycle.                    *)
LEMMA FlagStepAdvances ==
  ASSUME NEW s \in Status, NEW t \in Status, Ordered(s), FlagStep(s, t)
  PROVE  Advance(s, t)
BY DEF Ordered, FlagStep, Status, Advance, State, Lifecycle!Successors, Lifecycle!Phases

(* Every status either advances or is allocated in this step.              *)
StatusStep ==
  \A o \in Objects : FlagStep(st[o], st'[o]) \/ (o > made /\ Ordered(st'[o]))

(* A status that does not change takes no step.                            *)
LEMMA FlagStepSame ==
  ASSUME NEW s \in Status PROVE FlagStep(s, s)
BY DEF FlagStep

(* UpdateProcess sets at most the terminating mark.                        *)
LEMMA UpdateProcessFlags ==
  ASSUME TypeInv, NEW p \in Procs, NEW u \in Update,
         NEW g \in GraceReqs \cup {NoGrace}, UpdateProcess(p, u, g)
  PROVE  StatusStep
<1> SUFFICES ASSUME NEW x \in Objects
             PROVE  FlagStep(st[x], st'[x]) \/ (x > made /\ Ordered(st'[x]))
  BY DEF StatusStep
<1>0. st[x] \in Status
  BY DEF TypeInv, TypeOK
<1>1. CASE Resubmit(p, u, g)
  <2> DEFINE o == cur[p]
             s == IF u.kind = "terminate"
                  THEN HandleTerminationRequest(st[o], g) ELSE st[o]
  <2>1. o \in Objects /\ st[o] \in Status
    BY <1>1, ConstantsAssumption, SMTT(60) DEF Resubmit, TypeInv, TypeOK, Objects
  <2>2. s \in Status /\ FlagStep(st[o], s)
    BY <2>1, TerminationRequest, FlagStepSame, SMTT(60), ZenonT(60) DEF FlagStep, Status
  <2>3. FlagStep(st[o], [s EXCEPT !.pending = u])
    BY <2>2 DEF FlagStep, Status
  <2>4. st' = st \/ st' = [st EXCEPT ![o] = [s EXCEPT !.pending = u]]
    BY <1>1 DEF Resubmit
  <2> HIDE DEF s, o
  <2> QED
    BY <1>0, <2>1, <2>3, <2>4, FlagStepSame DEF TypeInv, TypeOK
<1>2. CASE Submit(p, u, g)
  <2> DEFINE o == made + 1
             s == IF u.kind = "terminate"
                  THEN HandleTerminationRequest(NewStatus, g) ELSE NewStatus
  <2>1. o \in Objects /\ o > made
    BY <1>2, ConstantsAssumption, SMTT(30) DEF Submit, TypeInv, TypeOK, Objects
  <2>2. s \in Status /\ ~s.terminated /\ ~s.finished
    BY NewStatusType, TerminationRequest DEF NewStatus
  <2>3. Ordered([s EXCEPT !.pending = u])
    BY <2>2 DEF Ordered, Status
  <2>4. st' = [st EXCEPT ![o] = [s EXCEPT !.pending = u]]
    BY <1>2 DEF Submit
  <2> HIDE DEF s, o
  <2> QED
    BY <1>0, <2>1, <2>3, <2>4, FlagStepSame DEF TypeInv, TypeOK
<1> QED
  BY <1>1, <1>2 DEF UpdateProcess

(* A status one of whose other fields changes has not moved.               *)
LEMMA OneStatusFlags ==
  ASSUME TypeInv, NEW c \in Objects, NEW t \in Status, FlagStep(st[c], t),
         st' = [st EXCEPT ![c] = t]
  PROVE  StatusStep
BY FlagStepSame DEF StatusStep, TypeInv, TypeOK

(* No status changes.                                                      *)
LEMMA SameStatusFlags ==
  ASSUME TypeInv, st' = st
  PROVE  StatusStep
BY FlagStepSame DEF StatusStep, TypeInv, TypeOK

(* Every step only sets timestamps, and sets them in order.                *)
LEMMA StatusSteps ==
  ASSUME TypeInv, LifeInv, [Next]_vars
  PROVE  StatusStep
<1> USE ConstantsAssumption
<1>1. ASSUME NEW p \in Procs, ClientApply(p) PROVE StatusStep
  <2>1. [kind |-> "apply", cfg |-> nver + 1, done |-> 0] \in Update
    BY <1>1 DEF ClientApply, Update, TypeInv, TypeOK
  <2>2. NoGrace \in GraceReqs \cup {NoGrace}
    OBVIOUS
  <2> QED
    BY <1>1, <2>1, <2>2, UpdateProcessFlags, ZenonT(60) DEF ClientApply
<1>2. ASSUME NEW p \in Procs, NEW g \in GraceReqs \cup {NoGrace},
             NEW ch \in Channels, ClientTerminate(p, g, ch)
      PROVE  StatusStep
  <2>1. [kind |-> "terminate", cfg |-> nver + 1,
         done |-> IF ch THEN nver + 1 ELSE 0] \in Update
    BY <1>2 DEF ClientTerminate, Update, TypeInv, TypeOK
  <2> QED
    BY <1>2, <2>1, UpdateProcessFlags DEF ClientTerminate
<1>3. ASSUME NEW desired \in SUBSET Procs, SyncKnownProcesses(desired) PROVE StatusStep
  <2> SUFFICES ASSUME NEW x \in Objects PROVE FlagStep(st[x], st'[x])
    BY DEF StatusStep
  <2>1. st[x] \in Status
    BY DEF TypeInv, TypeOK
  <2>2. st'[x] \in {st[x], HandleTerminationRequest(st[x], NoGrace)}
    BY <1>3 DEF SyncKnownProcesses
  <2> QED
    BY <2>1, <2>2, TerminationRequest, FlagStepSame DEF FlagStep
<1>4. ASSUME NEW o \in Objects, Worker(o) PROVE StatusStep
  <2> DEFINE w == won[o]
  <2>0. w \in Objects /\ st[w] \in Status
    BY DEF TypeInv, TypeOK
  <2>1. CASE WorkerExits(o)
    BY <2>1, SameStatusFlags DEF WorkerExits
  <2>2. CASE WorkerSkips(o)
    BY <2>2, SameStatusFlags DEF WorkerSkips
  <2>3. CASE WorkerTakes(o)
    <3> DEFINE c == cur[owner[o]]
               t == [st[c] EXCEPT !.active = st[c].pending, !.pending = NoUpdate,
                                  !.working = TRUE,
                                  !.ctx = IF st[c].ctx = "nil" \/ CtxDone(st[c])
                                          THEN "live" ELSE st[c].ctx]
    <3>1. c \in Objects
      BY <2>3, WorkerLookup DEF WorkerTakes, ReceiveSignal, Objects
    <3>2. st[c] \in Status
      BY <3>1 DEF TypeInv, TypeOK
    <3>3. t \in Status /\ FlagStep(st[c], t)
      BY <3>2, ZenonT(60) DEF Status, FlagStep
    <3>4. st' = [st EXCEPT ![c] = t]
      BY <2>3 DEF WorkerTakes
    <3> HIDE DEF t, c
    <3> QED
      BY <3>1, <3>3, <3>4, OneStatusFlags, ZenonT(60)
  <2>4. CASE WorkerDecides(o)
    BY <2>4, SameStatusFlags DEF WorkerDecides
  <2>5. ASSUME NEW terminal \in BOOLEAN, NEW ok \in BOOLEAN,
               SyncReturns(o, terminal, ok)
        PROVE  StatusStep
    <3> DEFINE s == st[w]
               t == [s EXCEPT !.synced = s.synced \/ ok,
                              !.terminating = s.terminating \/ terminal,
                              !.grace = IF terminal THEN GraceAfter(s.grace, NoGrace)
                                        ELSE s.grace]
    <3>1. s.grace \in Nat /\ GraceAfter(s.grace, NoGrace) \in Nat
      BY <2>0, GraceAfterType, ZenonT(60) DEF Status
    <3>2. t \in Status /\ FlagStep(s, t)
      BY <2>0, <3>1, ZenonT(60) DEF Status, FlagStep
    <3>3. st' = [st EXCEPT ![w] = t]
      BY <2>5 DEF SyncReturns
    <3> HIDE DEF t
    <3> QED
      BY <2>0, <3>2, <3>3, OneStatusFlags, ZenonT(60)
  <2>6. ASSUME NEW ok \in BOOLEAN, TerminatingReturns(o, ok) PROVE StatusStep
    <3> DEFINE t == [st[w] EXCEPT !.terminated = TRUE,
                                  !.pending = SyncUpdate(wupd[o].cfg)]
    <3>1. SyncUpdate(wupd[o].cfg) \in Update
      BY UpdateFacts DEF TypeInv, TypeOK
    <3>2. st[w].terminating
      BY <2>6 DEF TerminatingReturns, LifeInv
    <3>3. t \in Status /\ FlagStep(st[w], t)
      BY <2>0, <3>1, <3>2, ZenonT(60) DEF Status, FlagStep
    <3>4. st' = st \/ st' = [st EXCEPT ![w] = t]
      BY <2>6 DEF TerminatingReturns
    <3> HIDE DEF t
    <3> QED
      BY <2>0, <3>3, <3>4, OneStatusFlags, SameStatusFlags
  <2>7. ASSUME NEW ok \in BOOLEAN, TerminatedReturns(o, ok) PROVE StatusStep
    <3> DEFINE t == [st[w] EXCEPT !.finished = TRUE]
    <3>1. st[w].terminated
      BY <2>7 DEF TerminatedReturns, LifeInv
    <3>2. t \in Status /\ FlagStep(st[w], t)
      BY <2>0, <3>1, ZenonT(60) DEF Status, FlagStep
    <3>3. st' = st \/ st' = [st EXCEPT ![w] = t]
      BY <2>7 DEF TerminatedReturns
    <3> HIDE DEF t
    <3> QED
      BY <2>0, <3>2, <3>3, OneStatusFlags, SameStatusFlags
  <2>8. CASE CompleteWork(o)
    <3> DEFINE c == cur[owner[o]]
               t == [st[c] EXCEPT !.working = FALSE]
    <3>1. CASE c = 0
      BY <2>8, <3>1, SameStatusFlags DEF CompleteWork
    <3>2. CASE c # 0
      <4>1. c \in Objects
        BY <2>8, <3>2, WorkerLookup DEF CompleteWork, Objects
      <4>2. st[c] \in Status
        BY <4>1 DEF TypeInv, TypeOK
      <4>3. t \in Status /\ FlagStep(st[c], t)
        BY <4>2, ZenonT(60) DEF Status, FlagStep
      <4>4. st' = [st EXCEPT ![c] = t]
        BY <2>8, <3>2 DEF CompleteWork
      <4> HIDE DEF t, c
      <4> QED
        BY <4>1, <4>3, <4>4, OneStatusFlags, ZenonT(60)
    <3> QED
      BY <3>1, <3>2
  <2>9. CASE WorkerSignals(o)
    BY <2>9, SameStatusFlags DEF WorkerSignals
  <2>10. CASE WorkerStops(o)
    BY <2>10, SameStatusFlags DEF WorkerStops
  <2> QED
    BY <1>4, <2>1, <2>2, <2>3, <2>4, <2>5, <2>6, <2>7, <2>8, <2>9, <2>10
    DEF Worker, SyncerReturns
<1>5. CASE Consumer
  <2>1. ASSUME NEW p \in Procs, ConsumerDequeues(p) PROVE StatusStep
    BY <2>1, SameStatusFlags DEF ConsumerDequeues
  <2>2. CASE ConsumerLooksUp
    <3> DEFINE c == cur[cons.id]
               t == [st[c] EXCEPT !.pending = SyncUpdate(st[c].active.cfg)]
    <3>1. c \in 0..MaxObjects
      BY <2>2 DEF ConsumerLooksUp, TypeInv, TypeOK, WellFormed
    <3>2. st' = st \/ (c # 0 /\ st' = [st EXCEPT ![c] = t])
      BY <2>2, Zenon DEF ConsumerLooksUp
    <3>3. CASE c = 0
      BY <3>2, <3>3, SameStatusFlags
    <3>4. CASE c # 0
      <4>1. c \in Objects
        BY <3>1, <3>4 DEF Objects
      <4>2. st[c] \in Status
        BY <4>1 DEF TypeInv, TypeOK
      <4>3. SyncUpdate(st[c].active.cfg) \in Update
        BY <4>2, UpdateFacts, SMTT(60) DEF Status
      <4>4. t \in Status /\ FlagStep(st[c], t)
        BY <4>2, <4>3, ZenonT(60) DEF Status, FlagStep
      <4> HIDE DEF t, c
      <4> QED
        BY <3>2, <4>1, <4>4, OneStatusFlags, SameStatusFlags
    <3> QED
      BY <3>3, <3>4
  <2>3. CASE ConsumerSignals
    BY <2>3, SameStatusFlags DEF ConsumerSignals
  <2>4. CASE ConsumerStops
    BY <2>4, SameStatusFlags DEF ConsumerStops
  <2> QED
    BY <1>5, <2>1, <2>2, <2>3, <2>4 DEF Consumer
<1>6. CASE Shutdown
  <2>1. ASSUME NEW p \in Procs, ShutdownTerminates(p) PROVE StatusStep
    <3>1. [kind |-> "terminate", cfg |-> 0, done |-> 0] \in Update
      BY DEF Update
    <3>2. NoGrace \in GraceReqs \cup {NoGrace}
      OBVIOUS
    <3> QED
      BY <2>1, <3>1, <3>2, UpdateProcessFlags, ZenonT(60) DEF ShutdownTerminates
  <2>2. CASE st' = st
    BY <2>2, SameStatusFlags
  <2> QED
    BY <1>6, <2>1, <2>2
    DEF Shutdown, ShutdownCancels, ShutdownLists, ShutdownReturns, ShutdownTimesOut
<1>7. CASE UNCHANGED vars
  BY <1>7, SameStatusFlags DEF vars
<1> QED
  BY <1>1, <1>2, <1>3, <1>4, <1>5, <1>6, <1>7 DEF Next, Client

-----------------------------------------------------------------------------
(* A worker keeps its place, leaves the later phases, or enters one of     *)
(* them for a status that is allocated and has reached it.                 *)
WorkerStep ==
  /\ made <= made'
  /\ \A x \in Objects :
       \/ wpc'[x] = wpc[x] /\ won'[x] = won[x]
       \/ wpc'[x] \notin {"decide", "terminating", "terminated"}
       \/ /\ won'[x] <= made
          /\ wpc'[x] = "terminating" => st[won'[x]].terminating
          /\ wpc'[x] = "terminated" => st[won'[x]].terminated

(* UpdateProcess moves no running worker.                                  *)
LEMMA UpdateProcessWorkers ==
  ASSUME TypeInv, NEW p, NEW u, NEW g, UpdateProcess(p, u, g), won' = won
  PROVE  WorkerStep
<1>1. CASE Resubmit(p, u, g)
  BY <1>1 DEF Resubmit, WorkerStep, TypeInv, TypeOK
<1>2. CASE Submit(p, u, g)
  BY <1>2 DEF Submit, WorkerStep, TypeInv, TypeOK
<1> QED
  BY <1>1, <1>2 DEF UpdateProcess

(* A worker enters a phase only for a status that has reached it.          *)
LEMMA WorkerSteps ==
  ASSUME TypeInv, LifeInv, [Next]_vars
  PROVE  WorkerStep
<1>1. ASSUME made' = made, wpc' = wpc, won' = won PROVE WorkerStep
  BY <1>1 DEF WorkerStep, TypeInv, TypeOK
<1>2. CASE Client
  BY <1>1, <1>2, UpdateProcessWorkers, ZenonT(60)
  DEF Client, ClientApply, ClientTerminate, SyncKnownProcesses
<1>3. ASSUME NEW o \in Objects, Worker(o) PROVE WorkerStep
  <2>1. CASE WorkerTakes(o)
    <3> DEFINE c == cur[owner[o]]
    <3>1. c \in Objects /\ c <= made
      BY <2>1, WorkerLookup
      DEF WorkerTakes, ReceiveSignal, Objects, TypeInv, WellFormed
    <3>2. /\ made' = made
          /\ won' = [won EXCEPT ![o] = c]
          /\ wpc' = [wpc EXCEPT ![o] = IF st[c].terminated THEN "terminated"
                                       ELSE IF st[c].terminating THEN "terminating"
                                       ELSE "decide"]
      BY <2>1 DEF WorkerTakes
    <3> HIDE DEF c
    <3> QED
      BY <3>1, <3>2 DEF WorkerStep, TypeInv, TypeOK
  <2>2. CASE WorkerDecides(o)
    BY <2>2, SMTT(60) DEF WorkerDecides, WorkerStep, TypeInv, TypeOK, LifeInv
  <2>3. CASE CompleteWork(o)
    <3>1. PICK v \in {"signal", "idle"} : wpc' = [wpc EXCEPT ![o] = v]
      BY <2>3, ZenonT(60) DEF CompleteWork
    <3>2. made' = made /\ (won' = won \/ \E c : won' = [won EXCEPT ![o] = c])
      BY <2>3, ZenonT(60) DEF CompleteWork
    <3>3. /\ wpc \in [Objects -> WorkerPC] /\ won \in [Objects -> Objects]
          /\ made \in 0..MaxObjects
      BY ZenonT(60) DEF TypeInv, TypeOK
    <3>4. ASSUME NEW x \in Objects, x # o
          PROVE  wpc'[x] = wpc[x] /\ won'[x] = won[x]
      BY <3>1, <3>2, <3>3, <3>4
    <3>5. wpc'[o] \notin {"decide", "terminating", "terminated"}
      BY <3>1, <3>3
    <3>6. made <= made'
      BY <3>2, <3>3, ConstantsAssumption
    <3> QED BY <3>4, <3>5, <3>6, ZenonT(60) DEF WorkerStep
  <2>4. CASE WorkerSkips(o)
    BY <1>1, <2>4, ZenonT(60) DEF WorkerSkips
  <2>5. ASSUME NEW v \in {"exited", "complete", "idle"},
               made' = made, won' = won, wpc' = [wpc EXCEPT ![o] = v]
        PROVE  WorkerStep
    BY <2>5, SMTT(60) DEF WorkerStep, TypeInv, TypeOK
  <2> QED
    BY <1>3, <2>1, <2>2, <2>3, <2>4, <2>5, ZenonT(60)
    DEF Worker, SyncerReturns, WorkerExits, SyncReturns, TerminatingReturns,
        TerminatedReturns, WorkerSignals, WorkerStops
<1>4. CASE Consumer
  BY <1>1, <1>4, ZenonT(60)
  DEF Consumer, ConsumerDequeues, ConsumerLooksUp, ConsumerSignals, ConsumerStops
<1>5. CASE Shutdown
  BY <1>1, <1>5, UpdateProcessWorkers
  DEF Shutdown, ShutdownCancels, ShutdownLists, ShutdownTerminates,
      ShutdownReturns, ShutdownTimesOut
<1>6. CASE UNCHANGED vars
  BY <1>1, <1>6 DEF vars
<1> QED
  BY <1>2, <1>3, <1>4, <1>5, <1>6 DEF Next

(* No timestamp is set at first.                                           *)
LEMMA InitLifeInv == Init => LifeInv
BY DEF Init, LifeInv, Ordered, NewStatus

(* Every step keeps the order of the timestamps.                           *)
LEMMA NextLifeInv == TypeInv /\ LifeInv /\ [Next]_vars => LifeInv'
<1> SUFFICES ASSUME TypeInv, LifeInv, [Next]_vars PROVE LifeInv'
  OBVIOUS
<1>1. TypeInv'
  BY NextTypeInv
<1>2. StatusStep /\ WorkerStep
  BY StatusSteps, WorkerSteps
<1>3. \A o \in Objects : Ordered(st'[o])
  <2> SUFFICES ASSUME NEW o \in Objects PROVE Ordered(st'[o])
    OBVIOUS
  <2>1. st[o] \in Status /\ st'[o] \in Status
    BY <1>1, SMTT(60) DEF TypeInv, TypeOK
  <2> QED
    BY <1>2, <2>1, FlagStepOrdered DEF StatusStep, LifeInv
<1>4. ASSUME NEW c \in Objects, c <= made
      PROVE  /\ st[c].terminating => st'[c].terminating
             /\ st[c].terminated => st'[c].terminated
  BY <1>2, <1>4 DEF StatusStep, FlagStep, TypeInv, TypeOK, Objects
<1>5. ASSUME NEW o \in Objects
      PROVE  /\ wpc'[o] \in {"decide", "terminating", "terminated"} => won'[o] <= made'
             /\ wpc'[o] = "terminating" => st'[won'[o]].terminating
             /\ wpc'[o] = "terminated" => st'[won'[o]].terminated
  <2>1. won'[o] \in Objects /\ made \in Int /\ made' \in Int
    BY <1>1 DEF TypeInv, TypeOK
  <2>2. wpc'[o] \in {"decide", "terminating", "terminated"} =>
          /\ won'[o] <= made
          /\ wpc'[o] = "terminating" => st[won'[o]].terminating
          /\ wpc'[o] = "terminated" => st[won'[o]].terminated
    BY <1>2 DEF WorkerStep, LifeInv
  <2>3. won'[o] \in Int /\ made <= made'
    BY <1>2, <2>1 DEF WorkerStep, Objects
  <2> QED
    BY <1>4, <2>1, <2>2, <2>3
<1> QED
  BY <1>3, <1>5 DEF LifeInv

(* An id changes its object only when it gets a new one or is forgotten.   *)
CurStep ==
  \A p \in Procs :
    \/ cur'[p] = cur[p]
    \/ /\ cur[p] = 0
       /\ cur'[p] # 0
       /\ LET s == st'[cur'[p]] IN ~s.synced /\ ~s.terminated /\ ~s.finished
    \/ cur[p] # 0 /\ cur'[p] = 0 /\ st[cur[p]].finished

(* UpdateProcess maps an id to a new object only if it had none.           *)
LEMMA UpdateProcessCur ==
  ASSUME TypeInv, NEW p \in Procs, NEW u \in Update,
         NEW g \in GraceReqs \cup {NoGrace}, UpdateProcess(p, u, g)
  PROVE  CurStep
<1>1. CASE Resubmit(p, u, g)
  BY <1>1 DEF Resubmit, CurStep
<1>2. CASE Submit(p, u, g)
  <2> DEFINE o == made + 1
             s == IF u.kind = "terminate"
                  THEN HandleTerminationRequest(NewStatus, g) ELSE NewStatus
             t == [s EXCEPT !.pending = u]
  <2>1. o \in Objects /\ o # 0
    BY <1>2, ConstantsAssumption, SMTT(60) DEF Submit, TypeInv, TypeOK, Objects
  <2>2. s \in Status /\ ~s.synced /\ ~s.terminated /\ ~s.finished
    BY NewStatusType, TerminationRequest DEF NewStatus
  <2>3. ~t.synced /\ ~t.terminated /\ ~t.finished
    BY <2>2 DEF Status
  <2>4. /\ cur[p] = 0
        /\ cur' = [cur EXCEPT ![p] = o]
        /\ st' = [st EXCEPT ![o] = t]
    BY <1>2 DEF Submit
  <2> HIDE DEF t, o
  <2> QED
    BY <2>1, <2>3, <2>4 DEF CurStep, TypeInv, TypeOK
<1> QED
  BY <1>1, <1>2 DEF UpdateProcess

(* An id is mapped to a new object, or forgotten once it is finished.      *)
LEMMA CurSteps ==
  ASSUME TypeInv, [Next]_vars
  PROVE  CurStep
<1> USE ConstantsAssumption
<1>1. ASSUME cur' = cur PROVE CurStep
  BY <1>1 DEF CurStep
<1>2. ASSUME NEW p \in Procs, ClientApply(p) PROVE CurStep
  <2>1. [kind |-> "apply", cfg |-> nver + 1, done |-> 0] \in Update
    BY <1>2 DEF ClientApply, Update, TypeInv, TypeOK
  <2>2. NoGrace \in GraceReqs \cup {NoGrace}
    OBVIOUS
  <2> QED
    BY <1>2, <2>1, <2>2, UpdateProcessCur, ZenonT(60) DEF ClientApply
<1>3. ASSUME NEW p \in Procs, NEW g \in GraceReqs \cup {NoGrace},
             NEW ch \in Channels, ClientTerminate(p, g, ch)
      PROVE  CurStep
  <2>1. [kind |-> "terminate", cfg |-> nver + 1,
         done |-> IF ch THEN nver + 1 ELSE 0] \in Update
    BY <1>3 DEF ClientTerminate, Update, TypeInv, TypeOK
  <2> QED
    BY <1>3, <2>1, UpdateProcessCur, SMTT(60) DEF ClientTerminate
<1>4. ASSUME NEW desired \in SUBSET Procs, SyncKnownProcesses(desired) PROVE CurStep
  BY <1>4, ZenonT(60) DEF SyncKnownProcesses, CurStep
<1>5. ASSUME NEW o \in Objects, Worker(o) PROVE CurStep
  BY <1>1, <1>5, ZenonT(60)
  DEF Worker, WorkerExits, WorkerSkips, WorkerTakes, WorkerDecides, SyncerReturns,
      SyncReturns, TerminatingReturns, TerminatedReturns, CompleteWork,
      WorkerSignals, WorkerStops
<1>6. CASE Consumer
  BY <1>1, <1>6, ZenonT(60)
  DEF Consumer, ConsumerDequeues, ConsumerLooksUp, ConsumerSignals, ConsumerStops
<1>7. ASSUME NEW p \in Procs, ShutdownTerminates(p) PROVE CurStep
  <2>1. [kind |-> "terminate", cfg |-> 0, done |-> 0] \in Update
    BY DEF Update
  <2>2. NoGrace \in GraceReqs \cup {NoGrace}
    OBVIOUS
  <2> QED
    BY <1>7, <2>1, <2>2, UpdateProcessCur, ZenonT(60) DEF ShutdownTerminates
<1>8. CASE Shutdown
  BY <1>1, <1>7, <1>8
  DEF Shutdown, ShutdownCancels, ShutdownLists, ShutdownReturns, ShutdownTimesOut
<1>9. CASE UNCHANGED vars
  BY <1>1, <1>9 DEF vars
<1> QED
  BY <1>2, <1>3, <1>4, <1>5, <1>6, <1>8, <1>9 DEF Next, Client

(* The mapping to the abstract lifecycle.                                  *)
LEMMA LifecycleStep ==
  ASSUME TypeInv, TypeInv', LifeInv, [Next]_vars
  PROVE  [Lifecycle!Next]_Phase
<1>1. StatusStep
  BY StatusSteps
<1>2. ASSUME NEW p \in Procs, cur'[p] = cur[p]
      PROVE  Phase'[p] = Phase[p] \/ Phase'[p] \in Lifecycle!Successors[Phase[p]]
  <2>1. CASE cur[p] = 0
    BY <1>2, <2>1, ZenonT(60) DEF Phase
  <2>2. CASE cur[p] # 0
    <3> DEFINE c == cur[p]
    <3>1. c \in Objects /\ c <= made
      <4>1. c \in 0..MaxObjects
        BY DEF TypeInv, TypeOK
      <4>2. c \in Objects
        BY <2>2, <4>1, ConstantsAssumption DEF Objects
      <4> QED BY <4>2 DEF TypeInv, WellFormed
    <3>2. st[c] \in Status /\ st'[c] \in Status /\ Ordered(st[c])
      BY <3>1 DEF TypeInv, TypeOK, LifeInv
    <3>3. FlagStep(st[c], st'[c])
      BY <1>1, <3>1 DEF StatusStep, Objects, TypeInv, TypeOK
    <3>4. Advance(st[c], st'[c])
      BY <3>2, <3>3, FlagStepAdvances
    <3> QED
      BY <1>2, <2>2, <3>4 DEF Advance, Phase
  <2> QED
    BY <2>1, <2>2, SMTT(60)
<1>3. ASSUME NEW p \in Procs, cur'[p] # cur[p]
      PROVE  Phase'[p] \in Lifecycle!Successors[Phase[p]]
  <2>1. CASE cur[p] = 0
    <3> DEFINE s == st'[cur'[p]]
    <3>1. cur'[p] # 0 /\ ~s.synced /\ ~s.terminated /\ ~s.finished
      BY <1>3, <2>1, CurSteps DEF CurStep
    <3>2. State(s) \in {"Starting", "Terminating"}
      BY <3>1 DEF State
    <3>3. Phase[p] = "Absent" /\ Phase'[p] = State(s)
      BY <2>1, <3>1 DEF Phase
    <3> QED
      BY <3>2, <3>3 DEF Lifecycle!Successors, Lifecycle!Phases
  <2>2. CASE cur[p] # 0
    <3>1. cur'[p] = 0 /\ st[cur[p]].finished
      BY <1>3, <2>2, CurSteps DEF CurStep
    <3>2. Phase[p] = "Finished" /\ Phase'[p] = "Absent"
      BY <2>2, <3>1 DEF Phase, State
    <3> QED
      BY <3>2 DEF Lifecycle!Successors, Lifecycle!Phases
  <2> QED
    BY <2>1, <2>2
<1>4. Phase' \in [Procs -> Lifecycle!Phases]
  BY DEF Phase, State, Lifecycle!Phases
<1> QED
  BY <1>2, <1>3, <1>4 DEF Lifecycle!Next

(* The manager implements the one-way lifecycle: whatever clients, workers *)
(* (two of one process included), the consumer, a purge and a shutdown do, *)
(* in whatever order, a process only moves forward.                        *)
THEOREM LifecycleRefined == Spec => OneWayLifecycle
<1>1. Init => Lifecycle!Init
  BY DEF Init, Lifecycle!Init, Phase
<1>2. Spec => [](TypeInv /\ LifeInv)
  BY InitTypeInv, InitLifeInv, NextTypeInv, NextLifeInv, PTL DEF Spec
<1>3. TypeInv /\ TypeInv' /\ LifeInv /\ [Next]_vars => [Lifecycle!Next]_Phase
  BY LifecycleStep
<1> QED
  BY <1>1, <1>2, <1>3, PTL DEF Spec, OneWayLifecycle, Lifecycle!Spec

-----------------------------------------------------------------------------
(* No update is lost.                                                      *)
LatestKept(s, a) ==
  ~s.terminated => a = (IF s.pending # NoUpdate THEN s.pending ELSE s.active).cfg

UpdInv == \A o \in Objects : LatestKept(st[o], asked[o])

(* A step that rewrites one status and keeps its latest update.            *)
LEMMA OneStatusKept ==
  ASSUME TypeInv, UpdInv, NEW c \in Objects, NEW t, NEW a,
         st' = [st EXCEPT ![c] = t], asked' = [asked EXCEPT ![c] = a],
         LatestKept(t, a)
  PROVE  UpdInv'
BY DEF UpdInv, TypeInv, TypeOK

(* A step that changes no status keeps every latest update.                *)
LEMMA OneStatusKeptSame ==
  ASSUME TypeInv, UpdInv, NEW c \in Objects, NEW t,
         st' = [st EXCEPT ![c] = t], asked' = asked, LatestKept(t, asked[c])
  PROVE  UpdInv'
BY DEF UpdInv, TypeInv, TypeOK

(* An update that UpdateProcess accepts becomes the pending one.           *)
LEMMA UpdateProcessKept ==
  ASSUME TypeInv, UpdInv, NEW p \in Procs, NEW u \in Update,
         NEW g \in GraceReqs \cup {NoGrace}, UpdateProcess(p, u, g)
  PROVE  UpdInv'
<1>1. ASSUME NEW s \in Status PROVE LatestKept([s EXCEPT !.pending = u], u.cfg)
  BY UpdateFacts DEF LatestKept, Status
<1>2. CASE Resubmit(p, u, g)
  <2> DEFINE o == cur[p]
             s == IF u.kind = "terminate"
                  THEN HandleTerminationRequest(st[o], g) ELSE st[o]
             t == [s EXCEPT !.pending = u]
  <2>1. o \in Objects /\ st[o] \in Status
    BY <1>2, ConstantsAssumption, SMTT(60) DEF Resubmit, TypeInv, TypeOK, Objects
  <2>2. s \in Status
    BY <2>1, TerminationRequest
  <2>3. LatestKept(t, u.cfg)
    BY <1>1, <2>2
  <2>4. CASE st[o].finished
    BY <1>2, <2>4 DEF Resubmit, UpdInv
  <2>5. CASE ~st[o].finished
    <3>1. st' = [st EXCEPT ![o] = t] /\ asked' = [asked EXCEPT ![o] = u.cfg]
      BY <1>2, <2>5 DEF Resubmit
    <3> HIDE DEF t, o
    <3> QED
      BY <2>1, <2>3, <3>1, OneStatusKept, ZenonT(60)
  <2> QED
    BY <2>4, <2>5
<1>3. CASE Submit(p, u, g)
  <2> DEFINE o == made + 1
             s == IF u.kind = "terminate"
                  THEN HandleTerminationRequest(NewStatus, g) ELSE NewStatus
             t == [s EXCEPT !.pending = u]
  <2>1. o \in Objects
    BY <1>3, ConstantsAssumption, SMTT(60) DEF Submit, TypeInv, TypeOK, Objects
  <2>2. s \in Status
    BY NewStatusType, TerminationRequest
  <2>3. LatestKept(t, u.cfg)
    BY <1>1, <2>2
  <2>4. st' = [st EXCEPT ![o] = t] /\ asked' = [asked EXCEPT ![o] = u.cfg]
    BY <1>3, SMTT(60) DEF Submit
  <2> HIDE DEF t, o
  <2> QED
    BY <2>1, <2>3, <2>4, OneStatusKept, ZenonT(60)
<1> QED
  BY <1>2, <1>3 DEF UpdateProcess

(* No update has been accepted at first.                                   *)
LEMMA InitUpdInv == Init => UpdInv
BY DEF Init, UpdInv, LatestKept, NewStatus, NoUpdate

(* Every step keeps the Config that was accepted last.                     *)
LEMMA NextUpdInv == TypeInv /\ UpdInv /\ [Next]_vars => UpdInv'
<1> SUFFICES ASSUME TypeInv, UpdInv, [Next]_vars PROVE UpdInv'
  OBVIOUS
<1> USE ConstantsAssumption
<1>0. ASSUME st' = st, asked' = asked PROVE UpdInv'
  BY <1>0 DEF UpdInv
<1>1. ASSUME NEW p \in Procs, ClientApply(p) PROVE UpdInv'
  <2>1. [kind |-> "apply", cfg |-> nver + 1, done |-> 0] \in Update
    BY <1>1 DEF ClientApply, Update, TypeInv, TypeOK
  <2>2. NoGrace \in GraceReqs \cup {NoGrace}
    OBVIOUS
  <2> QED
    BY <1>1, <2>1, <2>2, UpdateProcessKept, ZenonT(60) DEF ClientApply
<1>2. ASSUME NEW p \in Procs, NEW g \in GraceReqs \cup {NoGrace},
             NEW ch \in Channels, ClientTerminate(p, g, ch)
      PROVE  UpdInv'
  <2>1. [kind |-> "terminate", cfg |-> nver + 1,
         done |-> IF ch THEN nver + 1 ELSE 0] \in Update
    BY <1>2 DEF ClientTerminate, Update, TypeInv, TypeOK
  <2> QED
    BY <1>2, <2>1, UpdateProcessKept, SMTT(60) DEF ClientTerminate
<1>3. ASSUME NEW desired \in SUBSET Procs, SyncKnownProcesses(desired) PROVE UpdInv'
  <2> SUFFICES ASSUME NEW x \in Objects PROVE LatestKept(st'[x], asked'[x])
    BY SMTT(60) DEF UpdInv
  <2>1. st[x] \in Status /\ LatestKept(st[x], asked[x]) /\ asked' = asked
    BY <1>3, ZenonT(60) DEF TypeInv, TypeOK, UpdInv, SyncKnownProcesses
  <2>2. st'[x] \in {st[x], HandleTerminationRequest(st[x], NoGrace)}
    BY <1>3 DEF SyncKnownProcesses
  <2> QED
    BY <2>1, <2>2, TerminationRequest DEF LatestKept
<1>4. ASSUME NEW o \in Objects, Worker(o) PROVE UpdInv'
  <2> DEFINE w == won[o]
  <2>0. w \in Objects /\ st[w] \in Status /\ LatestKept(st[w], asked[w])
    BY DEF TypeInv, TypeOK, UpdInv
  <2>1. CASE WorkerTakes(o)
    <3> DEFINE c == cur[owner[o]]
               t == [st[c] EXCEPT !.active = st[c].pending, !.pending = NoUpdate,
                                  !.working = TRUE,
                                  !.ctx = IF st[c].ctx = "nil" \/ CtxDone(st[c])
                                          THEN "live" ELSE st[c].ctx]
    <3>1. c \in Objects
      BY <2>1, WorkerLookup DEF WorkerTakes, ReceiveSignal, Objects
    <3>2. st[c] \in Status /\ LatestKept(st[c], asked[c])
      BY <3>1 DEF TypeInv, TypeOK, UpdInv
    <3>3. st[c].pending # NoUpdate
      BY <2>1 DEF WorkerTakes
    <3>4. LatestKept(t, asked[c])
      BY <3>2, <3>3 DEF Status, LatestKept
    <3>5. st' = [st EXCEPT ![c] = t] /\ asked' = asked
      BY <2>1 DEF WorkerTakes
    <3> HIDE DEF t, c
    <3> QED
      BY <3>1, <3>4, <3>5, OneStatusKeptSame, ZenonT(60)
  <2>2. ASSUME NEW terminal \in BOOLEAN, NEW ok \in BOOLEAN,
               SyncReturns(o, terminal, ok)
        PROVE  UpdInv'
    <3> DEFINE s == st[w]
               t == [s EXCEPT !.synced = s.synced \/ ok,
                              !.terminating = s.terminating \/ terminal,
                              !.grace = IF terminal THEN GraceAfter(s.grace, NoGrace)
                                        ELSE s.grace]
    <3>1. LatestKept(t, asked[w])
      BY <2>0 DEF Status, LatestKept
    <3>2. st' = [st EXCEPT ![w] = t] /\ asked' = asked
      BY <2>2 DEF SyncReturns
    <3> HIDE DEF t
    <3> QED
      BY <2>0, <3>1, <3>2, OneStatusKeptSame, ZenonT(60)
  <2>3. ASSUME NEW ok \in BOOLEAN, TerminatingReturns(o, ok) PROVE UpdInv'
    <3> DEFINE t == [st[w] EXCEPT !.terminated = TRUE,
                                  !.pending = SyncUpdate(wupd[o].cfg)]
    <3>1. LatestKept(t, asked[w])
      BY <2>0 DEF Status, LatestKept
    <3>2. asked' = asked /\ (st' = st \/ st' = [st EXCEPT ![w] = t])
      BY <2>3 DEF TerminatingReturns
    <3> HIDE DEF t
    <3> QED
      BY <1>0, <2>0, <3>1, <3>2, OneStatusKeptSame
  <2>4. ASSUME NEW ok \in BOOLEAN, TerminatedReturns(o, ok) PROVE UpdInv'
    <3> DEFINE t == [st[w] EXCEPT !.finished = TRUE]
    <3>1. LatestKept(t, asked[w])
      BY <2>0 DEF Status, LatestKept
    <3>2. asked' = asked /\ (st' = st \/ st' = [st EXCEPT ![w] = t])
      BY <2>4 DEF TerminatedReturns
    <3> HIDE DEF t
    <3> QED
      BY <1>0, <2>0, <3>1, <3>2, OneStatusKeptSame
  <2>5. CASE CompleteWork(o)
    <3> DEFINE c == cur[owner[o]]
               t == [st[c] EXCEPT !.working = FALSE]
    <3>1. CASE c = 0
      BY <1>0, <2>5, <3>1, SMTT(60) DEF CompleteWork
    <3>2. CASE c # 0
      <4>1. c \in Objects
        BY <2>5, <3>2, WorkerLookup DEF CompleteWork, Objects
      <4>2. st[c] \in Status /\ LatestKept(st[c], asked[c])
        BY <4>1 DEF TypeInv, TypeOK, UpdInv
      <4>3. LatestKept(t, asked[c])
        BY <4>2 DEF Status, LatestKept
      <4>4. st' = [st EXCEPT ![c] = t] /\ asked' = asked
        BY <2>5, <3>2 DEF CompleteWork
      <4> HIDE DEF t, c
      <4> QED
        BY <4>1, <4>3, <4>4, OneStatusKeptSame, ZenonT(60)
    <3> QED
      BY <3>1, <3>2
  <2> QED
    BY <1>0, <1>4, <2>1, <2>2, <2>3, <2>4, <2>5, ZenonT(60)
    DEF Worker, SyncerReturns, WorkerExits, WorkerSkips, WorkerDecides,
        WorkerSignals, WorkerStops
<1>5. CASE ConsumerLooksUp
  <2> DEFINE c == cur[cons.id]
             t == [st[c] EXCEPT !.pending = SyncUpdate(st[c].active.cfg)]
  <2>1. c \in 0..MaxObjects
    BY <1>5 DEF ConsumerLooksUp, TypeInv, TypeOK, WellFormed
  <2>2. /\ asked' = asked
        /\ st' = st \/ (c # 0 /\ st[c].pending = NoUpdate /\ st' = [st EXCEPT ![c] = t])
    BY <1>5, Zenon DEF ConsumerLooksUp
  <2>3. CASE c = 0
    BY <1>0, <2>2, <2>3
  <2>4. CASE c # 0
    <3>1. c \in Objects
      BY <2>1, <2>4 DEF Objects
    <3>2. st[c] \in Status /\ LatestKept(st[c], asked[c])
      BY <3>1, SMTT(60) DEF TypeInv, TypeOK, UpdInv
    <3>3. SyncUpdate(st[c].active.cfg) # NoUpdate
      BY ZenonT(60) DEF SyncUpdate, NoUpdate
    <3>4. SyncUpdate(st[c].active.cfg).cfg = st[c].active.cfg
      BY ZenonT(60) DEF SyncUpdate
    <3>5. st[c].pending = NoUpdate => LatestKept(t, asked[c])
      BY <3>2, <3>3, <3>4, ZenonT(60) DEF Status, LatestKept
    <3> HIDE DEF t, c
    <3> QED
      BY <1>0, <2>2, <3>1, <3>5, OneStatusKeptSame
  <2> QED
    BY <2>3, <2>4
<1>6. CASE Consumer
  BY <1>0, <1>5, <1>6, ZenonT(60) DEF Consumer, ConsumerDequeues, ConsumerSignals, ConsumerStops
<1>7. ASSUME NEW p \in Procs, ShutdownTerminates(p) PROVE UpdInv'
  <2>1. [kind |-> "terminate", cfg |-> 0, done |-> 0] \in Update
    BY DEF Update
  <2>2. NoGrace \in GraceReqs \cup {NoGrace}
    OBVIOUS
  <2> QED
    BY <1>7, <2>1, <2>2, UpdateProcessKept, ZenonT(60) DEF ShutdownTerminates
<1>8. CASE Shutdown
  BY <1>0, <1>7, <1>8
  DEF Shutdown, ShutdownCancels, ShutdownLists, ShutdownReturns, ShutdownTimesOut
<1>9. CASE UNCHANGED vars
  BY <1>0, <1>9 DEF vars
<1> QED
  BY <1>1, <1>2, <1>3, <1>4, <1>6, <1>8, <1>9 DEF Next, Client

(* The pending and active slots never lose the latest Config a process was *)
(* given, for any number of processes, clients' calls and lives of a       *)
(* process, and although two workers of one process may run at once.       *)
THEOREM UpdatesKept == Spec => []NoUpdateLost
<1>1. TypeInv /\ UpdInv => NoUpdateLost
  <2> SUFFICES ASSUME TypeInv, UpdInv, NEW p \in Procs, cur[p] # 0
               PROVE  LatestKept(st[cur[p]], asked[cur[p]])
    BY ZenonT(60) DEF NoUpdateLost, LatestKept
  <2>1. cur[p] \in Objects
    BY ConstantsAssumption DEF TypeInv, TypeOK, Objects
  <2> QED
    BY <2>1, SMTT(60) DEF UpdInv
<1>2. Spec => [](TypeInv /\ UpdInv)
  BY InitTypeInv, InitUpdInv, NextTypeInv, NextUpdInv, PTL DEF Spec
<1> QED
  BY <1>1, <1>2, PTL

-----------------------------------------------------------------------------
(* Whose objects are whose.  An id maps to an object of its own; an object *)
(* that has not been allocated has no worker and belongs to nobody; and a  *)
(* worker that is busy, or about to signal, refers to an object of its own *)
(* process, though not necessarily to the one the id maps to now.          *)
OwnInv ==
  /\ \A p \in Procs : cur[p] # 0 => owner[cur[p]] = p
  /\ \A o \in Objects : o > made => wpc[o] = "unborn" /\ owner[o] = NoProc
  /\ \A o \in Objects : Busy(o) \/ wpc[o] = "signal" => owner[won[o]] = owner[o]

(* UpdateProcess gives its process a new object or keeps the one it has.   *)
LEMMA UpdateProcessOwn ==
  ASSUME TypeInv, OwnInv, NEW p \in Procs, NEW u, NEW g, UpdateProcess(p, u, g), won' = won
  PROVE  OwnInv'
<1>1. CASE Resubmit(p, u, g)
  BY <1>1 DEF Resubmit, OwnInv, Busy
<1>2. CASE Submit(p, u, g)
  <2> DEFINE o == made + 1
  <2>1. o \in Objects /\ o > made /\ made \in Nat
    BY <1>2, ConstantsAssumption DEF Submit, TypeInv, TypeOK, Objects
  <2>2. /\ made' = o
        /\ cur' = [cur EXCEPT ![p] = o]
        /\ owner' = [owner EXCEPT ![o] = p]
        /\ wpc' = [wpc EXCEPT ![o] = "idle"]
    BY <1>2 DEF Submit
  <2>3. \A q \in Procs : cur[q] # o
    BY <2>1 DEF TypeInv, TypeOK, WellFormed
  <2>4. \A x \in Objects : x > o => x > made /\ x # o
    BY <2>1 DEF Objects
  <2>5. wpc[o] = "unborn" /\ owner[o] = NoProc
    BY <2>1 DEF OwnInv
  <2>6. /\ cur \in [Procs -> 0..MaxObjects]
        /\ owner \in [Objects -> Procs \cup {NoProc}]
        /\ wpc \in [Objects -> WorkerPC]
        /\ won \in [Objects -> Objects]
    BY DEF TypeInv, TypeOK
  <2> HIDE DEF o
  <2>7. \A q \in Procs : cur'[q] # 0 => owner'[cur'[q]] = q
    <3> SUFFICES ASSUME NEW q \in Procs, cur'[q] # 0 PROVE owner'[cur'[q]] = q
      OBVIOUS
    <3>1. CASE q = p
      BY <3>1, <2>1, <2>2, <2>6
    <3>2. CASE q # p
      <4>1. cur'[q] = cur[q] /\ cur[q] # o /\ cur[q] # 0
        BY <3>2, <2>2, <2>3, <2>6
      <4>2. cur[q] \in Objects
        BY <4>1, <2>6, ConstantsAssumption DEF Objects
      <4> QED
        BY <4>1, <4>2, <2>2, <2>6 DEF OwnInv
    <3> QED
      BY <3>1, <3>2
  <2>8. \A x \in Objects : x > made' => wpc'[x] = "unborn" /\ owner'[x] = NoProc
    BY <2>2, <2>4, <2>6 DEF OwnInv
  <2>9. \A x \in Objects : (Busy(x) \/ wpc[x] = "signal")' => owner'[won'[x]] = owner'[x]
    <3> SUFFICES ASSUME NEW x \in Objects, (Busy(x) \/ wpc[x] = "signal")'
                 PROVE  owner'[won'[x]] = owner'[x]
      BY ZenonT(60)
    <3>1. x # o /\ wpc'[x] = wpc[x]
      BY <2>1, <2>2, <2>6 DEF Busy
    <3>2. owner[x] \in Procs /\ owner[won[x]] = owner[x]
      BY <3>1 DEF Busy, OwnInv, TypeInv, WellFormed
    <3>3. won[x] # o
      BY <3>2, <2>5, NoProcAssumption
    <3> QED
      BY <3>1, <3>2, <3>3, <2>2, <2>6
  <2> QED
    BY <2>7, <2>8, <2>9 DEF OwnInv
<1> QED
  BY <1>1, <1>2 DEF UpdateProcess

(* Objects keep their owners, and workers refer to objects of their own    *)
(* process, in every step.                                                 *)
LEMMA NextOwnInv == TypeInv /\ OwnInv /\ [Next]_vars => OwnInv'
<1> SUFFICES ASSUME TypeInv, OwnInv, [Next]_vars PROVE OwnInv'
  OBVIOUS
<1> USE DEF Busy
<1>0. /\ wpc \in [Objects -> WorkerPC]
      /\ won \in [Objects -> Objects]
      /\ owner \in [Objects -> Procs \cup {NoProc}]
  BY DEF TypeInv, TypeOK
<1>1. ASSUME NEW p \in Procs, ClientApply(p) PROVE OwnInv'
  BY <1>1, UpdateProcessOwn DEF ClientApply
<1>2. ASSUME NEW p \in Procs, NEW g, NEW ch, ClientTerminate(p, g, ch) PROVE OwnInv'
  BY <1>2, UpdateProcessOwn DEF ClientTerminate
<1>3. ASSUME NEW desired, SyncKnownProcesses(desired) PROVE OwnInv'
  BY <1>3, ZenonT(60) DEF SyncKnownProcesses, OwnInv
<1>4. ASSUME NEW o \in Objects, Worker(o) PROVE OwnInv'
  <2>1. CASE WorkerExits(o)
    BY <1>0, <2>1 DEF WorkerExits, ReceiveSignal, OwnInv
  <2>2. CASE WorkerSkips(o)
    BY <1>0, <2>2 DEF WorkerSkips, ReceiveSignal, OwnInv
  <2>3. CASE WorkerTakes(o)
    <3>1. /\ owner[o] \in Procs
          /\ cur[owner[o]] # 0
          /\ owner[cur[owner[o]]] = owner[o]
          /\ wpc[o] # "unborn"
      BY <2>3 DEF WorkerTakes, ReceiveSignal, OwnInv, TypeInv, WellFormed
    <3>2. /\ UNCHANGED <<cur, made, owner>>
          /\ won' = [won EXCEPT ![o] = cur[owner[o]]]
          /\ \A x \in Objects \ {o} : wpc'[x] = wpc[x]
      BY <1>0, <2>3 DEF WorkerTakes
    <3> QED
      BY <1>0, <3>1, <3>2 DEF OwnInv
  <2>4. CASE WorkerDecides(o)
    BY <1>0, <2>4 DEF WorkerDecides, OwnInv
  <2>5. CASE SyncerReturns(o)
    <3>1. /\ wpc' = [wpc EXCEPT ![o] = "complete"]
          /\ Busy(o)
          /\ UNCHANGED <<cur, made, owner, won>>
      BY <2>5, ZenonT(60) DEF SyncerReturns, SyncReturns, TerminatingReturns, TerminatedReturns
    <3> QED
      BY <1>0, <3>1 DEF OwnInv
  <2>6. CASE CompleteWork(o)
    <3> DEFINE c == cur[owner[o]]
    <3>1. /\ owner[o] \in Procs
          /\ c # 0 => owner[c] = owner[o]
          /\ wpc[o] # "unborn"
      BY <2>6 DEF CompleteWork, OwnInv, TypeInv, WellFormed
    <3>2. /\ UNCHANGED <<cur, made, owner>>
          /\ \A x \in Objects \ {o} : wpc'[x] = wpc[x] /\ won'[x] = won[x]
          /\ \/ wpc'[o] = "idle"
             \/ wpc'[o] = "signal" /\ c # 0 /\ won'[o] = c
      BY <1>0, <2>6 DEF CompleteWork
    <3> QED
      BY <1>0, <3>1, <3>2 DEF OwnInv
  <2>7. CASE WorkerSignals(o)
    BY <1>0, <2>7 DEF WorkerSignals, OwnInv
  <2>8. CASE WorkerStops(o)
    BY <1>0, <2>8 DEF WorkerStops, OwnInv
  <2> QED
    BY <1>4, <2>1, <2>2, <2>3, <2>4, <2>5, <2>6, <2>7, <2>8 DEF Worker
<1>5. CASE Consumer
  BY <1>5, ZenonT(60) DEF Consumer, ConsumerDequeues, ConsumerLooksUp, ConsumerSignals, ConsumerStops, OwnInv
<1>6. CASE Shutdown
  <2>1. ASSUME NEW p \in Procs, ShutdownTerminates(p) PROVE OwnInv'
    BY <2>1, UpdateProcessOwn DEF ShutdownTerminates
  <2> QED
    BY <1>6, <2>1, ZenonT(60)
    DEF Shutdown, ShutdownCancels, ShutdownLists, ShutdownReturns, ShutdownTimesOut, OwnInv
<1>7. CASE UNCHANGED vars
  BY <1>7, ZenonT(60) DEF vars, OwnInv
<1> QED
  BY <1>1, <1>2, <1>3, <1>4, <1>5, <1>6, <1>7 DEF Next, Client

(* No object is allocated at first.                                        *)
LEMMA InitOwnInv == Init => OwnInv
BY DEF Init, OwnInv, Busy

-----------------------------------------------------------------------------
(* A worker of the process is between taking an update and completing it.  *)
Served(p) == \E o \in Objects : owner[o] = p /\ Busy(o)

(* NoProcessForgotten, process by process, with what makes it inductive:   *)
(* the working flag, which makes a worker drop its signal, is set only     *)
(* while some worker of the process is busy and will look again.           *)
Awake(p) ==
  (cur[p] # 0 /\ down = "up") =>
    /\ st[cur[p]].working => Served(p)
    /\ \/ st[cur[p]].finished
       \/ /\ wpc[cur[p]] # "exited"
          /\ st[cur[p]].pending # NoUpdate => SignalDue(p, cur[p])
          /\ st[cur[p]].pending = NoUpdate =>
               \/ p \in queue
               \/ cons.pc = "lookup" /\ cons.id = p
               \/ Served(p)

WakeInv == \A p \in Procs : Awake(p)

(* The inductive invariant says what NoProcessForgotten says.              *)
LEMMA WakeInvMeans == TypeInv /\ WakeInv => NoProcessForgotten
BY ZenonT(60) DEF WakeInv, Awake, Served, NoProcessForgotten, ShuttingDown, TypeInv, TypeOK

(* A status on which nothing that matters for the wake-up has happened.    *)
Quiet(s, t) ==
  /\ t.pending = s.pending
  /\ s.finished => t.finished
  /\ t.working => s.working

(* A step that neither drops a signal nor frees a worker keeps a process   *)
(* awake.                                                                  *)
LEMMA StaysAwake ==
  ASSUME NEW p \in Procs, Awake(p),
         cur'[p] = cur[p],
         down' = "up" => down = "up",
         cur[p] # 0 => /\ Quiet(st[cur[p]], st'[cur[p]])
                       /\ wpc'[cur[p]] = "exited" /\ down' = "up" =>
                            wpc[cur[p]] = "exited" \/ st[cur[p]].finished
                       /\ sig[cur[p]] /\ down' = "up" => sig'[cur[p]] \/ Served(p)'
                            \/ st[cur[p]].finished \/ st[cur[p]].pending = NoUpdate
                       /\ cons.pc = "signal" /\ cons.obj = cur[p] =>
                            sig'[cur[p]] \/ cons' = cons,
         \A o \in Objects : owner[o] = p =>
            /\ owner'[o] = p
            /\ Busy(o) => Busy(o)'
            /\ wpc[o] = "signal" => sig'[won[o]] \/ (wpc'[o] = "signal" /\ won'[o] = won[o]),
         p \in queue => p \in queue' \/ (cons'.pc = "lookup" /\ cons'.id = p),
         cons.pc = "lookup" /\ cons.id = p => cur[p] = 0 \/ cons' = cons
  PROVE  Awake(p)'
<1> SUFFICES ASSUME cur[p] # 0, down' = "up"
             PROVE  Awake(p)'
  BY ZenonT(60) DEF Awake
<1> DEFINE c == cur[p]
<1>1. Served(p) => Served(p)'
  BY ZenonT(60) DEF Served
<1>2. st'[c].working => Served(p)'
  BY <1>1, ZenonT(60) DEF Awake, Quiet
<1>3. ASSUME ~st'[c].finished
      PROVE  /\ ~st[c].finished
             /\ wpc'[c] # "exited"
             /\ st'[c].pending = st[c].pending
  BY <1>3, ZenonT(60) DEF Awake, Quiet
<1>4. ASSUME SignalDue(p, c), ~st'[c].finished, st[c].pending # NoUpdate PROVE SignalDue(p, c)'
  <2>1. CASE sig[c]
    BY <2>1, <1>3, <1>4, ZenonT(60) DEF SignalDue, Served
  <2>2. CASE cons.pc = "signal" /\ cons.obj = c
    BY <2>2, ZenonT(60) DEF SignalDue
  <2>3. CASE Served(p)
    BY <1>1, <2>3, ZenonT(60) DEF SignalDue, Served
  <2>4. ASSUME NEW o \in Objects, owner[o] = p, wpc[o] = "signal", won[o] = c
        PROVE  SignalDue(p, c)'
    BY <2>4, ZenonT(60) DEF SignalDue
  <2> QED
    BY <1>4, <2>1, <2>2, <2>3, <2>4, ZenonT(60) DEF SignalDue, Served
<1>5. ASSUME ~st'[c].finished, st[c].pending = NoUpdate
      PROVE  p \in queue' \/ (cons'.pc = "lookup" /\ cons'.id = p) \/ Served(p)'
  BY <1>1, <1>3, <1>5, ZenonT(60) DEF Awake
<1> QED
  BY <1>2, <1>3, <1>4, <1>5, ZenonT(60) DEF Awake

(* A process one of whose workers is busy is awake.                        *)
LEMMA ServedIsAwake ==
  ASSUME NEW p \in Procs, Served(p)',
         cur'[p] # 0 => wpc'[cur'[p]] # "exited" \/ st'[cur'[p]].finished
  PROVE  Awake(p)'
BY ZenonT(60) DEF Awake, Served, SignalDue

(* There is no process to forget at first.                                 *)
LEMMA InitWakeInv == Init => WakeInv
BY ZenonT(60) DEF Init, WakeInv, Awake

(* An update accepted by UpdateProcess comes with a signal to the worker   *)
(* that the process then has, and disturbs no other process.               *)
LEMMA UpdateProcessAwake ==
  ASSUME TypeInv, OwnInv, WakeInv, NEW p \in Procs, NEW u \in Update,
         NEW g \in GraceReqs \cup {NoGrace}, UpdateProcess(p, u, g),
         UNCHANGED <<won, queue, cons, down>>
  PROVE  WakeInv'
<1> SUFFICES ASSUME NEW q \in Procs PROVE Awake(q)'
  BY DEF WakeInv
<1>0. Awake(q) /\ u # NoUpdate
  BY UpdateFacts DEF WakeInv
<1>t. /\ cur \in [Procs -> 0..MaxObjects]
      /\ owner \in [Objects -> Procs \cup {NoProc}]
      /\ st \in [Objects -> Status]
      /\ sig \in [Objects -> BOOLEAN]
      /\ wpc \in [Objects -> WorkerPC]
      /\ won \in [Objects -> Objects]
  BY ZenonT(60) DEF TypeInv, TypeOK
<1>o. \A r \in Procs : cur[r] # 0 => cur[r] \in Objects
  BY <1>t, ConstantsAssumption DEF Objects
<1>1. CASE Resubmit(p, u, g)
  <2> DEFINE o == cur[p]
             s == IF u.kind = "terminate"
                  THEN HandleTerminationRequest(st[o], g) ELSE st[o]
             t == [s EXCEPT !.pending = u]
  <2>1. o # 0 /\ UNCHANGED <<cur, made, owner, wpc>>
    BY <1>1 DEF Resubmit
  <2>2. o \in Objects /\ st[o] \in Status
    BY <1>o, <1>t, <2>1
  <2>3. CASE st[o].finished
    <3>1. UNCHANGED <<st, sig>>
      BY <1>1, <2>3 DEF Resubmit
    <3> QED
      BY <1>0, <2>1, <3>1, StaysAwake, ZenonT(60) DEF Quiet, Busy
  <2>4. CASE ~st[o].finished
    <3>1. st' = [st EXCEPT ![o] = t] /\ sig' = [sig EXCEPT ![o] = TRUE]
      BY <1>1, <2>4 DEF Resubmit
    <3>2. s \in Status /\ s.working = st[o].working
      BY <2>2, TerminationRequest, ZenonT(60) DEF HandleTerminationRequest, Status
    <3>3. t.pending = u /\ t.working = st[o].working
      BY <3>2 DEF Status
    <3> HIDE DEF t, s
    <3>4. CASE q # p
      <4>1. cur[q] # 0 => cur[q] # o
        BY <3>4, <2>1, ZenonT(60) DEF OwnInv
      <4>2. cur[q] # 0 => st'[cur[q]] = st[cur[q]] /\ sig'[cur[q]] = sig[cur[q]]
        BY <1>o, <1>t, <3>1, <4>1
      <4>3. \A x \in Objects : sig[x] => sig'[x]
        BY <1>t, <3>1
      <4> QED
        BY <1>0, <2>1, <4>2, <4>3, StaysAwake, ZenonT(60) DEF Quiet, Busy
    <3>5. CASE q = p
      <4>1. st'[o].pending = u /\ st'[o].working = st[o].working /\ sig'[o]
        BY <1>t, <2>2, <3>1, <3>3
      <4> QED
        BY <1>0, <2>1, <2>4, <3>5, <4>1, ZenonT(60) DEF Awake, Served, SignalDue, Busy
    <3> QED
      BY <3>4, <3>5
  <2> QED
    BY <2>3, <2>4
<1>2. CASE Submit(p, u, g)
  <2> DEFINE o == made + 1
             s == IF u.kind = "terminate"
                  THEN HandleTerminationRequest(NewStatus, g) ELSE NewStatus
             t == [s EXCEPT !.pending = u]
  <2>1. o \in Objects /\ o > made /\ o # 0
    BY <1>2, ConstantsAssumption DEF Submit, TypeInv, TypeOK, Objects
  <2>2. /\ cur' = [cur EXCEPT ![p] = o]
        /\ owner' = [owner EXCEPT ![o] = p]
        /\ st' = [st EXCEPT ![o] = t]
        /\ sig' = [sig EXCEPT ![o] = TRUE]
        /\ wpc' = [wpc EXCEPT ![o] = "idle"]
    BY <1>2 DEF Submit
  <2>3. \A r \in Procs : cur[r] # o
    BY <2>1 DEF TypeInv, TypeOK, WellFormed
  <2>4. wpc[o] = "unborn" /\ owner[o] = NoProc
    BY <2>1, ZenonT(60) DEF OwnInv
  <2>5. s \in Status /\ ~s.working
    BY NewStatusType, TerminationRequest, ZenonT(60) DEF HandleTerminationRequest, Status, NewStatus
  <2>6. t.pending = u /\ ~t.working
    BY <2>5 DEF Status
  <2> HIDE DEF o, s, t
  <2>7. CASE q # p
    <3>1. cur'[q] = cur[q] /\ cur[q] # o
      BY <1>t, <2>2, <2>3, <2>7
    <3>2. cur[q] # 0 => /\ st'[cur[q]] = st[cur[q]]
                        /\ sig'[cur[q]] = sig[cur[q]]
                        /\ wpc'[cur[q]] = wpc[cur[q]]
      BY <1>o, <1>t, <2>2, <3>1, ZenonT(60)
    <3>3. \A x \in Objects : sig[x] => sig'[x]
      BY <1>t, <2>2
    <3>4. \A x \in Objects : owner[x] = q => x # o /\ owner'[x] = q /\ wpc'[x] = wpc[x]
      BY <1>t, <2>2, <2>4, NoProcAssumption
    <3> QED
      BY <1>0, <3>1, <3>2, <3>3, <3>4, StaysAwake, ZenonT(60) DEF Quiet, Busy
  <2>8. CASE q = p
    <3>1. /\ cur'[q] = o
          /\ st'[o] = t
          /\ sig'[o]
          /\ wpc'[o] = "idle"
      BY <1>t, <2>1, <2>2, <2>8
    <3> QED
      BY <1>0, <2>6, <3>1, ZenonT(60) DEF Awake, SignalDue
  <2> QED
    BY <2>7, <2>8
<1> QED
  BY <1>1, <1>2 DEF UpdateProcess

(* A worker of a process keeps every process awake: the signal it drops is *)
(* that of a finished process, or of one that a busy worker will bring up  *)
(* again, and completeWork queues the process and signals what is pending. *)
LEMMA WorkerAwake ==
  ASSUME TypeInv, OwnInv, WakeInv, NEW o \in Objects, Worker(o)
  PROVE  WakeInv'
<1> SUFFICES ASSUME NEW q \in Procs PROVE Awake(q)'
  BY DEF WakeInv
<1> DEFINE p == owner[o]
           c == cur[p]
<1>0. Awake(q)
  BY DEF WakeInv
<1>t. /\ cur \in [Procs -> 0..MaxObjects]
      /\ owner \in [Objects -> Procs \cup {NoProc}]
      /\ st \in [Objects -> Status]
      /\ sig \in [Objects -> BOOLEAN]
      /\ wpc \in [Objects -> WorkerPC]
      /\ won \in [Objects -> Objects]
  BY DEF TypeInv, TypeOK
<1>o. /\ \A r \in Procs : cur[r] # 0 => cur[r] \in Objects /\ owner[cur[r]] = r
      /\ o # 0
  <2>1. o # 0 /\ \A x \in 0..MaxObjects : x # 0 => x \in Objects
    BY ConstantsAssumption DEF Objects
  <2>2. \A r \in Procs : cur[r] \in 0..MaxObjects
    BY <1>t
  <2> QED
    BY <2>1, <2>2, ZenonT(60) DEF OwnInv
<1>p. wpc[o] # "unborn" => p \in Procs
  BY ZenonT(60) DEF TypeInv, WellFormed
<1>1. CASE WorkerExits(o)
  <2>1. /\ wpc[o] = "idle"
        /\ c # 0 => st[c].finished
        /\ sig' = [sig EXCEPT ![o] = FALSE]
        /\ wpc' = [wpc EXCEPT ![o] = "exited"]
        /\ UNCHANGED <<cur, owner, st, won, queue, cons, down>>
    BY <1>1, ZenonT(60) DEF WorkerExits, ReceiveSignal
  <2>2. \A x \in Objects : x # o => wpc'[x] = wpc[x] /\ sig'[x] = sig[x]
    BY <1>t, <2>1
  <2>3. cur[q] = o => st[cur[q]].finished
    BY <1>o, <2>1
  <2> QED
    BY <1>0, <1>o, <2>1, <2>2, <2>3, StaysAwake, ZenonT(60) DEF Quiet, Busy, Awake
<1>2. CASE WorkerSkips(o)
  <2>1. /\ wpc[o] = "idle"
        /\ c # 0
        /\ st[c].working \/ st[c].pending = NoUpdate
        /\ sig' = [sig EXCEPT ![o] = FALSE]
        /\ UNCHANGED <<cur, owner, st, wpc, won, queue, cons, down>>
    BY <1>2, ZenonT(60) DEF WorkerSkips, ReceiveSignal
  <2>2. \A x \in Objects : x # o => sig'[x] = sig[x]
    BY <1>t, <2>1
  <2>3. cur[q] = o => c = o /\ p = q
    BY <1>o, <2>1
  <2>4. Served(q) => Served(q)'
    BY <2>1, ZenonT(60) DEF Served, Busy
  <2>5. CASE cur[q] = o
    <3>1. st[o].pending # NoUpdate /\ down = "up" => Served(q)'
      BY <1>0, <1>o, <2>1, <2>3, <2>4, <2>5, ZenonT(60) DEF Awake
    <3> QED
      BY <1>0, <1>o, <2>1, <2>4, <2>5, <3>1, StaysAwake, ZenonT(60) DEF Quiet, Busy
  <2>6. CASE cur[q] # o
    BY <1>0, <1>o, <2>1, <2>2, <2>6, StaysAwake, ZenonT(60) DEF Quiet, Busy
  <2> QED
    BY <2>5, <2>6
<1>3. CASE WorkerTakes(o)
  <2>1. /\ wpc[o] = "idle"
        /\ c # 0
        /\ ~st[c].finished
        /\ sig' = [sig EXCEPT ![o] = FALSE]
        /\ \E t : st' = [st EXCEPT ![c] = t]
        /\ won' = [won EXCEPT ![o] = c]
        /\ \E v \in {"terminated", "terminating", "decide"} : wpc' = [wpc EXCEPT ![o] = v]
        /\ UNCHANGED <<cur, owner, queue, cons, down>>
    BY <1>3, ZenonT(60) DEF WorkerTakes, ReceiveSignal
  <2>2. /\ p \in Procs
        /\ c \in Objects
        /\ owner[c] = p
    BY <1>o, <1>p, <2>1, ZenonT(60)
  <2>3. /\ \A x \in Objects : x # o => wpc'[x] = wpc[x] /\ sig'[x] = sig[x] /\ won'[x] = won[x]
        /\ \A x \in Objects : x # c => st'[x] = st[x]
        /\ Busy(o)'
    BY <1>t, <2>1, ZenonT(60) DEF Busy
  <2> HIDE DEF c, p
  <2>4. CASE q = p
    <3>1. Served(q)'
      BY <2>1, <2>3, <2>4 DEF Served, p
    <3>2. wpc'[c] # "exited" \/ down' # "up"
      BY <1>0, <2>1, <2>2, <2>3, <2>4, ZenonT(60) DEF Awake, Busy, c
    <3>3. cur'[q] = c
      BY <2>1, <2>4 DEF c
    <3> QED
      BY <3>1, <3>2, <3>3, ServedIsAwake, ZenonT(60) DEF Awake
  <2>5. CASE q # p
    <3>1. cur[q] # 0 => cur[q] \in Objects /\ cur[q] # c /\ cur[q] # o
      BY <1>o, <2>2, <2>5 DEF p
    <3>2. \A x \in Objects : owner[x] = q => x # o
      BY <2>5 DEF p
    <3> QED
      BY <1>0, <2>1, <2>3, <3>1, <3>2, StaysAwake, ZenonT(60) DEF Quiet, Busy
  <2> QED
    BY <2>4, <2>5
<1>4. CASE WorkerDecides(o)
  <2>1. /\ Busy(o) /\ wpc[o] = "decide"
        /\ \E v \in {"terminating", "syncing"} : wpc' = [wpc EXCEPT ![o] = v]
        /\ UNCHANGED <<cur, owner, st, sig, won, queue, cons, down>>
    BY <1>4, ZenonT(60) DEF WorkerDecides, Busy
  <2>2. /\ \A x \in Objects : x # o => wpc'[x] = wpc[x]
        /\ wpc'[o] \in {"terminating", "syncing"}
    BY <1>t, <2>1
  <2> QED
    BY <1>0, <1>o, <2>1, <2>2, StaysAwake, ZenonT(60) DEF Quiet, Busy
<1>5. CASE SyncerReturns(o)
  <2> DEFINE w == won[o]
  <2>1. /\ Busy(o) /\ wpc[o] # "signal" /\ wpc[o] # "unborn"
        /\ wpc' = [wpc EXCEPT ![o] = "complete"]
        /\ UNCHANGED <<cur, owner, sig, won, queue, cons, down>>
    BY <1>5, ZenonT(60)
    DEF SyncerReturns, SyncReturns, TerminatingReturns, TerminatedReturns, Busy
  <2>2. /\ p \in Procs /\ w \in Objects /\ owner[w] = p
    BY <1>p, <1>t, <2>1, ZenonT(60) DEF OwnInv
  <2>3. /\ \A x \in Objects : x # o => wpc'[x] = wpc[x]
        /\ wpc'[o] = "complete"
    BY <1>t, <2>1
  <2>4. \A x \in Objects : x # w => st'[x] = st[x]
    <3>1. st' = st \/ \E s : st' = [st EXCEPT ![w] = s]
      BY <1>5, ZenonT(60)
      DEF SyncerReturns, SyncReturns, TerminatingReturns, TerminatedReturns
    <3> QED
      BY <1>t, <3>1
  <2>5. \A x \in Objects : st[x].finished => st'[x].finished
    <3>1. st[w] \in Status
      BY <1>t, <2>2
    <3>2. ASSUME NEW terminal \in BOOLEAN, NEW ok \in BOOLEAN, SyncReturns(o, terminal, ok)
          PROVE  st'[w].finished = st[w].finished
      BY <1>t, <2>2, <3>1, <3>2, ZenonT(60) DEF SyncReturns, Status
    <3>3. ASSUME NEW ok \in BOOLEAN, TerminatingReturns(o, ok)
          PROVE  st'[w].finished = st[w].finished
      BY <1>t, <2>2, <3>1, <3>3, ZenonT(180) DEF TerminatingReturns, Status
    <3>4. ASSUME NEW ok \in BOOLEAN, TerminatedReturns(o, ok)
          PROVE  st[w].finished => st'[w].finished
      BY <1>t, <2>2, <3>1, <3>4, ZenonT(180) DEF TerminatedReturns, Status
    <3> QED
      BY <1>5, <2>4, <3>2, <3>3, <3>4, ZenonT(60) DEF SyncerReturns
  <2> HIDE DEF w, p
  <2>6. CASE q = p
    <3>1. Served(q)'
      BY <2>1, <2>3, <2>6 DEF Served, Busy, p
    <3>2. cur[q] # 0 => wpc'[cur[q]] # "exited" \/ down' # "up" \/ st'[cur[q]].finished
      BY <1>0, <1>o, <2>1, <2>3, <2>5, ZenonT(60) DEF Awake
    <3> QED
      BY <2>1, <3>1, <3>2, ServedIsAwake, ZenonT(60) DEF Awake
  <2>7. CASE q # p
    <3>1. cur[q] # 0 => cur[q] \in Objects /\ cur[q] # w /\ cur[q] # o
      BY <1>o, <2>2, <2>7, ZenonT(60) DEF p
    <3> QED
      BY <1>0, <2>1, <2>3, <2>4, <3>1, StaysAwake, ZenonT(60) DEF Quiet, Busy
  <2> QED
    BY <2>6, <2>7
<1>6. CASE CompleteWork(o)
  <2>1. /\ wpc[o] = "complete"
        /\ UNCHANGED <<cur, owner, sig, cons, down>>
        /\ queue \subseteq queue'
        /\ \A x \in Objects : x # o => wpc'[x] = wpc[x] /\ won'[x] = won[x]
        /\ \A x \in Objects : x # c => st'[x] = st[x]
        /\ wpc'[o] \in {"signal", "idle"}
    BY <1>6, <1>t DEF CompleteWork
  <2>2. p \in Procs /\ (c # 0 => c \in Objects /\ owner[c] = p)
    BY <1>o, <1>p, <2>1
  <2>3. CASE q = p
    <3> SUFFICES ASSUME c # 0, down = "up" PROVE Awake(q)'
      BY <2>1, <2>3, ZenonT(60) DEF Awake
    <3>1. st' = [st EXCEPT ![c] = [st[c] EXCEPT !.working = FALSE]]
      BY <1>6 DEF CompleteWork
    <3>2. st[c] \in Status
      BY <1>t, <2>2
    <3>3. st'[c] = [st[c] EXCEPT !.working = FALSE]
      BY <1>t, <2>2, <3>1
    <3>4. /\ ~st'[c].working
          /\ st'[c].finished = st[c].finished
          /\ st'[c].pending = st[c].pending
      BY <3>2, <3>3 DEF Status
    <3>5. ~st[c].finished => p \in queue'
      BY <1>6 DEF CompleteWork
    <3>6. ~st[c].finished /\ st[c].pending # NoUpdate => wpc'[o] = "signal" /\ won'[o] = c
      BY <1>6, <1>t DEF CompleteWork
    <3>7. ~st[c].finished => wpc'[c] # "exited"
      BY <1>0, <2>1, <2>2, <2>3, ZenonT(60) DEF Awake
    <3>8. cur'[q] = c /\ owner'[o] = q
      BY <2>1, <2>3, ZenonT(60)
    <3> HIDE DEF c, p
    <3> QED
      BY <2>3, <3>4, <3>5, <3>6, <3>7, <3>8, ZenonT(60) DEF Awake, SignalDue
  <2>4. CASE q # p
    <3>1. cur[q] # 0 => cur[q] \in Objects /\ cur[q] # c /\ cur[q] # o
      BY <1>o, <2>2, <2>4, ZenonT(60)
    <3>2. \A x \in Objects : owner[x] = q => x # o
      BY <2>4
    <3> HIDE DEF c, p
    <3> QED
      BY <1>0, <2>1, <3>1, <3>2, StaysAwake, ZenonT(60) DEF Quiet, Busy
  <2> QED
    BY <2>3, <2>4
<1>7. CASE WorkerSignals(o)
  <2>1. /\ wpc[o] = "signal"
        /\ sig' = [sig EXCEPT ![won[o]] = TRUE]
        /\ wpc' = [wpc EXCEPT ![o] = "idle"]
        /\ UNCHANGED <<cur, owner, st, won, queue, cons, down>>
    BY <1>7 DEF WorkerSignals
  <2>2. /\ \A x \in Objects : sig[x] => sig'[x]
        /\ sig'[won[o]]
        /\ \A x \in Objects : x # o => wpc'[x] = wpc[x]
        /\ wpc'[o] = "idle"
    BY <1>t, <2>1
  <2> QED
    BY <1>0, <1>o, <2>1, <2>2, StaysAwake, ZenonT(60) DEF Quiet, Busy
<1>8. CASE WorkerStops(o)
  BY <1>8, ZenonT(60) DEF WorkerStops, ShuttingDown, Awake
<1> QED
  BY <1>1, <1>2, <1>3, <1>4, <1>5, <1>6, <1>7, <1>8 DEF Worker

(* The consumer hands an id it took from the queue on to the worker.       *)
LEMMA ConsumerAwake ==
  ASSUME TypeInv, OwnInv, WakeInv, Consumer
  PROVE  WakeInv'
<1> SUFFICES ASSUME NEW q \in Procs PROVE Awake(q)'
  BY DEF WakeInv
<1>0. Awake(q)
  BY DEF WakeInv
<1>t. /\ cur \in [Procs -> 0..MaxObjects]
      /\ st \in [Objects -> Status]
      /\ sig \in [Objects -> BOOLEAN]
      /\ cons \in [pc : {"wait", "lookup", "signal", "exited"},
                   id : Procs \cup {NoProc}, obj : Objects]
  BY DEF TypeInv, TypeOK
<1>o. \A r \in Procs : cur[r] # 0 => cur[r] \in Objects /\ owner[cur[r]] = r
  <2>1. \A r \in Procs : cur[r] # 0 => cur[r] \in Objects
    BY <1>t, ConstantsAssumption DEF Objects
  <2> QED
    BY <2>1, ZenonT(60) DEF OwnInv
<1>1. ASSUME NEW p \in Procs, ConsumerDequeues(p) PROVE Awake(q)'
  <2>1. /\ cons.pc = "wait"
        /\ queue' = queue \ {p}
        /\ cons'.pc = "lookup" /\ cons'.id = p
        /\ UNCHANGED <<cur, owner, st, sig, wpc, won, down>>
    BY <1>1, <1>t DEF ConsumerDequeues
  <2> QED
    BY <1>0, <2>1, StaysAwake, ZenonT(60) DEF Quiet, Busy
<1>2. CASE ConsumerLooksUp
  <2> DEFINE p == cons.id
             c == cur[p]
             t == [st[c] EXCEPT !.pending = SyncUpdate(st[c].active.cfg)]
  <2>1. /\ cons.pc = "lookup" /\ p \in Procs
        /\ UNCHANGED <<cur, owner, sig, wpc, won, queue, down>>
    BY <1>2 DEF ConsumerLooksUp, TypeInv, WellFormed
  <2>2. CASE c = 0
    BY <1>0, <1>2, <2>1, <2>2, StaysAwake DEF ConsumerLooksUp, Quiet, Busy
  <2>3. CASE c # 0
    <3>1. c \in Objects /\ owner[c] = p /\ st[c] \in Status
      BY <1>o, <1>t, <2>1, <2>3
    <3>2. cons' = [cons EXCEPT !.pc = "signal", !.obj = c]
      BY <1>2, <2>3, Zenon DEF ConsumerLooksUp
    <3>3. cons'.pc = "signal" /\ cons'.obj = c
      <4> HIDE DEF c
      <4> QED
        BY <1>t, <3>2
    <3>4. \/ st' = st /\ st[c].pending # NoUpdate
          \/ st' = [st EXCEPT ![c] = t]
      BY <1>2, <2>3, Zenon DEF ConsumerLooksUp
    <3>5. SyncUpdate(st[c].active.cfg) # NoUpdate
      BY <3>1, UpdateFacts, ZenonT(60) DEF Status
    <3>6. t.pending # NoUpdate /\ t.finished = st[c].finished /\ t.working = st[c].working
      BY <3>1, <3>5 DEF Status
    <3> HIDE DEF t
    <3>7. /\ \A x \in Objects : x # c => st'[x] = st[x]
          /\ st'[c].pending # NoUpdate
          /\ st'[c].finished = st[c].finished
          /\ st'[c].working = st[c].working
      BY <1>t, <3>1, <3>4, <3>6, ZenonT(60)
    <3> HIDE DEF p, c
    <3>8. CASE q = p
      <4>1. cur[q] = c /\ cur'[q] = c
        BY <2>1, <3>8 DEF c
      <4>2. Served(q) => Served(q)'
        BY <2>1 DEF Served, Busy
      <4> QED
        BY <1>0, <2>1, <3>3, <3>7, <4>1, <4>2, ZenonT(60) DEF Awake, SignalDue
    <3>9. CASE q # p
      <4>1. cur[q] # 0 => cur[q] \in Objects /\ cur[q] # c
        BY <1>o, <3>1, <3>9
      <4> QED
        BY <1>0, <2>1, <3>7, <3>9, <4>1, StaysAwake, ZenonT(60) DEF Quiet, Busy, p
    <3> QED
      BY <3>8, <3>9
  <2> QED
    BY <2>2, <2>3
<1>3. CASE ConsumerSignals
  <2>1. /\ cons.pc = "signal"
        /\ UNCHANGED <<cur, owner, st, wpc, won, queue, down>>
        /\ \A x \in Objects : sig[x] => sig'[x]
        /\ sig'[cons.obj]
    BY <1>3, <1>t DEF ConsumerSignals
  <2> QED
    BY <1>0, <1>o, <1>t, <2>1, StaysAwake, ZenonT(60) DEF Quiet, Busy
<1>4. CASE ConsumerStops
  BY <1>4 DEF ConsumerStops, ShuttingDown, Awake
<1> QED
  BY <1>1, <1>2, <1>3, <1>4 DEF Consumer

(* Every step keeps every process awake.                                   *)
LEMMA NextWakeInv == TypeInv /\ OwnInv /\ WakeInv /\ [Next]_vars => WakeInv'
<1> SUFFICES ASSUME TypeInv, OwnInv, WakeInv, [Next]_vars PROVE WakeInv'
  OBVIOUS
<1> USE ConstantsAssumption
<1>1. ASSUME NEW p \in Procs, ClientApply(p) PROVE WakeInv'
  <2>1. /\ [kind |-> "apply", cfg |-> nver + 1, done |-> 0] \in Update
        /\ NoGrace \in GraceReqs \cup {NoGrace}
    BY <1>1 DEF ClientApply, Update, TypeInv, TypeOK
  <2> QED
    BY <1>1, <2>1, UpdateProcessAwake, ZenonT(60) DEF ClientApply
<1>2. ASSUME NEW p \in Procs, NEW g \in GraceReqs \cup {NoGrace},
             NEW ch \in Channels, ClientTerminate(p, g, ch)
      PROVE  WakeInv'
  <2>1. [kind |-> "terminate", cfg |-> nver + 1,
         done |-> IF ch THEN nver + 1 ELSE 0] \in Update
    BY <1>2 DEF ClientTerminate, Update, TypeInv, TypeOK
  <2> QED
    BY <1>2, <2>1, UpdateProcessAwake, ZenonT(60) DEF ClientTerminate
<1>3. ASSUME NEW desired \in SUBSET Procs, SyncKnownProcesses(desired) PROVE WakeInv'
  <2> SUFFICES ASSUME NEW q \in Procs, cur'[q] # 0 PROVE Awake(q)'
    BY ZenonT(60) DEF WakeInv, Awake
  <2>1. /\ cur'[q] = cur[q]
        /\ UNCHANGED <<owner, sig, wpc, won, queue, cons, down>>
    BY <1>3, ZenonT(60) DEF SyncKnownProcesses
  <2>2. \A x \in Objects : st'[x] = st[x] \/ st'[x] = HandleTerminationRequest(st[x], NoGrace)
    BY <1>3, ZenonT(60) DEF SyncKnownProcesses
  <2>3. cur[q] \in Objects /\ st[cur[q]] \in Status
    <3>1. cur[q] \in Objects
      BY <2>1 DEF TypeInv, TypeOK, Objects
    <3> QED
      BY <3>1 DEF TypeInv, TypeOK
  <2>4. Quiet(st[cur[q]], HandleTerminationRequest(st[cur[q]], NoGrace))
    BY <2>3, TerminationRequest, ZenonT(60) DEF HandleTerminationRequest, Status, Quiet
  <2>5. Quiet(st[cur[q]], st'[cur[q]])
    BY <2>2, <2>3, <2>4, ZenonT(60) DEF Quiet
  <2> QED
    BY <2>1, <2>5, StaysAwake, ZenonT(60) DEF WakeInv, Busy
<1>4. ASSUME NEW o \in Objects, Worker(o) PROVE WakeInv'
  BY <1>4, WorkerAwake
<1>5. CASE Consumer
  BY <1>5, ConsumerAwake
<1>6. CASE Shutdown
  <2>1. down' # "up"
    BY <1>6, ZenonT(60)
    DEF Shutdown, ShutdownCancels, ShutdownLists, ShutdownTerminates, ShutdownReturns,
        ShutdownTimesOut
  <2> QED
    BY <2>1, ZenonT(60) DEF WakeInv, Awake
<1>7. CASE UNCHANGED vars
  <2> SUFFICES ASSUME NEW p \in Procs PROVE Awake(p)'
    BY DEF WakeInv
  <2>1. /\ cur' = cur /\ down' = down /\ st' = st /\ wpc' = wpc /\ queue' = queue /\ cons' = cons
        /\ owner' = owner /\ sig' = sig /\ won' = won
    BY <1>7 DEF vars
  <2>2. (Served(p)' <=> Served(p)) /\ (SignalDue(p, cur[p])' <=> SignalDue(p, cur[p]))
    BY <2>1, ZenonT(60) DEF Served, Busy, SignalDue
  <2>3. Awake(p)
    BY DEF WakeInv
  <2> QED
    BY <2>1, <2>2, <2>3, ZenonT(60) DEF Awake
<1> QED
  BY <1>1, <1>2, <1>3, <1>4, <1>5, <1>6, <1>7 DEF Next, Client

(* While the manager is up no process is forgotten: whatever the order of  *)
(* updates, dropped signals, completions, reconciliations and deliveries   *)
(* of the work queue, for any number of processes.                         *)
THEOREM NoneForgotten == Spec => []NoProcessForgotten
<1>1. TypeInv /\ OwnInv /\ WakeInv /\ [Next]_vars => (TypeInv /\ OwnInv /\ WakeInv)'
  BY NextTypeInv, NextOwnInv, NextWakeInv
<1>2. Init => TypeInv /\ OwnInv /\ WakeInv
  BY InitTypeInv, InitOwnInv, InitWakeInv
<1> QED
  BY <1>1, <1>2, WakeInvMeans, PTL DEF Spec

-----------------------------------------------------------------------------
(* A normal sync begins in one place only, where executeSync has just      *)
(* looked at the status again.                                             *)
LEMMA SyncBegins ==
  ASSUME TypeInv, [Next]_vars, NEW o \in Objects, wpc[o] # "syncing", wpc'[o] = "syncing"
  PROVE  ~st[won'[o]].terminating
<1>0. wpc \in [Objects -> WorkerPC]
  BY DEF TypeInv, TypeOK
<1>1. wpc' # wpc
  OBVIOUS
<1>2. ASSUME NEW p, NEW u, NEW g, UpdateProcess(p, u, g) PROVE FALSE
  BY <1>0, <1>2 DEF UpdateProcess, Resubmit, Submit
<1>3. ASSUME NEW x \in Objects, Worker(x) PROVE WorkerDecides(x)
  <2>1. ASSUME NEW v, v # "syncing", wpc' = [wpc EXCEPT ![x] = v] PROVE FALSE
    BY <1>0, <2>1
  <2>2. ~WorkerTakes(x) /\ ~CompleteWork(x)
    <3>1. ~WorkerTakes(x)
      BY <2>1, ZenonT(60) DEF WorkerTakes
    <3>2. ~CompleteWork(x)
      <4>1. ASSUME NEW b PROVE (IF b THEN "signal" ELSE "idle") # "syncing"
        OBVIOUS
      <4> QED BY <2>1, <4>1 DEF CompleteWork
    <3> QED BY <3>1, <3>2
  <2>3. ~WorkerExits(x) /\ ~SyncerReturns(x) /\ ~WorkerSignals(x) /\ ~WorkerStops(x)
    BY <2>1, ZenonT(60)
    DEF WorkerExits, SyncerReturns, SyncReturns, TerminatingReturns, TerminatedReturns,
        WorkerSignals, WorkerStops
  <2> QED
    BY <1>1, <1>3, <2>2, <2>3, ZenonT(60) DEF Worker, WorkerSkips
<1>4. PICK x \in Objects : WorkerDecides(x)
  BY <1>1, <1>2, <1>3, ZenonT(60)
  DEF Next, Client, Consumer, Shutdown, vars, ClientApply, ClientTerminate,
      SyncKnownProcesses, ConsumerDequeues, ConsumerLooksUp, ConsumerSignals,
      ConsumerStops, ShutdownCancels, ShutdownLists, ShutdownTerminates,
      ShutdownReturns, ShutdownTimesOut
<1> QED
  BY <1>0, <1>4, ZenonT(60) DEF WorkerDecides

(* No normal sync begins on a status that has been told to stop.           *)
THEOREM NeverSynced == Spec => OnceStoppingNeverSynced
<1>1. TypeInv /\ [Next]_vars =>
        [\A o \in Objects : (wpc[o] # "syncing" /\ wpc'[o] = "syncing")
            => ~st[won'[o]].terminating]_vars
  BY SyncBegins
<1>2. Spec => []TypeInv
  BY InitTypeInv, NextTypeInv, PTL DEF Spec
<1> QED
  BY <1>1, <1>2, PTL DEF Spec, OnceStoppingNeverSynced

-----------------------------------------------------------------------------
(* A status whose sync can still be interrupted: it has a context, and     *)
(* once it has been told to stop that context is done.                     *)
Interruptible(s) == s.ctx # "nil" /\ (s.terminating => CtxDone(s))

(* The only worker of a process deals with an interruptible status from    *)
(* the moment it takes an update to the moment the normal sync returns.    *)
SyncInv ==
  \A o \in Objects : (wpc[o] \in {"decide", "syncing"} /\ OnlyWorker(o))
                       => Interruptible(st[o])

(* The only worker of a process works on the object it was made with.      *)
LEMMA OnlyWorkersOwn ==
  ASSUME TypeInv, OwnInv, NEW o \in Objects, Busy(o), OnlyWorker(o)
  PROVE  won[o] = o
BY DEF OwnInv, OnlyWorker, TypeInv, TypeOK

(* The inductive invariant says what StopInterruptsSync says.              *)
LEMMA SyncInvMeans == TypeInv /\ OwnInv /\ SyncInv => StopInterruptsSync
BY OnlyWorkersOwn, ZenonT(60) DEF SyncInv, StopInterruptsSync, Interruptible, Busy

(* Told to stop, an interruptible status stays so: its context is          *)
(* cancelled.                                                              *)
LEMMA StopsInterruptibly ==
  ASSUME NEW s \in Status, NEW g, s.ctx # "nil", s.terminating => CtxDone(s)
  PROVE  Interruptible(HandleTerminationRequest(s, g))
<1> DEFINE t == HandleTerminationRequest(s, g)
<1>1. t.ctx = IF ~s.terminating /\ s.ctx = "live" THEN "cancelled" ELSE s.ctx
  BY DEF HandleTerminationRequest, Status
<1>2. s.ctx \in {"live", "cancelled"} /\ s.terminating \in BOOLEAN
  BY DEF Status
<1> HIDE DEF t
<1> QED
  BY <1>1, <1>2 DEF Interruptible, CtxDone, t

(* What is done stays done.                                                *)
LEMMA StaysInterruptible ==
  ASSUME NEW s, NEW t, Interruptible(s), t.ctx = s.ctx, t.terminating = s.terminating,
         ShuttingDown => ShuttingDown'
  PROVE  Interruptible(t)'
BY DEF Interruptible, CtxDone

(* UpdateProcess leaves a status interruptible, and can only end a         *)
(* worker's being the only one of its process.                             *)
LEMMA UpdateProcessSync ==
  ASSUME TypeInv, OwnInv, SyncInv, NEW p \in Procs, NEW u \in Update, NEW g,
         UpdateProcess(p, u, g), down' = down
  PROVE  SyncInv'
<1> SUFFICES ASSUME NEW o \in Objects, wpc'[o] \in {"decide", "syncing"}, OnlyWorker(o)'
             PROVE  Interruptible(st[o])'
  BY ZenonT(60) DEF SyncInv
<1>t. /\ st \in [Objects -> Status]
      /\ wpc \in [Objects -> WorkerPC]
      /\ owner \in [Objects -> Procs \cup {NoProc}]
  BY ZenonT(60) DEF TypeInv, TypeOK
<1>1. CASE Resubmit(p, u, g)
  <2> DEFINE c == cur[p]
             s == IF u.kind = "terminate"
                  THEN HandleTerminationRequest(st[c], g) ELSE st[c]
             t == [s EXCEPT !.pending = u]
  <2>1. Interruptible(st[o]) /\ st[o] \in Status
    BY <1>1, <1>t DEF Resubmit, SyncInv, OnlyWorker
  <2>2. CASE st'[o] = st[o]
    BY <2>1, <2>2, StaysInterruptible, ZenonT(60) DEF ShuttingDown
  <2>3. CASE st'[o] # st[o]
    <3>1. c = o /\ st' = [st EXCEPT ![c] = t]
      BY <1>1, <1>t, <2>3 DEF Resubmit
    <3>3. Interruptible(s)
      BY <2>1, <3>1, StopsInterruptibly DEF Interruptible
    <3>4. t.ctx = s.ctx /\ t.terminating = s.terminating
      BY <2>1, <3>1 DEF HandleTerminationRequest, Status
    <3>5. st'[o] = t
      BY <1>t, <3>1
    <3> HIDE DEF s, t, c
    <3> QED
      BY <3>3, <3>4, <3>5, StaysInterruptible, ZenonT(60) DEF ShuttingDown
  <2> QED
    BY <2>2, <2>3, ZenonT(60)
<1>2. CASE Submit(p, u, g)
  <2> DEFINE n == made + 1
  <2>1. n \in Objects /\ n > made
    BY <1>2, ConstantsAssumption DEF Submit, TypeInv, TypeOK, Objects
  <2>2. /\ owner' = [owner EXCEPT ![n] = p]
        /\ wpc' = [wpc EXCEPT ![n] = "idle"]
        /\ \E s : st' = [st EXCEPT ![n] = s]
    BY <1>2, ZenonT(60) DEF Submit
  <2>3. owner[n] = NoProc
    BY <2>1, ZenonT(60) DEF OwnInv
  <2> HIDE DEF n
  <2>4. o # n /\ wpc[o] = wpc'[o] /\ st'[o] = st[o] /\ owner'[o] = owner[o]
    BY <1>t, <2>1, <2>2
  <2>5. owner[o] \in Procs
    BY <2>4 DEF TypeInv, WellFormed
  <2>6. OnlyWorker(o)
    BY <1>t, <2>2, <2>3, <2>4, <2>5, NoProcAssumption DEF OnlyWorker
  <2> QED
    BY <2>4, <2>6, StaysInterruptible, ZenonT(60) DEF SyncInv, ShuttingDown
<1> QED
  BY <1>1, <1>2, ZenonT(60) DEF UpdateProcess

(* Every step keeps a status interruptible until its sync has returned.    *)
LEMMA NextSyncInv == TypeInv /\ OwnInv /\ SyncInv /\ [Next]_vars => SyncInv'
<1> SUFFICES ASSUME TypeInv, OwnInv, SyncInv, [Next]_vars PROVE SyncInv'
  OBVIOUS
<1> USE ConstantsAssumption
<1>t. /\ st \in [Objects -> Status]
      /\ wpc \in [Objects -> WorkerPC]
      /\ won \in [Objects -> Objects]
      /\ owner \in [Objects -> Procs \cup {NoProc}]
  BY DEF TypeInv, TypeOK
<1>k. ASSUME owner' = owner, wpc' = wpc, ShuttingDown => ShuttingDown',
             \A x \in Objects : /\ st'[x].ctx = st[x].ctx
                                /\ st'[x].terminating = st[x].terminating
      PROVE  SyncInv'
  BY <1>k, StaysInterruptible, ZenonT(60) DEF SyncInv, OnlyWorker
<1>1. ASSUME NEW p \in Procs, ClientApply(p) PROVE SyncInv'
  <2>1. [kind |-> "apply", cfg |-> nver + 1, done |-> 0] \in Update
    BY <1>1 DEF ClientApply, Update, TypeInv, TypeOK
  <2> QED
    BY <1>1, <2>1, UpdateProcessSync, ZenonT(60) DEF ClientApply
<1>2. ASSUME NEW p \in Procs, NEW g \in GraceReqs \cup {NoGrace},
             NEW ch \in Channels, ClientTerminate(p, g, ch)
      PROVE  SyncInv'
  <2>1. [kind |-> "terminate", cfg |-> nver + 1,
         done |-> IF ch THEN nver + 1 ELSE 0] \in Update
    BY <1>2 DEF ClientTerminate, Update, TypeInv, TypeOK
  <2> QED
    BY <1>2, <2>1, UpdateProcessSync, ZenonT(60) DEF ClientTerminate
<1>3. ASSUME NEW desired \in SUBSET Procs, SyncKnownProcesses(desired) PROVE SyncInv'
  <2> SUFFICES ASSUME NEW o \in Objects, wpc'[o] \in {"decide", "syncing"}, OnlyWorker(o)'
               PROVE  Interruptible(st[o])'
    BY ZenonT(60) DEF SyncInv
  <2>1. UNCHANGED <<owner, wpc, down>>
    BY <1>3, ZenonT(60) DEF SyncKnownProcesses
  <2>2. Interruptible(st[o])
    BY <2>1, ZenonT(60) DEF SyncInv, OnlyWorker
  <2>3. st'[o] = st[o] \/ st'[o] = HandleTerminationRequest(st[o], NoGrace)
    BY <1>3, ZenonT(60) DEF SyncKnownProcesses
  <2>4. Interruptible(HandleTerminationRequest(st[o], NoGrace))
    BY <1>t, <2>2, StopsInterruptibly, ZenonT(60) DEF Interruptible
  <2> QED
    BY <2>1, <2>2, <2>3, <2>4, StaysInterruptible, ZenonT(60) DEF ShuttingDown
<1>4. ASSUME NEW x \in Objects, Worker(x) PROVE SyncInv'
  <2> SUFFICES ASSUME NEW o \in Objects, wpc'[o] \in {"decide", "syncing"}, OnlyWorker(o)'
               PROVE  Interruptible(st[o])'
    BY DEF SyncInv
  <2> DEFINE c == cur[owner[x]]
  <2>1. UNCHANGED <<owner, down>>
    BY <1>4, ZenonT(60)
    DEF Worker, WorkerExits, WorkerSkips, WorkerTakes, WorkerDecides, SyncerReturns,
        SyncReturns, TerminatingReturns, TerminatedReturns, CompleteWork, WorkerSignals,
        WorkerStops
  <2>2. OnlyWorker(o)
    BY <2>1 DEF OnlyWorker
  <2>3. ASSUME wpc[o] \in {"decide", "syncing"}, st'[o] = st[o] PROVE Interruptible(st[o])'
    BY <2>1, <2>2, <2>3, StaysInterruptible, ZenonT(60) DEF SyncInv, ShuttingDown
  <2>4. CASE x = o
    <3>1. CASE WorkerTakes(o)
      <4>1. /\ c # 0
            /\ wpc'[o] = IF st[c].terminated THEN "terminated"
                         ELSE IF st[c].terminating THEN "terminating" ELSE "decide"
            /\ wpc[o] = "idle"
        BY <1>t, <2>4, <3>1 DEF WorkerTakes, ReceiveSignal
      <4>2. owner[o] \in Procs
        BY <4>1, ZenonT(60) DEF TypeInv, WellFormed
      <4>3. c \in Objects /\ owner[c] = owner[o]
        <5>1. c \in Objects
          BY <2>4, <4>1, <4>2 DEF TypeInv, TypeOK, Objects
        <5> QED
          BY <2>4, <4>1, <4>2, <5>1, ZenonT(60) DEF OwnInv
      <4>4. c = o
        BY <2>2, <4>3, ZenonT(60) DEF OnlyWorker
      <4> DEFINE s == st[o]
                 t == [s EXCEPT !.active = s.pending, !.pending = NoUpdate,
                                !.working = TRUE,
                                !.ctx = IF s.ctx = "nil" \/ CtxDone(s) THEN "live"
                                        ELSE s.ctx]
      <4>5. st' = [st EXCEPT ![o] = t]
        BY <2>4, <3>1, <4>4 DEF WorkerTakes
      <4>6. st'[o] = t
        BY <1>t, <4>5
      <4>7. t.ctx # "nil" /\ t.terminating = s.terminating
        BY <1>t DEF Status
      <4>8. ~s.terminating
        BY <4>1, <4>4, ZenonT(60)
      <4> HIDE DEF s, t
      <4> QED
        BY <4>6, <4>7, <4>8, ZenonT(60) DEF Interruptible
    <3>2. CASE WorkerDecides(o)
      BY <2>3, <3>2, ZenonT(60) DEF WorkerDecides
    <3>3. CASE WorkerSkips(o)
      BY <2>3, <3>3, ZenonT(60) DEF WorkerSkips, ReceiveSignal
    <3>4. ASSUME NEW v, v \notin {"decide", "syncing"}, wpc' = [wpc EXCEPT ![o] = v]
          PROVE  FALSE
      BY <1>t, <3>4
    <3>5. ~CompleteWork(o)
      BY <3>4 DEF CompleteWork
    <3>6. ~WorkerExits(o) /\ ~SyncerReturns(o) /\ ~WorkerSignals(o) /\ ~WorkerStops(o)
      BY <3>4, ZenonT(60)
      DEF WorkerExits, SyncerReturns, SyncReturns, TerminatingReturns, TerminatedReturns,
          WorkerSignals, WorkerStops
    <3> QED
      BY <1>4, <2>4, <3>1, <3>2, <3>3, <3>5, <3>6, ZenonT(60) DEF Worker
  <2>5. CASE x # o
    <3>1. wpc'[o] = wpc[o]
      BY <1>4, <1>t, <2>5, ZenonT(60)
      DEF Worker, WorkerExits, WorkerSkips, WorkerTakes, WorkerDecides, SyncerReturns,
          SyncReturns, TerminatingReturns, TerminatedReturns, CompleteWork, WorkerSignals,
          WorkerStops
    <3>2. owner[x] # owner[o]
      BY <2>2, <2>5, ZenonT(60) DEF OnlyWorker
    <3>3. c # o \/ ~(wpc[x] # "unborn" /\ c # 0)
      BY <3>2, ZenonT(60) DEF OwnInv, TypeInv, WellFormed
    <3>4. Busy(x) => won[x] # o
      BY <3>2, ZenonT(60) DEF OwnInv
    <3>5. st'[o] = st[o]
      <4>1. CASE WorkerTakes(x)
        BY <1>t, <3>3, <4>1 DEF WorkerTakes, ReceiveSignal
      <4>2. CASE CompleteWork(x)
        BY <1>t, <3>3, <4>2 DEF CompleteWork
      <4>3. CASE SyncerReturns(x)
        BY <1>t, <3>4, <4>3, ZenonT(60)
        DEF SyncerReturns, SyncReturns, TerminatingReturns, TerminatedReturns, Busy
      <4> QED
        BY <1>4, <4>1, <4>2, <4>3, ZenonT(60)
        DEF Worker, WorkerExits, WorkerSkips, WorkerDecides, WorkerSignals, WorkerStops
    <3> QED
      BY <2>3, <3>1, <3>5, ZenonT(60)
  <2> QED
    BY <2>4, <2>5, ZenonT(60)
<1>5. CASE Consumer
  <2>1. CASE ConsumerLooksUp
    <3> DEFINE c == cur[cons.id]
               t == [st[c] EXCEPT !.pending = SyncUpdate(st[c].active.cfg)]
    <3>1. UNCHANGED <<owner, wpc, down>>
      BY <2>1 DEF ConsumerLooksUp
    <3>2. st' = st \/ st' = [st EXCEPT ![c] = t]
      BY <2>1, Zenon DEF ConsumerLooksUp
    <3>3. ASSUME NEW x \in Objects
          PROVE  st'[x].ctx = st[x].ctx /\ st'[x].terminating = st[x].terminating
      <4>1. c = x => t.ctx = st[x].ctx /\ t.terminating = st[x].terminating
        BY <1>t DEF Status
      <4> HIDE DEF t, c
      <4> QED
        BY <1>t, <3>2, <4>1
    <3> QED
      BY <1>k, <3>1, <3>3 DEF ShuttingDown
  <2> QED
    BY <1>5, <1>k, <2>1, ZenonT(60)
    DEF Consumer, ConsumerDequeues, ConsumerSignals, ConsumerStops, ShuttingDown
<1>6. CASE Shutdown
  <2>1. ASSUME NEW p \in Procs, ShutdownTerminates(p) PROVE SyncInv'
    <3>1. [kind |-> "terminate", cfg |-> 0, done |-> 0] \in Update
      BY DEF Update
    <3> QED
      BY <2>1, <3>1, UpdateProcessSync DEF ShutdownTerminates
  <2> QED
    BY <1>6, <1>k, <2>1, ZenonT(60)
    DEF Shutdown, ShutdownCancels, ShutdownLists, ShutdownReturns, ShutdownTimesOut,
        ShuttingDown
<1>7. CASE UNCHANGED vars
  BY <1>7, <1>k DEF vars, ShuttingDown
<1> QED
  BY <1>1, <1>2, <1>3, <1>4, <1>5, <1>6, <1>7 DEF Next, Client

(* No worker runs at first.                                                *)
LEMMA InitSyncInv == Init => SyncInv
BY ZenonT(60) DEF Init, SyncInv

(* A running sync whose process is told to stop has had its context        *)
(* cancelled, for any number of processes, as long as the process has the  *)
(* one worker it was created with.                                         *)
THEOREM StopInterrupts == Spec => []StopInterruptsSync
<1>1. TypeInv /\ OwnInv /\ SyncInv /\ [Next]_vars => (TypeInv /\ OwnInv /\ SyncInv)'
  BY NextTypeInv, NextOwnInv, NextSyncInv
<1>2. Init => TypeInv /\ OwnInv /\ SyncInv
  BY InitTypeInv, InitOwnInv, InitSyncInv
<1> QED
  BY <1>1, <1>2, SyncInvMeans, PTL DEF Spec
=============================================================================
