---------------------------- MODULE AdminCluster ----------------------------
(***************************************************************************)
(* A prism-admin cluster: the Raft-backed control plane                    *)
(* (control_plane_raft.go, raft.go), the state machine each node applies   *)
(* the committed log to (fsm.go), its snapshots, and the local database    *)
(* the state machine mirrors itself into (storage.go).                     *)
(*                                                                         *)
(* The Raft library is external: it elects leaders, commits proposals in   *)
(* one order, hands committed entries to every node in that order and      *)
(* keeps them across crashes.  A request that arrives at a follower is     *)
(* forwarded; in the model requests arrive at the leader.                  *)
(***************************************************************************)
EXTENDS AdminFSM, Partitions, Sequences

CONSTANTS Nodes,
          PartitionOf, \* HashNamespace: the partition of each namespace
          Ops,         \* the commands that are issued
          MaxCalls,    \* bound: requests
          MaxCrashes,  \* bound: crashes of nodes
          MaxSnapshots, \* bound: snapshots taken
          StorageFails \* may writes to the local database fail?

ASSUME ClusterAssumption ==
  /\ Proxies \subseteq Nat /\ IsFiniteSet(Proxies)
  /\ PartitionOf \in [Namespaces -> AllPartitions]
  /\ MaxCalls \in Nat /\ MaxCrashes \in Nat /\ MaxSnapshots \in Nat
  /\ StorageFails \in BOOLEAN

VARIABLES
  log,       \* the committed commands
  canon,     \* history: canon[i+1] is the registry after i commands
  leader,    \* the leader, or None
  mode,      \* of each node: "up", "down" or "panicked"
  applied,   \* lastAppliedIndex of each node
  fsm,       \* the registry of each node
  nilMaps,   \* the maps that are nil in each node's state
  snap,      \* the newest snapshot on each node's disk, or None
  db,        \* the rows in each node's local database
  calls,     \* the requests, in the order they were issued
  told,      \* the ranges each proxy was last acknowledged with, or None
  crashes, snapshots

cluster == <<log, canon, leader>>
node == <<mode, applied, fsm, nilMaps>>
disk == <<snap, db>>
bounds == <<crashes, snapshots>>
vars == <<cluster, node, disk, calls, told, bounds>>

NoRows ==
  [namespaces |-> {}, proxies |-> [p \in Proxies |-> None],
   launchers |-> [l \in Launchers |-> None]]

Up(n) == mode[n] = "up"

(* What the Raft library needs to make progress.                           *)
HasQuorum == 2 * Cardinality({n \in Nodes : Up(n)}) > Cardinality(Nodes)

Members(s) == {p \in Proxies : s.proxies[p] # None}

Init ==
  /\ log = <<>> /\ canon = <<NewAdminStateMachine>> /\ leader = None
  /\ mode = [n \in Nodes |-> "up"]
  /\ applied = [n \in Nodes |-> 0]
  /\ fsm = [n \in Nodes |-> NewAdminStateMachine]
  /\ nilMaps = [n \in Nodes |-> {}]
  /\ snap = [n \in Nodes |-> None]
  /\ db = [n \in Nodes |-> NoRows]
  /\ calls = <<>> /\ told = [p \in Proxies |-> None]
  /\ crashes = 0 /\ snapshots = 0

-----------------------------------------------------------------------------
(* The RPC handlers.  A handler on the leader proposes a command and waits *)
(* for it ("proposing"); a heartbeat proposes it from a goroutine and      *)
(* answers at once ("async").  Every call of Propose waits without regard  *)
(* to its context.                                                         *)

(* The leader itself, or a follower that knows an address to forward to;   *)
(* otherwise the request is answered "no leader elected".                  *)
LeaderReached == leader # None

Issue(cmd, phase) ==
  /\ cmd.op \in Ops
  /\ LeaderReached
  /\ Len(calls) < MaxCalls
  /\ calls' = Append(calls, [cmd |-> cmd, node |-> leader, phase |-> phase,
                             idx |-> 0, ranges |-> {}, members |-> {}])
  /\ UNCHANGED <<cluster, node, disk, told, bounds>>

RegisterProxy(p, a) ==
  Issue([op |-> "RegisterProxy", key |-> p, val |-> a], "proposing")

(* Mutant: the owner is any proxy that may register.                       *)
OwnersAny(x, s) == Proxies

(* The proxy the leader's own state assigns to the namespace's partition.  *)
getProxyForPartition(x, s) ==
  GetProxyForPartitionFromSet(PartitionOf[x], Members(s))

(* Without a proxy the request is refused and nothing happens.             *)
CreateNamespace(x, config) ==
  \E p \in getProxyForPartition(x, fsm[leader]) :
    Issue([op |-> "CreateNamespace", key |-> x,
           val |-> [proxy |-> p, config |-> config]], "proposing")

RegisterLauncher(l, max) ==
  Issue([op |-> "RegisterLauncher", key |-> l, val |-> max], "proposing")

Heartbeat(p) ==
  Issue([op |-> "UpdateProxyStatus", key |-> p], "async")

LauncherHeartbeat(l, slots) ==
  Issue([op |-> "UpdateLauncherStatus", key |-> l, val |-> slots], "async")

(* The command is part of the log format and of Apply; the RPC that is to  *)
(* propose it (AssignProcess) is not written yet.                          *)
AssignPattern(k, l) ==
  Issue([op |-> "AssignPattern", key |-> k, val |-> l], "proposing")

Request ==
  /\ LeaderReached
  /\ \/ \E p \in Proxies, a \in Addrs : RegisterProxy(p, a)
     \/ \E x \in Namespaces, c \in Configs : CreateNamespace(x, c)
     \/ \E l \in Launchers, m \in Capacities : RegisterLauncher(l, m)
     \/ \E p \in Proxies : Heartbeat(p)
     \/ \E l \in Launchers, m \in Capacities : LauncherHeartbeat(l, m)
     \/ \E k \in Patterns, l \in Launchers : AssignPattern(k, l)

(* Mutant: Propose does not wait for the library's answer.                 *)
ProposedAtOnce(i) == Up(calls[i].node)

(* Propose returns without an error: the command is committed and the node *)
(* has applied it.                                                         *)
Proposed(i) ==
  LET c == calls[i] IN c.idx # 0 /\ Up(c.node) /\ applied[c.node] >= c.idx

(* Mutant: the ranges are computed from the proxies other than the new one.*)
ComputeRangesOthers(i) ==
  LET c == calls[i]
      members == Members(fsm[c.node]) \ {c.cmd.key}
  IN /\ c.phase = "proposing" /\ c.cmd.op = "RegisterProxy" /\ Proposed(i)
     /\ calls' = [calls EXCEPT ![i] =
          [c EXCEPT !.phase = "reading", !.members = members,
                    !.ranges = ComputeRangesFromProxySet(c.cmd.key, members)]]
     /\ UNCHANGED <<cluster, node, disk, told, bounds>>

(* RegisterProxy computes the new proxy's ranges under the locks and then  *)
(* reads the namespaces of the state machine without one ("reading").      *)
ComputeRanges(i) ==
  LET c == calls[i]
      members == Members(fsm[c.node])
  IN /\ c.phase = "proposing" /\ c.cmd.op = "RegisterProxy" /\ Proposed(i)
     /\ calls' = [calls EXCEPT ![i] =
          [c EXCEPT !.phase = "reading", !.members = members,
                    !.ranges = ComputeRangesFromProxySet(c.cmd.key, members)]]
     /\ UNCHANGED <<cluster, node, disk, told, bounds>>

InRanges(x, ranges) == \E r \in ranges : Within(PartitionOf[x], r)

AckProxy(i) ==
  LET c == calls[i]
  IN /\ c.phase = "reading" /\ Up(c.node)
     /\ calls' = [calls EXCEPT ![i].phase = "acked"]
     /\ told' = [told EXCEPT ![c.cmd.key] =
          [ranges |-> c.ranges, members |-> c.members,
           namespaces |-> {x \in Namespaces :
             fsm[c.node].namespaces[x] # None /\ InRanges(x, c.ranges)}]]
     /\ UNCHANGED <<cluster, node, disk, bounds>>

(* CreateNamespace, RegisterLauncher and the proposer of AssignPattern     *)
(* answer as soon as Propose returns; what Apply returned is not looked at.*)
Ack(i) ==
  /\ calls[i].phase = "proposing" /\ calls[i].cmd.op # "RegisterProxy"
  /\ Proposed(i)
  /\ calls' = [calls EXCEPT ![i].phase = "acked"]
  /\ UNCHANGED <<cluster, node, disk, told, bounds>>

(* Propose fails because the library refused the proposal: it is never     *)
(* committed and leaves no trace.                                          *)
Refuse(i) ==
  /\ calls[i].phase \in {"proposing", "async"} /\ calls[i].idx = 0
  /\ calls' = SubSeq(calls, 1, i - 1) \o SubSeq(calls, i + 1, Len(calls))
  /\ UNCHANGED <<cluster, node, disk, told, bounds>>

Reply ==
  \E i \in 1 .. Len(calls) :
    ComputeRanges(i) \/ AckProxy(i) \/ Ack(i) \/ Refuse(i)

-----------------------------------------------------------------------------
(* The Raft library.                                                       *)

Elect(n) ==
  /\ leader = None /\ Up(n) /\ HasQuorum
  /\ leader' = n
  /\ UNCHANGED <<log, canon, node, disk, calls, told, bounds>>

(* Mutant: a leader that steps down leaves its proposals waiting.          *)
StepDownSilently ==
  /\ leader # None
  /\ leader' = None
  /\ UNCHANGED <<log, canon, node, disk, calls, told, bounds>>

(* A leader that steps down fails every proposal not yet committed; it may *)
(* still be committed by the next leader.                                  *)
StepDown ==
  /\ leader # None
  /\ leader' = None
  /\ calls' = [i \in 1 .. Len(calls) |->
       IF calls[i].phase = "proposing" /\ calls[i].node = leader
          /\ calls[i].idx = 0
         THEN [calls[i] EXCEPT !.phase = "failed"] ELSE calls[i]]
  /\ UNCHANGED <<log, canon, node, disk, told, bounds>>

(* A proposal is committed; also one whose proposer gave up.  Proposals of *)
(* concurrent requests are committed in any order.                         *)
Commit(i) ==
  /\ calls[i].phase \in {"proposing", "async", "failed"} /\ calls[i].idx = 0
  /\ leader # None /\ HasQuorum
  /\ log' = Append(log, calls[i].cmd)
  /\ canon' = Append(canon, Apply(canon[Len(canon)], calls[i].cmd))
  /\ calls' = [calls EXCEPT ![i].idx = Len(log) + 1]
  /\ UNCHANGED <<leader, node, disk, told, bounds>>

-----------------------------------------------------------------------------
(* The state machine of a node.                                            *)

(* The statements of storage.go; a namespace that has a row already fails  *)
(* the insertion, which changes nothing.                                   *)
InsertNamespace(d, c) == [d EXCEPT !.namespaces = d.namespaces \cup {c.key}]
UpsertProxy(d, c) == [d EXCEPT !.proxies[c.key] = c.val]
UpsertLauncher(d, c) == [d EXCEPT !.launchers[c.key] = c.val]

(* Mutant: a heartbeat writes the row of its proxy, registered or not.     *)
RowsOnHeartbeat(d, s, c) ==
  CASE c.op = "UpdateProxyStatus" ->
         [d EXCEPT !.proxies[c.key] = CHOOSE a \in Addrs : TRUE]
    [] c.op = "RegisterProxy" -> UpsertProxy(d, c)
    [] OTHER -> d

(* What the handlers write to the database: a row for a namespace that is  *)
(* new, and the row of a proxy or launcher that registers.                 *)
Rows(d, s, c) ==
  CASE c.op = "CreateNamespace" /\ s.namespaces[c.key] = None ->
         InsertNamespace(d, c)
    [] c.op = "RegisterProxy" -> UpsertProxy(d, c)
    [] c.op = "RegisterLauncher" -> UpsertLauncher(d, c)
    [] OTHER -> d

(* The process of node n ends: its handlers get no answer.                 *)
ProcessEnds(n, how) ==
  /\ mode' = [mode EXCEPT ![n] = how]
  /\ leader' = IF leader = n THEN None ELSE leader
  /\ calls' = [i \in 1 .. Len(calls) |->
       IF calls[i].node = n /\ calls[i].phase \in {"proposing", "reading"}
         THEN [calls[i] EXCEPT !.phase = "failed"] ELSE calls[i]]

ApplyEntry(n) ==
  /\ Up(n) /\ applied[n] < Len(log)
  /\ LET c == log[applied[n] + 1]
     IN /\ MapOf(c) \cap nilMaps[n] = {}
        /\ applied' = [applied EXCEPT ![n] = applied[n] + 1]
        /\ fsm' = [fsm EXCEPT ![n] = Apply(fsm[n], c)]
        /\ db' \in {[db EXCEPT ![n] = Rows(db[n], fsm[n], c)]}
                   \cup IF StorageFails THEN {db} ELSE {}
  /\ UNCHANGED <<cluster, mode, nilMaps, snap, calls, told, bounds>>

(* Inserting into a nil map panics and ends the process.                   *)
ApplyPanics(n) ==
  /\ Up(n) /\ applied[n] < Len(log)
  /\ MapOf(log[applied[n] + 1]) \cap nilMaps[n] # {}
  /\ ProcessEnds(n, "panicked")
  /\ UNCHANGED <<log, canon, applied, fsm, nilMaps, disk, told,
                 bounds>>

(* Call i reads the map of namespaces of node n without the lock.          *)
Reading(i, n) == calls[i].phase = "reading" /\ calls[i].node = n

(* Inserting into a map while another goroutine iterates over it may also  *)
(* be detected by the runtime, which then ends the process.                *)
ApplyRaces(n) ==
  /\ Up(n) /\ applied[n] < Len(log)
  /\ LET c == log[applied[n] + 1]
     IN c.op = "CreateNamespace" /\ fsm[n].namespaces[c.key] = None
  /\ \E i \in 1 .. Len(calls) : Reading(i, n)
  /\ ProcessEnds(n, "panicked")
  /\ UNCHANGED <<log, canon, applied, fsm, nilMaps, disk, told,
                 bounds>>

(* Mutant: the snapshot records the length of the log as its index.        *)
SnapshotOfLog(n) ==
  /\ Up(n) /\ snapshots < MaxSnapshots
  /\ applied[n] > IF snap[n] = None THEN 0 ELSE snap[n].index
  /\ snap' = [snap EXCEPT ![n] =
       [index |-> Len(log), registry |-> fsm[n]]]
  /\ snapshots' = snapshots + 1
  /\ UNCHANGED <<cluster, node, db, calls, told, crashes>>

(* Snapshot and Persist.                                                   *)
Snapshot(n) ==
  /\ Up(n) /\ snapshots < MaxSnapshots
  /\ applied[n] > IF snap[n] = None THEN 0 ELSE snap[n].index
  /\ snap' = [snap EXCEPT ![n] =
       [index |-> applied[n], registry |-> fsm[n]]]
  /\ snapshots' = snapshots + 1
  /\ UNCHANGED <<cluster, node, db, calls, told, crashes>>

(* Restore: the whole state is replaced by the decoded snapshot.  The      *)
(* database is not touched.                                                *)
Restore(n, s) ==
  /\ applied' = [applied EXCEPT ![n] = s.index]
  /\ fsm' = [fsm EXCEPT ![n] = s.registry]
  /\ nilMaps' = [nilMaps EXCEPT ![n] = EmptyMaps(s.registry)]

(* A follower that is too far behind is sent the leader's snapshot.        *)
InstallSnapshot(n) ==
  /\ Up(n) /\ leader # None /\ n # leader
  /\ snap[leader] # None /\ snap[leader].index > applied[n]
  /\ snap' = [snap EXCEPT ![n] = snap[leader]]
  /\ Restore(n, snap[leader])
  /\ UNCHANGED <<cluster, mode, db, calls, told, bounds>>

Crash(n) ==
  /\ Up(n) /\ crashes < MaxCrashes
  /\ crashes' = crashes + 1
  /\ ProcessEnds(n, "down")
  /\ UNCHANGED <<log, canon, applied, fsm, nilMaps, disk, told,
                 snapshots>>

(* A process starts with a new state machine; the library restores the     *)
(* newest snapshot, if any, and applies the log after it once more.        *)
Start(n) ==
  /\ ~Up(n)
  /\ mode' = [mode EXCEPT ![n] = "up"]
  /\ IF snap[n] # None
       THEN Restore(n, snap[n])
       ELSE /\ applied' = [applied EXCEPT ![n] = 0]
            /\ fsm' = [fsm EXCEPT ![n] = NewAdminStateMachine]
            /\ nilMaps' = [nilMaps EXCEPT ![n] = {}]
  /\ UNCHANGED <<cluster, disk, calls, told, bounds>>

Next ==
  \/ Request
  \/ Reply
  \/ StepDown
  \/ \E i \in 1 .. Len(calls) : Commit(i)
  \/ \E n \in Nodes :
       \/ Elect(n) \/ ApplyEntry(n) \/ ApplyPanics(n) \/ ApplyRaces(n)
       \/ Snapshot(n) \/ InstallSnapshot(n) \/ Crash(n) \/ Start(n)

Spec == Init /\ [][Next]_vars

(* The library elects a leader when it can, makes one without a quorum     *)
(* step down, commits what a leader with a quorum proposes and hands       *)
(* committed entries to the state machine; handlers are scheduled.         *)
Fairness ==
  /\ WF_vars(\E n \in Nodes : Elect(n))
  /\ WF_vars(~HasQuorum /\ StepDown)
  /\ WF_vars(\E i \in 1 .. Len(calls) : Commit(i))
  /\ \A n \in Nodes : WF_vars(ApplyEntry(n))
  /\ WF_vars(\E i \in 1 .. Len(calls) : ComputeRanges(i) \/ Ack(i))
  /\ WF_vars(\E i \in 1 .. Len(calls) : AckProxy(i))

FairSpec == Spec /\ Fairness

-----------------------------------------------------------------------------
(* A node that has applied i commands holds exactly the registry those     *)
(* commands produce, whatever crashes, restarts, snapshots and snapshot    *)
(* transfers lie behind it (Apply, Snapshot, Restore).                     *)
ReplicasFollowLog ==
  \A n \in Nodes : Up(n) => fsm[n] = canon[applied[n] + 1]

(* Is the entry a command writes present?                                  *)
Present(s, c) ==
  CASE c.op = "RegisterProxy"    -> s.proxies[c.key] # None
    [] c.op = "CreateNamespace"  -> s.namespaces[c.key] # None
    [] c.op = "RegisterLauncher" -> s.launchers[c.key] # None
    [] c.op = "AssignPattern"    -> s.patterns[c.key] # None
    [] OTHER                     -> TRUE

(* A request answered with success is in the committed log, its handler's  *)
(* node had applied it, and every node that has reached it still has the   *)
(* entry (Propose, RegisterProxy, CreateNamespace, RegisterLauncher).      *)
AckedIsDurable ==
  \A i \in 1 .. Len(calls) :
    LET c == calls[i]
    IN c.phase \in {"reading", "acked"} =>
         /\ c.idx \in 1 .. Len(log) /\ log[c.idx] = c.cmd
         /\ c.phase = "reading" => applied[c.node] >= c.idx
         /\ \A n \in Nodes :
              Up(n) /\ applied[n] >= c.idx => Present(fsm[n], c.cmd)

(* A proxy that is acknowledged is told a range, one that was computed     *)
(* from a set of proxies that contains it, and two proxies whose ranges    *)
(* were computed from the same set were told disjoint ones (RegisterProxy, *)
(* computePartitionRanges).                                                *)
ToldRangesAgree ==
  \A p \in Proxies : told[p] # None =>
    /\ p \in told[p].members /\ told[p].ranges # {}
    /\ \A q \in Proxies \ {p} :
         told[q] # None /\ told[q].members = told[p].members =>
           \A part \in AllPartitions :
             ~ ((\E r \in told[p].ranges : Within(part, r))
                /\ (\E r \in told[q].ranges : Within(part, r)))

(* Applying a command the log holds twice in a row is applying it once, in *)
(* every state a node can be in (what Apply's comment asks for: a retried  *)
(* request is committed again).                                            *)
ApplyIdempotent ==
  \A n \in Nodes, i \in 1 .. Len(log) :
    Up(n) => LET once == Apply(fsm[n], log[i]) IN Apply(once, log[i]) = once

(* Both: what a replica makes of the log, with its repetitions (Apply).    *)
ReplicasAgree == ReplicasFollowLog /\ ApplyIdempotent

(* The proxy recorded for a namespace is a registered one, although it was *)
(* chosen from the leader's state some time before the command took effect *)
(* (CreateNamespace, applyCreateNamespace).                                *)
OwnersAreRegistered ==
  \A n \in Nodes, x \in Namespaces :
    Up(n) /\ fsm[n].namespaces[x] # None =>
      fsm[n].proxies[fsm[n].namespaces[x].proxy] # None

(* Both: partitions and namespaces have the owners that were announced     *)
(* (RegisterProxy, CreateNamespace).                                       *)
OwnersAgree == ToldRangesAgree /\ OwnersAreRegistered

(* A row in a node's local database belongs to an entry of the committed   *)
(* log, even after crashes between the log and the database and the        *)
(* repeated application of the log (applyCreateNamespace, UpsertProxy,     *)
(* UpsertLauncher).                                                        *)
StorageNeverAhead ==
  LET s == canon[Len(canon)]
  IN \A n \in Nodes :
       /\ \A x \in db[n].namespaces : s.namespaces[x] # None
       /\ \A p \in Proxies : db[n].proxies[p] # None => s.proxies[p] # None
       /\ \A l \in Launchers :
            db[n].launchers[l] # None => s.launchers[l] # None

(* A node never fails to run on from a snapshot: restoring preserves the   *)
(* state (Restore, RFC-038).                                               *)
RestoredNodesRun ==
  \A n \in Nodes :
    Up(n) /\ applied[n] < Len(log) =>
      MapOf(log[applied[n] + 1]) \cap nilMaps[n] = {}

(* A handler always returns, although Propose waits without its context:   *)
(* the cluster commits the command, or the leader loses its leadership and *)
(* the wait fails (RegisterProxy, Propose).                                *)
HandlersReturn ==
  []<>(\A i \in 1 .. Len(calls) :
         calls[i].phase \notin {"proposing", "reading"})

=============================================================================
