----------------------------- MODULE AdminProofs ----------------------------
(***************************************************************************)
(* The safety of the prism-admin cluster for any nodes, proxies,           *)
(* namespaces, launchers and patterns and any number of requests, crashes  *)
(* and snapshots.                                                          *)
(***************************************************************************)
EXTENDS AdminNodeProofs, FiniteSetTheorems

(* A request that arrives; the owner it carries, if any, is registered.    *)
LEMMA IssueStep ==
  ASSUME Inv, NEW cmd \in Commands, NEW phase \in {"proposing", "async"}, Issue(cmd, phase),
         leader # None,
         cmd.op = "CreateNamespace" => Latest.proxies[cmd.val.proxy] # None
  PROVE  Inv'
<1> DEFINE c == [cmd |-> cmd, node |-> leader, phase |-> phase, idx |-> 0, ranges |-> {}, members |-> {}]
<1>1. /\ calls' = Append(calls, c)
      /\ UNCHANGED <<log, canon, leader, mode, applied, fsm, snap, db, told>>
  BY DEF Issue, cluster, node, disk
<1>2. c \in Call /\ c.cmd = cmd /\ c.idx = 0 /\ c.phase \notin {"reading", "acked"}
  <2>1. leader \in Nodes /\ phase \in Phases /\ {} \in Announced /\ 0 \in Nat
    BY DEF Inv, Typed, Phases, Announced
  <2> QED BY <2>1 DEF Call
<1> HIDE DEF c
<1>3. CallOK(c)
  BY <1>2 DEF CallOK
<1>4. /\ calls' \in Seq(Call) /\ Len(calls') = Len(calls) + 1
      /\ \A j \in 1 .. Len(calls) + 1 : calls'[j] = IF j <= Len(calls) THEN calls[j] ELSE c
  BY <1>1, <1>2, SeqAppend, Elements DEF Inv, Typed
<1>5. CallsOK'
  <2> SUFFICES ASSUME NEW j \in 1 .. Len(calls) + 1 PROVE CallOK(calls[j])'
    BY <1>4 DEF CallsOK
  <2>1. CallOK(calls'[j])
    BY <1>3, <1>4, Elements DEF Inv, CallsOK
  <2> QED BY <1>1, <2>1, ZenonT(60) DEF CallOK, Up, Latest
<1>6. Typed'
  BY <1>1, <1>4 DEF Typed, Inv
<1> QED BY <1>1, <1>5, <1>6, SameLog, Untouched DEF Inv

(* The requests.  The proxy that CreateNamespace chooses is one of the     *)
(* leader's registry, which the latest one has grown from.                 *)
LEMMA RequestStep ==
  ASSUME Inv, Request
  PROVE  Inv'
<1>0. leader # None /\ leader \in Nodes
  BY DEF Request, LeaderReached, Inv, Typed
<1>1. ASSUME NEW p \in Proxies, NEW a \in Addrs, RegisterProxy(p, a) PROVE Inv'
  <2> DEFINE c == [op |-> "RegisterProxy", key |-> p, val |-> a]
  <2>1. c \in Commands /\ c.op # "CreateNamespace" /\ Issue(c, "proposing")
    BY <1>1 DEF Commands, RegisterProxy
  <2> HIDE DEF c
  <2> QED BY <1>0, <2>1, IssueStep
<1>2. ASSUME NEW x \in Namespaces, NEW g \in Configs, CreateNamespace(x, g) PROVE Inv'
  <2>1. PICK p \in getProxyForPartition(x, fsm[leader]) :
          Issue([op |-> "CreateNamespace", key |-> x, val |-> [proxy |-> p, config |-> g]], "proposing")
    BY <1>2 DEF CreateNamespace
  <2>2. p \in Proxies /\ fsm[leader].proxies[p] # None
    BY DEF getProxyForPartition, GetProxyForPartitionFromSet, Members
  <2>3. Latest.proxies[p] # None
    <3>1. applied[leader] \in Nat /\ applied[leader] <= Len(log)
          /\ fsm[leader] = canon[applied[leader] + 1]
      BY <1>0 DEF Inv, Placed, Typed
    <3>2. Keeps(fsm[leader], Latest)
      BY <3>1, GrowsToLatest DEF Inv
    <3> QED BY <2>2, <3>2 DEF Keeps
  <2> DEFINE v == [proxy |-> p, config |-> g]
             c == [op |-> "CreateNamespace", key |-> x, val |-> v]
  <2>4. v \in [proxy : Proxies, config : Configs] /\ v.proxy = p
    BY <2>2
  <2> HIDE DEF v
  <2>5. c \in Commands /\ c.val = v
    BY <2>4 DEF Commands
  <2>6. Issue(c, "proposing")
    BY <2>1 DEF v
  <2> HIDE DEF c
  <2> QED BY <1>0, <2>3, <2>4, <2>5, <2>6, IssueStep
<1>3. ASSUME NEW l \in Launchers, NEW m \in Capacities, RegisterLauncher(l, m) PROVE Inv'
  <2> DEFINE c == [op |-> "RegisterLauncher", key |-> l, val |-> m]
  <2>1. c \in Commands /\ c.op # "CreateNamespace" /\ Issue(c, "proposing")
    BY <1>3 DEF Commands, RegisterLauncher
  <2> HIDE DEF c
  <2> QED BY <1>0, <2>1, IssueStep
<1>4. ASSUME NEW p \in Proxies, Heartbeat(p) PROVE Inv'
  <2> DEFINE c == [op |-> "UpdateProxyStatus", key |-> p]
  <2>1. c \in Commands /\ c.op # "CreateNamespace" /\ Issue(c, "async")
    BY <1>4 DEF Commands, Heartbeat
  <2> HIDE DEF c
  <2> QED BY <1>0, <2>1, IssueStep
<1>5. ASSUME NEW l \in Launchers, NEW m \in Capacities, LauncherHeartbeat(l, m) PROVE Inv'
  <2> DEFINE c == [op |-> "UpdateLauncherStatus", key |-> l, val |-> m]
  <2>1. c \in Commands /\ c.op # "CreateNamespace" /\ Issue(c, "async")
    BY <1>5 DEF Commands, LauncherHeartbeat
  <2> HIDE DEF c
  <2> QED BY <1>0, <2>1, IssueStep
<1>6. ASSUME NEW k \in Patterns, NEW l \in Launchers, AssignPattern(k, l) PROVE Inv'
  <2> DEFINE c == [op |-> "AssignPattern", key |-> k, val |-> l]
  <2>1. c \in Commands /\ c.op # "CreateNamespace" /\ Issue(c, "proposing")
    BY <1>6 DEF Commands, AssignPattern
  <2> HIDE DEF c
  <2> QED BY <1>0, <2>1, IssueStep
<1> QED BY <1>1, <1>2, <1>3, <1>4, <1>5, <1>6 DEF Request

-----------------------------------------------------------------------------
(* What grew from what grew is kept.                                       *)
LEMMA KeepsTransitive ==
  ASSUME NEW s, NEW t, NEW u, Keeps(s, t), Keeps(t, u)
  PROVE  Keeps(s, u)
BY DEF Keeps

(* The log grows by a command, and the history by its registry.            *)
LEMMA LogGrows ==
  ASSUME Typed, History, NEW c \in Commands,
         c.op = "CreateNamespace" => Latest.proxies[c.val.proxy] # None,
         log' = Append(log, c), canon' = Append(canon, Apply(Latest, c))
  PROVE  /\ log' \in Seq(Commands) /\ canon' \in Seq(Registries)
         /\ Len(log') = Len(log) + 1 /\ log'[Len(log) + 1] = c
         /\ \A j \in 1 .. Len(log) : log'[j] = log[j]
         /\ \A j \in 1 .. Len(canon) : canon'[j] = canon[j]
         /\ Keeps(Latest, Latest') /\ History'
<1> DEFINE r == Apply(Latest, c)
           k == Len(canon)
<1>1. /\ Latest \in Registries /\ Len(log) \in Nat /\ k \in Nat /\ k = Len(log) + 1
      /\ log \in Seq(Commands) /\ canon \in Seq(Registries)
  BY Elements, ZenonT(60) DEF Typed, History
<1>2. /\ r \in Registries /\ Keeps(Latest, r)
      /\ \A x \in Namespaces : \/ r.namespaces[x] = Latest.namespaces[x]
                               \/ c.op = "CreateNamespace" /\ r.namespaces[x] = c.val
  BY <1>1, ApplyType, ApplyKeeps
<1>3. /\ log' \in Seq(Commands) /\ Len(log') = Len(log) + 1 /\ log'[Len(log) + 1] = c
      /\ \A j \in 1 .. Len(log) : log'[j] = log[j]
  BY <1>1, SeqAppend
<1> HIDE DEF r
<1>4. /\ canon' \in Seq(Registries) /\ Len(canon') = k + 1 /\ canon'[k + 1] = r
      /\ \A j \in 1 .. k : canon'[j] = canon[j]
  BY <1>1, <1>2, SeqAppend DEF r
<1>5. Latest' = r
  BY <1>4 DEF Latest
<1>6. /\ canon[1] = NewAdminStateMachine
      /\ \A i \in 1 .. Len(log) : canon[i + 1] = Apply(canon[i], log[i])
      /\ \A i, j \in 1 .. k : i <= j => Keeps(canon[i], canon[j])
      /\ \A j \in 1 .. k : \A x \in Namespaces :
           canon[j].namespaces[x] # None => canon[j].proxies[canon[j].namespaces[x].proxy] # None
  BY DEF History
<1>7. canon[k] = Latest /\ k \in 1 .. k /\ 1 \in 1 .. k
  BY <1>1 DEF Latest
<1> HIDE DEF k
<1>8. ASSUME NEW i \in 1 .. Len(log) + 1 PROVE canon'[i + 1] = Apply(canon'[i], log'[i])
  <2>1. CASE i \in 1 .. Len(log)
    <3>1. i \in 1 .. k /\ i + 1 \in 1 .. k
      BY <1>1, <2>1
    <3> QED BY <1>3, <1>4, <1>6, <2>1, <3>1, ZenonT(60)
  <2>2. CASE i = Len(log) + 1
    <3>1. i = k
      BY <1>1, <2>2
    <3> QED BY <1>3, <1>4, <1>7, <2>2, <3>1 DEF r
  <2>3. i \in 1 .. Len(log) \/ i = Len(log) + 1
    <3>1. Len(log) \in Nat
      BY <1>1
    <3> QED BY <3>1
  <2> QED BY <2>1, <2>2, <2>3, ZenonT(60)
<1>9. ASSUME NEW i \in 1 .. k + 1, NEW j \in 1 .. k + 1, i <= j PROVE Keeps(canon'[i], canon'[j])
  <2>1. CASE j \in 1 .. k
    <3>1. i \in 1 .. k
      BY <1>1, <1>9, <2>1
    <3> QED BY <1>4, <1>6, <1>9, <2>1, <3>1
  <2>2. CASE j = k + 1 /\ i \in 1 .. k
    <3>1. Keeps(canon[i], Latest)
      BY <1>1, <1>6, <1>7, <2>2
    <3>2. Keeps(canon[i], r)
      BY <1>2, <3>1, KeepsTransitive
    <3> QED BY <1>4, <2>2, <3>2
  <2>3. CASE j = k + 1 /\ i = k + 1
    BY <2>3, ZenonT(60) DEF Keeps
  <2>4. (j \in 1 .. k \/ j = k + 1) /\ (i \in 1 .. k \/ i = k + 1)
    <3>1. k \in Nat
      BY <1>1
    <3> QED BY <3>1
  <2> QED BY <2>1, <2>2, <2>3, <2>4, ZenonT(60)
<1>10. ASSUME NEW j \in 1 .. k + 1, NEW x \in Namespaces, canon'[j].namespaces[x] # None
       PROVE  canon'[j].proxies[canon'[j].namespaces[x].proxy] # None
  <2>1. CASE j \in 1 .. k
    BY <1>4, <1>6, <1>10, <2>1, ZenonT(60)
  <2>2. CASE j = k + 1
    <3>1. canon'[j] = r /\ r.namespaces[x] # None
      BY <1>4, <1>10, <2>2
    <3>2. \A p \in Proxies : Latest.proxies[p] # None => r.proxies[p] # None
      BY <1>2 DEF Keeps
    <3>3. r.namespaces[x].proxy \in Proxies
      BY <1>2, <3>1 DEF Registries
    <3>4. CASE r.namespaces[x] = Latest.namespaces[x]
      BY <1>6, <1>7, <3>1, <3>2, <3>3, <3>4, ZenonT(60)
    <3>5. CASE c.op = "CreateNamespace" /\ r.namespaces[x] = c.val
      BY <3>1, <3>2, <3>3, <3>5
    <3> QED BY <1>2, <3>4, <3>5, ZenonT(60)
  <2>3. j \in 1 .. k \/ j = k + 1
    <3>1. k \in Nat
      BY <1>1
    <3> QED BY <3>1
  <2> QED BY <2>1, <2>2, <2>3, ZenonT(60)
<1>11. History'
  <2>1. Len(log') = Len(log) + 1 /\ Len(canon') = k + 1 /\ Len(canon') = Len(log') + 1
    BY <1>1, <1>3, <1>4
  <2>2. canon'[1] = NewAdminStateMachine
    BY <1>4, <1>6, <1>7, ZenonT(60)
  <2>3. \A i \in 1 .. Len(log') : canon'[i + 1] = Apply(canon'[i], log'[i])
    BY <1>8, <2>1, ZenonT(60)
  <2>4. \A i, j \in 1 .. Len(canon') : i <= j => Keeps(canon'[i], canon'[j])
    BY <1>9, <2>1, ZenonT(60)
  <2>5. \A j \in 1 .. Len(canon') : \A x \in Namespaces :
          canon'[j].namespaces[x] # None => canon'[j].proxies[canon'[j].namespaces[x].proxy] # None
    BY <1>10, <2>1, ZenonT(60)
  <2> QED BY <2>1, <2>2, <2>3, <2>4, <2>5, ZenonT(60) DEF History, Keeps
<1> QED BY <1>2, <1>3, <1>4, <1>5, <1>11 DEF k

(* A proposal is committed.                                                *)
LEMMA CommitStep ==
  ASSUME Inv, NEW i \in 1 .. Len(calls), Commit(i)
  PROVE  Inv'
<1> DEFINE n == Len(log) + 1
           d == [calls[i] EXCEPT !.idx = n]
<1>1. /\ log' = Append(log, calls[i].cmd) /\ canon' = Append(canon, Apply(Latest, calls[i].cmd))
      /\ calls' = [calls EXCEPT ![i] = d] /\ calls[i].phase \in {"proposing", "async", "failed"}
      /\ UNCHANGED <<leader, mode, applied, fsm, snap, db, told>>
  BY DEF Commit, Latest, node, disk
<1>2. calls[i] \in Call /\ calls[i].cmd \in Commands /\ n \in Nat \ {0} /\ CallOK(calls[i])
  BY Elements DEF Inv, Call, CallsOK
<1>3. /\ log' \in Seq(Commands) /\ canon' \in Seq(Registries)
      /\ Len(log') = n /\ log'[n] = calls[i].cmd
      /\ \A j \in 1 .. Len(log) : log'[j] = log[j]
      /\ \A j \in 1 .. Len(canon) : canon'[j] = canon[j]
      /\ Keeps(Latest, Latest') /\ History'
  BY <1>1, <1>2, LogGrows, ZenonT(60) DEF Inv, CallOK
<1>4. d \in Call /\ d.cmd = calls[i].cmd /\ d.idx = n /\ d.phase = calls[i].phase
  BY <1>2 DEF Call
<1> HIDE DEF d
<1>5. /\ calls' \in Seq(Call) /\ Len(calls') = Len(calls)
      /\ \A j \in 1 .. Len(calls) : calls'[j] = IF j = i THEN d ELSE calls[j]
  BY <1>1, <1>4, SeqExcept DEF Inv, Typed
<1>6. Typed'
  BY <1>1, <1>3, <1>5, ZenonT(60) DEF Typed, Inv
<1>7. Placed'
  <2> SUFFICES ASSUME NEW m \in Nodes
               PROVE  /\ applied[m] <= n /\ fsm[m] = canon'[applied[m] + 1]
                      /\ snap[m] # None =>
                           snap[m].index <= n /\ snap[m].registry = canon'[snap[m].index + 1]
    BY <1>1, <1>3, ZenonT(60) DEF Placed
  <2>1. /\ applied[m] \in Nat /\ applied[m] <= Len(log) /\ fsm[m] = canon[applied[m] + 1]
        /\ snap[m] # None =>
             /\ snap[m].index \in Nat /\ snap[m].index <= Len(log)
             /\ snap[m].registry = canon[snap[m].index + 1]
    BY DEF Inv, Typed, Placed
  <2>2. Len(log) \in Nat /\ Len(canon) = Len(log) + 1
    BY Elements DEF Inv, History
  <2>3. ASSUME NEW k \in Nat, k <= Len(log) PROVE k <= n /\ canon'[k + 1] = canon[k + 1]
    <3>1. k + 1 \in 1 .. Len(canon) /\ k <= n
      BY <2>2, <2>3
    <3> QED BY <1>3, <3>1
  <2> QED BY <2>1, <2>3, ZenonT(60)
<1>8. CallsOK'
  <2> SUFFICES ASSUME NEW j \in 1 .. Len(calls) PROVE CallOK(calls[j])'
    BY <1>5 DEF CallsOK
  <2>0. \A p \in Proxies : Latest.proxies[p] # None => Latest'.proxies[p] # None
    BY <1>3 DEF Keeps
  <2>1. CallOK(calls[j]) /\ calls[j] \in Call /\ calls[j].cmd \in Commands /\ calls[j].idx \in Nat
    BY Elements DEF Inv, CallsOK, Call
  <2>2. calls[j].cmd.op = "CreateNamespace" => Latest'.proxies[calls[j].cmd.val.proxy] # None
    <3>1. calls[j].cmd.op = "CreateNamespace" => calls[j].cmd.val.proxy \in Proxies
      BY <2>1, ZenonT(60) DEF Commands
    <3> QED BY <2>0, <2>1, <3>1, ZenonT(60) DEF CallOK
  <2>3. CASE j = i
    <3>1. calls'[j] = d /\ n \in 1 .. n
      BY <1>2, <1>5, <2>3
    <3> QED BY <1>1, <1>3, <1>4, <2>2, <2>3, <3>1, ZenonT(60) DEF CallOK
  <2>4. CASE j # i
    <3>1. calls'[j] = calls[j]
      BY <1>5, <2>4
    <3>2. calls[j].idx # 0 => calls[j].idx \in 1 .. Len(log') /\ log'[calls[j].idx] = calls[j].cmd
      <4>1. Len(log) \in Nat
        BY Elements DEF Inv
      <4>2. calls[j].idx # 0 => calls[j].idx \in 1 .. Len(log) /\ log[calls[j].idx] = calls[j].cmd
        BY <2>1, ZenonT(60) DEF CallOK
      <4> QED BY <1>3, <4>1, <4>2
    <3> QED BY <1>1, <2>1, <2>2, <3>1, <3>2, ZenonT(60) DEF CallOK, Up
  <2> QED BY <2>3, <2>4
<1>9. Told'
  BY <1>1, Untouched DEF Inv
<1>10. StorageNeverAhead'
  <2>1. /\ \A x \in Namespaces : Latest.namespaces[x] # None => Latest'.namespaces[x] # None
        /\ \A p \in Proxies : Latest.proxies[p] # None => Latest'.proxies[p] # None
        /\ \A l \in Launchers : Latest.launchers[l] # None => Latest'.launchers[l] # None
    BY <1>3 DEF Keeps
  <2>2. ASSUME NEW m \in Nodes
        PROVE  /\ db[m].namespaces \subseteq Namespaces
               /\ \A x \in db[m].namespaces : Latest.namespaces[x] # None
               /\ \A p \in Proxies : db[m].proxies[p] # None => Latest.proxies[p] # None
               /\ \A l \in Launchers : db[m].launchers[l] # None => Latest.launchers[l] # None
    BY ZenonT(60) DEF Inv, Typed, Database, StorageNeverAhead, Latest
  <2>3. db' = db
    BY <1>1
  <2>4. ASSUME NEW m \in Nodes
        PROVE  /\ \A x \in db'[m].namespaces : Latest'.namespaces[x] # None
               /\ \A p \in Proxies : db'[m].proxies[p] # None => Latest'.proxies[p] # None
               /\ \A l \in Launchers : db'[m].launchers[l] # None => Latest'.launchers[l] # None
    BY <2>1, <2>2, <2>3, ZenonT(60)
  <2> QED BY <2>4 DEF StorageNeverAhead, Latest
<1> QED BY <1>3, <1>6, <1>7, <1>8, <1>9, <1>10 DEF Inv

(* The members of two proxies' announcements.                              *)
LEMMA MembersFinite ==
  ASSUME NEW S \in SUBSET Proxies
  PROVE  S \subseteq Nat /\ IsFiniteSet(S)
BY ClusterAssumption, FS_Subset, ZenonT(60)

(* The ranges two members of a set are given have no partition in common:  *)
(* the member with the smaller id comes first in the sorted slice, and its *)
(* range ends before the next one starts (ComputeRangesFromProxySet).      *)
LEMMA RangesApart ==
  ASSUME NEW S \in SUBSET Proxies, NEW p \in S, NEW q \in S, p < q, NEW part \in AllPartitions,
         Within(part, RangeOf(Rank(p, S), Cardinality(S))),
         Within(part, RangeOf(Rank(q, S), Cardinality(S)))
  PROVE  FALSE
<1> DEFINE n == Cardinality(S)
           r == RangeSize(n)
           i == Rank(p, S)
           j == Rank(q, S)
           Below(a) == {x \in S : x < a}
<1>1. S \subseteq Nat /\ IsFiniteSet(S) /\ n \in Nat
  BY MembersFinite, FS_CardinalityType, ZenonT(60)
<1>2. i = Cardinality(Below(p)) /\ j = Cardinality(Below(q))
  BY DEF Rank
<1>3. /\ Below(q) \in SUBSET S /\ Below(q) # S
      /\ Below(p) \in SUBSET Below(q) /\ Below(p) # Below(q)
  <2>1. q \notin Below(q) /\ p \in Below(q) /\ p \notin Below(p)
    BY <1>1
  <2>2. \A x \in Below(p) : x \in Below(q)
    BY <1>1
  <2> QED BY <2>1, <2>2
<1>4. IsFiniteSet(Below(q)) /\ Cardinality(Below(q)) <= n /\ Cardinality(Below(q)) # n
  BY <1>1, <1>3, FS_Subset
<1>5. /\ IsFiniteSet(Below(p)) /\ Cardinality(Below(p)) <= Cardinality(Below(q))
      /\ Cardinality(Below(p)) # Cardinality(Below(q))
  BY <1>3, <1>4, FS_Subset
<1>6. i \in Nat /\ j \in Nat
  BY <1>2, <1>4, <1>5, FS_CardinalityType
<1>7. i < j /\ j < n
  <2> HIDE DEF i, j, n, Below
  <2> QED BY <1>1, <1>2, <1>4, <1>5, <1>6
<1>8. /\ part <= IF i = n - 1 THEN PartitionCount - 1 ELSE i * r + r - 1
      /\ j * r <= part
  BY DEF Within, RangeOf
<1> HIDE DEF i, j, n
<1>9. r \in Nat
  BY <1>1, <1>6, <1>7, PartitionCountAssumption DEF RangeSize
<1> HIDE DEF r
<1>10. i * r \in Nat /\ j * r \in Nat /\ (i + 1) * r = i * r + r /\ (i + 1) * r <= j * r
  BY <1>6, <1>7, <1>9
<1> QED BY <1>1, <1>6, <1>7, <1>8, <1>9, <1>10, PartitionCountAssumption DEF AllPartitions

(* Announced ranges agree, and recorded owners are registered.             *)
LEMMA InvOwners == Inv => OwnersAgree
<1> SUFFICES ASSUME Inv PROVE OwnersAgree
  OBVIOUS
<1>1. ASSUME NEW p \in Proxies, told[p] # None
      PROVE  /\ told[p].members \in SUBSET Proxies /\ p \in told[p].members
             /\ told[p].ranges = {RangeOf(Rank(p, told[p].members), Cardinality(told[p].members))}
  <2>1. told[p] \in [ranges : Announced, members : SUBSET Proxies, namespaces : SUBSET Namespaces]
    BY <1>1 DEF Inv, Typed
  <2> QED BY <1>1, <2>1, ZenonT(60) DEF Inv, Told, ComputeRangesFromProxySet
<1>2. ASSUME NEW p \in Proxies, told[p] # None, NEW q \in Proxies \ {p}, told[q] # None,
             told[q].members = told[p].members, NEW part \in AllPartitions,
             NEW r \in told[p].ranges, NEW t \in told[q].ranges, Within(part, r), Within(part, t)
      PROVE  FALSE
  <2> DEFINE S == told[p].members
  <2>1. S \in SUBSET Proxies /\ p \in S /\ q \in S
    BY <1>1, <1>2
  <2>2. p < q \/ q < p
    BY <2>1, MembersFinite
  <2>3. r = RangeOf(Rank(p, S), Cardinality(S)) /\ t = RangeOf(Rank(q, S), Cardinality(S))
    BY <1>1, <1>2, ZenonT(60)
  <2> HIDE DEF S
  <2> QED BY <1>2, <2>1, <2>2, <2>3, RangesApart
<1>3. ToldRangesAgree
  BY <1>1, <1>2 DEF ToldRangesAgree
<1>4. OwnersAreRegistered
  <2> SUFFICES ASSUME NEW n \in Nodes, NEW x \in Namespaces, fsm[n].namespaces[x] # None
               PROVE  fsm[n].proxies[fsm[n].namespaces[x].proxy] # None
    BY DEF OwnersAreRegistered
  <2>1. fsm[n] = canon[applied[n] + 1] /\ applied[n] + 1 \in 1 .. Len(canon)
    BY GrowsToLatest, ZenonT(60) DEF Inv, Placed, Typed
  <2> QED BY <2>1, ZenonT(60) DEF Inv, History
<1> QED BY <1>3, <1>4 DEF OwnersAgree

-----------------------------------------------------------------------------
(* Every step of the cluster preserves the invariant.                      *)
THEOREM Invariance == Spec => []Inv
<1>1. Init => Inv
  BY InitInv
<1>2. Inv /\ [Next]_vars => Inv'
  <2> SUFFICES ASSUME Inv, [Next]_vars PROVE Inv'
    OBVIOUS
  <2>1. CASE Request
    BY <2>1, RequestStep
  <2>2. CASE Reply
    BY <2>2, ComputeRangesStep, AckProxyStep, AckStep, RefuseStep DEF Reply
  <2>3. CASE StepDown
    BY <2>3, StepDownStep
  <2>4. CASE \E i \in 1 .. Len(calls) : Commit(i)
    BY <2>4, CommitStep
  <2>5. ASSUME NEW n \in Nodes,
               \/ Elect(n) \/ ApplyEntry(n) \/ ApplyPanics(n) \/ ApplyRaces(n)
               \/ Snapshot(n) \/ InstallSnapshot(n) \/ Crash(n) \/ Start(n)
        PROVE  Inv'
    BY <2>5, ElectStep, ApplyEntryStep, EndingSteps, SnapshotStep, InstallStep, StartStep
  <2>6. CASE UNCHANGED vars
    <3>1. UNCHANGED <<log, canon, leader, mode, applied, fsm, snap, db, calls, told>>
      BY <2>6 DEF vars, cluster, node, disk
    <3>2. Typed'
      BY <3>1 DEF Inv, Typed
    <3>3. CallsOK'
      BY <3>1, NodesAdvance DEF Inv, Typed, Up
    <3> QED BY <3>1, <3>2, <3>3, SameLog, Untouched DEF Inv
  <2> QED BY <2>1, <2>2, <2>3, <2>4, <2>5, <2>6 DEF Next
<1> QED BY <1>1, <1>2, PTL DEF Spec

(* Every replica holds the registry that the commands it has applied       *)
(* produce, whatever crashes, snapshots and transfers lie behind it, and   *)
(* applying a command twice is applying it once (Apply, Snapshot,          *)
(* Restore).                                                               *)
THEOREM Replicated == Spec => []ReplicasAgree
BY Invariance, InvReplicas, PTL

(* A request that was answered with success is in the log and in every     *)
(* replica that has reached it (Propose and the handlers).                 *)
THEOREM Durable == Spec => []AckedIsDurable
BY Invariance, InvDurable, PTL

(* Proxies that were told ranges of the same set were told disjoint ones,  *)
(* and the owner recorded for a namespace is registered (RegisterProxy,    *)
(* CreateNamespace).                                                       *)
THEOREM Owned == Spec => []OwnersAgree
BY Invariance, InvOwners, PTL

(* The local database has rows of committed entries only (applyEntry and   *)
(* the statements of storage.go).                                          *)
THEOREM NeverAhead == Spec => []StorageNeverAhead
<1>1. Inv => StorageNeverAhead
  BY DEF Inv
<1> QED BY <1>1, Invariance, PTL
=============================================================================
