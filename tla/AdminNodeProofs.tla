-------------------------- MODULE AdminNodeProofs ---------------------------
(***************************************************************************)
(* The commands of prism-admin's state machine, the inductive invariant of *)
(* the cluster and the steps with which a node loses and regains its       *)
(* state, for any nodes, proxies, namespaces, launchers and patterns.      *)
(***************************************************************************)
EXTENDS AdminCluster, TLAPS

NamespaceEntry == [proxy : Proxies, config : Configs]
LauncherEntry  == [max : Capacities, slots : Nat]

(* A registry, field by field.                                             *)
LEMMA RegistryFields ==
  ASSUME NEW s \in Registries
  PROVE  /\ s.namespaces \in [Namespaces -> {None} \cup NamespaceEntry]
         /\ s.proxies \in [Proxies -> {None} \cup Addrs]
         /\ s.launchers \in [Launchers -> {None} \cup LauncherEntry]
         /\ s.patterns \in [Patterns -> {None} \cup Launchers]
         /\ s = [namespaces |-> s.namespaces, proxies |-> s.proxies,
                 launchers |-> s.launchers, patterns |-> s.patterns]
BY DEF Registries, NamespaceEntry, LauncherEntry

(* What each command does.                                                 *)
LEMMA ApplyNamespace ==
  ASSUME NEW s \in Registries, NEW c \in Commands, c.op = "CreateNamespace"
  PROVE  /\ c.key \in Namespaces /\ c.val \in NamespaceEntry
         /\ Apply(s, c) = [namespaces |-> [s.namespaces EXCEPT ![c.key] = c.val],
                           proxies |-> s.proxies, launchers |-> s.launchers,
                           patterns |-> s.patterns]
<1>1. c.key \in Namespaces /\ c.val \in NamespaceEntry
  BY DEF Commands, NamespaceEntry
<1>2. Apply(s, c) = [s EXCEPT !.namespaces = [s.namespaces EXCEPT ![c.key] = c.val]]
  BY DEF Apply, applyCreateNamespace
<1> QED BY <1>1, <1>2, RegistryFields

(* applyRegisterProxy replaces one entry of the proxies.                   *)
LEMMA ApplyProxy ==
  ASSUME NEW s \in Registries, NEW c \in Commands, c.op = "RegisterProxy"
  PROVE  /\ c.key \in Proxies /\ c.val \in Addrs
         /\ Apply(s, c) = [namespaces |-> s.namespaces,
                           proxies |-> [s.proxies EXCEPT ![c.key] = c.val],
                           launchers |-> s.launchers, patterns |-> s.patterns]
<1>1. c.key \in Proxies /\ c.val \in Addrs
  BY DEF Commands
<1>2. Apply(s, c) = [s EXCEPT !.proxies = [s.proxies EXCEPT ![c.key] = c.val]]
  BY DEF Apply, applyRegisterProxy
<1> QED BY <1>1, <1>2, RegistryFields

(* applyRegisterLauncher replaces one entry of the launchers, with all its *)
(* slots free.                                                             *)
LEMMA ApplyLauncher ==
  ASSUME NEW s \in Registries, NEW c \in Commands, c.op = "RegisterLauncher"
  PROVE  /\ c.key \in Launchers /\ c.val \in Capacities
         /\ Apply(s, c) = [namespaces |-> s.namespaces, proxies |-> s.proxies,
                           launchers |-> [s.launchers EXCEPT ![c.key] = [max |-> c.val, slots |-> c.val]],
                           patterns |-> s.patterns]
<1>1. c.key \in Launchers /\ c.val \in Capacities
  BY DEF Commands
<1>2. Apply(s, c) = [s EXCEPT !.launchers =
                       [s.launchers EXCEPT ![c.key] = [max |-> c.val, slots |-> c.val]]]
  BY DEF Apply, applyRegisterLauncher
<1> QED BY <1>1, <1>2, RegistryFields

(* The launchers once a pattern is assigned.                               *)
Taken(s, c) ==
  IF s.patterns[c.key] = None /\ s.launchers[c.val] # None /\ s.launchers[c.val].slots > 0
    THEN [s.launchers EXCEPT ![c.val] =
            [max |-> s.launchers[c.val].max, slots |-> s.launchers[c.val].slots - 1]]
    ELSE s.launchers

(* applyAssignPattern replaces one entry of the patterns, and takes a slot *)
(* of its launcher at most.                                                *)
LEMMA ApplyAssign ==
  ASSUME NEW s \in Registries, NEW c \in Commands, c.op = "AssignPattern"
  PROVE  /\ c.key \in Patterns /\ c.val \in Launchers
         /\ Apply(s, c) = [namespaces |-> s.namespaces, proxies |-> s.proxies,
                           launchers |-> Taken(s, c),
                           patterns |-> [s.patterns EXCEPT ![c.key] = c.val]]
<1>1. c.key \in Patterns /\ c.val \in Launchers
  BY DEF Commands
<1> DEFINE u == [s EXCEPT !.launchers = Taken(s, c)]
<1>2. u = [namespaces |-> s.namespaces, proxies |-> s.proxies, launchers |-> Taken(s, c),
           patterns |-> s.patterns]
  BY RegistryFields
<1>3. Apply(s, c) = [u EXCEPT !.patterns = [s.patterns EXCEPT ![c.key] = c.val]]
  <2>1. Apply(s, c) = applyAssignPattern(s, c)
    BY DEF Apply
  <2>2. CASE s.patterns[c.key] = None /\ s.launchers[c.val] # None /\ s.launchers[c.val].slots > 0
    BY <2>1, <2>2, RegistryFields, ZenonT(60) DEF applyAssignPattern, Taken
  <2>3. CASE ~(s.patterns[c.key] = None /\ s.launchers[c.val] # None /\ s.launchers[c.val].slots > 0)
    BY <2>1, <2>3, RegistryFields, ZenonT(60) DEF applyAssignPattern, Taken
  <2> QED BY <2>2, <2>3
<1> HIDE DEF u
<1> QED BY <1>1, <1>2, <1>3

(* The heartbeats change the slots of a launcher that is known, and        *)
(* nothing else.                                                           *)
LEMMA ApplyStatus ==
  ASSUME NEW s \in Registries, NEW c \in Commands
  PROVE  /\ c.op = "UpdateProxyStatus" => Apply(s, c) = s
         /\ c.op = "UpdateLauncherStatus" =>
              /\ c.key \in Launchers /\ c.val \in Capacities
              /\ s.launchers[c.key] = None => Apply(s, c) = s
              /\ s.launchers[c.key] # None =>
                   Apply(s, c) = [namespaces |-> s.namespaces, proxies |-> s.proxies,
                                  launchers |-> [s.launchers EXCEPT ![c.key] =
                                                   [max |-> s.launchers[c.key].max, slots |-> c.val]],
                                  patterns |-> s.patterns]
<1>1. ASSUME c.op = "UpdateProxyStatus" PROVE Apply(s, c) = s
  BY <1>1 DEF Apply, applyUpdateProxyStatus
<1>2. ASSUME c.op = "UpdateLauncherStatus" PROVE c.key \in Launchers /\ c.val \in Capacities
  BY <1>2 DEF Commands
<1>3. ASSUME c.op = "UpdateLauncherStatus", s.launchers[c.key] = None PROVE Apply(s, c) = s
  BY <1>3 DEF Apply, applyUpdateLauncherStatus
<1>4. ASSUME c.op = "UpdateLauncherStatus", s.launchers[c.key] # None
      PROVE  Apply(s, c) = [s EXCEPT !.launchers = [s.launchers EXCEPT ![c.key] =
                              [max |-> s.launchers[c.key].max, slots |-> c.val]]]
  BY <1>4 DEF Apply, applyUpdateLauncherStatus
<1> QED BY <1>1, <1>2, <1>3, <1>4, RegistryFields

(* Apply handles every command that is written to the log.                 *)
LEMMA OpCases ==
  ASSUME NEW c \in Commands
  PROVE  c.op \in {"CreateNamespace", "RegisterProxy", "RegisterLauncher", "AssignPattern",
                   "UpdateProxyStatus", "UpdateLauncherStatus"}
BY DEF Commands

(* A launcher's entry is replaced.                                         *)
LEMMA LauncherReplaced ==
  ASSUME NEW s \in Registries, NEW l \in Launchers, NEW e \in LauncherEntry
  PROVE  /\ [s.launchers EXCEPT ![l] = e] \in [Launchers -> {None} \cup LauncherEntry]
         /\ [s.launchers EXCEPT ![l] = e][l] = e
         /\ [namespaces |-> s.namespaces, proxies |-> s.proxies,
             launchers |-> [s.launchers EXCEPT ![l] = e], patterns |-> s.patterns] \in Registries
         /\ [[s.launchers EXCEPT ![l] = e] EXCEPT ![l] = e] = [s.launchers EXCEPT ![l] = e]
<1>1. [s.launchers EXCEPT ![l] = e] \in [Launchers -> {None} \cup LauncherEntry]
  BY RegistryFields
<1>2. [s.launchers EXCEPT ![l] = e][l] = e
  BY RegistryFields
<1>3. [[s.launchers EXCEPT ![l] = e] EXCEPT ![l] = e] = [s.launchers EXCEPT ![l] = e]
  BY RegistryFields
<1>4. [namespaces |-> s.namespaces, proxies |-> s.proxies,
       launchers |-> [s.launchers EXCEPT ![l] = e], patterns |-> s.patterns] \in Registries
  BY <1>1, RegistryFields DEF Registries, LauncherEntry, NamespaceEntry
<1> QED BY <1>1, <1>2, <1>3, <1>4

(* The entries the commands write for a launcher.                          *)
LEMMA EntryTypes ==
  ASSUME NEW s \in Registries, NEW l \in Launchers, NEW v \in Capacities
  PROVE  /\ [max |-> v, slots |-> v] \in LauncherEntry
         /\ s.launchers[l] # None =>
              /\ s.launchers[l] \in LauncherEntry
              /\ [max |-> s.launchers[l].max, slots |-> v] \in LauncherEntry
BY RegistryFields, FSMAssumption DEF LauncherEntry

(* Assigning a pattern keeps the launchers' types and presence.            *)
LEMMA TakenFacts ==
  ASSUME NEW s \in Registries, NEW c, c.val \in Launchers
  PROVE  /\ Taken(s, c) \in [Launchers -> {None} \cup LauncherEntry]
         /\ \A l \in Launchers : s.launchers[l] # None => Taken(s, c)[l] # None
<1> DEFINE l == s.launchers[c.val]
           e == [max |-> l.max, slots |-> l.slots - 1]
<1>1. CASE s.patterns[c.key] = None /\ l # None /\ l.slots > 0
  <2>1. l \in LauncherEntry
    BY <1>1, RegistryFields
  <2>2. e \in LauncherEntry
    BY <1>1, <2>1 DEF LauncherEntry
  <2>3. Taken(s, c) = [s.launchers EXCEPT ![c.val] = e]
    BY <1>1 DEF Taken
  <2>4. e # None
    BY <2>2, FSMAssumption DEF LauncherEntry
  <2> HIDE DEF e, l
  <2> QED BY <2>2, <2>3, <2>4, LauncherReplaced, RegistryFields
<1>2. CASE ~(s.patterns[c.key] = None /\ l # None /\ l.slots > 0)
  <2>1. Taken(s, c) = s.launchers
    BY <1>2 DEF Taken
  <2> QED BY <2>1, RegistryFields
<1> QED BY <1>1, <1>2

(* Apply keeps the types: a state machine never leaves the registries.     *)
LEMMA ApplyType ==
  ASSUME NEW s \in Registries, NEW c \in Commands
  PROVE  Apply(s, c) \in Registries
<1>1. CASE c.op = "CreateNamespace"
  BY <1>1, ApplyNamespace, RegistryFields DEF Registries, NamespaceEntry, LauncherEntry
<1>2. CASE c.op = "RegisterProxy"
  BY <1>2, ApplyProxy, RegistryFields DEF Registries, NamespaceEntry, LauncherEntry
<1>3. CASE c.op = "RegisterLauncher"
  <2> DEFINE e == [max |-> c.val, slots |-> c.val]
  <2>1. e \in LauncherEntry /\ c.key \in Launchers
    BY <1>3, ApplyLauncher, EntryTypes, ZenonT(60)
  <2>2. Apply(s, c) = [namespaces |-> s.namespaces, proxies |-> s.proxies,
                       launchers |-> [s.launchers EXCEPT ![c.key] = e], patterns |-> s.patterns]
    BY <1>3, ApplyLauncher
  <2> HIDE DEF e
  <2> QED BY <2>1, <2>2, LauncherReplaced
<1>4. CASE c.op = "AssignPattern"
  <2>1. Taken(s, c) \in [Launchers -> {None} \cup LauncherEntry]
    BY <1>4, ApplyAssign, TakenFacts
  <2> QED BY <1>4, <2>1, ApplyAssign, RegistryFields DEF Registries, NamespaceEntry, LauncherEntry
<1>5. CASE c.op = "UpdateProxyStatus"
  BY <1>5, ApplyStatus, ZenonT(60)
<1>6. CASE c.op = "UpdateLauncherStatus"
  <2>1. CASE s.launchers[c.key] = None
    BY <1>6, <2>1, ApplyStatus, ZenonT(60)
  <2>2. CASE s.launchers[c.key] # None
    <3> DEFINE e == [max |-> s.launchers[c.key].max, slots |-> c.val]
    <3>1. e \in LauncherEntry /\ c.key \in Launchers
      BY <1>6, <2>2, ApplyStatus, EntryTypes, ZenonT(60)
    <3>2. Apply(s, c) = [namespaces |-> s.namespaces, proxies |-> s.proxies,
                         launchers |-> [s.launchers EXCEPT ![c.key] = e], patterns |-> s.patterns]
      BY <1>6, <2>2, ApplyStatus
    <3> HIDE DEF e
    <3> QED BY <3>1, <3>2, LauncherReplaced
  <2> QED BY <2>1, <2>2
<1> QED BY <1>1, <1>2, <1>3, <1>4, <1>5, <1>6, OpCases

(* Applying a command twice in a row is applying it once: what Apply's     *)
(* comment in fsm.go asks for.                                             *)
LEMMA ApplyTwice ==
  ASSUME NEW s \in Registries, NEW c \in Commands
  PROVE  Apply(Apply(s, c), c) = Apply(s, c)
<1> DEFINE t == Apply(s, c)
<1>t. t \in Registries
  BY ApplyType
<1>1. CASE c.op = "CreateNamespace"
  BY <1>t, <1>1, ApplyNamespace, RegistryFields
<1>2. CASE c.op = "RegisterProxy"
  BY <1>t, <1>2, ApplyProxy, RegistryFields
<1>3. CASE c.op = "RegisterLauncher"
  <2> DEFINE e == [max |-> c.val, slots |-> c.val]
  <2>1. e \in LauncherEntry /\ c.key \in Launchers
    BY <1>3, ApplyLauncher, EntryTypes, ZenonT(60)
  <2>2. /\ t = [namespaces |-> s.namespaces, proxies |-> s.proxies,
                launchers |-> [s.launchers EXCEPT ![c.key] = e], patterns |-> s.patterns]
        /\ Apply(t, c) = [namespaces |-> t.namespaces, proxies |-> t.proxies,
                          launchers |-> [t.launchers EXCEPT ![c.key] = e], patterns |-> t.patterns]
    BY <1>t, <1>3, ApplyLauncher
  <2> HIDE DEF e, t
  <2> QED BY <2>1, <2>2, LauncherReplaced DEF t
<1>4. CASE c.op = "AssignPattern"
  <2>1. c.key \in Patterns /\ c.val \in Launchers /\ c.val # None
    BY <1>4, ApplyAssign, FSMAssumption
  <2>2. /\ t = [namespaces |-> s.namespaces, proxies |-> s.proxies,
                launchers |-> Taken(s, c), patterns |-> [s.patterns EXCEPT ![c.key] = c.val]]
        /\ Apply(t, c) = [namespaces |-> t.namespaces, proxies |-> t.proxies,
                          launchers |-> Taken(t, c), patterns |-> [t.patterns EXCEPT ![c.key] = c.val]]
    BY <1>t, <1>4, ApplyAssign
  <2> HIDE DEF t
  <2>3. t.patterns[c.key] = c.val /\ [t.patterns EXCEPT ![c.key] = c.val] = t.patterns
    BY <2>1, <2>2, RegistryFields
  <2>4. Taken(t, c) = t.launchers
    BY <2>1, <2>3 DEF Taken
  <2>5. Apply(t, c) = t
    BY <1>t, <2>2, <2>3, <2>4, RegistryFields
  <2> QED BY <2>5 DEF t
<1>5. CASE c.op = "UpdateProxyStatus"
  BY <1>t, <1>5, ApplyStatus, ZenonT(60)
<1>6. CASE c.op = "UpdateLauncherStatus"
  <2>1. c.key \in Launchers /\ c.val \in Capacities
    BY <1>6, ApplyStatus, ZenonT(60)
  <2>2. CASE s.launchers[c.key] = None
    BY <1>6, <2>2, ApplyStatus, ZenonT(60)
  <2>3. CASE s.launchers[c.key] # None
    <3> DEFINE e == [max |-> s.launchers[c.key].max, slots |-> c.val]
    <3>0. e \in LauncherEntry
      BY <2>1, <2>3, EntryTypes, ZenonT(60)
    <3>1. e \in LauncherEntry /\ e # None /\ e.max = s.launchers[c.key].max
      BY <3>0, FSMAssumption DEF LauncherEntry
    <3>2. t = [namespaces |-> s.namespaces, proxies |-> s.proxies,
               launchers |-> [s.launchers EXCEPT ![c.key] = e], patterns |-> s.patterns]
      BY <1>6, <2>3, ApplyStatus
    <3> HIDE DEF e, t
    <3>3. t.launchers = [s.launchers EXCEPT ![c.key] = e] /\ t.launchers[c.key] = e
      BY <2>1, <3>1, <3>2, LauncherReplaced
    <3>4. [max |-> t.launchers[c.key].max, slots |-> c.val] = e
      BY <3>1, <3>3 DEF e
    <3>5. Apply(t, c) = [namespaces |-> t.namespaces, proxies |-> t.proxies,
                         launchers |-> [t.launchers EXCEPT ![c.key] = e], patterns |-> t.patterns]
      BY <1>t, <1>6, <3>1, <3>3, <3>4, ApplyStatus, ZenonT(60)
    <3>6. [t.launchers EXCEPT ![c.key] = e] = t.launchers
      BY <2>1, <3>1, <3>3, LauncherReplaced
    <3>7. Apply(t, c) = t
      BY <1>t, <3>5, <3>6, RegistryFields
    <3> QED BY <3>7 DEF t
  <2> QED BY <2>2, <2>3
<1> QED BY <1>1, <1>2, <1>3, <1>4, <1>5, <1>6, OpCases

(* Every entry of s is one of t.                                           *)
Keeps(s, t) ==
  /\ \A x \in Namespaces : s.namespaces[x] # None => t.namespaces[x] # None
  /\ \A p \in Proxies : s.proxies[p] # None => t.proxies[p] # None
  /\ \A l \in Launchers : s.launchers[l] # None => t.launchers[l] # None
  /\ \A k \in Patterns : s.patterns[k] # None => t.patterns[k] # None

(* A command removes no entry, and changes the owner of a namespace only   *)
(* to the one it carries.                                                  *)
LEMMA ApplyKeeps ==
  ASSUME NEW s \in Registries, NEW c \in Commands
  PROVE  /\ Keeps(s, Apply(s, c))
         /\ \A x \in Namespaces :
              \/ Apply(s, c).namespaces[x] = s.namespaces[x]
              \/ c.op = "CreateNamespace" /\ Apply(s, c).namespaces[x] = c.val
<1>1. CASE c.op = "CreateNamespace"
  <2>1. c.key \in Namespaces /\ c.val # None
    BY <1>1, ApplyNamespace, FSMAssumption DEF NamespaceEntry
  <2> QED BY <1>1, <2>1, ApplyNamespace, RegistryFields DEF Keeps
<1>2. CASE c.op = "RegisterProxy"
  BY <1>2, ApplyProxy, RegistryFields, FSMAssumption DEF Keeps
<1>3. CASE c.op = "RegisterLauncher"
  <2> DEFINE e == [max |-> c.val, slots |-> c.val]
  <2>1. e \in LauncherEntry /\ c.key \in Launchers
    BY <1>3, ApplyLauncher, EntryTypes, ZenonT(60)
  <2>2. e # None
    BY <2>1, FSMAssumption DEF LauncherEntry
  <2>3. Apply(s, c) = [namespaces |-> s.namespaces, proxies |-> s.proxies,
                       launchers |-> [s.launchers EXCEPT ![c.key] = e], patterns |-> s.patterns]
    BY <1>3, ApplyLauncher
  <2> HIDE DEF e
  <2> QED BY <2>1, <2>2, <2>3, RegistryFields DEF Keeps
<1>4. CASE c.op = "AssignPattern"
  <2>1. c.key \in Patterns /\ c.val \in Launchers /\ c.val # None
    BY <1>4, ApplyAssign, FSMAssumption
  <2> QED BY <1>4, <2>1, ApplyAssign, TakenFacts, RegistryFields DEF Keeps
<1>5. CASE c.op = "UpdateProxyStatus"
  BY <1>5, ApplyStatus, ZenonT(60) DEF Keeps
<1>6. CASE c.op = "UpdateLauncherStatus"
  <2>1. CASE s.launchers[c.key] = None
    BY <1>6, <2>1, ApplyStatus, ZenonT(60) DEF Keeps
  <2>2. CASE s.launchers[c.key] # None
    <3> DEFINE e == [max |-> s.launchers[c.key].max, slots |-> c.val]
    <3>1. e \in LauncherEntry /\ c.key \in Launchers
      BY <1>6, <2>2, ApplyStatus, EntryTypes, ZenonT(60)
    <3>2. e # None
      BY <3>1, FSMAssumption DEF LauncherEntry
    <3>3. Apply(s, c) = [namespaces |-> s.namespaces, proxies |-> s.proxies,
                         launchers |-> [s.launchers EXCEPT ![c.key] = e], patterns |-> s.patterns]
      BY <1>6, <2>2, ApplyStatus
    <3> HIDE DEF e
    <3> QED BY <1>6, <3>1, <3>2, <3>3, RegistryFields DEF Keeps
  <2> QED BY <2>1, <2>2
<1> QED BY <1>1, <1>2, <1>3, <1>4, <1>5, <1>6, OpCases

(* A command leaves the entry it is about behind.                          *)
LEMMA ApplyWrites ==
  ASSUME NEW s \in Registries, NEW c \in Commands
  PROVE  /\ c.op = "CreateNamespace" => Apply(s, c).namespaces[c.key] # None
         /\ c.op = "RegisterProxy" => Apply(s, c).proxies[c.key] # None
         /\ c.op = "RegisterLauncher" => Apply(s, c).launchers[c.key] # None
         /\ c.op = "AssignPattern" => Apply(s, c).patterns[c.key] # None
<1>1. ASSUME c.op = "CreateNamespace" PROVE Apply(s, c).namespaces[c.key] # None
  <2>1. c.key \in Namespaces /\ c.val # None
    BY <1>1, ApplyNamespace, FSMAssumption DEF NamespaceEntry
  <2> QED BY <1>1, <2>1, ApplyNamespace, RegistryFields
<1>2. ASSUME c.op = "RegisterProxy" PROVE Apply(s, c).proxies[c.key] # None
  BY <1>2, ApplyProxy, RegistryFields, FSMAssumption
<1>3. ASSUME c.op = "RegisterLauncher" PROVE Apply(s, c).launchers[c.key] # None
  <2> DEFINE e == [max |-> c.val, slots |-> c.val]
  <2>1. e \in LauncherEntry /\ c.key \in Launchers
    BY <1>3, ApplyLauncher, EntryTypes, ZenonT(60)
  <2>2. e # None
    BY <2>1, FSMAssumption DEF LauncherEntry
  <2>3. Apply(s, c).launchers = [s.launchers EXCEPT ![c.key] = e]
    BY <1>3, ApplyLauncher
  <2> HIDE DEF e
  <2>4. [s.launchers EXCEPT ![c.key] = e][c.key] = e
    BY <2>1, RegistryFields
  <2> QED BY <2>2, <2>3, <2>4
<1>4. ASSUME c.op = "AssignPattern" PROVE Apply(s, c).patterns[c.key] # None
  <2>1. c.key \in Patterns /\ c.val \in Launchers /\ c.val # None
    BY <1>4, ApplyAssign, FSMAssumption
  <2> QED BY <1>4, <2>1, ApplyAssign, RegistryFields
<1> QED BY <1>1, <1>2, <1>3, <1>4

-----------------------------------------------------------------------------
(* The invariant of the cluster.                                           *)

Phases == {"proposing", "async", "reading", "acked", "failed"}
Announced == {{}} \cup {ComputeRangesFromProxySet(p, S) : p \in Proxies, S \in SUBSET Proxies}

Call == [cmd : Commands, node : Nodes, phase : Phases, idx : Nat,
         ranges : Announced, members : SUBSET Proxies]

Database == [namespaces : SUBSET Namespaces, proxies : [Proxies -> {None} \cup Addrs],
             launchers : [Launchers -> {None} \cup Capacities]]

(* The types, as far as the proofs need them.                              *)
Typed ==
  /\ log \in Seq(Commands) /\ canon \in Seq(Registries)
  /\ leader \in Nodes \cup {None}
  /\ mode \in [Nodes -> {"up", "down", "panicked"}]
  /\ applied \in [Nodes -> Nat] /\ fsm \in [Nodes -> Registries]
  /\ snap \in [Nodes -> {None} \cup [index : Nat, registry : Registries]]
  /\ db \in [Nodes -> Database]
  /\ calls \in Seq(Call)
  /\ told \in [Proxies -> {None} \cup [ranges : Announced, members : SUBSET Proxies,
                                       namespaces : SUBSET Namespaces]]

Latest == canon[Len(canon)]

(* canon is the history of the log.  No entry is ever removed, and the     *)
(* owner of a namespace is registered.                                     *)
History ==
  /\ Len(canon) = Len(log) + 1
  /\ canon[1] = NewAdminStateMachine
  /\ \A i \in 1 .. Len(log) : canon[i + 1] = Apply(canon[i], log[i])
  /\ \A i, j \in 1 .. Len(canon) : i <= j => Keeps(canon[i], canon[j])
  /\ \A j \in 1 .. Len(canon) : \A x \in Namespaces :
       canon[j].namespaces[x] # None =>
         canon[j].proxies[canon[j].namespaces[x].proxy] # None

(* Every node and every snapshot is at one of the registries of the        *)
(* history; nodes that are down included, since a restart begins with what *)
(* is on disk.                                                             *)
Placed ==
  \A n \in Nodes :
    /\ applied[n] <= Len(log) /\ fsm[n] = canon[applied[n] + 1]
    /\ snap[n] # None =>
         snap[n].index <= Len(log) /\ snap[n].registry = canon[snap[n].index + 1]

(* A call whose command is committed knows its place in the log; one that  *)
(* computed ranges is about a proxy its node has, and its node is up; the  *)
(* owner a request carries is registered.                                  *)
CallOK(c) ==
  /\ c.idx # 0 => c.idx \in 1 .. Len(log) /\ log[c.idx] = c.cmd
  /\ c.phase \in {"reading", "acked"} => c.idx # 0
  /\ c.phase = "reading" =>
       /\ Up(c.node) /\ applied[c.node] >= c.idx
       /\ c.cmd.op = "RegisterProxy" /\ c.cmd.key \in c.members
       /\ c.ranges = ComputeRangesFromProxySet(c.cmd.key, c.members)
  /\ c.cmd.op = "CreateNamespace" => Latest.proxies[c.cmd.val.proxy] # None

CallsOK == \A i \in 1 .. Len(calls) : CallOK(calls[i])

(* The ranges a proxy was told are those of a set of proxies that has it.  *)
Told ==
  \A p \in Proxies : told[p] # None =>
    /\ p \in told[p].members
    /\ told[p].ranges = ComputeRangesFromProxySet(p, told[p].members)

Inv == Typed /\ History /\ Placed /\ CallsOK /\ Told /\ StorageNeverAhead

-----------------------------------------------------------------------------
(* The length and the elements of a sequence.                              *)
LEMMA SeqElements ==
  ASSUME NEW S, NEW s \in Seq(S)
  PROVE  /\ Len(s) \in Nat /\ DOMAIN s = 1 .. Len(s) /\ s \in [1 .. Len(s) -> S]
         /\ \A i \in 1 .. Len(s) : s[i] \in S
OBVIOUS

(* A function on an initial segment is a sequence.                         *)
LEMMA SeqFunction ==
  ASSUME NEW S, NEW n \in Nat, NEW f \in [1 .. n -> S]
  PROVE  f \in Seq(S) /\ Len(f) = n
OBVIOUS

(* One element changed in place.                                           *)
LEMMA SeqExcept ==
  ASSUME NEW S, NEW s \in Seq(S), NEW i \in 1 .. Len(s), NEW e \in S
  PROVE  /\ [s EXCEPT ![i] = e] \in Seq(S) /\ Len([s EXCEPT ![i] = e]) = Len(s)
         /\ \A j \in 1 .. Len(s) : [s EXCEPT ![i] = e][j] = IF j = i THEN e ELSE s[j]
OBVIOUS

(* One element more.                                                       *)
LEMMA SeqAppend ==
  ASSUME NEW S, NEW s \in Seq(S), NEW e \in S
  PROVE  /\ Append(s, e) \in Seq(S) /\ Len(Append(s, e)) = Len(s) + 1
         /\ \A i \in 1 .. Len(s) : Append(s, e)[i] = s[i]
         /\ Append(s, e)[Len(s) + 1] = e
OBVIOUS

(* The part of a sequence between two positions.                           *)
LEMMA SeqPart ==
  ASSUME NEW S, NEW s \in Seq(S), NEW m \in Nat, NEW n \in Nat, 1 <= m, m <= n + 1, n <= Len(s)
  PROVE  /\ SubSeq(s, m, n) \in Seq(S) /\ Len(SubSeq(s, m, n)) = n - m + 1
         /\ \A i \in 1 .. n - m + 1 : SubSeq(s, m, n)[i] = s[m + i - 1]
OBVIOUS

(* One sequence after another.                                             *)
LEMMA SeqConcat ==
  ASSUME NEW S, NEW s \in Seq(S), NEW t \in Seq(S)
  PROVE  /\ s \o t \in Seq(S) /\ Len(s \o t) = Len(s) + Len(t)
         /\ \A i \in 1 .. Len(s) + Len(t) :
              (s \o t)[i] = IF i <= Len(s) THEN s[i] ELSE t[i - Len(s)]
OBVIOUS

(* The elements of the sequences.                                          *)
LEMMA Elements ==
  ASSUME Typed, History
  PROVE  /\ Len(log) \in Nat /\ Len(canon) \in Nat /\ Len(calls) \in Nat /\ Len(canon) >= 1
         /\ \A i \in 1 .. Len(log) : log[i] \in Commands
         /\ \A i \in 1 .. Len(canon) : canon[i] \in Registries
         /\ \A i \in 1 .. Len(calls) : calls[i] \in Call
         /\ Latest \in Registries
<1>1. log \in Seq(Commands) /\ canon \in Seq(Registries) /\ calls \in Seq(Call)
  BY DEF Typed
<1>2. /\ Len(log) \in Nat /\ Len(canon) \in Nat /\ Len(calls) \in Nat
      /\ \A i \in 1 .. Len(log) : log[i] \in Commands
      /\ \A i \in 1 .. Len(canon) : canon[i] \in Registries
      /\ \A i \in 1 .. Len(calls) : calls[i] \in Call
  BY <1>1, SeqElements
<1> QED BY <1>2 DEF History, Latest

(* A command that was applied is still there in all that grew from it.     *)
LEMMA PresentKept ==
  ASSUME NEW s, NEW t, Keeps(s, t), NEW c \in Commands, Present(s, c)
  PROVE  Present(t, c)
<1>1. CASE c.op = "CreateNamespace"
  BY <1>1 DEF Commands, Present, Keeps
<1>2. CASE c.op = "RegisterProxy"
  BY <1>2 DEF Commands, Present, Keeps
<1>3. CASE c.op = "RegisterLauncher"
  BY <1>3 DEF Commands, Present, Keeps
<1>4. CASE c.op = "AssignPattern"
  BY <1>4 DEF Commands, Present, Keeps
<1>5. CASE c.op \in {"UpdateProxyStatus", "UpdateLauncherStatus"}
  BY <1>5 DEF Present
<1> QED BY <1>1, <1>2, <1>3, <1>4, <1>5, OpCases

(* What a command wrote is in every later registry of the history.         *)
LEMMA Lasting ==
  ASSUME Typed, History, NEW i \in 1 .. Len(log), NEW j \in i + 1 .. Len(canon)
  PROVE  Present(canon[j], log[i])
<1>1. /\ i + 1 \in 1 .. Len(canon) /\ i \in 1 .. Len(canon) /\ j \in 1 .. Len(canon) /\ i + 1 <= j
      /\ log[i] \in Commands /\ canon[i] \in Registries
  BY Elements DEF History
<1>2. canon[i + 1] = Apply(canon[i], log[i]) /\ Keeps(canon[i + 1], canon[j])
  BY <1>1 DEF History
<1>3. Present(canon[i + 1], log[i])
  BY <1>1, <1>2, ApplyWrites DEF Present
<1> QED BY <1>1, <1>2, <1>3, PresentKept

(* The registry of a node or a snapshot grows into the latest one.         *)
LEMMA GrowsToLatest ==
  ASSUME Typed, History, NEW k \in Nat, k <= Len(log)
  PROVE  /\ k + 1 \in 1 .. Len(canon) /\ canon[k + 1] \in Registries
         /\ Keeps(canon[k + 1], Latest)
<1>1. k + 1 \in 1 .. Len(canon) /\ Len(canon) \in 1 .. Len(canon) /\ k + 1 <= Len(canon)
  BY Elements DEF History
<1> QED BY <1>1, Elements DEF History, Latest

-----------------------------------------------------------------------------
(* What the invariant implies.                                             *)

(* Replicas follow the log, and applying a command twice is applying it    *)
(* once.                                                                   *)
LEMMA InvReplicas == Inv => ReplicasAgree
<1> SUFFICES ASSUME Inv PROVE ReplicasAgree
  OBVIOUS
<1>1. ReplicasFollowLog
  BY DEF Inv, Placed, ReplicasFollowLog
<1>2. ASSUME NEW n \in Nodes, NEW i \in 1 .. Len(log)
      PROVE  Apply(Apply(fsm[n], log[i]), log[i]) = Apply(fsm[n], log[i])
  <2>1. fsm[n] \in Registries /\ log[i] \in Commands
    BY Elements DEF Inv, Typed
  <2> QED BY <2>1, ApplyTwice
<1> QED BY <1>1, <1>2 DEF ReplicasAgree, ApplyIdempotent

(* Acknowledged requests are in the log and in every replica that has      *)
(* reached them.                                                           *)
LEMMA InvDurable == Inv => AckedIsDurable
<1> SUFFICES ASSUME Inv, NEW i \in 1 .. Len(calls), calls[i].phase \in {"reading", "acked"}
             PROVE  /\ calls[i].idx \in 1 .. Len(log) /\ log[calls[i].idx] = calls[i].cmd
                    /\ calls[i].phase = "reading" => applied[calls[i].node] >= calls[i].idx
                    /\ \A n \in Nodes : Up(n) /\ applied[n] >= calls[i].idx =>
                                          Present(fsm[n], calls[i].cmd)
  BY DEF AckedIsDurable
<1>1. /\ calls[i].idx \in 1 .. Len(log) /\ log[calls[i].idx] = calls[i].cmd
      /\ calls[i].phase = "reading" => applied[calls[i].node] >= calls[i].idx
  BY DEF Inv, CallsOK, CallOK
<1>2. ASSUME NEW n \in Nodes, applied[n] >= calls[i].idx
      PROVE  Present(fsm[n], calls[i].cmd)
  <2> DEFINE k == calls[i].idx
             a == applied[n]
  <2>1. /\ a \in Nat /\ a <= Len(log) /\ fsm[n] = canon[a + 1] /\ k \in 1 .. Len(log) /\ k <= a
        /\ Len(canon) = Len(log) + 1 /\ Len(log) \in Nat
    BY <1>1, <1>2, Elements, ZenonT(60) DEF Inv, Placed, Typed, History
  <2> HIDE DEF k, a
  <2>2. a + 1 \in k + 1 .. Len(canon)
    BY <2>1
  <2>3. Present(canon[a + 1], log[k])
    BY <2>1, <2>2, Lasting DEF Inv
  <2> QED BY <1>1, <2>1, <2>3 DEF k
<1> QED BY <1>1, <1>2

-----------------------------------------------------------------------------
(* The invariant holds of a new cluster.                                   *)
LEMMA InitInv == Init => Inv
<1> SUFFICES ASSUME Init PROVE Inv
  OBVIOUS
<1> DEFINE new == NewAdminStateMachine
<1>1. new \in Registries
  BY DEF Registries, NewAdminStateMachine
<1>2. \A x \in Namespaces : new.namespaces[x] = None
  BY DEF NewAdminStateMachine
<1>3. /\ log = <<>> /\ Len(log) = 0 /\ canon = <<new>> /\ Len(canon) = 1 /\ canon[1] = new
      /\ calls = <<>> /\ Len(calls) = 0 /\ fsm = [n \in Nodes |-> new]
      /\ applied = [n \in Nodes |-> 0] /\ snap = [n \in Nodes |-> None]
      /\ told = [p \in Proxies |-> None] /\ db = [n \in Nodes |-> NoRows]
      /\ mode = [n \in Nodes |-> "up"] /\ leader = None
  BY DEF Init
<1> HIDE DEF new
<1>4. NoRows \in Database
  BY DEF NoRows, Database
<1>5. Typed
  <2>1. log \in Seq(Commands) /\ canon \in Seq(Registries) /\ calls \in Seq(Call)
    BY <1>1, <1>3
  <2> QED BY <1>1, <1>3, <1>4, <2>1 DEF Typed
<1>6. History
  BY <1>1, <1>2, <1>3 DEF History, Keeps, new
<1>7. Placed /\ CallsOK /\ Told
  BY <1>3 DEF Placed, CallsOK, Told
<1>8. StorageNeverAhead
  <2>1. \A n \in Nodes : db[n] = NoRows
    BY <1>3
  <2> QED BY <2>1 DEF StorageNeverAhead, NoRows
<1> QED BY <1>5, <1>6, <1>7, <1>8 DEF Inv

(* Steps that leave the log alone.                                         *)
LEMMA SameLog ==
  ASSUME History, UNCHANGED <<log, canon>>
  PROVE  History' /\ Latest' = Latest
BY DEF History, Latest

(* Indices: the order is transitive and reflexive.                         *)
LEMMA Later ==
  ASSUME NEW x \in Nat, NEW y \in Nat, NEW z \in Nat, x >= y, y >= z
  PROVE  x >= z
OBVIOUS

LEMMA Reflexive ==
  ASSUME NEW x \in Nat
  PROVE  x >= x
OBVIOUS

(* The entry after the applied ones, and the registry it leads to.         *)
LEMMA Following ==
  ASSUME NEW x \in Nat, NEW y \in Nat, x < y
  PROVE  x + 1 \in Nat /\ x + 1 \in 1 .. y /\ y + 1 \in (x + 1) + 1 .. y + 1
OBVIOUS

(* Nodes apply, restore or start; no node that is up goes back.            *)
LEMMA NodesAdvance ==
  ASSUME Typed, History, CallsOK, UNCHANGED <<log, canon, calls>>,
         applied' \in [Nodes -> Nat],
         \A n \in Nodes : Up(n) => Up(n)' /\ applied'[n] >= applied[n]
  PROVE  CallsOK'
<1> SUFFICES ASSUME NEW i \in 1 .. Len(calls) PROVE CallOK(calls[i])'
  BY DEF CallsOK
<1>1. CallOK(calls[i]) /\ calls[i] \in Call /\ Latest' = Latest
  BY Elements, SameLog DEF CallsOK
<1>2. calls[i].node \in Nodes /\ calls[i].idx \in Nat
  BY <1>1 DEF Call
<1>3. calls[i].phase = "reading" => Up(calls[i].node)' /\ applied'[calls[i].node] >= calls[i].idx
  <2>1. calls[i].phase = "reading" => Up(calls[i].node) /\ applied[calls[i].node] >= calls[i].idx
    BY <1>1, ZenonT(60) DEF CallOK
  <2>2. applied[calls[i].node] \in Nat /\ applied'[calls[i].node] \in Nat
    BY <1>2, ZenonT(60) DEF Typed
  <2> QED BY <1>2, <2>1, <2>2, Later, ZenonT(60)
<1> QED BY <1>1, <1>3, ZenonT(60) DEF CallOK

(* What may become of one call, in place.                                  *)
Moved(c, d) ==
  /\ d.cmd = c.cmd /\ d.idx = c.idx /\ d.node = c.node
  /\ d.phase \in {"reading", "acked"} => c.idx # 0
  /\ d.phase = "reading" =>
       /\ mode'[d.node] = "up" /\ applied[d.node] >= d.idx
       /\ d.cmd.op = "RegisterProxy" /\ d.cmd.key \in d.members
       /\ d.ranges = ComputeRangesFromProxySet(d.cmd.key, d.members)

(* Handlers that move on, or fail, while the log stays as it is.           *)
LEMMA CallsMove ==
  ASSUME Typed, History, CallsOK, UNCHANGED <<log, canon, applied>>,
         Len(calls') = Len(calls),
         \A i \in 1 .. Len(calls) : Moved(calls[i], calls'[i])
  PROVE  CallsOK'
<1> SUFFICES ASSUME NEW i \in 1 .. Len(calls) PROVE CallOK(calls[i])'
  BY DEF CallsOK
<1>1. CallOK(calls[i]) /\ Latest' = Latest /\ Moved(calls[i], calls'[i])
  BY SameLog DEF CallsOK
<1> QED BY <1>1, ZenonT(60) DEF CallOK, Moved, Up

(* What is not touched stays as it is.                                     *)
LEMMA Untouched ==
  /\ UNCHANGED <<log, canon, applied, fsm, snap>> /\ Placed => Placed'
  /\ UNCHANGED told /\ Told => Told'
  /\ UNCHANGED <<canon, db>> /\ StorageNeverAhead => StorageNeverAhead'
<1>1. UNCHANGED <<log, canon, applied, fsm, snap>> /\ Placed => Placed'
  BY DEF Placed
<1>2. UNCHANGED told /\ Told => Told'
  BY DEF Told
<1>3. UNCHANGED <<canon, db>> /\ StorageNeverAhead => StorageNeverAhead'
  BY DEF StorageNeverAhead
<1> QED BY <1>1, <1>2, <1>3

(* Snapshot: its index is the applied index, its registry the node's.      *)
LEMMA SnapshotStep ==
  ASSUME Inv, NEW n \in Nodes, Snapshot(n)
  PROVE  Inv'
<1> USE DEF Inv
<1> DEFINE s == [index |-> applied[n], registry |-> fsm[n]]
<1>1. /\ snap' = [snap EXCEPT ![n] = s]
      /\ UNCHANGED <<log, canon, leader, mode, applied, fsm, db, calls, told>>
  BY ZenonT(60) DEF Snapshot, cluster, node
<1>2. /\ s \in [index : Nat, registry : Registries] /\ s.index = applied[n] /\ s.registry = fsm[n]
  BY DEF Typed
<1> HIDE DEF s
<1>3. Typed'
  BY <1>1, <1>2 DEF Typed
<1>4. Placed'
  BY <1>1, <1>2, ZenonT(60) DEF Placed, Typed
<1>5. CallsOK'
  <2>1. applied \in [Nodes -> Nat] /\ \A m \in Nodes : applied[m] \in Nat
    BY ZenonT(60) DEF Typed
  <2>2. \A m \in Nodes : Up(m) => Up(m)' /\ applied'[m] >= applied[m]
    BY <1>1, <2>1, Reflexive, ZenonT(60) DEF Up
  <2> QED BY <1>1, <2>1, <2>2, NodesAdvance
<1> QED BY <1>1, <1>3, <1>4, <1>5, SameLog, Untouched

(* A node is put at a snapshot that is one of the history.                 *)
LEMMA RestoreStep ==
  ASSUME Inv, NEW n \in Nodes, NEW s \in [index : Nat, registry : Registries], Restore(n, s),
         s.index <= Len(log), s.registry = canon[s.index + 1],
         UNCHANGED <<log, canon, leader, db, calls, told>>,
         mode' \in [Nodes -> {"up", "down", "panicked"}],
         \A m \in Nodes : Up(m) => Up(m)',
         Up(n) => s.index >= applied[n],
         snap' = snap \/ snap' = [snap EXCEPT ![n] = s]
  PROVE  Inv'
<1> USE DEF Inv
<1>1. /\ applied' \in [Nodes -> Nat] /\ fsm' \in [Nodes -> Registries]
      /\ applied'[n] = s.index /\ fsm'[n] = s.registry
      /\ \A m \in Nodes : m # n => applied'[m] = applied[m] /\ fsm'[m] = fsm[m]
  BY ZenonT(60) DEF Restore, Typed
<1>2. /\ snap' \in [Nodes -> {None} \cup [index : Nat, registry : Registries]]
      /\ \A m \in Nodes : snap'[m] = snap[m] \/ snap'[m] = s
  <2> DEFINE T == {None} \cup [index : Nat, registry : Registries]
  <2>1. snap \in [Nodes -> T] /\ s \in T
    BY DEF Typed
  <2> HIDE DEF T
  <2>2. CASE snap' = snap
    BY <2>1, <2>2 DEF T
  <2>3. CASE snap' = [snap EXCEPT ![n] = s]
    <3>1. snap' \in [Nodes -> T]
      BY <2>1, <2>3
    <3>2. \A m \in Nodes : snap'[m] = snap[m] \/ snap'[m] = s
      BY <2>1, <2>3
    <3> QED BY <3>1, <3>2 DEF T
  <2> QED BY <2>2, <2>3
<1>3. Typed'
  BY <1>1, <1>2, ZenonT(60) DEF Typed
<1>4. Placed'
  <2> SUFFICES ASSUME NEW m \in Nodes
               PROVE  /\ applied'[m] <= Len(log) /\ fsm'[m] = canon[applied'[m] + 1]
                      /\ snap'[m] # None =>
                           snap'[m].index <= Len(log) /\ snap'[m].registry = canon[snap'[m].index + 1]
    BY DEF Placed
  <2>1. applied'[m] <= Len(log) /\ fsm'[m] = canon[applied'[m] + 1]
    BY <1>1 DEF Placed
  <2>2. snap'[m] # None =>
          snap'[m].index <= Len(log) /\ snap'[m].registry = canon[snap'[m].index + 1]
    BY <1>2 DEF Placed
  <2> QED BY <2>1, <2>2
<1>5. CallsOK'
  <2>1. \A m \in Nodes : Up(m) => Up(m)' /\ applied'[m] >= applied[m]
    <3>1. \A m \in Nodes : applied[m] \in Nat
      BY ZenonT(60) DEF Typed
    <3> QED BY <1>1, <3>1, Reflexive, ZenonT(60)
  <2> QED BY <1>1, <2>1, NodesAdvance
<1> QED BY <1>3, <1>4, <1>5, SameLog, Untouched

(* The leader's snapshot is installed on a follower behind it.             *)
LEMMA InstallStep ==
  ASSUME Inv, NEW n \in Nodes, InstallSnapshot(n)
  PROVE  Inv'
<1> USE DEF Inv
<1> DEFINE s == snap[leader]
<1>1. leader \in Nodes /\ s # None
  BY DEF InstallSnapshot, Typed
<1>2. /\ s \in [index : Nat, registry : Registries]
      /\ s.index <= Len(log) /\ s.registry = canon[s.index + 1]
  BY <1>1 DEF Typed, Placed
<1>3. /\ Restore(n, s) /\ snap' = [snap EXCEPT ![n] = s] /\ s.index > applied[n]
      /\ UNCHANGED <<log, canon, leader, mode, db, calls, told>>
  BY DEF InstallSnapshot, cluster
<1> HIDE DEF s
<1>4. applied[n] \in Nat /\ s.index \in Nat
  BY <1>2 DEF Typed
<1>5. /\ mode' \in [Nodes -> {"up", "down", "panicked"}] /\ s.index >= applied[n]
      /\ \A m \in Nodes : Up(m) => Up(m)'
  BY <1>3, <1>4 DEF Typed, Up
<1> QED BY <1>2, <1>3, <1>5, RestoreStep, ZenonT(60)

(* A restart: from the snapshot on disk, or with an empty state machine.   *)
LEMMA StartStep ==
  ASSUME Inv, NEW n \in Nodes, Start(n)
  PROVE  Inv'
<1> USE DEF Inv
<1>1. /\ mode' = [mode EXCEPT ![n] = "up"] /\ ~Up(n)
      /\ UNCHANGED <<log, canon, leader, snap, db, calls, told>>
  BY DEF Start, cluster, disk
<1>2. /\ mode' \in [Nodes -> {"up", "down", "panicked"}]
      /\ \A m \in Nodes : Up(m) => Up(m)'
  BY <1>1 DEF Typed, Up
<1>3. CASE snap[n] # None
  <2> DEFINE s == snap[n]
  <2>1. /\ s \in [index : Nat, registry : Registries] /\ Restore(n, s)
        /\ s.index <= Len(log) /\ s.registry = canon[s.index + 1]
    BY <1>3, ZenonT(60) DEF Typed, Placed, Start
  <2> HIDE DEF s
  <2> QED BY <1>1, <1>2, <2>1, RestoreStep
<1>4. CASE snap[n] = None
  <2>1. /\ applied' = [applied EXCEPT ![n] = 0] /\ fsm' = [fsm EXCEPT ![n] = NewAdminStateMachine]
    BY <1>4 DEF Start
  <2>2. NewAdminStateMachine = canon[1] /\ canon[1] \in Registries /\ Len(log) \in Nat
    BY Elements DEF History
  <2>3. /\ applied' \in [Nodes -> Nat] /\ fsm' \in [Nodes -> Registries]
        /\ applied'[n] = 0 /\ fsm'[n] = canon[1]
        /\ \A m \in Nodes : m # n => applied'[m] = applied[m] /\ fsm'[m] = fsm[m]
    BY <2>1, <2>2, ZenonT(60) DEF Typed
  <2>4. Typed'
    BY <1>1, <1>2, <2>3, ZenonT(60) DEF Typed
  <2>5. Placed'
    <3>1. 0 <= Len(log) /\ 0 + 1 = 1
      BY <2>2
    <3>2. ASSUME NEW m \in Nodes
          PROVE  applied'[m] <= Len(log) /\ fsm'[m] = canon[applied'[m] + 1]
      <4>1. CASE m = n
        BY <2>3, <3>1, <4>1, ZenonT(60)
      <4>2. CASE m # n
        BY <2>3, <4>2, ZenonT(60) DEF Placed
      <4> QED BY <4>1, <4>2
    <3> QED BY <1>1, <3>2, ZenonT(60) DEF Placed
  <2>6. CallsOK'
    <3>1. ASSUME NEW m \in Nodes, Up(m) PROVE Up(m)' /\ applied'[m] >= applied[m]
      <4>1. m # n
        BY <1>1, <3>1
      <4>2. applied'[m] = applied[m] /\ applied[m] \in Nat
        BY <2>3, <4>1 DEF Typed
      <4> QED BY <1>2, <3>1, <4>2
    <3> QED BY <1>1, <2>3, <3>1, NodesAdvance, ZenonT(60)
  <2> QED BY <1>1, <2>4, <2>5, <2>6, SameLog, Untouched
<1> QED BY <1>3, <1>4

(* The rows a command leaves belong to entries that it leaves too.         *)
LEMMA RowsFacts ==
  ASSUME NEW d \in Database, NEW s \in Registries, NEW c \in Commands
  PROVE  /\ Rows(d, s, c) \in Database
         /\ \A x \in Rows(d, s, c).namespaces :
              x \in d.namespaces \/ (c.op = "CreateNamespace" /\ x = c.key)
         /\ \A p \in Proxies : Rows(d, s, c).proxies[p] # None =>
              d.proxies[p] # None \/ (c.op = "RegisterProxy" /\ p = c.key)
         /\ \A l \in Launchers : Rows(d, s, c).launchers[l] # None =>
              d.launchers[l] # None \/ (c.op = "RegisterLauncher" /\ l = c.key)
<1> DEFINE r == Rows(d, s, c)
<1>0. /\ d.namespaces \in SUBSET Namespaces /\ d.proxies \in [Proxies -> {None} \cup Addrs]
      /\ d.launchers \in [Launchers -> {None} \cup Capacities]
      /\ d = [namespaces |-> d.namespaces, proxies |-> d.proxies, launchers |-> d.launchers]
  BY DEF Database
<1>1. CASE c.op = "CreateNamespace" /\ s.namespaces[c.key] = None
  <2>1. r = [d EXCEPT !.namespaces = d.namespaces \cup {c.key}] /\ c.key \in Namespaces
    BY <1>1 DEF Rows, InsertNamespace, Commands
  <2>2. r = [namespaces |-> d.namespaces \cup {c.key}, proxies |-> d.proxies, launchers |-> d.launchers]
    BY <1>0, <2>1
  <2> HIDE DEF r
  <2> QED BY <1>0, <1>1, <2>1, <2>2 DEF Database, r
<1>2. CASE c.op = "RegisterProxy"
  <2>1. r = [d EXCEPT !.proxies = [d.proxies EXCEPT ![c.key] = c.val]] /\ c.key \in Proxies /\ c.val \in Addrs
    BY <1>2 DEF Rows, UpsertProxy, Commands
  <2>2. r = [namespaces |-> d.namespaces, proxies |-> [d.proxies EXCEPT ![c.key] = c.val],
             launchers |-> d.launchers]
    BY <1>0, <2>1
  <2> HIDE DEF r
  <2> QED BY <1>0, <1>2, <2>1, <2>2 DEF Database, r
<1>3. CASE c.op = "RegisterLauncher"
  <2>1. /\ r = [d EXCEPT !.launchers = [d.launchers EXCEPT ![c.key] = c.val]]
        /\ c.key \in Launchers /\ c.val \in Capacities
    BY <1>3 DEF Rows, UpsertLauncher, Commands
  <2>2. r = [namespaces |-> d.namespaces, proxies |-> d.proxies,
             launchers |-> [d.launchers EXCEPT ![c.key] = c.val]]
    BY <1>0, <2>1
  <2> HIDE DEF r
  <2> QED BY <1>0, <1>3, <2>1, <2>2 DEF Database, r
<1>4. CASE /\ c.op # "RegisterProxy" /\ c.op # "RegisterLauncher"
           /\ ~(c.op = "CreateNamespace" /\ s.namespaces[c.key] = None)
  <2>1. r = d
    BY <1>4 DEF Rows
  <2> QED BY <2>1
<1> QED BY <1>1, <1>2, <1>3, <1>4, ZenonT(60)

(* Apply on one node: the next registry of the history, with rows for what *)
(* the log has.                                                            *)
LEMMA ApplyEntryStep ==
  ASSUME Inv, NEW n \in Nodes, ApplyEntry(n)
  PROVE  Inv'
<1> USE DEF Inv
<1> DEFINE k == applied[n]
           c == log[k + 1]
<1>1. /\ k \in Nat /\ k < Len(log) /\ k + 1 \in 1 .. Len(log) /\ c \in Commands
      /\ fsm[n] = canon[k + 1] /\ fsm[n] \in Registries /\ Len(log) \in Nat
  <2>1. Len(log) \in Nat /\ \A i \in 1 .. Len(log) : log[i] \in Commands
    BY Elements
  <2>2. k \in Nat /\ fsm[n] \in Registries
    BY DEF Typed
  <2>3. k < Len(log)
    BY ZenonT(60) DEF ApplyEntry
  <2>4. fsm[n] = canon[k + 1]
    BY DEF Placed
  <2>5. k + 1 \in 1 .. Len(log)
    BY <2>1, <2>2, <2>3, Following, ZenonT(60)
  <2> QED BY <2>1, <2>2, <2>3, <2>4, <2>5
<1>2. /\ applied' = [applied EXCEPT ![n] = k + 1] /\ fsm' = [fsm EXCEPT ![n] = Apply(fsm[n], c)]
      /\ db' = [db EXCEPT ![n] = Rows(db[n], fsm[n], c)] \/ db' = db
      /\ UNCHANGED <<log, canon, leader, mode, snap, calls, told>>
  BY ZenonT(60) DEF ApplyEntry, cluster
<1> HIDE DEF k, c
<1>3. canon[k + 2] = Apply(fsm[n], c)
  <2>1. canon[(k + 1) + 1] = Apply(canon[k + 1], log[k + 1])
    BY <1>1, ZenonT(60) DEF History
  <2>2. (k + 1) + 1 = k + 2
    BY <1>1
  <2> QED BY <1>1, <2>1, <2>2 DEF c
<1>4. /\ applied' \in [Nodes -> Nat] /\ fsm' \in [Nodes -> Registries]
      /\ applied'[n] = k + 1 /\ fsm'[n] = canon[k + 2]
      /\ \A m \in Nodes : m # n => applied'[m] = applied[m] /\ fsm'[m] = fsm[m]
  <2>1. applied \in [Nodes -> Nat] /\ fsm \in [Nodes -> Registries]
    BY ZenonT(60) DEF Typed
  <2>2. k + 1 \in Nat /\ Apply(fsm[n], c) \in Registries
    BY <1>1, ApplyType, Following, ZenonT(60)
  <2>3. /\ applied' \in [Nodes -> Nat] /\ applied'[n] = k + 1
        /\ \A m \in Nodes : m # n => applied'[m] = applied[m]
    BY <1>2, <2>1, <2>2, ZenonT(60)
  <2>4. /\ fsm' \in [Nodes -> Registries] /\ fsm'[n] = Apply(fsm[n], c)
        /\ \A m \in Nodes : m # n => fsm'[m] = fsm[m]
    BY <1>2, <2>1, <2>2, ZenonT(60)
  <2> QED BY <1>3, <2>3, <2>4, ZenonT(60)
<1>5. /\ db' \in [Nodes -> Database]
      /\ \A m \in Nodes : db'[m] = db[m] \/ (m = n /\ db'[m] = Rows(db[n], fsm[n], c))
  <2>1. db \in [Nodes -> Database] /\ Rows(db[n], fsm[n], c) \in Database
    BY <1>1, RowsFacts, ZenonT(60) DEF Typed
  <2> DEFINE r == Rows(db[n], fsm[n], c)
  <2> HIDE DEF Inv, r
  <2>2. CASE db' = db
    BY <2>1, <2>2
  <2>3. CASE db' = [db EXCEPT ![n] = r]
    <3>1. r \in Database
      BY <2>1 DEF r
    <3>2. db' \in [Nodes -> Database] /\ db'[n] = r /\ \A m \in Nodes : m # n => db'[m] = db[m]
      BY <2>1, <2>3, <3>1
    <3> QED BY <3>2 DEF r
  <2> QED BY <1>2, <2>2, <2>3 DEF r
<1>6. Typed'
  BY <1>2, <1>4, <1>5, ZenonT(60) DEF Typed
<1>7. Placed'
  <2>1. k + 2 = (k + 1) + 1 /\ k + 1 <= Len(log)
    BY <1>1
  <2> QED BY <1>2, <1>4, <2>1, ZenonT(60) DEF Placed
<1>8. CallsOK'
  <2>1. ASSUME NEW m \in Nodes, Up(m) PROVE Up(m)' /\ applied'[m] >= applied[m]
    <3>1. applied'[m] >= applied[m]
      <4>1. applied[m] \in Nat /\ k = applied[n]
        BY DEF Typed, k
      <4>2. CASE m = n
        BY <1>1, <1>4, <4>1, <4>2
      <4>3. CASE m # n
        BY <1>4, <4>1, <4>3
      <4> QED BY <4>2, <4>3, ZenonT(60)
    <3> QED BY <1>2, <2>1, <3>1 DEF Up
  <2> QED BY <1>2, <1>4, <2>1, NodesAdvance
<1>9. StorageNeverAhead'
  <2>1. Present(Latest, c)
    <3>1. Len(canon) \in (k + 1) + 1 .. Len(canon)
      <4>1. Len(canon) = Len(log) + 1
        BY ZenonT(60) DEF History
      <4> QED BY <1>1, <4>1, Following, ZenonT(60)
    <3> QED BY <1>1, <3>1, Lasting, ZenonT(60) DEF Latest, c
  <2>2. /\ c.op = "CreateNamespace" => Latest.namespaces[c.key] # None
        /\ c.op = "RegisterProxy" => Latest.proxies[c.key] # None
        /\ c.op = "RegisterLauncher" => Latest.launchers[c.key] # None
    BY <2>1 DEF Present
  <2>3. ASSUME NEW m \in Nodes
        PROVE  /\ \A x \in db'[m].namespaces : Latest.namespaces[x] # None
               /\ \A p \in Proxies : db'[m].proxies[p] # None => Latest.proxies[p] # None
               /\ \A l \in Launchers : db'[m].launchers[l] # None => Latest.launchers[l] # None
    <3>1. /\ \A x \in db[m].namespaces : Latest.namespaces[x] # None
          /\ \A p \in Proxies : db[m].proxies[p] # None => Latest.proxies[p] # None
          /\ \A l \in Launchers : db[m].launchers[l] # None => Latest.launchers[l] # None
      BY DEF StorageNeverAhead, Latest
    <3>2. CASE db'[m] = db[m]
      BY <3>1, <3>2
    <3>3. CASE m = n /\ db'[m] = Rows(db[n], fsm[n], c)
      <4>1. db[n] \in Database
        BY ZenonT(60) DEF Typed
      <4> DEFINE d == Rows(db[n], fsm[n], c)
      <4>2. /\ \A x \in d.namespaces :
                 x \in db[n].namespaces \/ (c.op = "CreateNamespace" /\ x = c.key)
            /\ \A p \in Proxies : d.proxies[p] # None =>
                 db[n].proxies[p] # None \/ (c.op = "RegisterProxy" /\ p = c.key)
            /\ \A l \in Launchers : d.launchers[l] # None =>
                 db[n].launchers[l] # None \/ (c.op = "RegisterLauncher" /\ l = c.key)
        BY <1>1, <4>1, RowsFacts, ZenonT(60)
      <4> HIDE DEF d
      <4>3. m = n /\ db'[m] = d
        BY <3>3 DEF d
      <4>4. \A x \in db'[m].namespaces : Latest.namespaces[x] # None
        BY <2>2, <3>1, <4>2, <4>3, ZenonT(60)
      <4>5. \A p \in Proxies : db'[m].proxies[p] # None => Latest.proxies[p] # None
        BY <2>2, <3>1, <4>2, <4>3, ZenonT(60)
      <4>6. \A l \in Launchers : db'[m].launchers[l] # None => Latest.launchers[l] # None
        BY <2>2, <3>1, <4>2, <4>3, ZenonT(60)
      <4> QED BY <4>4, <4>5, <4>6
    <3> QED BY <1>5, <3>2, <3>3, ZenonT(60)
  <2> QED BY <1>2, <2>3, ZenonT(60) DEF StorageNeverAhead, Latest
<1> QED BY <1>2, <1>6, <1>7, <1>8, <1>9, SameLog, Untouched

(* A call that fails, in place.                                            *)
LEMMA CallFailed ==
  ASSUME NEW c \in Call, c.phase # "acked"
  PROVE  LET d == [c EXCEPT !.phase = "failed"]
         IN  d \in Call /\ d.phase = "failed" /\ d.cmd = c.cmd /\ d.idx = c.idx /\ d.node = c.node
BY DEF Call, Phases

(* A sequence of calls that is changed in place.                           *)
LEMMA CallsInPlace ==
  ASSUME Typed, History, NEW f \in [1 .. Len(calls) -> Call], calls' = f
  PROVE  calls' \in Seq(Call) /\ Len(calls') = Len(calls)
<1>1. Len(calls) \in Nat
  BY Elements
<1> QED BY <1>1, SeqFunction

(* A process ends: the handlers that ran in it fail.                       *)
LEMMA EndsStep ==
  ASSUME Inv, NEW n \in Nodes, NEW how \in {"down", "panicked"}, ProcessEnds(n, how),
         UNCHANGED <<log, canon, applied, fsm, snap, db, told>>
  PROVE  Inv'
<1> USE DEF Inv
<1> DEFINE Ends(i) == calls[i].node = n /\ calls[i].phase \in {"proposing", "reading"}
           d(i) == IF Ends(i) THEN [calls[i] EXCEPT !.phase = "failed"] ELSE calls[i]
           f == [i \in 1 .. Len(calls) |-> d(i)]
<1>1. /\ mode' = [mode EXCEPT ![n] = how] /\ leader' \in {leader, None} /\ calls' = f
  BY DEF ProcessEnds
<1>2. ASSUME NEW i \in 1 .. Len(calls)
      PROVE  d(i) \in Call /\ Moved(calls[i], d(i))
  <2>1. calls[i] \in Call /\ calls[i].node \in Nodes /\ CallOK(calls[i])
    BY Elements DEF Call, CallsOK
  <2>2. CASE Ends(i)
    <3>1. d(i) = [calls[i] EXCEPT !.phase = "failed"] /\ calls[i].phase # "acked"
      BY <2>2
    <3>2. d(i) \in Call /\ d(i).phase = "failed" /\ d(i).cmd = calls[i].cmd /\ d(i).idx = calls[i].idx
          /\ d(i).node = calls[i].node
      BY <2>1, <3>1, CallFailed, ZenonT(60)
    <3> HIDE DEF d
    <3> QED BY <3>2 DEF Moved
  <2>3. CASE ~Ends(i)
    <3>1. d(i) = calls[i]
      BY <2>3
    <3>2. calls[i].phase = "reading" => mode'[calls[i].node] = "up"
      BY <1>1, <2>1, <2>3 DEF CallOK, Up, Typed
    <3> HIDE DEF d
    <3> QED BY <2>1, <3>1, <3>2, ZenonT(60) DEF Moved, CallOK
  <2> QED BY <2>2, <2>3
<1> HIDE DEF d
<1>3. f \in [1 .. Len(calls) -> Call]
  BY <1>2
<1>4. calls' \in Seq(Call) /\ Len(calls') = Len(calls)
  BY <1>1, <1>3, CallsInPlace
<1>5. \A i \in 1 .. Len(calls) : Moved(calls[i], calls'[i])
  BY <1>1, <1>2
<1>6. CallsOK'
  BY <1>4, <1>5, CallsMove
<1>7. mode' \in [Nodes -> {"up", "down", "panicked"}]
  BY <1>1, ZenonT(60) DEF Typed
<1>8. Typed'
  BY <1>1, <1>4, <1>7, ZenonT(60) DEF Typed
<1> QED BY <1>6, <1>8, SameLog, Untouched

(* The ways in which a process ends.                                       *)
LEMMA EndingSteps ==
  ASSUME Inv, NEW n \in Nodes, Crash(n) \/ ApplyPanics(n) \/ ApplyRaces(n)
  PROVE  Inv'
<1>1. /\ ProcessEnds(n, "down") \/ ProcessEnds(n, "panicked")
      /\ UNCHANGED <<log, canon, applied, fsm, snap, db, told>>
  BY ZenonT(60) DEF Crash, ApplyPanics, ApplyRaces, disk
<1> QED BY <1>1, EndsStep

(* A leader is elected.                                                    *)
LEMMA ElectStep ==
  ASSUME Inv, NEW n \in Nodes, Elect(n)
  PROVE  Inv'
<1> USE DEF Inv
<1>1. leader' = n /\ UNCHANGED <<log, canon, mode, applied, fsm, snap, db, calls, told>>
  BY DEF Elect, node, disk
<1>2. Typed'
  BY <1>1, ZenonT(60) DEF Typed
<1>3. CallsOK'
  <2>1. applied \in [Nodes -> Nat]
    BY ZenonT(60) DEF Typed
  <2>2. \A m \in Nodes : applied[m] >= applied[m]
    BY <2>1
  <2>3. \A m \in Nodes : Up(m) => Up(m)' /\ applied'[m] >= applied[m]
    BY <1>1, <2>2, ZenonT(60) DEF Up
  <2> QED BY <1>1, <2>1, <2>3, NodesAdvance
<1> QED BY <1>1, <1>2, <1>3, SameLog, Untouched

(* A leader steps down: the proposals that are not committed fail.         *)
LEMMA StepDownStep ==
  ASSUME Inv, StepDown
  PROVE  Inv'
<1> USE DEF Inv
<1> DEFINE Fails(i) == calls[i].phase = "proposing" /\ calls[i].node = leader /\ calls[i].idx = 0
           d(i) == IF Fails(i) THEN [calls[i] EXCEPT !.phase = "failed"] ELSE calls[i]
           f == [i \in 1 .. Len(calls) |-> d(i)]
<1>1. /\ leader' = None /\ calls' = f
      /\ UNCHANGED <<log, canon, mode, applied, fsm, snap, db, told>>
  BY DEF StepDown, node, disk
<1>2. ASSUME NEW i \in 1 .. Len(calls)
      PROVE  d(i) \in Call /\ Moved(calls[i], d(i))
  <2>1. calls[i] \in Call /\ CallOK(calls[i])
    BY Elements DEF CallsOK
  <2>2. CASE Fails(i)
    <3>1. d(i) = [calls[i] EXCEPT !.phase = "failed"] /\ calls[i].phase # "acked"
      BY <2>2
    <3>2. d(i) \in Call /\ d(i).phase = "failed" /\ d(i).cmd = calls[i].cmd /\ d(i).idx = calls[i].idx
          /\ d(i).node = calls[i].node
      BY <2>1, <3>1, CallFailed, ZenonT(60)
    <3> HIDE DEF d
    <3> QED BY <3>2, ZenonT(60) DEF Moved
  <2>3. CASE ~Fails(i)
    <3>1. d(i) = calls[i]
      BY <2>3
    <3> HIDE DEF d
    <3> QED BY <1>1, <2>1, <3>1, ZenonT(60) DEF Moved, CallOK, Up
  <2> QED BY <2>2, <2>3
<1> HIDE DEF d
<1>3. f \in [1 .. Len(calls) -> Call]
  BY <1>2
<1>4. calls' \in Seq(Call) /\ Len(calls') = Len(calls)
  BY <1>1, <1>3, CallsInPlace
<1>5. \A i \in 1 .. Len(calls) : Moved(calls[i], calls'[i])
  BY <1>1, <1>2
<1>6. CallsOK'
  BY <1>1, <1>4, <1>5, CallsMove
<1>8. Typed'
  BY <1>1, <1>4, ZenonT(60) DEF Typed
<1> QED BY <1>1, <1>6, <1>8, SameLog, Untouched

-----------------------------------------------------------------------------
(* One call is changed in place, by its handler.                           *)
LEMMA OneCall ==
  ASSUME Typed, History, CallsOK, UNCHANGED <<log, canon, applied, mode>>,
         NEW i \in 1 .. Len(calls), NEW d \in Call, Moved(calls[i], d),
         calls' = [calls EXCEPT ![i] = d]
  PROVE  calls' \in Seq(Call) /\ CallsOK'
<1>1. calls \in Seq(Call)
  BY DEF Typed
<1>2. /\ calls' \in Seq(Call) /\ Len(calls') = Len(calls)
      /\ \A j \in 1 .. Len(calls) : calls'[j] = IF j = i THEN d ELSE calls[j]
  BY <1>1, SeqExcept
<1>3. ASSUME NEW j \in 1 .. Len(calls) PROVE Moved(calls[j], calls[j])
  BY ZenonT(60) DEF CallsOK, CallOK, Moved, Up
<1>4. \A j \in 1 .. Len(calls) : Moved(calls[j], calls'[j])
  BY <1>2, <1>3
<1> QED BY <1>2, <1>4, CallsMove

(* What a proxy is told was computed from a set of proxies.                *)
LEMMA RangesTyped ==
  ASSUME NEW S \in SUBSET Proxies, NEW p \in S
  PROVE  ComputeRangesFromProxySet(p, S) \in Announced
BY DEF Announced

(* A handler whose proposal was applied finds its proxy in its node's      *)
(* registry, however many commands were applied since.                     *)
LEMMA ProposedIsMember ==
  ASSUME Inv, NEW i \in 1 .. Len(calls), Proposed(i), calls[i].cmd.op = "RegisterProxy"
  PROVE  calls[i].cmd.key \in Members(fsm[calls[i].node])
<1> DEFINE k == calls[i].idx
           a == applied[calls[i].node]
<1>1. calls[i] \in Call /\ calls[i].node \in Nodes /\ calls[i].cmd \in Commands /\ k \in Nat
  BY Elements DEF Inv, Call
<1>2. /\ k \in 1 .. Len(log) /\ log[k] = calls[i].cmd /\ a >= k
  BY ZenonT(60) DEF Inv, CallsOK, CallOK, Proposed
<1>3. a \in Nat /\ a <= Len(log) /\ fsm[calls[i].node] = canon[a + 1]
  BY <1>1, ZenonT(60) DEF Inv, Placed, Typed
<1> HIDE DEF k, a
<1>4. a + 1 \in k + 1 .. Len(canon)
  <2>1. Len(canon) = Len(log) + 1
    BY DEF Inv, History
  <2>2. Len(log) \in Nat /\ k \in Nat
    BY <1>1, Elements DEF Inv
  <2> QED BY <1>2, <1>3, <2>1, <2>2
<1>5. Present(fsm[calls[i].node], calls[i].cmd)
  BY <1>2, <1>3, <1>4, Lasting, ZenonT(60) DEF Inv
<1>6. calls[i].cmd.key \in Proxies
  BY <1>1, ZenonT(60) DEF Commands
<1> QED BY <1>5, <1>6, ZenonT(60) DEF Present, Members

(* RegisterProxy computes the ranges from a set that has its proxy.        *)
LEMMA ComputeRangesStep ==
  ASSUME Inv, NEW i \in 1 .. Len(calls), ComputeRanges(i)
  PROVE  Inv'
<1> DEFINE c == calls[i]
           S == Members(fsm[c.node])
           rs == ComputeRangesFromProxySet(c.cmd.key, S)
           d == [c EXCEPT !.phase = "reading", !.members = S, !.ranges = rs]
<1>1. /\ Proposed(i) /\ c.cmd.op = "RegisterProxy" /\ calls' = [calls EXCEPT ![i] = d]
      /\ UNCHANGED <<log, canon, leader, mode, applied, fsm, snap, db, told>>
  BY DEF ComputeRanges, cluster, node, disk
<1>2. c.cmd.key \in S /\ S \in SUBSET Proxies
  BY <1>1, ProposedIsMember, ZenonT(60) DEF Members
<1>3. rs \in Announced
  BY <1>2, RangesTyped
<1>4. c \in Call /\ c.idx # 0 /\ Up(c.node) /\ applied[c.node] >= c.idx
  BY <1>1, Elements DEF Inv, Proposed
<1> HIDE DEF c, S, rs
<1>5. /\ d \in Call /\ d.cmd = c.cmd /\ d.idx = c.idx /\ d.node = c.node /\ d.phase = "reading"
      /\ d.members = S /\ d.ranges = rs
  BY <1>2, <1>3, <1>4, ZenonT(60) DEF Call, Phases
<1> HIDE DEF d
<1>6. Moved(c, d)
  BY <1>1, <1>2, <1>4, <1>5, ZenonT(60) DEF Moved, Up, rs
<1>7. calls' \in Seq(Call) /\ CallsOK'
  BY <1>1, <1>5, <1>6, OneCall, ZenonT(60) DEF c, Inv
<1>8. Typed'
  BY <1>1, <1>7, ZenonT(60) DEF Typed, Inv
<1> QED BY <1>1, <1>7, <1>8, SameLog, Untouched, ZenonT(60) DEF Inv

(* A handler answers: its command is committed.                            *)
LEMMA Acked ==
  ASSUME NEW c \in Call, c.idx # 0
  PROVE  LET d == [c EXCEPT !.phase = "acked"] IN d \in Call /\ Moved(c, d)
BY DEF Call, Phases, Moved

(* CreateNamespace, RegisterLauncher and AssignPattern answer.             *)
LEMMA AckStep ==
  ASSUME Inv, NEW i \in 1 .. Len(calls), Ack(i)
  PROVE  Inv'
<1> DEFINE d == [calls[i] EXCEPT !.phase = "acked"]
<1>1. /\ Proposed(i) /\ calls' = [calls EXCEPT ![i] = d]
      /\ UNCHANGED <<log, canon, leader, mode, applied, fsm, snap, db, told>>
  BY DEF Ack, cluster, node, disk
<1>2. calls[i] \in Call /\ calls[i].idx # 0
  BY <1>1, Elements DEF Inv, Proposed
<1>3. d \in Call /\ Moved(calls[i], d)
  BY <1>2, Acked
<1> HIDE DEF d
<1>4. calls' \in Seq(Call) /\ CallsOK'
  BY <1>1, <1>3, OneCall, ZenonT(60) DEF Inv
<1>5. Typed'
  BY <1>1, <1>4, ZenonT(60) DEF Typed, Inv
<1> QED BY <1>1, <1>4, <1>5, SameLog, Untouched DEF Inv

(* RegisterProxy answers with the ranges it computed.                      *)
LEMMA AckProxyStep ==
  ASSUME Inv, NEW i \in 1 .. Len(calls), AckProxy(i)
  PROVE  Inv'
<1> DEFINE c == calls[i]
           d == [c EXCEPT !.phase = "acked"]
           xs == {x \in Namespaces : fsm[c.node].namespaces[x] # None /\ InRanges(x, c.ranges)}
           t == [ranges |-> c.ranges, members |-> c.members, namespaces |-> xs]
<1>1. /\ c.phase = "reading" /\ calls' = [calls EXCEPT ![i] = d]
      /\ told' = [told EXCEPT ![c.cmd.key] = t]
      /\ UNCHANGED <<log, canon, leader, mode, applied, fsm, snap, db>>
  BY DEF AckProxy, cluster, node, disk
<1>2. /\ c \in Call /\ c.idx # 0 /\ c.cmd.op = "RegisterProxy" /\ c.cmd.key \in c.members
      /\ c.ranges = ComputeRangesFromProxySet(c.cmd.key, c.members)
  BY <1>1, Elements DEF Inv, CallsOK, CallOK
<1>3. d \in Call /\ Moved(c, d)
  BY <1>2, Acked
<1>4. /\ t \in [ranges : Announced, members : SUBSET Proxies, namespaces : SUBSET Namespaces]
      /\ t.ranges = c.ranges /\ t.members = c.members
  BY <1>2, ZenonT(60) DEF Call
<1>5. c.cmd.key \in Proxies
  BY <1>2 DEF Call
<1> HIDE DEF c, d, t
<1>6. calls' \in Seq(Call) /\ CallsOK'
  BY <1>1, <1>3, OneCall, ZenonT(60) DEF Inv, c
<1>7. Typed'
  BY <1>1, <1>4, <1>5, <1>6, ZenonT(60) DEF Typed, Inv
<1>8. Told'
  <2>1. ASSUME NEW p \in Proxies, told'[p] # None
        PROVE  p \in told'[p].members /\ told'[p].ranges = ComputeRangesFromProxySet(p, told'[p].members)
    <3>1. CASE p = c.cmd.key
      <4>1. told'[p] = t
        BY <1>1, <3>1, ZenonT(60) DEF Inv, Typed
      <4> QED BY <1>2, <1>4, <3>1, <4>1
    <3>2. CASE p # c.cmd.key
      <4>1. told'[p] = told[p]
        BY <1>1, <3>2, ZenonT(60) DEF Inv, Typed
      <4> QED BY <2>1, <4>1 DEF Inv, Told
    <3> QED BY <3>1, <3>2
  <2> QED BY <2>1 DEF Told
<1> QED BY <1>1, <1>6, <1>7, <1>8, SameLog, Untouched DEF Inv

(* The library refuses a proposal: one call fewer.                         *)
LEMMA RefuseStep ==
  ASSUME Inv, NEW i \in 1 .. Len(calls), Refuse(i)
  PROVE  Inv'
<1> DEFINE a == SubSeq(calls, 1, i - 1)
           b == SubSeq(calls, i + 1, Len(calls))
<1>1. /\ calls' = a \o b
      /\ UNCHANGED <<log, canon, leader, mode, applied, fsm, snap, db, told>>
  BY DEF Refuse, cluster, node, disk
<1>2. Len(calls) \in Nat /\ \A j \in 1 .. Len(calls) : calls[j] \in Call
  BY Elements DEF Inv
<1>3. /\ a \in Seq(Call) /\ Len(a) = i - 1
      /\ \A j \in 1 .. i - 1 : a[j] = calls[j]
  <2>1. calls \in Seq(Call) /\ 1 \in Nat /\ i - 1 \in Nat /\ 1 <= (i - 1) + 1 /\ i - 1 <= Len(calls)
    <3>1. calls \in Seq(Call)
      BY ZenonT(60) DEF Inv, Typed
    <3> QED BY <1>2, <3>1
  <2>2. /\ a \in Seq(Call) /\ Len(a) = (i - 1) - 1 + 1
        /\ \A j \in 1 .. (i - 1) - 1 + 1 : a[j] = calls[1 + j - 1]
    BY <2>1, SeqPart
  <2> HIDE DEF a
  <2> QED BY <1>2, <2>2
<1>4. /\ b \in Seq(Call) /\ Len(b) = Len(calls) - i
      /\ \A j \in 1 .. Len(calls) - i : b[j] = calls[i + j]
  <2>1. /\ calls \in Seq(Call) /\ i + 1 \in Nat /\ Len(calls) \in Nat
        /\ 1 <= i + 1 /\ i + 1 <= Len(calls) + 1 /\ Len(calls) <= Len(calls)
    <3>1. calls \in Seq(Call)
      BY ZenonT(60) DEF Inv, Typed
    <3> QED BY <1>2, <3>1
  <2>2. /\ b \in Seq(Call) /\ Len(b) = Len(calls) - (i + 1) + 1
        /\ \A j \in 1 .. Len(calls) - (i + 1) + 1 : b[j] = calls[(i + 1) + j - 1]
    BY <2>1, SeqPart
  <2> HIDE DEF b
  <2> QED BY <1>2, <2>2
<1> HIDE DEF a, b
<1>5. /\ calls' \in Seq(Call) /\ Len(calls') = Len(a) + Len(b)
      /\ \A j \in 1 .. Len(a) + Len(b) : calls'[j] = IF j <= Len(a) THEN a[j] ELSE b[j - Len(a)]
  BY <1>1, <1>3, <1>4, SeqConcat, ZenonT(60)
<1>6. ASSUME NEW j \in 1 .. Len(calls')
      PROVE  \E k \in 1 .. Len(calls) : calls'[j] = calls[k]
  <2>1. CASE j <= i - 1
    <3>1. j \in 1 .. i - 1 /\ j \in 1 .. Len(calls) /\ j \in 1 .. Len(a) + Len(b) /\ j <= Len(a)
      <4>1. /\ Len(calls) \in Nat /\ Len(calls') = Len(a) + Len(b)
            /\ Len(a) = i - 1 /\ Len(b) = Len(calls) - i
        BY <1>2, <1>3, <1>4, <1>5, ZenonT(60)
      <4> QED BY <2>1, <4>1
    <3>2. calls'[j] = a[j] /\ a[j] = calls[j]
      BY <1>3, <1>5, <3>1
    <3> QED BY <3>1, <3>2
  <2>2. CASE ~(j <= i - 1)
    <3>1. j - (i - 1) \in 1 .. Len(calls) - i /\ i + (j - (i - 1)) \in 1 .. Len(calls)
      <4>1. /\ Len(calls) \in Nat /\ Len(calls') = Len(a) + Len(b)
            /\ Len(a) = i - 1 /\ Len(b) = Len(calls) - i
        BY <1>2, <1>3, <1>4, <1>5, ZenonT(60)
      <4> QED BY <2>2, <4>1
    <3>2. calls'[j] = b[j - (i - 1)]
      BY <1>2, <1>3, <1>4, <1>5, <2>2, ZenonT(60)
    <3> QED BY <1>4, <3>1, <3>2
  <2> QED BY <2>1, <2>2
<1>7. CallsOK'
  <2> SUFFICES ASSUME NEW j \in 1 .. Len(calls') PROVE CallOK(calls[j])'
    BY DEF CallsOK
  <2>1. PICK k \in 1 .. Len(calls) : calls'[j] = calls[k]
    BY <1>6
  <2>2. CallOK(calls[k])
    BY DEF Inv, CallsOK
  <2> QED BY <1>1, <2>1, <2>2, ZenonT(60) DEF CallOK, Up, Latest
<1>8. Typed'
  BY <1>1, <1>5, ZenonT(60) DEF Typed, Inv
<1> QED BY <1>1, <1>7, <1>8, SameLog, Untouched DEF Inv
=============================================================================
