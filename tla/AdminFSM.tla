------------------------------ MODULE AdminFSM ------------------------------
(***************************************************************************)
(* The replicated state of prism-admin and the effect of each command on   *)
(* it (fsm.go).  A registry is the part of AdminState every replica must   *)
(* agree on.  An absent map entry is None.                                 *)
(*                                                                         *)
(* Addresses and configurations are model values; versions, capabilities,  *)
(* metadata and resources are carried the same way and are left out, and   *)
(* so are the timestamps, which each replica takes from its own clock.     *)
(***************************************************************************)
EXTENDS Integers

CONSTANTS Proxies, Namespaces, Launchers, Patterns,
          Addrs,     \* addresses a proxy registers with
          Configs,   \* namespace configurations
          Capacities, \* values of max_processes and of reported slots
          None       \* an absent map entry

ASSUME FSMAssumption ==
  /\ Capacities \subseteq Nat
  /\ None \notin Addrs /\ None \notin Launchers
  /\ None \notin [proxy : Proxies, config : Configs]
  /\ None \notin [max : Capacities, slots : Nat]

Registries ==
  [namespaces : [Namespaces -> {None} \cup [proxy : Proxies, config : Configs]],
   proxies    : [Proxies -> {None} \cup Addrs],
   launchers  : [Launchers -> {None} \cup [max : Capacities, slots : Nat]],
   patterns   : [Patterns -> {None} \cup Launchers]]

Maps == {"namespaces", "proxies", "launchers", "patterns"}

NewAdminStateMachine ==
  [namespaces |-> [x \in Namespaces |-> None],
   proxies    |-> [p \in Proxies |-> None],
   launchers  |-> [l \in Launchers |-> None],
   patterns   |-> [k \in Patterns |-> None]]

Commands ==
       [op : {"RegisterProxy"}, key : Proxies, val : Addrs]
  \cup [op : {"CreateNamespace"}, key : Namespaces,
        val : [proxy : Proxies, config : Configs]]
  \cup [op : {"RegisterLauncher"}, key : Launchers, val : Capacities]
  \cup [op : {"AssignPattern"}, key : Patterns, val : Launchers]
  \cup [op : {"UpdateProxyStatus"}, key : Proxies]
  \cup [op : {"UpdateLauncherStatus"}, key : Launchers, val : Capacities]

(* Creating a namespace and updating an existing one both store what the   *)
(* command carries; the partition follows from the name.                   *)
applyCreateNamespace(s, c) == [s EXCEPT !.namespaces[c.key] = c.val]

applyRegisterProxy(s, c) == [s EXCEPT !.proxies[c.key] = c.val]

applyRegisterLauncher(s, c) ==
  [s EXCEPT !.launchers[c.key] = [max |-> c.val, slots |-> c.val]]

(* Mutant: a retried assignment takes another slot.                        *)
applyAssignPatternAgain(s, c) ==
  LET l == s.launchers[c.val]
      taken == IF l # None /\ l.slots > 0
                 THEN [s EXCEPT !.launchers[c.val] =
                         [max |-> l.max, slots |-> l.slots - 1]]
                 ELSE s
  IN [taken EXCEPT !.patterns[c.key] = c.val]

(* Only the first assignment of a pattern takes a slot, and only if the    *)
(* launcher is known and has one.                                          *)
applyAssignPattern(s, c) ==
  LET l == s.launchers[c.val]
      taken == IF s.patterns[c.key] = None /\ l # None /\ l.slots > 0
                 THEN [s EXCEPT !.launchers[c.val] =
                         [max |-> l.max, slots |-> l.slots - 1]]
                 ELSE s
  IN [taken EXCEPT !.patterns[c.key] = c.val]

(* The status a heartbeat carries is always "healthy"; only the time it    *)
(* was sent is new.                                                        *)
applyUpdateProxyStatus(s, c) == s

applyUpdateLauncherStatus(s, c) ==
  LET l == s.launchers[c.key]
  IN IF l = None THEN s
     ELSE [s EXCEPT !.launchers[c.key] = [max |-> l.max, slots |-> c.val]]

Apply(s, c) ==
  CASE c.op = "CreateNamespace"      -> applyCreateNamespace(s, c)
    [] c.op = "RegisterProxy"        -> applyRegisterProxy(s, c)
    [] c.op = "RegisterLauncher"     -> applyRegisterLauncher(s, c)
    [] c.op = "AssignPattern"        -> applyAssignPattern(s, c)
    [] c.op = "UpdateProxyStatus"    -> applyUpdateProxyStatus(s, c)
    [] c.op = "UpdateLauncherStatus" -> applyUpdateLauncherStatus(s, c)

(* The map a command inserts into; the status updates only read.           *)
MapOf(c) ==
  CASE c.op = "CreateNamespace"  -> {"namespaces"}
    [] c.op = "RegisterProxy"    -> {"proxies"}
    [] c.op = "RegisterLauncher" -> {"launchers"}
    [] c.op = "AssignPattern"    -> {"patterns"}
    [] OTHER                     -> {}

(* The maps of a registry that hold no entry.  proto.Clone copies an empty *)
(* map as nil, gob does not transmit a nil map, so these are the maps that *)
(* are nil in a state decoded from a snapshot.                             *)
EmptyMaps(s) == {m \in Maps : \A k \in DOMAIN s[m] : s[m][k] = None}

=============================================================================
