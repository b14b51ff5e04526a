------------------------------- MODULE Runner -------------------------------
(***************************************************************************)
(* The pattern runners (consumer-runner, keyvalue-runner, producer-runner, *)
(* multicast-registry-runner): what Initialize, Start and Stop do to the   *)
(* drivers in a pattern's slots and to the pattern.  Initialize opens the  *)
(* drivers slot by slot and makes the pattern last; whatever it made       *)
(* before an error stays with the runner.  Driver calls fail at will.      *)
(***************************************************************************)
EXTENDS Naturals, Sequences

CONSTANT Setups  \* the runners and what may happen to them (see conf)

VARIABLES
  conf,     \* the setup, chosen at first
  held,     \* of each slot: the runner's driver is "none", "open" or "shut"
  pattern,  \* "none", "made", "running", "closed" (a coordinator after Close)
  crashed,  \* the process has panicked
  last      \* the operation done last, and whether it returned no error

runner == <<held, pattern, crashed, last>>

kind  == conf.runner        \* "consumer", "keyvalue", "multicast" or "producer"
Slots == 1 .. Len(conf.slots)

Nobody == [op |-> "", ok |-> TRUE]

RunnerInit ==
  /\ conf \in Setups
  /\ held = [s \in Slots |-> "none"] /\ pattern = "none"
  /\ crashed = FALSE /\ last = Nobody

Result(o, b) == last' = [op |-> o, ok |-> b] /\ UNCHANGED crashed
Panics == crashed' = TRUE /\ UNCHANGED <<held, pattern, last>>

-----------------------------------------------------------------------------
(* Initialize.  The drivers of the first n slots are created, initialized  *)
(* and started; those the runner had there are dropped as they are.        *)

Opens(n) == held' = [s \in Slots |-> IF s <= n THEN "open" ELSE held[s]]

(* A driver cannot be opened, or does not have the interface of its slot.  *)
BackendFails ==
  /\ \E n \in 0 .. Len(conf.slots) : Opens(n)
  /\ Result("Initialize", FALSE)

(* The consumer is there before its slots are bound.                       *)
ConsumerInitialize ==
  \/ BackendFails /\ UNCHANGED pattern
  \/ /\ Opens(Len(conf.slots)) /\ pattern' = "made"
     /\ \E ok \in BOOLEAN : Result("Initialize", ok)

KeyValueInitialize ==
  \/ BackendFails /\ UNCHANGED pattern
  \/ Opens(Len(conf.slots)) /\ pattern' = "made" /\ Result("Initialize", TRUE)

(* NewCoordinator may refuse its configuration.                            *)
MulticastInitialize ==
  \/ BackendFails /\ UNCHANGED pattern
  \/ Opens(Len(conf.slots)) /\ pattern' = "made" /\ Result("Initialize", TRUE)

(* The producer is made first, and its drivers are never started.          *)
ProducerInitialize ==
  \/ Result("Initialize", FALSE) /\ UNCHANGED <<held, pattern>>
  \/ /\ pattern' = "made"
     /\ \/ BackendFails
        \/ Opens(Len(conf.slots)) /\ \E ok \in BOOLEAN : Result("Initialize", ok)

(* Through the control plane, the configuration comes with the command.    *)
(* The adapter may refuse it, before anything of the runner has changed;   *)
(* what it accepts replaces the runner's configuration.                    *)
Refused == Result("Initialize", FALSE) /\ UNCHANGED <<held, pattern>>

ConsumerAdapterInitialize  == Refused \/ ConsumerInitialize
KeyValueAdapterInitialize  == Refused \/ KeyValueInitialize
MulticastAdapterInitialize == Refused \/ MulticastInitialize

AdapterInitialize ==
  \/ kind = "consumer"  /\ ConsumerAdapterInitialize
  \/ kind = "keyvalue"  /\ KeyValueAdapterInitialize
  \/ kind = "multicast" /\ MulticastAdapterInitialize

-----------------------------------------------------------------------------
(* Start, before there is a pattern, is a nil pointer.                     *)

(* The pattern is running already, or its slots are not bound.             *)
ConsumerStart ==
  \/ pattern = "none" /\ Panics
  \/ /\ pattern # "none" /\ UNCHANGED held
     /\ \/ pattern # "running" /\ pattern' = "running" /\ Result("Start", TRUE)
        \/ Result("Start", FALSE) /\ UNCHANGED pattern

(* The key-value pattern's Start is its driver's, which in memory brings a *)
(* stopped store back.                                                     *)
KeyValueStart ==
  \/ pattern = "none" /\ Panics
  \/ /\ pattern # "none" /\ pattern' = "running" /\ Result("Start", TRUE)
     /\ held' \in {held, [s \in Slots |-> "open"]}

MulticastStart == Result("Start", TRUE) /\ UNCHANGED <<held, pattern>>

StartPattern ==
  \/ kind \in {"consumer", "producer"} /\ ConsumerStart
  \/ kind = "keyvalue" /\ KeyValueStart
  \/ kind = "multicast" /\ MulticastStart

-----------------------------------------------------------------------------
(* Stop: the pattern, then its drivers, whose failures are only logged.    *)

StopsDrivers == held' = [s \in Slots |-> IF held[s] = "open" THEN "shut" ELSE held[s]]
Halted       == pattern' = IF pattern = "none" THEN "none" ELSE "made"

(* Mutant: with no consumer there is nothing to stop.                      *)
ConsumerStopFirst ==
  /\ IF pattern = "none" THEN UNCHANGED held ELSE StopsDrivers
  /\ Halted /\ Result("Stop", TRUE)

ConsumerStop == StopsDrivers /\ Halted /\ Result("Stop", TRUE)

(* A client that was closed before lets the pattern's Stop fail.           *)
KeyValueStop ==
  \/ StopsDrivers /\ Halted /\ Result("Stop", TRUE)
  \/ /\ pattern # "none" /\ held[1] = "shut"
     /\ Result("Stop", FALSE) /\ UNCHANGED <<held, pattern>>

(* The coordinator's Close closes a channel, the second time with a panic. *)
MulticastStop ==
  \/ pattern = "closed" /\ Panics
  \/ /\ pattern # "closed" /\ StopsDrivers /\ Result("Stop", TRUE)
     /\ pattern' = IF pattern = "none" THEN "none" ELSE "closed"

ProducerStop == Halted /\ Result("Stop", TRUE) /\ UNCHANGED held

StopPattern ==
  \/ kind = "consumer"  /\ ConsumerStop
  \/ kind = "keyvalue"  /\ KeyValueStop
  \/ kind = "multicast" /\ MulticastStop
  \/ kind = "producer"  /\ ProducerStop

(* What a process leaves when it ends: nothing.                            *)
RunnerLost ==
  /\ held' = [s \in Slots |-> "none"] /\ pattern' = "none"
  /\ crashed' = FALSE /\ last' = Nobody
=============================================================================
