------------------------------ MODULE Consumer ------------------------------
(***************************************************************************)
(* The consumer pattern (patterns/consumer/consumer.go): the goroutine     *)
(* that every Start spawns, with its own copy of the consumer state, and   *)
(* Start, Stop, a crash of the process, and the deletion of claims in the  *)
(* background.                                                             *)
(*                                                                         *)
(* c.mu only guards running, ctx and cancel in Start and Stop, each one    *)
(* step here, and running in the deferred end of the loop.  The loop reads *)
(* the field c.ctx afresh in every round.  The source is a queue of        *)
(* numbered messages of which each goes to one receiver and is not         *)
(* delivered again; the processor and the drivers answer what they like.   *)
(***************************************************************************)
EXTENDS Naturals, FiniteSets

CONSTANTS
  MaxMessages,  \* bound: messages in the source
  Claims,       \* the messages that are claim checks, payload in the object store
  MaxRetries,   \* Behavior.MaxRetries
  MaxStarts,    \* bound: calls of Start that succeed, in any setup
  Setups        \* the configurations, each with its environment (see conf)

Loops    == 1..MaxStarts

ASSUME ConsumerAssumption ==
  /\ MaxMessages \in Nat /\ MaxRetries \in Nat /\ MaxStarts \in Nat
  /\ Claims \subseteq Nat
  /\ \A s \in Setups : s.starts \in 0..MaxStarts

VARIABLES
  conf,                 \* the configuration and what may happen, chosen at first
  running, ctxDone,     \* c.running; whether c.ctx is done
  starts, crashes,
  pc, cur, st,          \* of each loop: where it is, its message, its ConsumerState
  saved,                \* the ConsumerState in the state store
  taken,                \* messages 1..taken have left the source
  objects, deleting,    \* payloads in the object store; deletions under way
  processed, dead,      \* messages the processor accepted; dead-lettered ones
  failed, unread        \* messages that failed; claims that could not be read

life == <<conf, running, ctxDone, starts, crashes>>
loop == <<pc, cur, st>>
out  == <<processed, dead, failed, unread>>
vars == <<life, loop, saved, taken, objects, deleting, out>>

(* The consumer's configuration, and what may happen to it.                *)
AutoCommit      == conf.autoCommit      \* Behavior.AutoCommit
DeleteAfterRead == conf.deleteAfterRead \* ClaimCheck.DeleteAfterRead
Faults     == conf.faults  \* of "processor", "store", "objects", "dlq", "subscribe"
Stops      == conf.stops   \* Stop is called
StartLimit == conf.starts  \* bound: calls of Start that succeed
MaxCrashes == conf.crashes \* bound: crashes of the process

Fresh == [offset |-> 0, retries |-> 0]

Init ==
  /\ conf \in Setups
  /\ running = FALSE /\ ctxDone = TRUE /\ starts = 0 /\ crashes = 0
  /\ pc = [g \in Loops |-> "off"] /\ cur = [g \in Loops |-> 0]
  /\ st = [g \in Loops |-> Fresh] /\ saved = Fresh
  /\ taken = 0 /\ objects = Claims /\ deleting = {}
  /\ processed = {} /\ dead = {} /\ failed = {} /\ unread = {}

-----------------------------------------------------------------------------
Start ==
  /\ ~running /\ starts < StartLimit
  /\ running' = TRUE /\ ctxDone' = FALSE /\ starts' = starts + 1
  /\ pc' = [pc EXCEPT ![starts + 1] = "load"]
  /\ UNCHANGED <<conf, crashes, cur, st, saved, taken, objects, deleting, out>>

(* Mutant: Stop does not cancel the context.                               *)
StopWithoutCancel ==
  /\ Stops /\ running
  /\ running' = FALSE
  /\ UNCHANGED <<conf, ctxDone, starts, crashes, loop, saved, taken, objects, deleting, out>>

Stop ==
  /\ Stops /\ running
  /\ running' = FALSE /\ ctxDone' = TRUE
  /\ UNCHANGED <<conf, starts, crashes, loop, saved, taken, objects, deleting, out>>

(* The process dies; what its goroutines had in hand goes with it. *)
Crash ==
  /\ crashes < MaxCrashes /\ \E g \in Loops : pc[g] # "off"
  /\ crashes' = crashes + 1
  /\ running' = FALSE /\ ctxDone' = TRUE
  /\ pc' = [g \in Loops |-> "off"] /\ cur' = [g \in Loops |-> 0]
  /\ deleting' = {}
  /\ UNCHANGED <<conf, starts, st, saved, taken, objects, out>>

-----------------------------------------------------------------------------
(* consume: load the state, subscribe, then take messages until c.ctx is   *)
(* done.  Every way out runs the deferred running = false.                 *)

(* Mutant: the saved state is not used.                                    *)
LoadStartsAfresh(g) ==
  /\ pc[g] = "load"
  /\ st' = [st EXCEPT ![g] = Fresh] /\ pc' = [pc EXCEPT ![g] = "subscribe"]
  /\ UNCHANGED <<life, cur, saved, taken, objects, deleting, out>>

LoadState(g) ==
  /\ pc[g] = "load"
  /\ \/ st' = [st EXCEPT ![g] = saved] /\ pc' = [pc EXCEPT ![g] = "subscribe"]
     \/ "store" \in Faults /\ pc' = [pc EXCEPT ![g] = "exit"] /\ UNCHANGED st
  /\ UNCHANGED <<life, cur, saved, taken, objects, deleting, out>>

Subscribe(g) ==
  /\ pc[g] = "subscribe"
  /\ pc' \in {[pc EXCEPT ![g] = "loop"]}
       \cup (IF ctxDone \/ "subscribe" \in Faults THEN {[pc EXCEPT ![g] = "exit"]} ELSE {})
  /\ UNCHANGED <<life, cur, st, saved, taken, objects, deleting, out>>

Take(g) ==
  /\ pc[g] = "loop" /\ taken < MaxMessages
  /\ taken' = taken + 1
  /\ cur' = [cur EXCEPT ![g] = taken + 1]
  /\ pc' = [pc EXCEPT ![g] = IF taken + 1 \in Claims THEN "resolve" ELSE "process"]
  /\ UNCHANGED <<life, st, saved, objects, deleting, out>>

(* Mutant: the loop does not select on the context.                        *)
NeverLeave(g) == FALSE

Leave(g) ==
  /\ pc[g] = "loop" /\ ctxDone
  /\ pc' = [pc EXCEPT ![g] = "exit"]
  /\ UNCHANGED <<life, cur, st, saved, taken, objects, deleting, out>>

Exit(g) ==
  /\ pc[g] = "exit"
  /\ running' = FALSE
  /\ pc' = [pc EXCEPT ![g] = "off"]
  /\ UNCHANGED <<conf, ctxDone, starts, crashes, cur, st, saved, taken, objects, deleting, out>>

-----------------------------------------------------------------------------
(* One message.  saveState is a step within the outcome: a store that      *)
(* fails is only logged.                                                   *)

SaveState(s) == saved' = s \/ ("store" \in Faults /\ UNCHANGED saved)

(* Mutant: a failed message moves the offset.                              *)
FailedCounts(g) ==
  LET s == [st[g] EXCEPT !.offset = @ + 1] IN
  /\ st' = [st EXCEPT ![g] = s] /\ SaveState(s)
  /\ failed' = failed \cup {cur[g]}
  /\ cur' = [cur EXCEPT ![g] = 0] /\ pc' = [pc EXCEPT ![g] = "loop"]
  /\ UNCHANGED <<processed, dead>>

(* Mutant: a failure ends the loop.                                        *)
FailedLeaves(g) ==
  /\ failed' = failed \cup {cur[g]}
  /\ cur' = [cur EXCEPT ![g] = 0] /\ pc' = [pc EXCEPT ![g] = "exit"]
  /\ UNCHANGED <<processed, dead, st, saved>>

(* Mutant: the count is not reset.                                         *)
FailedKeepsCount(g) ==
  /\ IF st[g].retries < MaxRetries
     THEN LET s == [st[g] EXCEPT !.retries = @ + 1] IN
          st' = [st EXCEPT ![g] = s] /\ SaveState(s) /\ UNCHANGED dead
     ELSE UNCHANGED <<st, saved>> /\ dead' = dead \cup {cur[g]}
  /\ failed' = failed \cup {cur[g]}
  /\ cur' = [cur EXCEPT ![g] = 0] /\ pc' = [pc EXCEPT ![g] = "loop"]
  /\ UNCHANGED processed

(* With retries left the count goes up and the loop takes the next         *)
(* message; otherwise this message goes to the dead letter queue.          *)
HandleFailure(g) ==
  /\ IF st[g].retries < MaxRetries
     THEN LET s == [st[g] EXCEPT !.retries = @ + 1] IN
          st' = [st EXCEPT ![g] = s] /\ SaveState(s) /\ UNCHANGED dead
     ELSE /\ st' = [st EXCEPT ![g].retries = 0]
          /\ dead' = dead \cup {cur[g]} \/ (("dlq" \in Faults \/ ctxDone) /\ UNCHANGED dead)
          /\ UNCHANGED saved
  /\ failed' = failed \cup {cur[g]}
  /\ cur' = [cur EXCEPT ![g] = 0] /\ pc' = [pc EXCEPT ![g] = "loop"]
  /\ UNCHANGED processed

(* Mutant: the deletion starts before the fetch.                           *)
ResolveAlwaysDeletes(g) ==
  /\ pc[g] = "resolve"
  /\ deleting' = deleting \cup {cur[g]}
  /\ \/ pc' = [pc EXCEPT ![g] = "process"] /\ UNCHANGED <<cur, st, saved, out>>
     \/ "objects" \in Faults /\ unread' = unread \cup {cur[g]} /\ HandleFailure(g)
  /\ UNCHANGED <<life, taken, objects>>

(* resolveClaimCheck: fetch, decompress and verify; then the deletion is   *)
(* started in the background, before the processor has seen the message.   *)
Resolve(g) ==
  /\ pc[g] = "resolve"
  /\ \/ /\ cur[g] \in objects
        /\ deleting' = IF DeleteAfterRead THEN deleting \cup {cur[g]} ELSE deleting
        /\ pc' = [pc EXCEPT ![g] = "process"]
        /\ UNCHANGED <<cur, st, saved, out>>
     \/ /\ cur[g] \notin objects \/ "objects" \in Faults
        /\ unread' = unread \cup {cur[g]}
        /\ HandleFailure(g) /\ UNCHANGED deleting
  /\ UNCHANGED <<life, taken, objects>>

DeleteClaim(n) ==
  /\ n \in deleting
  /\ deleting' = deleting \ {n}
  /\ objects' = objects \ {n} \/ ("objects" \in Faults /\ UNCHANGED objects)
  /\ UNCHANGED <<life, loop, saved, taken, out>>

(* The processor's answer; success moves the offset of this loop's copy of *)
(* the state.                                                              *)
Process(g) ==
  /\ pc[g] = "process"
  /\ \/ LET s == [offset |-> st[g].offset + 1, retries |-> 0] IN
        /\ st' = [st EXCEPT ![g] = s]
        /\ IF AutoCommit THEN SaveState(s) ELSE UNCHANGED saved
        /\ processed' = processed \cup {cur[g]}
        /\ cur' = [cur EXCEPT ![g] = 0] /\ pc' = [pc EXCEPT ![g] = "loop"]
        /\ UNCHANGED <<dead, failed>>
     \/ ("processor" \in Faults \/ ctxDone) /\ HandleFailure(g)
  /\ UNCHANGED <<life, taken, objects, deleting, unread>>

-----------------------------------------------------------------------------
LoopStep(g) ==
  \/ LoadState(g) \/ Subscribe(g) \/ Take(g) \/ Leave(g) \/ Exit(g)
  \/ Resolve(g) \/ Process(g)

Next ==
  \/ Start \/ Stop \/ Crash
  \/ \E g \in Loops : LoopStep(g)
  \/ \E n \in Claims : DeleteClaim(n)

Spec == Init /\ [][Next]_vars

(* A loop that can go on does; its select does not pass over a context     *)
(* that is done for ever.                                                  *)
Fairness == \A g \in Loops : WF_vars(LoopStep(g)) /\ SF_vars(Leave(g))

-----------------------------------------------------------------------------
(* The saved offset never counts more messages than were processed, over   *)
(* crashes, restarts and failed saves.                                     *)
SavedNotAhead == saved.offset <= Cardinality(processed)

(* Nobody starts the consumer again after a Stop: the loop that is still   *)
(* leaving and the new one would each save their own copy of the state.    *)
StateUnshared == ~Stops \/ StartLimit <= 1

(* The position the consumer has saved never goes back, over any number of *)
(* crashes.                                                                *)
OffsetMonotone == [][StateUnshared => saved'.offset >= saved.offset]_vars

(* Both: the consumer's saved position (saveState, loadState).             *)
PositionKept == []SavedNotAhead /\ OffsetMonotone

(* Until the process crashes, a dead letter is the last of MaxRetries + 1  *)
(* failures: the retry budget is used up afresh before each message that   *)
(* goes to the queue.                                                      *)
DeadLettersEarned ==
  crashes = 0 /\ StateUnshared => (MaxRetries + 1) * Cardinality(dead) <= Cardinality(failed)

(* The payload of a claim that could not be read is not deleted. *)
UnreadClaimsKept == unread \subseteq objects

(* Both: what becomes of messages that fail (consume, resolveClaimCheck).  *)
FailuresKept == DeadLettersEarned /\ UnreadClaimsKept

(* A consumer that says it does not run does not: its context is done, or  *)
(* none of its goroutines is left.                                         *)
StoppedIsDone == ~running => ctxDone \/ \A g \in Loops : pc[g] = "off"

(* After Stop every goroutine of the consumer ends. *)
StopEnds == ctxDone ~> \A g \in Loops : pc[g] = "off"

(* A running consumer that nobody stops works through the source, however  *)
(* often the processor, a claim or the dead letter queue fails.            *)
Drains ==
  running /\ ~Stops /\ MaxCrashes = 0 /\ Faults \cap {"store", "subscribe"} = {}
    ~> taken = MaxMessages /\ \A g \in Loops : cur[g] = 0

(* The three together: the loop runs as long as it is meant to (Start,     *)
(* Stop, consume).                                                         *)
LoopRuns == []StoppedIsDone /\ StopEnds /\ Drains
=============================================================================
