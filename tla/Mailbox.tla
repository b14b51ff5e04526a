------------------------------ MODULE Mailbox ------------------------------
(***************************************************************************)
(* The mailbox pattern (patterns/mailbox/mailbox.go) on a publish/subscribe *)
(* driver and the SQLite table driver (pkg/drivers/sqlite), in the process *)
(* of the mailbox-runner, which may be killed and started again.           *)
(*                                                                         *)
(* Every Start makes a context, numbered like the Start, and a goroutine   *)
(* that subscribes and stores what it receives.  The goroutine reads the   *)
(* field m.ctx, which is the newest Start's, whenever it needs a context.  *)
(***************************************************************************)
EXTENDS PubSub, FiniteSets

CONSTANTS
  Retention,  \* retention_days, in milliseconds
  MaxStarts   \* bound: calls of Start that succeed, in any setup

Loops == 1..MaxStarts

VARIABLES
  stage,            \* how far the runner's main is
  kills,            \* times the process was killed
  starts, running,  \* Starts so far, the last of which made m.ctx; m.running
  pc, got, src,     \* of each loop: where it is, its message, its subscription
  table, rows,      \* the SQLite driver's state, and the table
  received, failed  \* metrics: EventsReceived, EventsFailed

mailbox == <<starts, running, pc, got, src, received, failed>>
vars    == <<driver, stage, kills, mailbox, table, rows>>

Restarts   == conf.restarts    \* after a Stop the process goes on, and calls Start again
Unsubs     == conf.unsubs      \* somebody calls Unsubscribe
StartLimit == conf.starts      \* bound: calls of Start that succeed
MaxKills   == conf.kills       \* bound: kills of the process

NoMessage == [m |-> 0, id |-> <<0, 0>>, ts |-> 0]

Init ==
  /\ DriverInit
  /\ stage = "source" /\ kills = 0
  /\ starts = 0 /\ running = FALSE
  /\ pc = [g \in Loops |-> "off"] /\ got = [g \in Loops |-> NoMessage]
  /\ src = [g \in Loops |-> 0]
  /\ table = "new" /\ rows = {} /\ received = 0 /\ failed = 0

-----------------------------------------------------------------------------
(* The runner: source, table, slots, Start; after a signal Stop, and the   *)
(* deferred Stops of the drivers.  A step that fails ends the process.     *)

Exit == stage' = "exit"

InitSource ==
  /\ stage = "source"
  /\ Initialize /\ stage' = IF ready' = "up" THEN "table" ELSE "return"
  /\ UNCHANGED <<kills, mailbox, table, rows>>

(* The table driver: Initialize opens the database and makes the schema,   *)
(* and Start sets started.                                                 *)
InitTable ==
  /\ stage = "table"
  /\ \/ table' = "started" /\ stage' = "start"
     \/ stage' = "return" /\ UNCHANGED table
  /\ UNCHANGED <<driver, kills, mailbox, rows>>

(* Start, with the slots bound.                                            *)
Start ==
  /\ stage = "start" \/ (stage = "up" /\ Restarts)
  /\ ~running /\ starts < StartLimit
  /\ stage' = "up"
  /\ starts' = starts + 1 /\ running' = TRUE
  /\ pc' = [pc EXCEPT ![starts + 1] = "subscribe"]
  /\ UNCHANGED <<driver, kills, got, src, table, rows, received, failed>>

(* Stop does nothing when running is not set.                              *)
Stop(next) ==
  /\ stage = "up" /\ stage' = next
  /\ running' = FALSE
  /\ cancelled' = IF running THEN cancelled \cup {starts} ELSE cancelled
  /\ UNCHANGED <<conf, ready, clock, broker, subs, reg, calls, panicked,
                 kills, starts, pc, got, src, table, rows, received, failed>>

StopTable ==
  /\ stage = "stopTable" /\ stage' = "stopSource"
  /\ table' = "stopped"
  /\ UNCHANGED <<driver, kills, mailbox, rows>>

StopSource ==
  /\ stage = "stopSource" /\ stage' = "return"
  /\ DriverStop
  /\ UNCHANGED <<kills, mailbox, table, rows>>

(* The process ends: main returns, a goroutine panics, or it is killed.    *)
(* The table's rows are left, and what the broker keeps.                   *)
ProcessEnds ==
  /\ stage # "exit" /\ Exit
  /\ stage = "return" \/ panicked \/ kills < MaxKills
  /\ kills' = IF stage = "return" \/ panicked THEN kills ELSE kills + 1
  /\ DriverLost
  /\ running' = FALSE /\ table' = "new" /\ received' = 0 /\ failed' = 0
  /\ pc' = [g \in Loops |-> "off"] /\ got' = [g \in Loops |-> NoMessage]
  /\ src' = [g \in Loops |-> 0]
  /\ UNCHANGED <<starts, rows>>

Boot ==
  /\ stage = "exit" /\ starts < StartLimit
  /\ stage' = "source"
  /\ UNCHANGED <<driver, kills, mailbox, table, rows>>

-----------------------------------------------------------------------------
(* consume, the goroutine of the g-th Start.                               *)

LoopSubscribe(g) ==
  /\ pc[g] = "subscribe"
  /\ \/ /\ Subscribe(starts)
        /\ src' = [src EXCEPT ![g] = Len(subs) + 1]
        /\ pc' = [pc EXCEPT ![g] = "wait"]
     \/ /\ kind # "mem"
        /\ pc' = [pc EXCEPT ![g] = "end"]
        /\ UNCHANGED <<driver, src>>
  /\ UNCHANGED <<stage, kills, starts, running, got, table, rows, received, failed>>

LoopReceive(g) ==
  /\ pc[g] = "wait" /\ subs[src[g]].ch # <<>>
  /\ got' = [got EXCEPT ![g] = Head(subs[src[g]].ch)]
  /\ subs' = [subs EXCEPT ![src[g]].ch = Tail(@)]
  /\ pc' = [pc EXCEPT ![g] = "store"]
  /\ UNCHANGED <<conf, ready, clock, broker, reg, cancelled, calls, panicked,
                 stage, kills, starts, running, src, table, rows, received, failed>>

LoopLeave(g) ==
  /\ pc[g] = "wait" /\ starts \in cancelled
  /\ pc' = [pc EXCEPT ![g] = "end"]
  /\ UNCHANGED <<driver, stage, kills, starts, running, got, src, table,
                 rows, received, failed>>

(* Mutant: an insert without the UNIQUE constraint.                        *)
InsertAlways(e) ==
  /\ table = "started"
  /\ rows' = rows \cup {[e EXCEPT !.id = <<@, Cardinality(rows)>>]}

(* WriteEvent: message_id is UNIQUE.                                       *)
WriteEvent(e) ==
  /\ table = "started" /\ \A r \in rows : r.id # e.id
  /\ rows' = rows \cup {e}

(* storeMessage, under a context derived from m.ctx.  A write may fail for *)
(* reasons of its own too.  Either way the message is not taken up again.  *)
LoopStore(g) ==
  /\ pc[g] = "store"
  /\ \/ /\ starts \notin cancelled /\ WriteEvent(got[g])
        /\ UNCHANGED failed
     \/ /\ failed' = failed + 1
        /\ UNCHANGED rows
  /\ received' = received + 1
  /\ pc' = [pc EXCEPT ![g] = "wait"]
  /\ got' = [got EXCEPT ![g] = NoMessage]
  /\ UNCHANGED <<driver, stage, kills, starts, running, src, table>>

(* Mutant: the end of a loop leaves running as it is.                      *)
LoopEndSilently(g) ==
  /\ pc[g] = "end"
  /\ pc' = [pc EXCEPT ![g] = "off"]
  /\ UNCHANGED <<driver, stage, kills, starts, running, got, src, table,
                 rows, received, failed>>

(* The deferred running = false.                                           *)
LoopEnd(g) ==
  /\ pc[g] = "end"
  /\ pc' = [pc EXCEPT ![g] = "off"]
  /\ running' = FALSE
  /\ UNCHANGED <<driver, stage, kills, starts, got, src, table, rows,
                 received, failed>>

Loop(g) == LoopSubscribe(g) \/ LoopReceive(g) \/ LoopLeave(g) \/ LoopStore(g) \/ LoopEnd(g)

(* Rows with a timestamp before the cutoff go.                             *)
(* Mutant: those of the cutoff's own millisecond go too.                   *)
DeleteOldEventsEarly(olderThan) == rows' = {r \in rows : r.ts > olderThan}

DeleteOldEvents(olderThan) == rows' = {r \in rows : r.ts >= olderThan}

(* retentionCleanupLoop.                                                   *)
RetentionCleanup ==
  /\ table = "started"
  /\ DeleteOldEvents(clock - Retention)
  /\ UNCHANGED <<driver, stage, kills, mailbox, table>>

Client ==
  /\ \/ Tick \/ MemPublish \/ MemSend \/ NatsPublish \/ KafkaPublish \/ DeliveryReport
     \/ \E s \in Subs : Deliver(s)
     \/ Unsubs /\ Unsubscribe
     \/ MemDelete
  /\ UNCHANGED <<stage, kills, mailbox, table, rows>>

Alive == stage # "exit" /\ ~panicked

Next ==
  \/ /\ Alive
     /\ \/ InitSource \/ InitTable \/ Start
        \/ Stop(IF Restarts THEN "up" ELSE "stopTable") \/ StopTable \/ StopSource
        \/ Client \/ RetentionCleanup
        \/ \E g \in Loops : Loop(g)
  \/ ProcessEnds \/ Boot

Spec == Init /\ [][Next]_vars

-----------------------------------------------------------------------------
(* Health. *)
Health ==
  IF ~running \/ (received > 0 /\ failed * 10 > received) THEN "degraded" ELSE "healthy"

(* A mailbox that reports itself healthy has the loop of its last Start    *)
(* running: consume clears running however it ends, so that a failed       *)
(* subscription or an ended loop shows in Health.                          *)
HealthyIsConsuming ==
  Alive /\ Health = "healthy" => pc[starts] # "off"

(* A message is in the table at most once, with two loops after a restart, *)
(* with a redelivery of Kafka after a crash, with a subscription replaced  *)
(* in memory.  NATS is left out: its callback makes a new message ID for   *)
(* every subscription, and the UNIQUE constraint then has nothing to find. *)
StoredOnce ==
  kind # "nats" => \A r1, r2 \in rows : r1.m = r2.m => r1 = r2

(* The retention clean-up only deletes events that were published at least *)
(* Retention ago.  Stated of the in-memory driver, whose timestamps are in *)
(* the unit of the cutoff.                                                 *)
RetentionKeepsYoung ==
  [][kind = "mem" => \A r \in rows \ rows' : log[r.m] + Retention < clock]_vars

(* Both: the rows of the mailbox (WriteEvent, DeleteOldEvents).            *)
RowsKept == []StoredOnce /\ RetentionKeepsYoung
=============================================================================
