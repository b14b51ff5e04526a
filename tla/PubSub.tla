------------------------------- MODULE PubSub -------------------------------
(***************************************************************************)
(* The publish/subscribe drivers (pkg/drivers): in memory (memstore), NATS *)
(* and Kafka, for one topic and one subscriberID.  Every Subscribe makes a *)
(* subscription with a buffered channel of its own and stores it under     *)
(* "topic:subscriberID"; a second one replaces the entry and leaves the    *)
(* first subscription as it is.                                            *)
(*                                                                         *)
(* Delivery is a select with a default: a full channel loses the message.  *)
(* The brokers (the NATS server, the Kafka partition and its group offset) *)
(* are external.  Clock counts milliseconds; Second of them are a second.  *)
(***************************************************************************)
EXTENDS Integers, Sequences

CONSTANTS
  Buffer,       \* capacity of a subscription's channel
  Epoch,        \* the clock at first
  Second,       \* milliseconds in a second
  MaxSubs,      \* bound: subscriptions made
  Setups        \* the drivers, and what may happen to them (see conf)

VARIABLES
  conf,                \* the setup, chosen at first
  ready,               \* the driver is "new", "up" or "down"
  clock,
  log, outbox,         \* times of the messages published; of those Kafka's producer holds
  subs, reg,           \* the subscriptions made; the one the map holds, 0 for none
  cancelled,           \* contexts that are done
  committed, owner,    \* Kafka: the group's offset, the subscription with the partition
  sending, closing,    \* in memory: a Publish and an Unsubscribe under way
  panicked

broker == <<log, outbox, committed, owner>>
calls  == <<sending, closing>>
driver == <<conf, ready, clock, broker, subs, reg, cancelled, calls, panicked>>

kind        == conf.kind      \* the driver: "mem", "nats" or "kafka"
MessageLimit == conf.messages  \* bound: messages published
MaxTicks    == conf.ticks     \* bound: ticks of the clock

Nothing == [m |-> 0, s |-> 0]

Subs    == 1..Len(subs)
Full(s) == Len(subs[s].ch) >= Buffer
Done(s) == subs[s].stop \/ subs[s].ctx \in cancelled

(* What the subscriber is given for message m.  The in-memory driver and   *)
(* Kafka carry the publisher's ID; the NATS callback makes a new one.  The *)
(* time is in milliseconds in memory, and in seconds elsewhere.            *)
Received(m, s) ==
  [m  |-> m,
   id |-> IF kind = "nats" THEN <<m, s>> ELSE <<m, 0>>,
   ts |-> CASE kind = "mem"   -> log[m]
            [] kind = "kafka" -> log[m] \div Second
            [] kind = "nats"  -> clock \div Second]

DriverInit ==
  /\ conf \in Setups
  /\ ready = "new" /\ clock = Epoch
  /\ log = <<>> /\ outbox = <<>> /\ committed = 0 /\ owner = 0
  /\ subs = <<>> /\ reg = 0 /\ cancelled = {}
  /\ sending = Nothing /\ closing = 0 /\ panicked = FALSE

Tick ==
  /\ clock < Epoch + MaxTicks
  /\ clock' = clock + 1
  /\ UNCHANGED <<conf, ready, broker, subs, reg, cancelled, calls, panicked>>

-----------------------------------------------------------------------------
(* Publishing.  The in-memory driver first loads the topic's subscribers,  *)
(* then sends.                                                             *)

Published == Len(log) + Len(outbox)

MemPublish ==
  /\ kind = "mem" /\ sending = Nothing /\ Published < MessageLimit
  /\ log' = Append(log, clock)
  /\ sending' = IF reg = 0 THEN Nothing ELSE [m |-> Len(log) + 1, s |-> reg]
  /\ UNCHANGED <<conf, ready, clock, outbox, committed, owner, subs, reg,
                 cancelled, closing, panicked>>

MemSend ==
  /\ sending # Nothing
  /\ LET s == sending.s IN
     IF subs[s].closed
     THEN panicked' = TRUE /\ UNCHANGED subs
     ELSE /\ subs' = IF Full(s) THEN subs
                     ELSE [subs EXCEPT ![s].ch = Append(@, Received(sending.m, s))]
          /\ UNCHANGED panicked
  /\ sending' = Nothing
  /\ UNCHANGED <<conf, ready, clock, broker, reg, cancelled, closing>>

NatsPublish ==
  /\ kind = "nats" /\ ready = "up" /\ Published < MessageLimit
  /\ log' = Append(log, clock)
  /\ UNCHANGED <<conf, ready, clock, outbox, committed, owner, subs, reg,
                 cancelled, calls, panicked>>

KafkaPublish ==
  /\ kind = "kafka" /\ ready = "up" /\ Published < MessageLimit
  /\ outbox' = Append(outbox, clock)
  /\ UNCHANGED <<conf, ready, clock, log, committed, owner, subs, reg,
                 cancelled, calls, panicked>>

(* The broker's answer to a produced message; a failure is only logged.    *)
DeliveryReport ==
  /\ outbox # <<>>
  /\ outbox' = Tail(outbox)
  /\ log' \in {log, Append(log, Head(outbox))}
  /\ UNCHANGED <<conf, ready, clock, committed, owner, subs, reg, cancelled,
                 calls, panicked>>

-----------------------------------------------------------------------------
(* Subscribing, under context c.  The new subscription is number Len(subs) + 1. *)

NewSubscription(c) ==
  [ch |-> <<>>, closed |-> FALSE, open |-> TRUE, ctx |-> c, stop |-> FALSE,
   pos |-> Len(log), pc |-> "off", hand |-> 0]

Subscribes(new) ==
  /\ Len(subs) < MaxSubs
  /\ subs' = Append(subs, new) /\ reg' = Len(subs) + 1
  /\ UNCHANGED <<conf, ready, clock, log, outbox, committed, cancelled, calls, panicked>>

MemSubscribe(c) ==
  /\ kind = "mem"
  /\ Subscribes(NewSubscription(c)) /\ UNCHANGED owner

NatsSubscribe(c) ==
  /\ kind = "nats" /\ ready = "up"
  /\ Subscribes(NewSubscription(c)) /\ UNCHANGED owner

(* A new member of the Kafka group takes the partition from its owner.     *)
KafkaSubscribe(c) ==
  /\ kind = "kafka" /\ ready = "up"
  /\ Subscribes([NewSubscription(c) EXCEPT !.pc = IF c \in cancelled THEN "off" ELSE "read"])
  /\ owner' = 0

Subscribe(c) == MemSubscribe(c) \/ NatsSubscribe(c) \/ KafkaSubscribe(c)

(* The subscription the map holds, taken down as Kafka does it.            *)
KafkaClosed(s) == [subs EXCEPT ![s].stop = TRUE, ![s].open = FALSE, ![s].closed = TRUE]

MemClose ==
  /\ kind = "mem" /\ closing = 0 /\ reg # 0
  /\ closing' = reg
  /\ panicked' = (panicked \/ subs[reg].closed)
  /\ subs' = [subs EXCEPT ![reg].closed = TRUE]
  /\ UNCHANGED <<conf, ready, clock, broker, reg, cancelled, sending>>

MemDelete ==
  /\ closing # 0
  /\ closing' = 0 /\ reg' = 0
  /\ UNCHANGED <<conf, ready, clock, broker, subs, cancelled, sending, panicked>>

NatsUnsubscribe ==
  /\ kind = "nats" /\ reg # 0
  /\ subs' = [subs EXCEPT ![reg].open = FALSE]
  /\ reg' = 0
  /\ UNCHANGED <<conf, ready, clock, broker, cancelled, calls, panicked>>

KafkaUnsubscribe ==
  /\ kind = "kafka" /\ reg # 0
  /\ subs' = KafkaClosed(reg)
  /\ owner' = IF owner = reg THEN 0 ELSE owner
  /\ reg' = 0
  /\ UNCHANGED <<conf, ready, clock, log, outbox, committed, cancelled, calls, panicked>>

Unsubscribe == MemClose \/ NatsUnsubscribe \/ KafkaUnsubscribe

-----------------------------------------------------------------------------
(* Delivery.  The NATS callback, run for every message in turn.            *)

NatsCallback(s) ==
  /\ kind = "nats" /\ subs[s].open /\ subs[s].pos < Len(log)
  /\ LET m == subs[s].pos + 1 IN
     \/ /\ ~Full(s)
        /\ subs' = [subs EXCEPT ![s].pos = m, ![s].ch = Append(@, Received(m, s))]
     \/ /\ Full(s) \/ Done(s)
        /\ subs' = [subs EXCEPT ![s].pos = m]
  /\ UNCHANGED <<conf, ready, clock, broker, reg, cancelled, calls, panicked>>

(* The server drops messages for a client that is slow or reconnecting.    *)
NatsLose(s) ==
  /\ kind = "nats" /\ subs[s].open /\ subs[s].pos < Len(log)
  /\ subs' = [subs EXCEPT ![s].pos = @ + 1]
  /\ UNCHANGED <<conf, ready, clock, broker, reg, cancelled, calls, panicked>>

(* The group coordinator gives a free partition to a member, which goes on *)
(* from the committed offset; a member that polls no more loses it.        *)
KafkaAssign(s) ==
  /\ kind = "kafka" /\ subs[s].open /\ subs[s].pc # "off"
  /\ owner # 0 => subs[owner].pc = "off"
  /\ owner' = s
  /\ subs' = [subs EXCEPT ![s].pos = committed]
  /\ UNCHANGED <<conf, ready, clock, log, outbox, committed, reg, cancelled, calls, panicked>>

(* consumeSubscription: read, for a second at most, offer, commit; the     *)
(* context is looked at before every read.                                 *)
KafkaRead(s) ==
  /\ kind = "kafka" /\ subs[s].pc = "read"
  /\ \/ /\ owner = s /\ subs[s].open /\ subs[s].pos < Len(log)
        /\ subs' = [subs EXCEPT ![s].pc = "send", ![s].pos = @ + 1,
                                ![s].hand = subs[s].pos + 1]
     \/ /\ Done(s)
        /\ subs' = [subs EXCEPT ![s].pc = "off"]
  /\ UNCHANGED <<conf, ready, clock, broker, reg, cancelled, calls, panicked>>

AfterSend(s) == IF Done(s) THEN "off" ELSE "read"

KafkaSend(s) ==
  /\ kind = "kafka" /\ subs[s].pc = "send"
  /\ LET m == subs[s].hand IN
     \/ /\ subs[s].closed
        /\ panicked' = TRUE /\ UNCHANGED <<subs, committed>>
     \/ /\ ~subs[s].closed /\ ~Full(s)
        /\ subs' = [subs EXCEPT ![s].pc = AfterSend(s), ![s].hand = 0,
                                ![s].ch = Append(@, Received(m, s))]
        /\ committed' \in {committed} \cup (IF owner = s THEN {m} ELSE {})
        /\ UNCHANGED panicked
     \/ /\ Done(s)
        /\ subs' = [subs EXCEPT ![s].pc = "off", ![s].hand = 0]
        /\ UNCHANGED <<committed, panicked>>
     \/ /\ ~subs[s].closed /\ Full(s) /\ ~Done(s)
        /\ subs' = [subs EXCEPT ![s].pc = "read", ![s].hand = 0]
        /\ UNCHANGED <<committed, panicked>>
  /\ UNCHANGED <<conf, ready, clock, log, outbox, owner, reg, cancelled, calls>>

Deliver(s) ==
  NatsCallback(s) \/ NatsLose(s) \/ KafkaAssign(s) \/ KafkaRead(s) \/ KafkaSend(s)

-----------------------------------------------------------------------------
(* The life of the driver. *)

(* Initialize and Start; the brokers may not be reached.                  *)
Comes(state) ==
  /\ ready = "new" /\ ready' = state
  /\ UNCHANGED <<conf, clock, broker, subs, reg, cancelled, calls, panicked>>

MemInitialize   == kind = "mem" /\ Comes("up")
NatsInitialize  == kind = "nats" /\ (Comes("up") \/ Comes("new"))
KafkaInitialize == kind = "kafka" /\ (Comes("up") \/ Comes("new"))

Initialize == MemInitialize \/ NatsInitialize \/ KafkaInitialize

(* Stop takes down the subscription the map holds: in memory its channel   *)
(* is closed and stays in the map.                                         *)
MemStop ==
  /\ kind = "mem"
  /\ panicked' = (panicked \/ (reg # 0 /\ subs[reg].closed))
  /\ subs' = [s \in Subs |-> [subs[s] EXCEPT !.closed = @ \/ s = reg]]
  /\ UNCHANGED <<reg, owner>>

(* The connection is closed, and with it every subscription.               *)
NatsStop ==
  /\ kind = "nats"
  /\ subs' = [s \in Subs |-> [subs[s] EXCEPT !.open = FALSE]]
  /\ reg' = 0 /\ UNCHANGED <<owner, panicked>>

KafkaStop ==
  /\ kind = "kafka"
  /\ subs' = IF reg = 0 THEN subs ELSE KafkaClosed(reg)
  /\ reg' = 0 /\ owner' = IF owner = reg THEN 0 ELSE owner
  /\ UNCHANGED panicked

DriverStop ==
  /\ ready = "up" /\ ready' = "down"
  /\ MemStop \/ NatsStop \/ KafkaStop
  /\ UNCHANGED <<conf, clock, log, outbox, committed, cancelled, calls>>

(* What is left of a driver when its process has ended.                    *)
DriverLost ==
  /\ ready' = "new" /\ subs' = <<>> /\ reg' = 0 /\ cancelled' = {} /\ owner' = 0
  /\ outbox' = <<>> /\ sending' = Nothing /\ closing' = 0 /\ panicked' = FALSE
  /\ UNCHANGED <<conf, clock, log, committed>>
=============================================================================
