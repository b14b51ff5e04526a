----------------------------- MODULE MCPatterns -----------------------------
(* Instances of the consumer, of the mailbox with its drivers, and of the  *)
(* multicast registry with its stores.  In a behaviour one of them runs,   *)
(* part; the others stay as they are at first.                             *)
EXTENDS MCConsumer, Integers, Sequences

CONSTANTS
  Buffer, Epoch, Second, MaxSubs, Retention,    \* Mailbox
  Keys, Clients, Tags, MaxIdentities, RetryAttempts  \* Multicast

VARIABLES
  part,
  bconf, ready, clock, log, outbox, subs, reg, cancelled, committed, owner, sending, closing,
  panicked, stage, kills, bstarts, brunning, bpc, got, src, table, rows, received, bfailed,
  rconf, now, data, ttl, due, call, calls, written, answer, idents, rclosing, cleaner, cast,
  results, tries, reached, casts, changes, doubt

consumer  == vars
mailbox   == <<bconf, ready, clock, log, outbox, subs, reg, cancelled, committed, owner, sending,
               closing, panicked, stage, kills, bstarts, brunning, bpc, got, src, table, rows,
               received, bfailed>>
multicast == <<rconf, now, data, ttl, due, call, calls, written, answer, idents, rclosing,
               cleaner, cast, results, tries, reached, casts, changes, doubt>>
all       == <<part, consumer, mailbox, multicast>>

-----------------------------------------------------------------------------
(* The mailbox over each driver: run for a while, with the mailbox stopped *)
(* and started again, with its process killed, with a client that          *)
(* unsubscribes.                                                           *)
Plain(k)      == [kind |-> k, restarts |-> FALSE, unsubs |-> FALSE, starts |-> 1,
                  kills |-> 0, messages |-> 2, ticks |-> 0]
Aging(k)      == [Plain(k) EXCEPT !.ticks = 2]
Restarting(k) == [Plain(k) EXCEPT !.restarts = TRUE, !.starts = 2]
Killed(k)     == [Plain(k) EXCEPT !.kills = 1, !.starts = 2]
Leaving(k)    == [Plain(k) EXCEPT !.unsubs = TRUE]

MailboxSetups ==
  {Aging("mem"), Killed("kafka"), Killed("nats"), Restarting("mem"), Restarting("nats"),
   [Restarting("kafka") EXCEPT !.messages = 1]}
    \cup {Leaving(k) : k \in {"mem", "nats", "kafka"}}

(* Two calls of Start that succeed.                                        *)
B == INSTANCE Mailbox
       WITH conf <- bconf, starts <- bstarts, running <- brunning, pc <- bpc, failed <- bfailed,
            MaxStarts <- 2, Setups <- MailboxSetups

-----------------------------------------------------------------------------
Quiet == [kind |-> "mem", keys |-> {"a", "b"}, maxKeys |-> 1, ttls |-> {0, 1}, rewrites |-> FALSE,
          calls |-> 0, now |-> 1, stops |-> FALSE,
          adapter |-> "kv", faults |-> FALSE, closes |-> FALSE, casts |-> 0, changes |-> 0]

(* The in-memory store: keys set once, more keys than there is room for,   *)
(* and keys set again and again.                                           *)
Once      == [Quiet EXCEPT !.calls = 4, !.now = 3]
Full      == [Quiet EXCEPT !.keys = Keys, !.calls = 4, !.ttls = {0}]
Rewriting == [Quiet EXCEPT !.calls = 4, !.now = 2, !.rewrites = TRUE, !.ttls = {1},
                           !.stops = TRUE]

(* The coordinator, with TTLs of half a second and of a second.            *)
Expiring(k, a) == [Quiet EXCEPT !.kind = k, !.adapter = a, !.ttls = {0, 1, 2}, !.now = 5,
                                !.faults = TRUE, !.changes = 3]
Casting(a)     == [Quiet EXCEPT !.kind = "redis", !.adapter = a, !.ttls = {0}, !.faults = TRUE,
                                !.closes = TRUE, !.casts = 2, !.changes = 2]

MulticastSetups ==
  {Once, Full, Rewriting, Casting("kv"), Casting("redis"), Expiring("redis", "kv"),
   Expiring("redis", "redis"), Expiring("postgres", "kv")}

(* Two ticks of the clock in a second.                                     *)
R == INSTANCE Multicast
       WITH conf <- rconf, closing <- rclosing, Second <- 2, Setups <- MulticastSetups

-----------------------------------------------------------------------------
Some(set) == CHOOSE x \in set : TRUE

MCInit ==
  /\ part \in {"consumer", "mailbox", "multicast"}
  /\ Init   /\ (part # "consumer"  => conf = Working)
  /\ B!Init /\ (part # "mailbox"   => bconf = Some(MailboxSetups))
  /\ R!Init /\ (part # "multicast" => rconf = Some(MulticastSetups))

MCNext ==
  /\ UNCHANGED part
  /\ \/ part = "consumer"  /\ Next   /\ UNCHANGED <<mailbox, multicast>>
     \/ part = "mailbox"   /\ B!Next /\ UNCHANGED <<consumer, multicast>>
     \/ part = "multicast" /\ R!Next /\ UNCHANGED <<consumer, mailbox>>

MCSpec == MCInit /\ [][MCNext]_all /\ Fairness

-----------------------------------------------------------------------------
(* Mailbox: a healthy mailbox has its loop running.                        *)
HealthyIsConsuming == B!HealthyIsConsuming
(* Mailbox: a message is stored once, and for the retention time.          *)
RowsKept == B!RowsKept
(* KVStore: concurrent Sets pass the limit by less than their number.      *)
CapacityBound == R!CapacityBound
(* KVStore: a Get does not return a value that had expired.                *)
ExpiredNotServed == R!ExpiredNotServed
(* Multicast: coordinator and backend agree on who is registered.          *)
RegistryAgrees == R!RegistryAgrees
(* Multicast: the results of a Multicast account for what was sent.        *)
MulticastAccounts == R!MulticastAccounts
=============================================================================
