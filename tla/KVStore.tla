------------------------------ MODULE KVStore ------------------------------
(***************************************************************************)
(* The key-value drivers (pkg/drivers: memstore, redis, postgres) behind   *)
(* Set, Get, Exists and Delete.  The in-memory store keeps the values and  *)
(* their expiration times in two maps and takes no lock over both, so its  *)
(* operations are several steps here, interleaved with one another and     *)
(* with the periodic clean-up.  Redis and Postgres do each operation in    *)
(* one command; Redis expires keys itself, Postgres ignores the TTL.       *)
(*                                                                         *)
(* What a value is does not matter; due is the time after which the last   *)
(* value set for a key should be gone.                                     *)
(***************************************************************************)
EXTENDS Integers, FiniteSets

CONSTANTS
  Keys,
  Clients,  \* goroutines that call the store
  Setups    \* drivers and their use (see conf)

Never   == 0
Cleaner == "cleaner"
Callers == Clients \cup {Cleaner}

VARIABLES
  conf,       \* the setup, chosen at first
  now,
  data, ttl,  \* the keys that have a value; of each key: its expiration time
  due,        \* of each key: when its value expires, as its Set meant it
  call,       \* of each caller: its operation
  calls,      \* operations begun
  written,    \* keys that Set was called for
  answer      \* of each client: the due time of what its Get found, and when it asked

kv == <<data, ttl, due, call, calls, written, answer>>

kind     == conf.kind      \* the driver: "mem", "redis" or "postgres"
MaxKeys  == conf.maxKeys   \* max_keys
Used     == conf.keys      \* the keys that calls name
TTLs     == conf.ttls      \* the TTLs that callers use; 0 is none
Rewrites == conf.rewrites  \* a key may be set again, or deleted
MaxCalls == conf.calls     \* bound: operations on the in-memory store
MaxNow   == conf.now       \* bound: the clock

Idle  == [pc |-> "idle", key |-> "", ttl |-> 0, at |-> 0]
Until(t) == IF t = 0 THEN Never ELSE now + t
Expired(t) == t # Never /\ now > t

KVInit ==
  /\ conf \in Setups /\ now = 1
  /\ data = {} /\ ttl = [k \in Keys |-> Never] /\ due = ttl
  /\ call = [c \in Callers |-> Idle] /\ calls = 0 /\ written = {}
  /\ answer = [c \in Clients |-> [due |-> Never, at |-> 0]]

Tick ==
  /\ now < MaxNow /\ now' = now + 1
  /\ UNCHANGED <<conf, kv>>

-----------------------------------------------------------------------------
(* Redis and Postgres: one command each.                                   *)

RedisSet(k, t) ==
  /\ data' = data \cup {k}
  /\ ttl'  = [ttl EXCEPT ![k] = Until(t)]

(* INSERT ... ON CONFLICT UPDATE; the TTL is not stored.                   *)
PostgresSet(k) == data' = data \cup {k} /\ UNCHANGED ttl

Put(k, t) == IF kind = "redis" THEN RedisSet(k, t) ELSE PostgresSet(k)

RedisDelete(k)    == data' = data \ {k} /\ ttl' = [ttl EXCEPT ![k] = Never]
PostgresDelete(k) == data' = data \ {k} /\ UNCHANGED ttl

Drop(k) == IF kind = "redis" THEN RedisDelete(k) ELSE PostgresDelete(k)

RedisGet(k)    == k \in data /\ ~Expired(ttl[k])
PostgresGet(k) == k \in data

Found(k) == IF kind = "redis" THEN RedisGet(k) ELSE PostgresGet(k)

-----------------------------------------------------------------------------
(* The in-memory store, step by step.  At(c, p): c has come to step p.     *)

At(c, p) == call[c].pc = p
GoTo(c, p) == call' = [call EXCEPT ![c].pc = p]
Return(c)  == call' = [call EXCEPT ![c] = Idle]

Begin(c, p, k, t) ==
  /\ kind = "mem" /\ At(c, "idle") /\ calls < MaxCalls
  /\ call' = [call EXCEPT ![c] = [pc |-> p, key |-> k, ttl |-> t, at |-> now]]
  /\ calls' = calls + 1

(* Set counts the keys, stores the value, then its expiration.             *)
(* Mutant: the count is compared with the limit one key late.              *)
SetLate(c) ==
  \E k \in Used, t \in TTLs :
    /\ k \in written => Rewrites
    /\ Cardinality(data) > MaxKeys => k \in data
    /\ Begin(c, "store", k, t)
    /\ written' = written \cup {k}
    /\ UNCHANGED <<conf, now, data, ttl, due, answer>>

Set(c) ==
  \E k \in Used, t \in TTLs :
    /\ k \in written => Rewrites
    /\ Cardinality(data) >= MaxKeys => k \in data
    /\ Begin(c, "store", k, t)
    /\ written' = written \cup {k}
    /\ UNCHANGED <<conf, now, data, ttl, due, answer>>

SetData(c) ==
  /\ At(c, "store") /\ GoTo(c, "expire")
  /\ data' = data \cup {call[c].key}
  /\ due' = [due EXCEPT ![call[c].key] = Never]
  /\ UNCHANGED <<conf, now, ttl, calls, written, answer>>

SetTTL(c) ==
  /\ At(c, "expire") /\ Return(c)
  /\ ttl' = [ttl EXCEPT ![call[c].key] = Until(call[c].ttl)]
  /\ due' = [due EXCEPT ![call[c].key] = Until(call[c].ttl)]
  /\ UNCHANGED <<conf, now, data, calls, written, answer>>

(* Get and Exists look at the expiration first.                            *)
Get(c) ==
  \E k \in Used :
    /\ Begin(c, IF Expired(ttl[k]) THEN "purge" ELSE "load", k, 0)
    /\ UNCHANGED <<conf, now, data, ttl, due, written, answer>>

GetData(c) ==
  /\ At(c, "load") /\ Return(c)
  /\ answer' = [answer EXCEPT ![c] =
       [due |-> IF call[c].key \in data THEN due[call[c].key] ELSE Never,
        at  |-> call[c].at]]
  /\ UNCHANGED <<conf, now, data, ttl, due, calls, written>>

Delete(c) ==
  \E k \in Used :
    /\ Rewrites
    /\ Begin(c, "purge", k, 0)
    /\ UNCHANGED <<conf, now, data, ttl, due, written, answer>>

(* cleanupExpiredKeys comes to an expired key.                             *)
Clean ==
  \E k \in Keys :
    /\ kind = "mem" /\ At(Cleaner, "idle") /\ Expired(ttl[k])
    /\ call' = [call EXCEPT ![Cleaner] = [Idle EXCEPT !.pc = "purge", !.key = k]]
    /\ UNCHANGED <<conf, now, data, ttl, due, calls, written, answer>>

(* Get, Exists, Delete and the clean-up delete the value, then the expiration. *)
(* Mutant: the other way round.                                            *)
PurgeTTLFirst(c) ==
  \/ /\ At(c, "purge") /\ GoTo(c, "forget")
     /\ ttl' = [ttl EXCEPT ![call[c].key] = Never]
     /\ UNCHANGED <<conf, now, data, due, calls, written, answer>>
  \/ /\ At(c, "forget") /\ Return(c)
     /\ data' = data \ {call[c].key}
     /\ UNCHANGED <<conf, now, ttl, due, calls, written, answer>>

Purge(c) ==
  \/ /\ At(c, "purge") /\ GoTo(c, "forget")
     /\ data' = data \ {call[c].key}
     /\ UNCHANGED <<conf, now, ttl, due, calls, written, answer>>
  \/ /\ At(c, "forget") /\ Return(c)
     /\ ttl' = [ttl EXCEPT ![call[c].key] = Never]
     /\ UNCHANGED <<conf, now, data, due, calls, written, answer>>

(* Stop of the in-memory store clears both maps.                           *)
Clear ==
  /\ kind = "mem" /\ conf.stops /\ \A c \in Clients : At(c, "idle")
  /\ data' = {} /\ ttl' = [k \in Keys |-> Never]
  /\ UNCHANGED <<conf, now, due, call, calls, written, answer>>

KVNext ==
  \/ Tick \/ Clean \/ Clear
  \/ \E c \in Clients : Set(c) \/ SetData(c) \/ SetTTL(c) \/ Get(c) \/ GetData(c) \/ Delete(c)
  \/ \E c \in Callers : Purge(c)

-----------------------------------------------------------------------------
(* The in-memory store's limit: each of several concurrent Sets may find   *)
(* room before another stores its value, so that the store can hold one    *)
(* key more than max_keys for each client but the first, never more.       *)
CapacityBound ==
  kind = "mem" => Cardinality(data) <= MaxKeys + Cardinality(Clients) - 1

(* A Get that begins after a value has expired does not return it, however *)
(* the clean-up and other reads of that key interleave: they delete the    *)
(* value before its expiration time.  Stated of keys that are set once and *)
(* never deleted: a Set that overlaps the removal of its key's former      *)
(* value can lose either the new value or its expiration time.             *)
ExpiredNotServed ==
  ~Rewrites => \A c \in Clients :
                 answer[c].due = Never \/ answer[c].at <= answer[c].due
============================================================================
