----------------------------- MODULE Multicast -----------------------------
(***************************************************************************)
(* The multicast registry (patterns/multicast_registry): the coordinator's *)
(* own map of identities beside the registry backend, the expiry of both,  *)
(* and the fan-out of a message with its retries.                          *)
(*                                                                         *)
(* c.mu covers Register, Unregister and the clean-up with their calls of   *)
(* the backend, so each is one step; Multicast only reads the map under it *)
(* and delivers afterwards.  Backends fail: a call may have taken effect   *)
(* or not when it returns an error.  No adapter filters by itself, so that *)
(* Enumerate always goes through the map.                                  *)
(***************************************************************************)
EXTENDS KVStore

CONSTANTS
  Tags,           \* metadata, as far as filters tell them apart
  Second,         \* ticks of the clock in a second
  MaxIdentities,  \* 0 is no limit
  RetryAttempts

VARIABLES
  idents,           \* the coordinator's map: of each identity, its entry or NoEntry
  closing, cleaner, \* stopCleanup is closed; the clean-up goroutine runs
  cast,             \* the Multicast under way
  results, tries,   \* of each identity: its delivery, and failed attempts
  reached,          \* of each identity: copies the messaging backend took
  casts, changes,   \* Multicasts, and Registers and Unregisters, so far
  doubt             \* identities for which a backend call failed

coord == <<idents, closing, cleaner, cast, results, tries, reached, casts, changes, doubt>>
vars  == <<conf, now, kv, coord>>

adapter    == conf.adapter  \* "kv" or "redis": KeyValueRegistryAdapter, RedisRegistryBackend
Faults     == conf.faults   \* backend calls may fail
Closes     == conf.closes   \* Close is called
MaxCasts   == conf.casts    \* bound: Multicasts
MaxChanges == conf.changes  \* bound: Registers and Unregisters

NoEntry == [exp |-> -1, tag |-> "", ttl |-> 0]
NoCast  == [on |-> FALSE, targets |-> {}]

Init ==
  /\ KVInit
  /\ idents = [i \in Keys |-> NoEntry]
  /\ closing = FALSE /\ cleaner = (conf.kind # "mem")
  /\ cast = NoCast /\ results = [i \in Keys |-> ""] /\ tries = [i \in Keys |-> 0]
  /\ reached = [i \in Keys |-> 0] /\ casts = 0 /\ changes = 0 /\ doubt = {}

Present == {i \in Keys : idents[i] # NoEntry}
Live    == {i \in Present : ~Expired(idents[i].exp)}

-----------------------------------------------------------------------------
(* The registry backend.  KeyValueRegistryAdapter cuts the TTL to whole    *)
(* seconds, and passes none when that leaves nothing; HSet in              *)
(* RedisRegistryBackend leaves the TTL of a key that is there as it is.    *)
KeyValueSet(i, t) == Put(i, (t \div Second) * Second)

RedisRegistrySet(i, t) ==
  /\ data' = data \cup {i}
  /\ ttl' = [ttl EXCEPT ![i] = IF t # 0 THEN Until(t) ELSE IF Found(i) THEN @ ELSE Never]

(* Close has come to closing the backends; the adapters' Close is empty.   *)
Closed == closing /\ ~cleaner /\ adapter = "redis"

Stores(i, t) ==
  ~Closed /\ IF adapter = "kv" THEN KeyValueSet(i, t) ELSE RedisRegistrySet(i, t)
Erases(i)    == ~Closed /\ Drop(i)

(* A Set that returns an error: nothing stored, everything stored, or the  *)
(* hash without its Expire.                                                *)
SetFails(i, t) ==
  /\ Faults \/ Closed
  /\ doubt' = doubt \cup {i}
  /\ \/ UNCHANGED <<data, ttl>>
     \/ Stores(i, t)
     \/ adapter = "redis" /\ ~Closed /\ RedisRegistrySet(i, 0)

DeleteFails(i) ==
  /\ Faults \/ Closed
  /\ doubt' = doubt \cup {i}
  /\ UNCHANGED <<data, ttl>> \/ Erases(i)

(* Mutant: the identity is tracked before the backend has answered.        *)
RegisterTracksFirst(i, g, t) ==
  /\ i \notin Present /\ changes < MaxChanges
  /\ MaxIdentities > 0 => Cardinality(Present) < MaxIdentities
  /\ changes' = changes + 1
  /\ idents' = [idents EXCEPT ![i] = [exp |-> Until(t), tag |-> g, ttl |-> t]]
  /\ \/ Stores(i, t)
     \/ Faults /\ UNCHANGED <<data, ttl>>
  /\ UNCHANGED <<conf, now, due, call, calls, written, answer, closing, cleaner,
                 cast, results, tries, reached, casts, doubt>>

Register(i, g, t) ==
  /\ i \notin Present /\ changes < MaxChanges
  /\ MaxIdentities > 0 => Cardinality(Present) < MaxIdentities
  /\ changes' = changes + 1
  /\ \/ /\ Stores(i, t)
        /\ idents' = [idents EXCEPT ![i] = [exp |-> Until(t), tag |-> g, ttl |-> t]]
        /\ doubt' = IF adapter = "redis" /\ t = 0 THEN doubt ELSE doubt \ {i}
     \/ SetFails(i, t) /\ UNCHANGED idents
  /\ UNCHANGED <<conf, now, due, call, calls, written, answer, closing, cleaner,
                 cast, results, tries, reached, casts>>

Unregister(i) ==
  /\ i \in Present /\ changes < MaxChanges
  /\ changes' = changes + 1
  /\ \/ /\ Erases(i)
        /\ idents' = [idents EXCEPT ![i] = NoEntry]
        /\ doubt' = doubt \ {i}
     \/ DeleteFails(i) /\ UNCHANGED idents
  /\ UNCHANGED <<conf, now, due, call, calls, written, answer, closing, cleaner,
                 cast, results, tries, reached, casts>>

(* performCleanup: the errors of Delete are dropped; kept are the keys for *)
(* which it fails.                                                         *)
Cleanup ==
  /\ cleaner /\ Present # Live
  /\ \E kept \in SUBSET (Present \ Live) :
       /\ kept # {} => Faults
       /\ data' = data \ ((Present \ Live) \ kept)
       /\ ttl' = [k \in Keys |-> IF k \in (Present \ Live) \ kept THEN Never ELSE ttl[k]]
       /\ doubt' = doubt \cup kept
  /\ idents' = [i \in Keys |-> IF i \in Live THEN idents[i] ELSE NoEntry]
  /\ UNCHANGED <<conf, now, due, call, calls, written, answer, closing, cleaner,
                 cast, results, tries, reached, casts, changes>>

-----------------------------------------------------------------------------
(* Enumerate with a filter: a tag to match, or none.                       *)
Matches(f, entry) == f # "" => entry.tag = f

Enumerate(f) == {i \in Live : Matches(f, idents[i])}

MulticastBegins(f) ==
  /\ ~cast.on /\ casts < MaxCasts
  /\ cast' = [on |-> TRUE, targets |-> Enumerate(f)]
  /\ results' = [i \in Keys |-> ""] /\ tries' = [i \in Keys |-> 0]
  /\ reached' = [i \in Keys |-> 0]
  /\ casts' = casts + 1
  /\ UNCHANGED <<conf, now, kv, idents, closing, cleaner, changes, doubt>>

Settle(i, r) == results' = [results EXCEPT ![i] = r]

(* Mutant: the last failed attempt counts as delivered.                    *)
DeliverAssumes(i) ==
  /\ cast.on /\ i \in cast.targets /\ results[i] = ""
  /\ Faults \/ Closed
  /\ tries' = [tries EXCEPT ![i] = @ + 1]
  /\ results' = [results EXCEPT ![i] = IF tries[i] < RetryAttempts THEN "" ELSE "delivered"]
  /\ UNCHANGED <<conf, now, kv, idents, closing, cleaner, cast, reached, casts, changes, doubt>>

(* One attempt of the goroutine that delivers to i.                        *)
Deliver(i) ==
  /\ cast.on /\ i \in cast.targets /\ results[i] = ""
  /\ \/ /\ ~Closed
        /\ Settle(i, "delivered")
        /\ reached' = [reached EXCEPT ![i] = @ + 1]
        /\ UNCHANGED tries
     \/ /\ Faults \/ Closed
        /\ tries' = [tries EXCEPT ![i] = @ + 1]
        /\ reached' \in {reached} \cup
             (IF Closed THEN {} ELSE {[reached EXCEPT ![i] = @ + 1]})
        /\ Settle(i, IF tries[i] < RetryAttempts THEN "" ELSE "failed")
  /\ UNCHANGED <<conf, now, kv, idents, closing, cleaner, cast, casts, changes, doubt>>

(* All deliveries are done: the response counts the results.               *)
MulticastReturns ==
  /\ cast.on /\ \A i \in cast.targets : results[i] # ""
  /\ cast' = [cast EXCEPT !.on = FALSE]
  /\ UNCHANGED <<conf, now, kv, idents, closing, cleaner, results, tries, reached,
                 casts, changes, doubt>>

(* Close tells the clean-up goroutine to end and waits for it, then closes *)
(* the backends.                                                           *)
Close ==
  /\ Closes /\ ~closing
  /\ closing' = TRUE
  /\ UNCHANGED <<conf, now, kv, idents, cleaner, cast, results, tries, reached, casts,
                 changes, doubt>>

CleanerEnds ==
  /\ closing /\ cleaner
  /\ cleaner' = FALSE
  /\ UNCHANGED <<conf, now, kv, idents, closing, cast, results, tries, reached, casts,
                 changes, doubt>>

Coordinator ==
  /\ kind # "mem"
  /\ \/ \E i \in Used : \/ \E g \in Tags, t \in TTLs : Register(i, g, t)
                        \/ Unregister(i) \/ Deliver(i)
     \/ Cleanup \/ MulticastReturns \/ Close \/ CleanerEnds
     \/ \E f \in Tags \cup {""} : MulticastBegins(f)

Next == Coordinator \/ (KVNext /\ UNCHANGED coord)

Spec == Init /\ [][Next]_vars

-----------------------------------------------------------------------------
(* The registry backend has the record of exactly the identities that the  *)
(* coordinator takes for registered and not expired, as long as TTLs are   *)
(* whole seconds, Redis holds the records, and no backend call for the     *)
(* identity has failed since its last Register.  Map and backend expire    *)
(* separately.  (A Register without TTL that follows a failed one with a   *)
(* TTL does not remove the TTL from the Redis hash, and leaves the doubt.) *)
RegistryAgrees ==
  kind = "redis" =>
    \A i \in Keys \ doubt :
      idents[i].ttl % Second = 0 => (Found(i) <=> i \in Live)

(* When a Multicast has ended, every target has a result, a target counted *)
(* as delivered was handed to the messaging backend, nobody else was, and  *)
(* no target more often than the attempts allow.                           *)
MulticastAccounts ==
  ~cast.on =>
    \A i \in Keys :
      /\ (results[i] # "") <=> (i \in cast.targets)
      /\ results[i] = "delivered" => reached[i] > 0
      /\ reached[i] <= IF i \in cast.targets THEN RetryAttempts + 1 ELSE 0

============================================================================
