--------------------------- MODULE ConsumerProofs ---------------------------
(***************************************************************************)
(* Proofs about Consumer, for any number of messages, retries, starts and  *)
(* crashes, and any set of configurations.                                 *)
(***************************************************************************)
EXTENDS Consumer, FiniteSetTheorems, TLAPS

Active(g)   == pc[g] # "off"
Handling(g) == pc[g] \in {"resolve", "process"}

(* The loop holds a copy of the saved state.                               *)
Loaded(g) == pc[g] \in {"subscribe", "loop", "resolve", "process"}

ConsumerState == [offset : Nat, retries : 0..MaxRetries]

Typed ==
  /\ conf \in Setups
  /\ running \in BOOLEAN /\ ctxDone \in BOOLEAN
  /\ starts \in 0..StartLimit /\ crashes \in Nat
  /\ pc \in [Loops -> {"off", "load", "subscribe", "loop", "resolve", "process", "exit"}]
  /\ cur \in [Loops -> Nat]
  /\ st \in [Loops -> ConsumerState]
  /\ saved \in ConsumerState
  /\ taken \in Nat
  /\ processed \subseteq 1..taken /\ failed \subseteq 1..taken
  /\ dead \subseteq failed /\ unread \subseteq failed
  /\ running => starts >= 1
  /\ \A g \in Loops : Active(g) => g <= starts

(* A message is handled by one loop and has no outcome yet.                *)
Handed ==
  /\ \A g \in Loops : Handling(g) => cur[g] \in 1..taken /\ cur[g] \notin processed \cup failed
  /\ \A g, h \in Loops : Handling(g) /\ Handling(h) /\ cur[g] = cur[h] => g = h

(* Only a claim whose message has been resolved is deleted.                *)
ClaimsInv ==
  /\ \A n \in Claims : n > taken => n \in objects
  /\ deleting \subseteq 1..taken
  /\ deleting \cap unread = {}
  /\ unread \subseteq objects
  /\ \A g \in Loops : pc[g] = "resolve" => cur[g] \in objects /\ cur[g] \notin deleting

(* Unless it is started again after a Stop, the consumer has one loop.     *)
Alone ==
  StateUnshared =>
    /\ \A g, h \in Loops : Active(g) /\ Active(h) => g = h
    /\ \A g \in Loops : Active(g) /\ ~Stops => running

(* No copy of the state is ahead of what was processed, and the copy of    *)
(* the only loop is not behind the saved one.                              *)
Position ==
  /\ saved.offset <= Cardinality(processed)
  /\ \A g \in Loops : st[g].offset <= Cardinality(processed)
  /\ StateUnshared => \A g \in Loops : Loaded(g) => st[g].offset >= saved.offset

(* A loop that may yet be started finds nothing saved; the failures that   *)
(* the loop has counted have not been spent on a dead letter.              *)
Untouched == saved = Fresh /\ dead = {} /\ failed = {}

Spent(n) == (MaxRetries + 1) * Cardinality(dead) + n <= Cardinality(failed)

Budget ==
  crashes = 0 /\ StateUnshared =>
    /\ Spent(0)
    /\ \A g \in Loops : Loaded(g) => Spent(st[g].retries)
    /\ ~running /\ starts < StartLimit => Untouched
    /\ \A g \in Loops : pc[g] \in {"load", "subscribe"} => Untouched
    /\ \A g \in Loops : pc[g] = "exit" /\ ~Stops => Untouched
    /\ \A g \in Loops : Active(g) /\ ~Stops => ~ctxDone

Inv == Typed /\ Handed /\ ClaimsInv /\ Alone /\ Position /\ Budget

-----------------------------------------------------------------------------
(* What one message can come to: the claim is read, the message is         *)
(* processed, or it fails.                                                 *)
Resolved(g) ==
  /\ pc[g] = "resolve"
  /\ deleting' \in {deleting, deleting \cup {cur[g]}}
  /\ pc' = [pc EXCEPT ![g] = "process"]
  /\ UNCHANGED <<life, cur, st, saved, taken, objects, out>>

Succeeded(g) ==
  /\ pc[g] = "process"
  /\ pc' = [pc EXCEPT ![g] = "loop"] /\ cur' = [cur EXCEPT ![g] = 0]
  /\ processed' = processed \cup {cur[g]}
  /\ \E s \in ConsumerState :
       /\ s.offset = st[g].offset + 1 /\ s.retries = 0
       /\ st' = [st EXCEPT ![g] = s]
       /\ saved' \in {saved, s}
  /\ UNCHANGED <<life, taken, objects, deleting, dead, failed, unread>>

Failed(g) ==
  /\ Handling(g)
  /\ pc' = [pc EXCEPT ![g] = "loop"] /\ cur' = [cur EXCEPT ![g] = 0]
  /\ failed' = failed \cup {cur[g]}
  /\ unread' = unread \/ (pc[g] = "resolve" /\ unread' = unread \cup {cur[g]})
  /\ \E s \in ConsumerState :
       /\ s.offset = st[g].offset
       /\ st' = [st EXCEPT ![g] = s]
       /\ saved' \in {saved, s}
       /\ \/ s.retries = st[g].retries + 1 /\ dead' = dead
          \/ /\ s.retries = 0 /\ st[g].retries = MaxRetries
             /\ dead' \in {dead, dead \cup {cur[g]}}
  /\ UNCHANGED <<life, taken, objects, deleting, processed>>

(* With retries left a failure is counted, otherwise the count starts      *)
(* again and the message may be dead-lettered.                             *)
LEMMA FailureFacts ==
  ASSUME Typed, NEW g \in Loops, HandleFailure(g)
  PROVE  /\ pc' = [pc EXCEPT ![g] = "loop"] /\ cur' = [cur EXCEPT ![g] = 0]
         /\ failed' = failed \cup {cur[g]} /\ processed' = processed
         /\ \E s \in ConsumerState :
              /\ s.offset = st[g].offset
              /\ st' = [st EXCEPT ![g] = s]
              /\ saved' \in {saved, s}
              /\ \/ s.retries = st[g].retries + 1 /\ dead' = dead
                 \/ /\ s.retries = 0 /\ st[g].retries = MaxRetries
                    /\ dead' \in {dead, dead \cup {cur[g]}}
<1>1. st[g] \in ConsumerState
  BY DEF Typed
<1>2. CASE st[g].retries < MaxRetries
  <2> DEFINE s == [st[g] EXCEPT !.retries = @ + 1]
  <2>1. /\ s \in ConsumerState
        /\ s.offset = st[g].offset
        /\ s.retries = st[g].retries + 1
    BY <1>1, <1>2, ConsumerAssumption DEF ConsumerState
  <2>2. /\ st' = [st EXCEPT ![g] = s]
        /\ saved' = s \/ saved' = saved
        /\ dead' = dead
    BY <1>2 DEF HandleFailure, SaveState
  <2> HIDE DEF s
  <2> QED
    BY <2>1, <2>2, ZenonT(60) DEF HandleFailure
<1>3. CASE ~(st[g].retries < MaxRetries)
  <2> DEFINE s == [st[g] EXCEPT !.retries = 0]
  <2>1. /\ s \in ConsumerState
        /\ s.offset = st[g].offset
        /\ s.retries = 0
        /\ st[g].retries = MaxRetries
    BY <1>1, <1>3, ConsumerAssumption DEF ConsumerState
  <2>2. /\ st' = [st EXCEPT ![g] = s]
        /\ saved' = saved
        /\ dead' \in {dead, dead \cup {cur[g]}}
    BY <1>3 DEF HandleFailure
  <2> HIDE DEF s
  <2> QED
    BY <2>1, <2>2, ZenonT(60) DEF HandleFailure
<1> QED
  BY <1>2, <1>3

(* A message that is handled is read, processed or failed.                 *)
LEMMA Outcomes ==
  ASSUME Typed, NEW g \in Loops, Resolve(g) \/ Process(g)
  PROVE  Resolved(g) \/ Succeeded(g) \/ Failed(g)
<1>1. CASE Resolve(g)
  <2>1. CASE HandleFailure(g) /\ unread' = unread \cup {cur[g]} /\ UNCHANGED deleting
    BY <1>1, <2>1, FailureFacts DEF Resolve, Failed, Handling
  <2> QED
    BY <1>1, <2>1 DEF Resolve, Resolved
<1>2. CASE Process(g)
  <2>1. CASE HandleFailure(g)
    BY <1>2, <2>1, FailureFacts DEF Process, Failed, Handling
  <2>2. CASE ~HandleFailure(g)
    <3> DEFINE s == [offset |-> st[g].offset + 1, retries |-> 0]
    <3>1. /\ s \in ConsumerState
          /\ s.offset = st[g].offset + 1
          /\ s.retries = 0
      <4>1. st[g] \in ConsumerState
        BY DEF Typed
      <4> QED
        BY <4>1, ConsumerAssumption DEF ConsumerState
    <3>2. st' = [st EXCEPT ![g] = s] /\ (saved' = saved \/ saved' = s)
      BY <1>2, <2>2 DEF Process, SaveState
    <3> HIDE DEF s
    <3> QED
      BY <1>2, <2>2, <3>1, <3>2, ZenonT(60) DEF Process, Succeeded
  <2> QED
    BY <2>1, <2>2
<1> QED
  BY <1>1, <1>2

(* A configuration allows at most MaxStarts calls of Start.                *)
LEMMA LimitType == Typed => StartLimit \in Nat /\ StartLimit <= MaxStarts
BY ConsumerAssumption DEF Typed, StartLimit

(* Every step is one of these.                                             *)
LEMMA Cases ==
  ASSUME Typed, [Next]_vars
  PROVE  \/ Start \/ Stop \/ Crash
         \/ \E g \in Loops : \/ LoadState(g) \/ Subscribe(g) \/ Take(g) \/ Leave(g) \/ Exit(g)
                             \/ Resolved(g) \/ Succeeded(g) \/ Failed(g)
         \/ \E n \in Claims : DeleteClaim(n)
         \/ UNCHANGED vars
BY Outcomes DEF Next, LoopStep

(* Every step keeps the types.                                             *)
LEMMA TypedStep == Typed /\ Handed /\ [Next]_vars => Typed'
<1> SUFFICES ASSUME Typed, Handed, [Next]_vars PROVE Typed'
  OBVIOUS
<1> USE LimitType, ConsumerAssumption DEF Active, StartLimit
<1>1. CASE Start
  <2>1. starts + 1 \in Loops /\ starts + 1 \in 0..StartLimit
    BY <1>1 DEF Start, Typed, Loops
  <2>2. /\ pc' = [pc EXCEPT ![starts + 1] = "load"]
        /\ starts' = starts + 1 /\ running' = TRUE /\ ctxDone' = FALSE
        /\ UNCHANGED <<conf, crashes, cur, st, saved, taken, objects, deleting, out>>
    BY <1>1 DEF Start
  <2>3. \A g \in Loops : Active(g)' => g <= starts'
    BY <2>1, <2>2 DEF Typed, Loops
  <2>4. starts' \in 0..StartLimit' /\ starts' >= 1
    BY <2>1, <2>2 DEF Typed
  <2>5. pc' \in [Loops -> {"off", "load", "subscribe", "loop", "resolve", "process", "exit"}]
    BY <2>1, <2>2 DEF Typed
  <2> QED
    BY <2>2, <2>3, <2>4, <2>5, Zenon DEF Typed, out
<1>2. CASE Stop
  BY <1>2, ZenonT(60) DEF Stop, Typed, loop, out
<1>3. CASE Crash
  <2>1. /\ crashes' \in Nat /\ running' = FALSE /\ ctxDone' = TRUE
        /\ pc' = [g \in Loops |-> "off"] /\ cur' \in [Loops -> Nat]
        /\ UNCHANGED <<conf, starts, st, saved, taken, out>>
    BY <1>3 DEF Crash, Typed
  <2> QED
    BY <2>1, ZenonT(60) DEF Typed, out
<1>4. ASSUME NEW g \in Loops, LoadState(g) \/ Subscribe(g) \/ Leave(g) \/ Exit(g) PROVE Typed'
  <2>1. /\ Active(g)
        /\ \E v \in {"off", "subscribe", "loop", "exit"} : pc' = [pc EXCEPT ![g] = v]
        /\ st' = st \/ st' = [st EXCEPT ![g] = saved]
        /\ running' = running \/ running' = FALSE
        /\ UNCHANGED <<conf, ctxDone, starts, crashes, cur, saved, taken, out>>
    BY <1>4 DEF LoadState, Subscribe, Leave, Exit, life
  <2>2. st' \in [Loops -> ConsumerState]
    BY <2>1 DEF Typed
  <2>3. /\ pc' \in [Loops -> {"off", "load", "subscribe", "loop", "resolve", "process", "exit"}]
        /\ \A h \in Loops : Active(h)' => Active(h)
    BY <2>1 DEF Typed
  <2>4. running' \in BOOLEAN /\ (running' => running)
    <3>1. running \in BOOLEAN
      BY DEF Typed
    <3>2. CASE running' = running
      BY <3>1, <3>2
    <3>3. CASE running' = FALSE
      BY <3>3, ZenonT(60)
    <3> QED
      BY <2>1, <3>2, <3>3, ZenonT(60)
  <2> QED
    BY <2>1, <2>2, <2>3, <2>4, ZenonT(60) DEF Typed, out
<1>5. ASSUME NEW g \in Loops, Take(g) PROVE Typed'
  <2>1. /\ Active(g)
        /\ \E v \in {"resolve", "process"} : pc' = [pc EXCEPT ![g] = v]
        /\ cur' = [cur EXCEPT ![g] = taken + 1]
        /\ taken' = taken + 1
        /\ UNCHANGED <<life, st, saved, out>>
    BY <1>5, ZenonT(60) DEF Take
  <2>2. /\ pc' \in [Loops -> {"off", "load", "subscribe", "loop", "resolve", "process", "exit"}]
        /\ \A h \in Loops : Active(h)' => Active(h)
    BY <2>1 DEF Typed
  <2>3. taken \in Nat /\ 1..taken \subseteq 1..taken'
    BY <2>1 DEF Typed
  <2> QED
    BY <2>1, <2>2, <2>3 DEF Typed, out, life
<1>6. ASSUME NEW g \in Loops, Resolved(g) PROVE Typed'
  BY <1>6 DEF Resolved, Typed, out, life
<1>7. ASSUME NEW g \in Loops, Succeeded(g) PROVE Typed'
  <2>1. cur[g] \in 1..taken
    BY <1>7 DEF Succeeded, Handed, Handling
  <2>2. st' \in [Loops -> ConsumerState] /\ saved' \in ConsumerState
    BY <1>7 DEF Succeeded, Typed
  <2>3. /\ pc' \in [Loops -> {"off", "load", "subscribe", "loop", "resolve", "process", "exit"}]
        /\ cur' \in [Loops -> Nat]
        /\ \A h \in Loops : Active(h)' => Active(h)
    BY <1>7 DEF Succeeded, Typed
  <2> QED
    BY <1>7, <2>1, <2>2, <2>3, ZenonT(60) DEF Succeeded, Typed, life
<1>8. ASSUME NEW g \in Loops, Failed(g) PROVE Typed'
  <2>1. cur[g] \in 1..taken
    BY <1>8 DEF Failed, Handed
  <2>2. st' \in [Loops -> ConsumerState] /\ saved' \in ConsumerState
    BY <1>8 DEF Failed, Typed
  <2>3. /\ pc' \in [Loops -> {"off", "load", "subscribe", "loop", "resolve", "process", "exit"}]
        /\ cur' \in [Loops -> Nat]
        /\ \A h \in Loops : Active(h)' => Active(h)
    BY <1>8 DEF Failed, Handling, Typed
  <2>4. dead' \subseteq failed' /\ unread' \subseteq failed' /\ failed' \subseteq 1..taken
    BY <1>8, <2>1, ZenonT(60) DEF Failed, Typed
  <2> QED
    BY <1>8, <2>2, <2>3, <2>4 DEF Failed, Typed, life
<1>9. ASSUME NEW n \in Claims, DeleteClaim(n) PROVE Typed'
  BY <1>9 DEF DeleteClaim, Typed, life, loop, out
<1>10. CASE UNCHANGED vars
  BY <1>10 DEF vars, Typed, life, loop, out
<1> QED
  BY <1>1, <1>2, <1>3, <1>4, <1>5, <1>6, <1>7, <1>8, <1>9, <1>10, Cases

(* A message taken from the source is new, and an outcome ends its         *)
(* handling.                                                               *)
LEMMA HandedStep == Typed /\ Handed /\ [Next]_vars => Handed'
<1> SUFFICES ASSUME Typed, Handed, [Next]_vars PROVE Handed'
  OBVIOUS
<1> USE DEF Handling
<1>t. /\ pc \in [Loops -> {"off", "load", "subscribe", "loop", "resolve", "process", "exit"}]
      /\ cur \in [Loops -> Nat]
  BY DEF Typed
<1>k. ASSUME \A h \in Loops : Handling(h)' => Handling(h) /\ cur'[h] = cur[h],
             UNCHANGED <<taken, processed, failed>>
      PROVE  Handed'
  BY <1>k DEF Handed
<1>1. CASE Start
  BY <1>1, <1>k, <1>t DEF Start, out
<1>2. CASE Stop
  BY <1>2, <1>k DEF Stop, out, loop
<1>3. CASE Crash
  BY <1>3, <1>k DEF Crash, out
<1>4. ASSUME NEW g \in Loops, LoadState(g) \/ Subscribe(g) \/ Leave(g) \/ Exit(g) PROVE Handed'
  <2>1. /\ \E v \in {"off", "subscribe", "loop", "exit"} : pc' = [pc EXCEPT ![g] = v]
        /\ UNCHANGED <<cur, taken, out>>
    BY <1>4 DEF LoadState, Subscribe, Leave, Exit
  <2> QED
    BY <1>k, <1>t, <2>1 DEF out
<1>5. ASSUME NEW g \in Loops, Take(g) PROVE Handed'
  <2>1. /\ taken' = taken + 1
        /\ cur'[g] = taken + 1
        /\ \A h \in Loops : h # g => pc'[h] = pc[h] /\ cur'[h] = cur[h]
        /\ UNCHANGED <<processed, failed>>
    BY <1>5, <1>t DEF Take, out
  <2>2. taken \in Nat /\ processed \subseteq 1..taken /\ failed \subseteq 1..taken
    BY DEF Typed
  <2>3. taken + 1 \notin 1..taken /\ taken + 1 \in 1..taken' /\ 1..taken \subseteq 1..taken'
    BY <2>1, <2>2
  <2> QED
    BY <2>1, <2>2, <2>3 DEF Handed
<1>6. ASSUME NEW g \in Loops, Resolved(g) PROVE Handed'
  BY <1>6, <1>k, <1>t DEF Resolved, out
<1>7. ASSUME NEW g \in Loops, Succeeded(g) \/ Failed(g) PROVE Handed'
  <2>1. /\ Handling(g)
        /\ pc' = [pc EXCEPT ![g] = "loop"]
        /\ cur' = [cur EXCEPT ![g] = 0]
        /\ processed' \subseteq processed \cup {cur[g]}
        /\ failed' \subseteq failed \cup {cur[g]}
        /\ taken' = taken
    BY <1>7 DEF Succeeded, Failed
  <2>2. \A h \in Loops : Handling(h)' => h # g /\ Handling(h) /\ cur'[h] = cur[h] /\ cur[h] # cur[g]
    BY <1>t, <2>1 DEF Handed
  <2> QED
    BY <2>1, <2>2 DEF Handed
<1>8. ASSUME NEW n \in Claims, DeleteClaim(n) PROVE Handed'
  BY <1>8, <1>k DEF DeleteClaim, out, loop
<1>9. CASE UNCHANGED vars
  BY <1>9, <1>k DEF vars, out, loop
<1> QED
  BY <1>1, <1>2, <1>3, <1>4, <1>5, <1>6, <1>7, <1>8, <1>9, Cases

(* The deletion of a claim is started once, by the loop that has read it.  *)
LEMMA ClaimsStep == Typed /\ Handed /\ ClaimsInv /\ [Next]_vars => ClaimsInv'
<1> SUFFICES ASSUME Typed, Handed, ClaimsInv, [Next]_vars PROVE ClaimsInv'
  OBVIOUS
<1>t. /\ pc \in [Loops -> {"off", "load", "subscribe", "loop", "resolve", "process", "exit"}]
      /\ cur \in [Loops -> Nat]
  BY DEF Typed
<1>k. ASSUME \A h \in Loops : pc'[h] = "resolve" => pc[h] = "resolve" /\ cur'[h] = cur[h],
             UNCHANGED <<taken, unread, objects>>, deleting' \subseteq deleting
      PROVE  ClaimsInv'
  BY <1>k, ZenonT(60) DEF ClaimsInv
<1>1. CASE Start
  BY <1>1, <1>k, <1>t DEF Start, out
<1>2. CASE Stop
  BY <1>2, <1>k DEF Stop, out, loop
<1>3. CASE Crash
  BY <1>3, <1>k DEF Crash, out
<1>4. ASSUME NEW g \in Loops, LoadState(g) \/ Subscribe(g) \/ Leave(g) \/ Exit(g) PROVE ClaimsInv'
  <2>1. /\ \E v \in {"off", "subscribe", "loop", "exit"} : pc' = [pc EXCEPT ![g] = v]
        /\ UNCHANGED <<cur, taken, objects, deleting, out>>
    BY <1>4 DEF LoadState, Subscribe, Leave, Exit
  <2> QED
    BY <1>k, <1>t, <2>1 DEF out
<1>5. ASSUME NEW g \in Loops, Take(g) PROVE ClaimsInv'
  <2>1. /\ taken' = taken + 1
        /\ cur'[g] = taken + 1
        /\ pc'[g] = "resolve" => taken + 1 \in Claims
        /\ \A h \in Loops : h # g => pc'[h] = pc[h] /\ cur'[h] = cur[h]
        /\ UNCHANGED <<unread, objects, deleting>>
    BY <1>5, <1>t DEF Take, out
  <2>2. taken \in Nat /\ deleting \subseteq 1..taken
    BY DEF Typed, ClaimsInv
  <2>3. /\ taken + 1 \notin deleting
        /\ deleting \subseteq 1..taken'
        /\ \A n \in Claims : n > taken' => n > taken
        /\ taken + 1 \in Claims => taken + 1 \in objects
    BY <2>1, <2>2, ConsumerAssumption DEF ClaimsInv
  <2> QED
    BY <2>1, <2>3 DEF ClaimsInv
<1>6. ASSUME NEW g \in Loops, Resolved(g) PROVE ClaimsInv'
  <2>1. /\ cur[g] \in 1..taken
        /\ cur[g] \notin unread
        /\ \A h \in Loops : pc[h] = "resolve" /\ h # g => cur[h] # cur[g]
    BY <1>6 DEF Resolved, Handed, Handling, Typed
  <2>2. /\ pc'[g] = "process"
        /\ \A h \in Loops : h # g => pc'[h] = pc[h]
        /\ deleting' \subseteq deleting \cup {cur[g]}
        /\ UNCHANGED <<cur, taken, objects, unread>>
    BY <1>6, <1>t DEF Resolved, out
  <2> QED
    BY <2>1, <2>2, ZenonT(60) DEF ClaimsInv
<1>7. ASSUME NEW g \in Loops, Succeeded(g) \/ Failed(g) PROVE ClaimsInv'
  <2>1. /\ pc' = [pc EXCEPT ![g] = "loop"]
        /\ cur' = [cur EXCEPT ![g] = 0]
        /\ unread' = unread \/ (pc[g] = "resolve" /\ unread' = unread \cup {cur[g]})
        /\ UNCHANGED <<taken, objects, deleting>>
    BY <1>7 DEF Succeeded, Failed
  <2> QED
    BY <1>t, <2>1 DEF ClaimsInv
<1>8. ASSUME NEW n \in Claims, DeleteClaim(n) PROVE ClaimsInv'
  <2>1. /\ n \in deleting
        /\ deleting' = deleting \ {n}
        /\ objects' \in {objects, objects \ {n}}
        /\ UNCHANGED <<pc, cur, taken, unread>>
    BY <1>8 DEF DeleteClaim, loop, out
  <2>2. n \in 1..taken /\ taken \in Nat
    BY <2>1 DEF ClaimsInv, Typed
  <2>3. ~(n > taken)
    BY <2>2
  <2> QED
    BY <2>1, <2>3 DEF ClaimsInv
<1>9. CASE UNCHANGED vars
  BY <1>9, <1>k DEF vars, out, loop
<1> QED
  BY <1>1, <1>2, <1>3, <1>4, <1>5, <1>6, <1>7, <1>8, <1>9, Cases

(* A second loop is started only when the first has ended or been stopped. *)
LEMMA AloneStep == Typed /\ Alone /\ [Next]_vars => Alone'
<1> SUFFICES ASSUME Typed, Alone, [Next]_vars, StateUnshared' PROVE Alone'
  BY DEF Alone
<1> USE DEF Active, Stops, StartLimit, StateUnshared
<1>t. pc \in [Loops -> {"off", "load", "subscribe", "loop", "resolve", "process", "exit"}]
  BY DEF Typed
<1>k. ASSUME \A h \in Loops : Active(h)' => Active(h), UNCHANGED <<conf, running>>
      PROVE  Alone'
  BY <1>k DEF Alone
<1>1. CASE Start
  <2>1. /\ ~running /\ running' = TRUE /\ conf' = conf
        /\ starts < StartLimit /\ starts \in Nat /\ StartLimit \in Nat
        /\ \A h \in Loops : h # starts + 1 => pc'[h] = pc[h]
    BY <1>1, <1>t, LimitType DEF Start, Typed
  <2>2. \A h \in Loops : ~Active(h)
    <3>1. CASE ~Stops
      BY <2>1, <3>1 DEF Alone
    <3>2. CASE StartLimit <= 1
      <4>1. starts = 0
        BY <2>1, <3>2
      <4> QED
        BY <4>1 DEF Typed, Loops
    <3> QED
      BY <2>1, <3>1, <3>2
  <2> QED
    BY <2>1, <2>2 DEF Alone
<1>2. CASE Stop
  BY <1>2 DEF Stop, loop, Alone
<1>3. CASE Crash
  BY <1>3 DEF Crash, Alone
<1>4. ASSUME NEW g \in Loops, Exit(g) PROVE Alone'
  <2>1. /\ Active(g) /\ ~Active(g)' /\ conf' = conf
        /\ \A h \in Loops : h # g => pc'[h] = pc[h]
    BY <1>4, <1>t DEF Exit
  <2> QED
    BY <2>1 DEF Alone
<1>5. ASSUME NEW g \in Loops, LoadState(g) \/ Subscribe(g) \/ Leave(g) \/ Take(g) PROVE Alone'
  <2>1. /\ Active(g) /\ UNCHANGED <<conf, running>>
        /\ \A h \in Loops : h # g => pc'[h] = pc[h]
    BY <1>5, <1>t DEF LoadState, Subscribe, Leave, Take, life
  <2> QED
    BY <1>k, <2>1
<1>6. ASSUME NEW g \in Loops, Resolved(g) \/ Succeeded(g) \/ Failed(g) PROVE Alone'
  <2>1. /\ Active(g) /\ UNCHANGED <<conf, running>>
        /\ \A h \in Loops : h # g => pc'[h] = pc[h]
    BY <1>6, <1>t DEF Resolved, Succeeded, Failed, Handling, life
  <2> QED
    BY <1>k, <2>1
<1>7. ASSUME NEW n \in Claims, DeleteClaim(n) PROVE Alone'
  BY <1>7, <1>k DEF DeleteClaim, life, loop
<1>8. CASE UNCHANGED vars
  BY <1>8, <1>k DEF vars, life, loop
<1> QED
  BY <1>1, <1>2, <1>3, <1>4, <1>5, <1>6, <1>7, <1>8, Cases

(* The outcomes of different messages are counted one by one.              *)
LEMMA Counted ==
  ASSUME NEW T \in Nat, NEW S \in SUBSET (1..T), NEW n
  PROVE  /\ IsFiniteSet(S)
         /\ Cardinality(S) \in Nat
         /\ n \notin S => Cardinality(S \cup {n}) = Cardinality(S) + 1
<1>1. IsFiniteSet(S)
  <2>1. IsFiniteSet(1..T)
    BY FS_Interval
  <2> QED
    BY <2>1, FS_Subset, ZenonT(60)
<1> QED
  BY <1>1, FS_CardinalityType, FS_AddElement

(* The offset of a copy of the state moves with a processed message, and   *)
(* only a loop that has the latest copy saves it.                          *)
LEMMA PositionStep ==
  ASSUME Typed, Handed, Alone, Position, [Next]_vars
  PROVE  /\ Position'
         /\ StateUnshared => saved'.offset >= saved.offset
<1> DEFINE Goal == Position' /\ (StateUnshared => saved'.offset >= saved.offset)
           N == Cardinality(processed)
<1> USE DEF Stops, StartLimit, StateUnshared
<1>t. /\ pc \in [Loops -> {"off", "load", "subscribe", "loop", "resolve", "process", "exit"}]
      /\ st \in [Loops -> ConsumerState]
      /\ saved \in ConsumerState
      /\ N \in Nat
  BY Counted, ZenonT(60) DEF Typed
<1>n. saved.offset \in Nat /\ \A h \in Loops : st[h].offset \in Nat
  BY <1>t DEF ConsumerState
<1>k. ASSUME \A h \in Loops : Loaded(h)' => Loaded(h),
             UNCHANGED <<conf, st, saved, processed>>
      PROVE  Goal
  BY <1>k, <1>n DEF Position
<1>1. CASE Start
  BY <1>1, <1>k, <1>t DEF Start, out, Loaded
<1>2. CASE Stop
  BY <1>2, <1>k DEF Stop, loop, out, Loaded
<1>3. CASE Crash
  BY <1>3, <1>k DEF Crash, out, Loaded
<1>4. ASSUME NEW g \in Loops, LoadState(g) PROVE Goal
  <2>1. /\ UNCHANGED <<conf, saved, processed>>
        /\ \A h \in Loops : h # g => pc'[h] = pc[h] /\ st'[h] = st[h]
        /\ \/ st'[g] = saved
           \/ st'[g] = st[g] /\ pc'[g] = "exit"
    BY <1>4, <1>t DEF LoadState, life, out
  <2> QED
    BY <1>n, <2>1 DEF Position, Loaded
<1>5. ASSUME NEW g \in Loops, Subscribe(g) \/ Leave(g) \/ Exit(g) \/ Take(g) PROVE Goal
  <2>1. /\ UNCHANGED <<conf, st, saved, processed>>
        /\ \A h \in Loops : h # g => pc'[h] = pc[h]
        /\ Loaded(g) \/ pc'[g] = "off"
    BY <1>5, <1>t DEF Subscribe, Leave, Exit, Take, Loaded, life, out
  <2> QED
    BY <1>k, <2>1 DEF Loaded
<1>6. ASSUME NEW g \in Loops, Resolved(g) PROVE Goal
  BY <1>6, <1>k, <1>t DEF Resolved, Loaded, life, out
<1>7. ASSUME NEW g \in Loops, Succeeded(g) \/ Failed(g) PROVE Goal
  <2>1. PICK s \in ConsumerState :
          /\ st' = [st EXCEPT ![g] = s]
          /\ saved' \in {saved, s}
          /\ \/ s.offset = st[g].offset /\ processed' = processed
             \/ s.offset = st[g].offset + 1 /\ processed' = processed \cup {cur[g]}
    BY <1>7 DEF Succeeded, Failed
  <2>2. /\ Handling(g) /\ conf' = conf
        /\ pc' = [pc EXCEPT ![g] = "loop"]
    BY <1>7 DEF Succeeded, Failed, Handling, life
  <2>3. Cardinality(processed \cup {cur[g]}) = N + 1
    BY <2>2, Counted, ZenonT(60) DEF Handed, Typed
  <2>4. /\ s.offset \in Nat
        /\ s.offset >= st[g].offset
        /\ s.offset <= Cardinality(processed')
        /\ N <= Cardinality(processed')
        /\ Cardinality(processed') \in Nat
    <3>1. s.offset \in Nat /\ st[g].offset \in Nat /\ st[g].offset <= N
      BY <1>n DEF ConsumerState, Position
    <3> QED
      BY <1>t, <2>1, <2>3, <3>1
  <2>5. StateUnshared => \A h \in Loops : Loaded(h)' => h = g
    BY <1>t, <2>2 DEF Alone, Active, Loaded, Handling
  <2>6. StateUnshared => s.offset >= saved.offset
    <3>1. StateUnshared => st[g].offset >= saved.offset
      BY <2>2 DEF Position, Loaded, Handling
    <3> QED
      BY <1>n, <2>4, <3>1
  <2>7. /\ \A h \in Loops : h # g => st'[h] = st[h]
        /\ st'[g] = s
    BY <1>t, <2>1
  <2>8. \A h \in Loops : st'[h].offset <= Cardinality(processed')
    <3>1. \A h \in Loops : st[h].offset <= N
      BY DEF Position
    <3> QED
      BY <1>n, <1>t, <2>4, <2>7, <3>1
  <2>9. saved'.offset <= Cardinality(processed')
    <3>1. saved.offset <= N
      BY DEF Position
    <3> QED
      BY <1>n, <1>t, <2>1, <2>4, <3>1
  <2>10. StateUnshared => /\ saved'.offset >= saved.offset
                          /\ s.offset >= saved'.offset
    BY <1>n, <2>1, <2>4, <2>6
  <2> QED
    BY <2>2, <2>5, <2>7, <2>8, <2>9, <2>10 DEF Position
<1>8. ASSUME NEW n \in Claims, DeleteClaim(n) PROVE Goal
  BY <1>8, <1>k DEF DeleteClaim, life, loop, out, Loaded
<1>9. CASE UNCHANGED vars
  BY <1>9, <1>k DEF vars, life, loop, out, Loaded
<1> QED
  BY <1>1, <1>2, <1>3, <1>4, <1>5, <1>6, <1>7, <1>8, <1>9, Cases

(* What a failure adds to the count, and what a dead letter takes off it.  *)
LEMMA Arithmetic ==
  ASSUME NEW R \in Nat, NEW d \in Nat, NEW f \in Nat, NEW r \in 0..R,
         (R + 1) * d + r <= f
  PROVE  /\ (R + 1) * d <= f
         /\ (R + 1) * d + (r + 1) <= f + 1
         /\ r = R => (R + 1) * (d + 1) <= f + 1
<1> DEFINE x == (R + 1) * d
<1>1. x \in Nat
  OBVIOUS
<1>2. (R + 1) * (d + 1) = x + (R + 1)
  OBVIOUS
<1> HIDE DEF x
<1>3. x + r <= f
  BY DEF x
<1>4. x <= f /\ x + (r + 1) <= f + 1 /\ (r = R => x + (R + 1) <= f + 1)
  BY <1>1, <1>3
<1> QED
  BY <1>2, <1>4 DEF x

(* Every failure is counted once, and the count starts again at each dead  *)
(* letter.                                                                 *)
LEMMA BudgetStep ==
  ASSUME Typed, Handed, Alone, Budget, [Next]_vars
  PROVE  Budget'
<1> SUFFICES ASSUME crashes' = 0, StateUnshared' PROVE Budget'
  BY DEF Budget
<1> USE DEF Stops, StartLimit, StateUnshared
<1>t. /\ pc \in [Loops -> {"off", "load", "subscribe", "loop", "resolve", "process", "exit"}]
      /\ st \in [Loops -> ConsumerState]
      /\ starts \in Nat /\ crashes \in Nat /\ StartLimit \in Nat
  BY LimitType DEF Typed
<1>k. ASSUME \A h \in Loops : pc'[h] = pc[h] \/ (pc'[h] \notin {"load", "subscribe", "exit"}
                                                   /\ Loaded(h)),
             UNCHANGED <<conf, running, ctxDone, starts, crashes, st, saved, dead, failed>>
      PROVE  Budget'
  BY <1>k, <1>t, SMTT(60) DEF Budget, Loaded, Active, Untouched, Spent
<1>1. CASE Start
  <2>1. /\ ~running /\ starts < StartLimit
        /\ running' = TRUE /\ ctxDone' = FALSE
        /\ pc' = [pc EXCEPT ![starts + 1] = "load"]
        /\ UNCHANGED <<conf, crashes, st, saved, dead, failed>>
    BY <1>1 DEF Start, out
  <2>2. Untouched /\ Untouched' /\ Spent(0)'
    BY <2>1 DEF Budget, Untouched, Spent
  <2>3. \A h \in Loops : Loaded(h)' => Loaded(h) /\ Spent(st[h].retries)'
    BY <1>t, <2>1 DEF Loaded, Budget, Spent
  <2> QED
    BY <2>1, <2>2, <2>3, ZenonT(60) DEF Budget
<1>2. CASE Stop
  <2>1. /\ Stops /\ running /\ UNCHANGED <<conf, starts, crashes, pc, st, saved, dead, failed>>
    BY <1>2 DEF Stop, loop, out
  <2>2. ~(starts < StartLimit)
    BY <1>t, <2>1 DEF Typed
  <2> QED
    BY <2>1, <2>2 DEF Budget, Loaded, Untouched, Spent
<1>3. CASE Crash
  BY <1>3, <1>t, SMTT(60) DEF Crash
<1>4. ASSUME NEW g \in Loops, LoadState(g) \/ Subscribe(g) PROVE Budget'
  <2>1. /\ UNCHANGED <<conf, running, ctxDone, starts, crashes, saved, dead, failed>>
        /\ pc[g] \in {"load", "subscribe"}
        /\ \A h \in Loops : h # g => pc'[h] = pc[h] /\ st'[h] = st[h]
        /\ \/ st'[g] = saved
           \/ st'[g] = st[g] /\ (pc[g] = "subscribe" \/ pc'[g] = "exit")
    BY <1>4, <1>t DEF LoadState, Subscribe, life, out
  <2>2. Untouched /\ Untouched' /\ Spent(0)'
    BY <2>1, SMTT(60) DEF Budget, Untouched, Spent
  <2>3. Loaded(g)' => Spent(st[g].retries)'
    BY <2>1, <2>2 DEF Budget, Loaded, Untouched, Fresh, Spent
  <2>4. \A h \in Loops : h # g => (Loaded(h)' => Spent(st[h].retries)')
    BY <2>1, SMTT(60) DEF Budget, Loaded, Spent
  <2>5. \A h \in Loops : (Active(h) /\ ~Stops => ~ctxDone)'
    BY <2>1 DEF Budget, Active
  <2> QED
    BY <2>2, <2>3, <2>4, <2>5, ZenonT(60) DEF Budget
<1>5. ASSUME NEW g \in Loops, Leave(g) PROVE Budget'
  <2>1. /\ UNCHANGED <<conf, running, ctxDone, starts, crashes, st, saved, dead, failed>>
        /\ pc[g] = "loop" /\ ctxDone
        /\ pc' = [pc EXCEPT ![g] = "exit"]
    BY <1>5, SMTT(60) DEF Leave, life, out
  <2>2. Stops
    BY <2>1 DEF Budget, Active
  <2> QED
    BY <1>t, <2>1, <2>2 DEF Budget, Loaded, Active, Untouched, Spent
<1>6. ASSUME NEW g \in Loops, Exit(g) PROVE Budget'
  <2>1. /\ UNCHANGED <<conf, ctxDone, starts, crashes, st, saved, dead, failed>>
        /\ pc[g] = "exit"
        /\ pc' = [pc EXCEPT ![g] = "off"]
    BY <1>6 DEF Exit, out
  <2>2. starts < StartLimit => Untouched
    <3>1. CASE Stops
      <4>1. g >= 1 /\ g <= starts /\ g \in Nat
        BY <2>1, ConsumerAssumption DEF Typed, Active, Loops
      <4> QED
        BY <1>t, <2>1, <3>1, <4>1
    <3>2. CASE ~Stops
      BY <2>1, <3>2 DEF Budget
    <3> QED
      BY <3>1, <3>2
  <2> QED
    BY <1>t, <2>1, <2>2 DEF Budget, Loaded, Active, Untouched, Spent
<1>7. ASSUME NEW g \in Loops, Take(g) PROVE Budget'
  BY <1>7, <1>k, <1>t DEF Take, Loaded, life, out
<1>8. ASSUME NEW g \in Loops, Resolved(g) PROVE Budget'
  BY <1>8, <1>k, <1>t, SMTT(60) DEF Resolved, Loaded, life, out
<1>9. ASSUME NEW g \in Loops, Succeeded(g) \/ Failed(g) PROVE Budget'
  <2> DEFINE R == MaxRetries
             d == Cardinality(dead)
             f == Cardinality(failed)
             r == st[g].retries
  <2>1. /\ UNCHANGED <<conf, running, ctxDone, starts, crashes>>
        /\ Handling(g) /\ pc' = [pc EXCEPT ![g] = "loop"]
    BY <1>9 DEF Succeeded, Failed, Handling, life
  <2>2. \A h \in Loops : Active(h) => h = g
    BY <2>1 DEF Alone, Active, Handling
  <2>3. ~(~running /\ starts < StartLimit)
    <3>1. CASE Stops
      <4>1. g >= 1 /\ g <= starts /\ g \in Nat
        BY <2>1, ConsumerAssumption DEF Typed, Active, Loops, Handling
      <4> QED
        BY <1>t, <2>1, <3>1, <4>1
    <3>2. CASE ~Stops
      BY <2>1, <3>2 DEF Alone, Active, Handling
    <3> QED
      BY <3>1, <3>2
  <2>4. \A h \in Loops : /\ Loaded(h)' => h = g
                         /\ pc'[h] \notin {"load", "subscribe", "exit"}
                         /\ (Active(h) /\ ~Stops => ~ctxDone)'
    BY <1>t, <2>1, <2>2 DEF Loaded, Active, Handling, Budget
  <2>5. /\ R \in Nat /\ d \in Nat /\ f \in Nat /\ r \in 0..R
        /\ cur[g] \notin failed /\ cur[g] \notin dead
        /\ Cardinality(failed \cup {cur[g]}) = f + 1
        /\ Cardinality(dead \cup {cur[g]}) = d + 1
    <3>1. dead \in SUBSET (1..taken) /\ failed \in SUBSET (1..taken) /\ taken \in Nat
      BY DEF Typed
    <3>2. cur[g] \notin failed /\ cur[g] \notin dead
      BY <2>1 DEF Handed, Typed
    <3>3. r \in 0..R
      BY <1>t DEF ConsumerState
    <3> QED
      BY <3>1, <3>2, <3>3, Counted, ConsumerAssumption, ZenonT(60)
  <2>6. (R + 1) * d + r <= f
    BY <2>1 DEF Budget, Loaded, Handling, Spent
  <2>7. /\ (R + 1) * d <= f
        /\ (R + 1) * d + (r + 1) <= f + 1
        /\ r = R => (R + 1) * (d + 1) <= f + 1
    <3> HIDE DEF R, d, f, r
    <3> QED
      BY <2>5, <2>6, Arithmetic
  <2>8. (R + 1) * d \in Nat /\ (R + 1) * (d + 1) \in Nat
    <3> HIDE DEF R, d
    <3> QED
      BY <2>5
  <2>9. Spent(0)' /\ Spent(st[g].retries)'
    <3>1. CASE Succeeded(g)
      <4>1. /\ st'[g].retries = 0 /\ dead' = dead /\ failed' = failed
        BY <1>t, <3>1 DEF Succeeded
      <4> QED
        BY <2>7, <2>8, <4>1 DEF Spent
    <3>2. CASE Failed(g)
      <4>1. PICK s \in ConsumerState :
              /\ st' = [st EXCEPT ![g] = s]
              /\ \/ s.retries = r + 1 /\ dead' = dead
                 \/ /\ s.retries = 0 /\ r = R
                    /\ dead' \in {dead, dead \cup {cur[g]}}
        BY <3>2, ZenonT(60) DEF Failed
      <4>2. Cardinality(failed') = f + 1
        BY <2>5, <3>2 DEF Failed
      <4>3. st'[g] = s
        BY <1>t, <4>1
      <4>4. CASE s.retries = r + 1 /\ dead' = dead
        <5>1. Cardinality(dead') = d
          BY <4>4
        <5> HIDE DEF R, d, f, r
        <5>2. (R + 1) * d + 0 <= f + 1 /\ (R + 1) * d + (r + 1) <= f + 1
          BY <2>5, <2>7, <2>8
        <5> QED
          BY <4>2, <4>3, <4>4, <5>1, <5>2 DEF Spent, R
      <4>5. CASE s.retries = 0 /\ r = R /\ dead' \in {dead, dead \cup {cur[g]}}
        <5>1. Cardinality(dead') \in {d, d + 1}
          BY <2>5, <4>5, ZenonT(60)
        <5> HIDE DEF R, d, f, r
        <5>2. (R + 1) * d + 0 <= f + 1 /\ (R + 1) * (d + 1) + 0 <= f + 1
          BY <2>5, <2>7, <2>8, <4>5
        <5> QED
          BY <4>2, <4>3, <4>5, <5>1, <5>2, SMTT(60) DEF Spent, R
      <4> QED
        BY <4>1, <4>4, <4>5, SMTT(60)
    <3> QED
      BY <1>9, <3>1, <3>2
  <2> QED
    BY <2>1, <2>3, <2>4, <2>9, ZenonT(60) DEF Budget
<1>10. ASSUME NEW n \in Claims, DeleteClaim(n) PROVE Budget'
  BY <1>10, <1>k DEF DeleteClaim, life, loop, out
<1>11. CASE UNCHANGED vars
  BY <1>11, <1>k DEF vars, life, loop, out
<1> QED
  BY <1>1, <1>2, <1>3, <1>4, <1>5, <1>6, <1>7, <1>8, <1>9, <1>10, <1>11, Cases, SMTT(60)

(* A fresh consumer satisfies the invariant.                               *)
LEMMA InitInv == Init => Inv
<1> SUFFICES ASSUME Init PROVE Inv
  OBVIOUS
<1> USE DEF Init, Active, Handling, Loaded
<1>1. Typed
  <2>1. Fresh \in ConsumerState
    BY ConsumerAssumption DEF Fresh, ConsumerState
  <2>2. starts \in 0..StartLimit
    BY ConsumerAssumption DEF StartLimit
  <2> QED
    BY <2>1, <2>2, ZenonT(60) DEF Typed
<1>2. Handed /\ ClaimsInv /\ Alone
  BY DEF Handed, ClaimsInv, Alone
<1>3. Cardinality({}) = 0
  BY FS_EmptySet
<1>4. Position
  BY <1>3 DEF Position, Fresh
<1>5. Budget
  BY <1>3, ConsumerAssumption DEF Budget, Spent, Untouched
<1> QED
  BY <1>1, <1>2, <1>4, <1>5 DEF Inv

(* Every step keeps the invariant.                                         *)
LEMMA NextInv == Inv /\ [Next]_vars => Inv'
BY TypedStep, HandedStep, ClaimsStep, AloneStep, PositionStep, BudgetStep DEF Inv

(* A dead letter is the last of MaxRetries + 1 failures, and the payload   *)
(* of a claim that could not be read stays in the object store (consume,   *)
(* resolveClaimCheck), for every number of messages, retries and starts.   *)
THEOREM FailuresAccounted == Spec => []FailuresKept
<1>1. Inv => FailuresKept
  <2> SUFFICES ASSUME Inv PROVE FailuresKept
    OBVIOUS
  <2>1. Spent(0) => (MaxRetries + 1) * Cardinality(dead) <= Cardinality(failed)
    <3>1. Cardinality(dead) \in Nat
      <4>1. dead \in SUBSET (1..taken) /\ taken \in Nat
        BY DEF Inv, Typed
      <4> QED
        BY <4>1, Counted, ZenonT(60)
    <3>2. (MaxRetries + 1) * Cardinality(dead) \in Nat
      BY <3>1, ConsumerAssumption
    <3> QED
      BY <3>2 DEF Spent
  <2>2. DeadLettersEarned
    BY <2>1 DEF Inv, Budget, DeadLettersEarned
  <2>3. UnreadClaimsKept
    BY DEF Inv, ClaimsInv, UnreadClaimsKept
  <2> QED
    BY <2>2, <2>3 DEF FailuresKept
<1> QED
  BY InitInv, NextInv, <1>1, PTL DEF Spec

(* The saved position never counts more than was processed and never goes  *)
(* back, over crashes, restarts and saves that fail (saveState, loadState).*)
THEOREM PositionSafe == Spec => PositionKept
<1>1. Inv => SavedNotAhead
  BY DEF Inv, Position, SavedNotAhead
<1>2. Inv /\ [Next]_vars => [StateUnshared => saved'.offset >= saved.offset]_vars
  BY PositionStep DEF Inv
<1> QED
  BY InitInv, NextInv, <1>1, <1>2, PTL DEF Spec, PositionKept, OffsetMonotone
=============================================================================
