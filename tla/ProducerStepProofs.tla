------------------------- MODULE ProducerStepProofs -------------------------
(***************************************************************************)
(* The steps of Producer as effects on the messages, what a goroutine has  *)
(* in hand by where it is, and the lemmas about sequences they rest on.    *)
(***************************************************************************)
EXTENDS Producer, TLAPS

(* Where a goroutine stands: in no call, with one message, with a batch.   *)
Resting == {"idle", "off", "loop", "flush", "finish"}
Single  == {"dup", "append", "claim", "attempt", "record"}
InBatch == {"bcheck", "filter", "publish", "brecord"}
Places  == Resting \cup Single \cup InBatch
Message == [id : Ids, large : BOOLEAN]
Entry   == [n : Numbers, claim : BOOLEAN]

Typed ==
  /\ conf \in Setups
  /\ running \in BOOLEAN
  /\ starts \in 0..MaxStarts
  /\ mu \in {None, Owner} /\ batchMu \in Threads \cup {None}
  /\ msgs \in Seq(Message)
  /\ before \in Seq(SUBSET Numbers) /\ Len(before) = Len(msgs)
  /\ batch \in Seq(Numbers) /\ appended \in Seq(Numbers)
  /\ sink \in Seq(Entry)
  /\ pc \in [Threads -> Places]
  /\ job \in [Threads -> Seq(Numbers)] /\ done \in [Threads -> Seq(Numbers)]
  /\ own \in [Threads -> SUBSET Numbers]
  /\ seen \subseteq Ids
  /\ acked \subseteq Numbers /\ skipped \subseteq Numbers

(* What a goroutine has in hand, by where it is.                           *)
Phase(t) ==
  /\ pc[t] \in Resting => job[t] = <<>> /\ done[t] = <<>> /\ own[t] = {}
  /\ pc[t] \in Single =>
       t \in Clients /\ Len(job[t]) = 1 /\ done[t] = <<>> /\ own[t] = {Head(job[t])}
  /\ pc[t] = "append" => BatchSize > 0
  /\ pc[t] \in {"claim", "attempt", "record"} => BatchSize = 0
  /\ pc[t] \in {"dup", "record", "filter", "brecord"} => Deduplication
  /\ pc[t] = "record" => Head(job[t]) \in Sent
  /\ pc[t] = "bcheck" => done[t] = <<>>
  /\ pc[t] \in {"bcheck", "publish"} => job[t] # <<>>
  /\ pc[t] \in {"publish", "brecord"} => Range(done[t]) \subseteq Sent
  /\ pc[t] = "brecord" => job[t] = <<>>
  /\ batchMu = t => pc[t] \in InBatch

Unstarted == \A f \in Flushers : f > starts => pc[f] = "off"

Phases ==
  /\ \A t \in Threads : Phase(t)
  /\ Unstarted
  /\ ~Stops => pc[Owner] = "idle"
  /\ BatchSize = 0 => batch = <<>> /\ appended = <<>>

-----------------------------------------------------------------------------
(* Sequences.                                                              *)

(* The empty sequence.                                                     *)
LEMMA EmptySeq ==
  ASSUME NEW S, NEW s \in Seq(S)
  PROVE  Len(s) = 0 <=> s = <<>>
OBVIOUS

(* Sequences are equal that have the same elements.                        *)
LEMMA SeqEqual ==
  ASSUME NEW S, NEW s \in Seq(S), NEW r \in Seq(S), Len(s) = Len(r),
         \A i \in 1..Len(s) : s[i] = r[i]
  PROVE  s = r
OBVIOUS

(* The range of a sequence.                                                *)
LEMMA RangeFacts ==
  ASSUME NEW S, NEW s \in Seq(S)
  PROVE  /\ Range(s) \subseteq S
         /\ s = <<>> <=> Range(s) = {}
         /\ \A i \in 1..Len(s) : s[i] \in Range(s)
         /\ \A x \in Range(s) : \E i \in 1..Len(s) : s[i] = x
<1>1. Len(s) \in Nat /\ DOMAIN s = 1..Len(s) /\ \A i \in 1..Len(s) : s[i] \in S
  OBVIOUS
<1>2. /\ \A i \in 1..Len(s) : s[i] \in Range(s)
      /\ \A x \in Range(s) : \E i \in 1..Len(s) : s[i] = x
  BY <1>1 DEF Range
<1>3. Range(s) \subseteq S
  BY <1>1, <1>2
<1>4. Range(s) = {} <=> Len(s) = 0
  BY <1>1, <1>2
<1> QED
  BY <1>2, <1>3, <1>4, EmptySeq

(* The first element and the others.                                       *)
LEMMA HeadTail ==
  ASSUME NEW S, NEW s \in Seq(S), s # <<>>
  PROVE  /\ Head(s) \in Range(s) /\ Head(s) = s[1] /\ Head(s) \in S
         /\ Tail(s) \in Seq(S) /\ Len(Tail(s)) = Len(s) - 1
         /\ \A i \in 1..Len(Tail(s)) : Tail(s)[i] = s[i + 1]
         /\ Range(s) = {Head(s)} \cup Range(Tail(s))
         /\ Len(s) = 1 => Tail(s) = <<>> /\ Range(s) = {Head(s)}
<1>1. /\ Head(s) = s[1] /\ Head(s) \in S /\ Len(s) \in Nat /\ Len(s) >= 1
      /\ Tail(s) \in Seq(S) /\ Len(Tail(s)) = Len(s) - 1
      /\ \A i \in 1..Len(Tail(s)) : Tail(s)[i] = s[i + 1]
  OBVIOUS
<1>2. Head(s) \in Range(s)
  BY <1>1 DEF Range
<1>3. Range(s) = {Head(s)} \cup Range(Tail(s))
  <2>1. DOMAIN s = 1..Len(s) /\ DOMAIN Tail(s) = 1..Len(Tail(s))
    BY <1>1
  <2>2. ASSUME NEW x \in Range(s) PROVE x \in {Head(s)} \cup Range(Tail(s))
    <3>1. PICK i \in 1..Len(s) : x = s[i]
      BY <2>1 DEF Range
    <3>2. CASE i = 1
      BY <1>1, <3>1, <3>2
    <3>3. CASE i # 1
      <4>1. i - 1 \in 1..Len(Tail(s)) /\ Tail(s)[i - 1] = s[i]
        BY <1>1, <3>3
      <4> QED
        BY <2>1, <3>1, <4>1, ZenonT(60) DEF Range
    <3> QED
      BY <3>2, <3>3
  <2>3. ASSUME NEW x \in Range(Tail(s)) PROVE x \in Range(s)
    <3>1. PICK i \in 1..Len(Tail(s)) : x = Tail(s)[i]
      BY <2>1 DEF Range
    <3>2. i + 1 \in 1..Len(s) /\ x = s[i + 1]
      BY <1>1, <3>1
    <3> QED
      BY <2>1, <3>2 DEF Range
  <2> QED
    BY <1>2, <2>2, <2>3
<1>4. Len(s) = 1 => Tail(s) = <<>>
  <2> DEFINE r == Tail(s)
  <2>1. r \in Seq(S) /\ Len(r) = Len(s) - 1
    BY <1>1
  <2> HIDE DEF r
  <2>2. Len(s) = 1 => r = <<>>
    BY <2>1, EmptySeq
  <2> QED
    BY <2>2 DEF r
<1>5. Len(s) = 1 => Range(s) = {Head(s)}
  <2>1. Range(<<>>) = {}
    BY DEF Range
  <2> QED
    BY <1>3, <1>4, <2>1, ZenonT(60)
<1> QED
  BY <1>1, <1>2, <1>3, <1>4, <1>5

(* One element more.                                                       *)
LEMMA AppendFacts ==
  ASSUME NEW S, NEW s \in Seq(S), NEW e \in S
  PROVE  /\ Append(s, e) \in Seq(S) /\ Len(Append(s, e)) = Len(s) + 1
         /\ \A i \in 1..Len(s) : Append(s, e)[i] = s[i]
         /\ Append(s, e)[Len(s) + 1] = e
         /\ Range(Append(s, e)) = Range(s) \cup {e}
<1>1. /\ Append(s, e) \in Seq(S) /\ Len(Append(s, e)) = Len(s) + 1 /\ Len(s) \in Nat
      /\ \A i \in 1..Len(s) : Append(s, e)[i] = s[i]
      /\ Append(s, e)[Len(s) + 1] = e
  OBVIOUS
<1>2. DOMAIN s = 1..Len(s) /\ DOMAIN Append(s, e) = 1..(Len(s) + 1)
  BY <1>1
<1>3. ASSUME NEW x \in Range(s) \cup {e} PROVE x \in Range(Append(s, e))
  <2>1. \E i \in 1..(Len(s) + 1) : Append(s, e)[i] = x
    <3>1. CASE x = e
      <4>1. Len(s) + 1 \in 1..(Len(s) + 1)
        BY <1>1
      <4> QED
        BY <1>1, <3>1, <4>1
    <3>2. CASE x \in Range(s)
      <4>1. PICK i \in 1..Len(s) : s[i] = x
        BY <1>2, <3>2 DEF Range
      <4>2. i \in 1..(Len(s) + 1)
        BY <1>1
      <4> QED
        BY <1>1, <4>1, <4>2
    <3> QED
      BY <3>1, <3>2
  <2> QED
    BY <1>2, <2>1 DEF Range
<1>4. ASSUME NEW x \in Range(Append(s, e)) PROVE x \in Range(s) \cup {e}
  <2>1. PICK i \in 1..(Len(s) + 1) : Append(s, e)[i] = x
    BY <1>2 DEF Range
  <2>2. CASE i = Len(s) + 1
    BY <1>1, <2>1, <2>2
  <2>3. CASE i # Len(s) + 1
    <3>1. i \in 1..Len(s)
      BY <1>1, <2>3
    <3> QED
      BY <1>1, <1>2, <2>1, <3>1 DEF Range
  <2> QED
    BY <2>2, <2>3
<1> QED
  BY <1>1, <1>3, <1>4

(* One sequence after another.                                             *)
LEMMA ConcatFacts ==
  ASSUME NEW S, NEW s \in Seq(S), NEW r \in Seq(S)
  PROVE  /\ s \o r \in Seq(S) /\ Len(s \o r) = Len(s) + Len(r)
         /\ \A i \in 1..(Len(s) + Len(r)) :
              (s \o r)[i] = IF i <= Len(s) THEN s[i] ELSE r[i - Len(s)]
OBVIOUS

(* Joining a sequence of one element is appending it.                      *)
LEMMA JoinOne ==
  ASSUME NEW S, NEW s \in Seq(S), NEW j \in Seq(S), Len(j) = 1
  PROVE  s \o j = Append(s, Head(j)) /\ Head(j) \in S /\ j # <<>>
<1>a. j # <<>>
  BY EmptySeq
<1>0. Head(j) \in S /\ Head(j) = j[1] /\ Len(s) \in Nat
  BY <1>a, HeadTail
<1> DEFINE x == s \o j
           y == Append(s, Head(j))
<1>1. /\ x \in Seq(S) /\ Len(x) = Len(s) + 1
      /\ y \in Seq(S) /\ Len(y) = Len(s) + 1
      /\ \A i \in 1..Len(s) : y[i] = s[i]
      /\ y[Len(s) + 1] = Head(j)
  <2>1. x \in Seq(S) /\ Len(x) = Len(s) + Len(j)
    BY ConcatFacts, ZenonT(60)
  <2>2. /\ y \in Seq(S) /\ Len(y) = Len(s) + 1
        /\ \A i \in 1..Len(s) : y[i] = s[i]
        /\ y[Len(s) + 1] = Head(j)
    BY <1>0, AppendFacts
  <2> HIDE DEF x, y
  <2> QED
    BY <2>1, <2>2
<1>2. \A i \in 1..(Len(s) + 1) : x[i] = IF i <= Len(s) THEN s[i] ELSE j[i - Len(s)]
  <2>1. \A i \in 1..(Len(s) + Len(j)) : x[i] = IF i <= Len(s) THEN s[i] ELSE j[i - Len(s)]
    BY ConcatFacts, ZenonT(60)
  <2> HIDE DEF x
  <2> QED
    BY <2>1
<1> HIDE DEF x, y
<1>3. ASSUME NEW i \in 1..(Len(s) + 1) PROVE x[i] = y[i]
  <2>1. CASE i <= Len(s)
    BY <1>0, <1>1, <1>2, <2>1
  <2>2. CASE i = Len(s) + 1
    <3>1. i - Len(s) = 1 /\ ~(i <= Len(s))
      BY <1>0, <2>2
    <3> QED
      BY <1>0, <1>1, <1>2, <2>2, <3>1
  <2> QED
    BY <1>0, <2>1, <2>2
<1>4. x = y
  BY <1>1, <1>3, SeqEqual
<1> QED
  BY <1>0, <1>a, <1>4 DEF x, y

(* A sequence over a set is one over any larger set.                       *)
LEMMA SeqWider ==
  ASSUME NEW S, NEW T, S \subseteq T, NEW s \in Seq(S)
  PROVE  s \in Seq(T)
OBVIOUS

-----------------------------------------------------------------------------
(* What a step does to the messages.  The lifecycle and the messages that  *)
(* were handed in change in steps of their own only.                       *)
World == <<conf, running, mu, starts, msgs, before>>

Put(n) == \E e \in Entry : e.n = n /\ sink' = Append(sink, e)

(* Nothing, beyond goroutines that have nothing in hand.                   *)
Aside ==
  /\ pc' \in [Threads -> Places]
  /\ \A t \in Threads : pc'[t] = pc[t] \/ (pc[t] \in Resting /\ pc'[t] \in Resting)
  /\ starts' \in 0..MaxStarts /\ mu' \in {None, Owner} /\ running' \in BOOLEAN
  /\ ~Stops => pc'[Owner] = pc[Owner] /\ (running => running')
  /\ Unstarted'
  /\ UNCHANGED <<conf, msgs, before, job, done, own, batchMu, acked, batch, appended>>
  /\ UNCHANGED <<sink, seen, skipped>>

Expire ==
  /\ Expires /\ seen' \subseteq seen
  /\ UNCHANGED <<World, pc, job, done, own, batchMu, acked, batch, appended, sink, skipped>>

(* A check is passed.                                                      *)
Advance(t) ==
  /\ \/ /\ pc[t] = "dup" /\ ~IsDuplicate(Head(job[t]))
        /\ pc' = [pc EXCEPT ![t] = AfterCheck]
     \/ pc[t] = "claim" /\ pc' = [pc EXCEPT ![t] = "attempt"]
     \/ /\ pc[t] = "bcheck" /\ running
        /\ pc' = [pc EXCEPT ![t] = IF Deduplication THEN "filter" ELSE "publish"]
  /\ UNCHANGED <<World, job, done, own, batchMu, acked, batch, appended, sink, seen, skipped>>

(* A call ends with an error.                                              *)
Fail(t) ==
  /\ pc[t] \in Single \cup InBatch
  /\ BatchSize = 0 \/ StoreFaults \/ SinkFaults # {} \/ ~running
  /\ sink' = sink \/ (pc[t] \in {"attempt", "publish"} /\ Put(Head(job[t])))
  /\ Return(t, FALSE)
  /\ UNCHANGED <<World, batch, appended, seen, skipped>>

(* An attempt reaches the sink; it is made again, or the ID is recorded.   *)
Attempted(t) ==
  /\ pc[t] = "attempt" /\ Put(Head(job[t]))
  /\ pc' = pc \/ (Deduplication /\ pc' = [pc EXCEPT ![t] = "record"])
  /\ UNCHANGED <<World, job, done, own, batchMu, acked, batch, appended, seen, skipped>>

(* A call ends well.                                                       *)
Finish(t) ==
  /\ \/ pc[t] = "flush" /\ UNCHANGED <<sink, seen, skipped>>
     \/ pc[t] = "filter" /\ job[t] = <<>> /\ done[t] = <<>> /\ UNCHANGED <<sink, seen, skipped>>
     \/ /\ pc[t] = "dup" /\ IsDuplicate(Head(job[t]))
        /\ skipped' = skipped \cup own[t] /\ UNCHANGED <<sink, seen>>
     \/ /\ pc[t] \in {"attempt", "publish"} /\ ~Deduplication /\ Len(job[t]) = 1
        /\ Put(Head(job[t])) /\ UNCHANGED <<seen, skipped>>
     \/ pc[t] = "record" /\ Recorded(Range(job[t])) /\ UNCHANGED <<sink, skipped>>
     \/ pc[t] = "brecord" /\ Recorded(Range(done[t])) /\ UNCHANGED <<sink, skipped>>
  /\ Return(t, TRUE)
  /\ UNCHANGED <<World, batch, appended>>

(* A client hands in the messages numbered j.                              *)
HandIn(c) ==
  LET L == Len(msgs) IN
  /\ c \in Clients /\ pc[c] = "idle"
  /\ \E k \in {1, 2}, j \in Seq(Nat), v \in {"dup", "append", "claim", "bcheck"} :
       /\ msgs' \in Seq(Message) /\ Len(msgs') = L + k
       /\ \A i \in 1..L : msgs'[i] = msgs[i]
       /\ before' \in Seq(SUBSET Numbers)
       /\ Len(before') = L + k /\ DOMAIN before' = 1..(L + k)
       /\ \A i \in 1..L : before'[i] = before[i]
       /\ \A i \in (L + 1)..(L + k) : before'[i] = acked
       /\ Len(j) = k /\ j[1] = L + 1 /\ Head(j) = L + 1 /\ Range(j) = (L + 1)..(L + k)
       /\ k = 2 => j[2] = L + 2
       /\ pc' = [pc EXCEPT ![c] = v]
       /\ job' = [job EXCEPT ![c] = j]
       /\ own' = [own EXCEPT ![c] = Range(j)]
       /\ v = "bcheck" \/ (k = 1 /\ running)
       /\ v = "dup" => Deduplication
       /\ v = "append" => BatchSize > 0
       /\ v = "claim" => BatchSize = 0 /\ ~Deduplication
  /\ UNCHANGED <<conf, running, mu, starts, done, batchMu, acked, batch, appended>>
  /\ UNCHANGED <<sink, seen, skipped>>

(* One message is compared with the recorded IDs.                          *)
Sift(t) ==
  /\ pc[t] = "filter" /\ job[t] # <<>>
  /\ job' = [job EXCEPT ![t] = Tail(job[t])]
  /\ \/ IsDuplicate(Head(job[t])) /\ skipped' = skipped \cup {Head(job[t])} /\ done' = done
     \/ /\ ~IsDuplicate(Head(job[t])) /\ skipped' = skipped
        /\ done' = [done EXCEPT ![t] = Append(done[t], Head(job[t]))]
  /\ UNCHANGED <<World, pc, own, batchMu, acked, batch, appended, sink, seen>>

(* What is left of a batch is going to be published.                       *)
Turn(t) ==
  /\ pc[t] = "filter" /\ job[t] = <<>> /\ done[t] # <<>>
  /\ job' = [job EXCEPT ![t] = done[t]] /\ done' = [done EXCEPT ![t] = <<>>]
  /\ pc' = [pc EXCEPT ![t] = "publish"]
  /\ UNCHANGED <<World, own, batchMu, acked, batch, appended, sink, seen, skipped>>

(* One message of a batch is published.                                    *)
Send(t) ==
  /\ pc[t] = "publish" /\ Put(Head(job[t]))
  /\ Len(job[t]) = 1 => Deduplication
  /\ job' = [job EXCEPT ![t] = Tail(job[t])]
  /\ done' = [done EXCEPT ![t] = Append(done[t], Head(job[t]))]
  /\ pc' = [pc EXCEPT ![t] = IF Len(job[t]) = 1 THEN "brecord" ELSE "publish"]
  /\ UNCHANGED <<World, own, batchMu, acked, batch, appended, seen, skipped>>

(* A message joins the batch, which is full or not.                        *)
Join(t) ==
  /\ pc[t] = "append" /\ batchMu = None
  /\ appended' = appended \o job[t]
  /\ \/ batch' = batch \o job[t] /\ Return(t, TRUE)
     \/ /\ batch' = <<>> /\ batchMu' = t
        /\ job' = [job EXCEPT ![t] = batch \o job[t]]
        /\ pc' = [pc EXCEPT ![t] = "bcheck"]
        /\ UNCHANGED <<done, own, acked>>
  /\ UNCHANGED <<World, sink, seen, skipped>>

(* The batch is swapped out.                                               *)
Swap(t) ==
  /\ pc[t] = "flush" /\ batchMu = None /\ batch # <<>>
  /\ batch' = <<>> /\ batchMu' = t
  /\ job' = [job EXCEPT ![t] = batch]
  /\ pc' = [pc EXCEPT ![t] = "bcheck"]
  /\ UNCHANGED <<World, done, own, acked, appended, sink, seen, skipped>>

Handled(t) ==
  \/ Advance(t) \/ Fail(t) \/ Attempted(t) \/ Finish(t) \/ HandIn(t)
  \/ Sift(t) \/ Turn(t) \/ Send(t) \/ Join(t) \/ Swap(t)

(* A message in hand is in the range of the sink's entries once it is put. *)
LEMMA PutEntry ==
  ASSUME Typed, NEW n \in Numbers, NEW b \in BOOLEAN,
         sink' = Append(sink, [n |-> n, claim |-> b])
  PROVE  Put(n)
BY DEF Put, Entry

(* The batch size is a number.                                             *)
LEMMA SizeFacts ==
  ASSUME Typed
  PROVE  BatchSize \in Nat /\ (BatchSize = 0 \/ BatchSize > 0)
<1>1. BatchSize \in Nat
  BY ProducerAssumption DEF Typed, BatchSize
<1> QED
  BY <1>1

(* The numbers in hand.                                                    *)
LEMMA InHandFacts ==
  ASSUME Typed, Phases, NEW t \in Threads
  PROVE  /\ Phase(t) /\ pc[t] \in Places
         /\ job[t] \in Seq(Numbers) /\ done[t] \in Seq(Numbers) /\ own[t] \subseteq Numbers
         /\ job[t] # <<>> => Head(job[t]) \in Numbers
         /\ pc[t] \in Single \cup {"bcheck", "publish"} => job[t] # <<>>
         /\ Len(msgs) \in Nat /\ \A n \in Numbers : msgs[n] \in Message
<1>1. /\ Phase(t) /\ pc[t] \in Places /\ job[t] \in Seq(Numbers) /\ done[t] \in Seq(Numbers)
      /\ own[t] \subseteq Numbers
  BY DEF Typed, Phases
<1>2. job[t] # <<>> => Head(job[t]) \in Numbers
  BY <1>1, HeadTail
<1>3. Len(<<>>) = 0
  OBVIOUS
<1>4. pc[t] \in Single \cup {"bcheck", "publish"} => job[t] # <<>>
  BY <1>1, <1>3 DEF Phase
<1>5. Len(msgs) \in Nat /\ \A n \in Numbers : msgs[n] \in Message
  BY DEF Typed, Numbers
<1> QED
  BY <1>1, <1>2, <1>4, <1>5

(* Every step is one of these.                                             *)
LEMMA AsideSteps ==
  ASSUME Typed, Phases, NEW f \in Threads,
         \/ Start \/ StopLocks \/ StopFinishes \/ ContextEnds
         \/ f \in Flushers /\ (FlusherTicks(f) \/ FlusherExits(f))
         \/ f \in Clients /\ Flush(f)
         \/ UNCHANGED vars
  PROVE  Aside
<1>t. /\ pc \in [Threads -> Places] /\ starts \in 0..MaxStarts /\ mu \in {None, Owner}
      /\ running \in BOOLEAN /\ MaxStarts \in Nat
      /\ Owner \in Threads /\ (f \in Flushers \cup Clients => f # Owner)
      /\ \A h \in Flushers : h \in Threads
      /\ \A h \in Flushers : h > starts => pc[h] = "off"
  BY ProducerAssumption, ZenonT(60) DEF Typed, Threads, Phases, Unstarted
<1>i. ~Stops => pc[Owner] = "idle"
  BY DEF Phases
<1> USE DEF Resting, Places, drivers, work, ghosts, calls, threads, life, vars
<1>1. CASE Start
  <2>1. starts + 1 \in Flushers /\ starts + 1 # Owner /\ starts + 1 \in 0..MaxStarts
    BY <1>1, <1>t, ProducerAssumption DEF Start, Flushers
  <2>2. /\ starts' = starts + 1 /\ running' = TRUE /\ mu' = mu
        /\ pc' = pc \/ pc' = [pc EXCEPT ![starts + 1] = "loop"]
        /\ UNCHANGED <<conf, msgs, before, job, done, own, batchMu, acked, batch, appended>>
        /\ UNCHANGED <<sink, seen, skipped>>
    BY <1>1 DEF Start
  <2>3. pc[starts + 1] = "off" /\ starts + 1 \in Threads
    BY <1>t, <2>1
  <2>4. \A h \in Threads : h # starts + 1 => pc'[h] = pc[h]
    BY <1>t, <2>2
  <2>5. pc' \in [Threads -> Places] /\ pc'[starts + 1] \in Resting
    BY <1>t, <2>2, <2>3
  <2>6. Unstarted'
    <3>1. ASSUME NEW h \in Flushers, h > starts + 1 PROVE pc'[h] = "off"
      <4>1. h > starts /\ h # starts + 1 /\ h \in Threads
        BY <1>t, <3>1 DEF Flushers
      <4> QED
        BY <1>t, <2>4, <4>1
    <3> QED
      BY <2>2, <3>1 DEF Unstarted
  <2> QED
    BY <1>t, <2>1, <2>2, <2>3, <2>4, <2>5, <2>6, ZenonT(60) DEF Aside
<1>2. ASSUME NEW h \in Threads, NEW v \in Resting, pc[h] \in Resting, pc[h] # "off",
             pc' = pc \/ pc' = [pc EXCEPT ![h] = v],
             h = Owner => Stops,
             starts' = starts, mu' \in {None, Owner}, running' \in BOOLEAN,
             ~Stops => (running => running'),
             UNCHANGED <<conf, msgs, before, job, done, own, batchMu, acked, batch, appended>>,
             UNCHANGED <<sink, seen, skipped>>
      PROVE  Aside
  <2>1. \A u \in Threads : u # h => pc'[u] = pc[u]
    BY <1>2, <1>t, ZenonT(60)
  <2>2. pc' \in [Threads -> Places] /\ pc'[h] \in Resting
    BY <1>2, <1>t
  <2>3. Unstarted'
    <3>1. ASSUME NEW u \in Flushers, u > starts PROVE pc'[u] = "off"
      <4>1. u # h /\ u \in Threads /\ pc[u] = "off"
        BY <1>2, <1>t, <3>1
      <4> QED
        BY <2>1, <4>1
    <3> QED
      BY <1>2, <3>1 DEF Unstarted
  <2>4. ~Stops => pc'[Owner] = pc[Owner]
    BY <1>2, <1>t, <2>1
  <2> QED
    BY <1>2, <1>t, <2>1, <2>2, <2>3, <2>4 DEF Aside
<1>3. CASE StopLocks
  BY <1>2, <1>3, <1>t, ZenonT(60) DEF StopLocks
<1>4. CASE StopFinishes
  <2>1. Stops
    BY <1>4, <1>i DEF StopFinishes
  <2> QED
    BY <1>2, <1>4, <1>t, <2>1, ZenonT(60) DEF StopFinishes
<1>5. ASSUME pc' = pc, starts' = starts, mu' = mu, running' = running,
             UNCHANGED <<conf, msgs, before, job, done, own, batchMu, acked, batch, appended>>,
             UNCHANGED <<sink, seen, skipped>>
      PROVE  Aside
  BY <1>5, <1>t DEF Aside, Unstarted
<1>6. CASE ContextEnds
  BY <1>5, <1>6 DEF ContextEnds
<1>7. CASE UNCHANGED vars
  BY <1>5, <1>7
<1>8. CASE f \in Flushers /\ (FlusherTicks(f) \/ FlusherExits(f))
  BY <1>2, <1>8, <1>t, ZenonT(60) DEF FlusherTicks, FlusherExits
<1>9. CASE f \in Clients /\ Flush(f)
  BY <1>2, <1>9, <1>t, ZenonT(60) DEF Flush
<1> QED
  BY <1>1, <1>3, <1>4, <1>6, <1>7, <1>8, <1>9

(* New messages are numbered after the others, and remember what has been  *)
(* acknowledged.                                                           *)
LEMMA HandedFacts ==
  ASSUME Typed, NEW new \in Seq(Message), Handed(new)
  PROVE  LET L == Len(msgs)
             k == Len(new) IN
         /\ msgs' \in Seq(Message) /\ Len(msgs') = L + k
         /\ \A i \in 1..L : msgs'[i] = msgs[i]
         /\ before' \in Seq(SUBSET Numbers)
         /\ Len(before') = L + k /\ DOMAIN before' = 1..(L + k)
         /\ \A i \in 1..L : before'[i] = before[i]
         /\ \A i \in (L + 1)..(L + k) : before'[i] = acked
<1> DEFINE L == Len(msgs)
           k == Len(new)
           b == [i \in 1..k |-> acked]
<1>1. /\ msgs \in Seq(Message) /\ L \in Nat /\ k \in Nat
      /\ before \in Seq(SUBSET Numbers) /\ Len(before) = L
      /\ msgs' = msgs \o new /\ before' = before \o b
  BY DEF Typed, Handed
<1>2. b \in Seq(SUBSET Numbers) /\ Len(b) = k /\ \A i \in 1..k : b[i] = acked
  <2>1. acked \in SUBSET Numbers
    BY DEF Typed
  <2> QED
    BY <1>1, <2>1
<1> HIDE DEF b
<1>3. /\ msgs' \in Seq(Message) /\ Len(msgs') = L + k
      /\ \A i \in 1..(L + k) : msgs'[i] = IF i <= L THEN msgs[i] ELSE new[i - L]
  BY <1>1, ConcatFacts
<1>4. /\ before' \in Seq(SUBSET Numbers) /\ Len(before') = L + k
      /\ \A i \in 1..(L + k) : before'[i] = IF i <= L THEN before[i] ELSE b[i - L]
  <2>1. /\ before' \in Seq(SUBSET Numbers) /\ Len(before') = Len(before) + Len(b)
        /\ \A i \in 1..(Len(before) + Len(b)) :
             before'[i] = IF i <= Len(before) THEN before[i] ELSE b[i - Len(before)]
    <3> DEFINE S == SUBSET Numbers
    <3>1. before \in Seq(S) /\ b \in Seq(S) /\ before' = before \o b
      BY <1>1, <1>2
    <3> HIDE DEF S
    <3>2. /\ before \o b \in Seq(S) /\ Len(before \o b) = Len(before) + Len(b)
          /\ \A i \in 1..(Len(before) + Len(b)) :
               (before \o b)[i] = IF i <= Len(before) THEN before[i] ELSE b[i - Len(before)]
      BY <3>1, ConcatFacts
    <3> QED
      BY <3>1, <3>2 DEF S
  <2> HIDE DEF L, k
  <2> QED
    BY <1>1, <1>2, <2>1, ZenonT(60)
<1>5. DOMAIN before' = 1..(L + k)
  BY <1>4
<1>6. \A i \in 1..L : i \in 1..(L + k) /\ i <= L
  BY <1>1
<1>7. \A i \in (L + 1)..(L + k) : i \in 1..(L + k) /\ ~(i <= L) /\ i - L \in 1..k
  BY <1>1
<1> HIDE DEF L, k
<1>8. \A i \in (L + 1)..(L + k) : before'[i] = acked
  BY <1>2, <1>4, <1>7
<1>9. \A i \in 1..L : msgs'[i] = msgs[i] /\ before'[i] = before[i]
  BY <1>3, <1>4, <1>6
<1> QED
  BY <1>3, <1>4, <1>5, <1>8, <1>9, ZenonT(60) DEF L, k

(* The steps of a client.                                                  *)
LEMMA ClientCases ==
  ASSUME Typed, Phases, NEW c \in Clients, ClientStep(c)
  PROVE  Aside \/ Handled(c)
<1> c \in Threads
  BY DEF Threads
<1>i. /\ Phase(c) /\ job[c] \in Seq(Numbers)
      /\ job[c] # <<>> => Head(job[c]) \in Numbers
      /\ pc[c] \in Single \cup {"bcheck", "publish"} => job[c] # <<>>
      /\ Len(msgs) \in Nat /\ \A n \in Numbers : msgs[n] \in Message
  BY InHandFacts
<1> USE DEF life, work, drivers, ghosts, calls, World, Single, InBatch
<1>1. CASE DupCheck(c)
  <2>1. CASE StoreFaults /\ Return(c, FALSE) /\ UNCHANGED skipped
    BY <1>1, <2>1, ZenonT(60) DEF DupCheck, Handled, Fail
  <2>2. CASE IsDuplicate(Head(job[c])) /\ skipped' = skipped \cup own[c] /\ Return(c, TRUE)
    BY <1>1, <2>2, ZenonT(60) DEF DupCheck, Handled, Finish
  <2>3. CASE ~IsDuplicate(Head(job[c])) /\ UNCHANGED skipped /\ Goto(c, AfterCheck)
    BY <1>1, <2>3, ZenonT(60) DEF DupCheck, Handled, Advance, Goto
  <2> QED
    BY <1>1, <2>1, <2>2, <2>3, ZenonT(60) DEF DupCheck
<1>2. CASE addToBatch(c)
  BY <1>2, ZenonT(60) DEF addToBatch, flushBatchLocked, Handled, Join
<1>3. CASE Flush(c)
  BY <1>3, AsideSteps
<1>4. CASE Claim(c)
  <2>1. CASE Goto(c, "attempt")
    BY <1>4, <2>1 DEF Claim, Handled, Advance, Goto
  <2>2. CASE StoreFaults /\ Return(c, FALSE)
    BY <1>4, <2>2, ZenonT(60) DEF Claim, Handled, Fail
  <2> QED
    BY <1>4, <2>1, <2>2, ZenonT(60) DEF Claim
<1>5. CASE Attempt(c)
  <2> DEFINE n == Head(job[c])
             put == sink' = Append(sink, [n |-> n, claim |-> msgs[n].large])
  <2>1. /\ pc[c] = "attempt" /\ BatchSize = 0 /\ Len(job[c]) = 1
        /\ UNCHANGED <<World, batch, appended, seen, skipped>>
    BY <1>5, <1>i, ZenonT(60) DEF Attempt, Phase
  <2>2. put => Put(n)
    <3>1. n \in Numbers /\ msgs[n].large \in BOOLEAN
      BY <1>i, <2>1 DEF Message
    <3> QED
      BY <3>1, PutEntry, ZenonT(60)
  <2>3. CASE put /\ IF Deduplication THEN Goto(c, "record") ELSE Return(c, TRUE)
    BY <2>1, <2>2, <2>3, ZenonT(60) DEF Goto, Handled, Attempted, Finish
  <2>4. CASE (sink' = sink \/ put) /\ Retry(c)
    <3>1. CASE Return(c, FALSE)
      BY <2>1, <2>2, <2>4, <3>1, ZenonT(60) DEF Handled, Fail
    <3>2. CASE UNCHANGED <<pc, job, done, own, batchMu, acked>> /\ put
      BY <2>1, <2>2, <3>2 DEF Handled, Attempted
    <3>3. CASE UNCHANGED <<pc, job, done, own, batchMu, acked>> /\ sink' = sink
      BY <2>1, <3>3, ZenonT(60) DEF Aside, Typed, Phases, Unstarted
    <3> QED
      BY <2>4, <3>1, <3>2, <3>3, ZenonT(60) DEF Retry
  <2> QED
    BY <1>5, <2>3, <2>4, ZenonT(60) DEF Attempt
<1>6. CASE Record(c)
  BY <1>6, ZenonT(60) DEF Record, Handled, Finish
<1>7. CASE PublishWithID(c)
  <2> DEFINE L == Len(msgs)
             j == <<L + 1>>
             v == IF Deduplication THEN "dup" ELSE AfterCheck
  <2>1. PICK m \in NewMessages : Handed(<<m>>)
    BY <1>7 DEF PublishWithID
  <2>2. <<m>> \in Seq(Message) /\ Len(<<m>>) = 1
    <3>1. m \in Message
      BY ZenonT(60) DEF NewMessages, Message
    <3> QED
      BY <3>1
  <2>3. /\ msgs' \in Seq(Message) /\ Len(msgs') = L + 1
        /\ \A i \in 1..L : msgs'[i] = msgs[i]
        /\ before' \in Seq(SUBSET Numbers)
        /\ Len(before') = L + 1 /\ DOMAIN before' = 1..(L + 1)
        /\ \A i \in 1..L : before'[i] = before[i]
        /\ \A i \in (L + 1)..(L + 1) : before'[i] = acked
    BY <2>1, <2>2, HandedFacts, ZenonT(60)
  <2>4. /\ j \in Seq(Nat) /\ Len(j) = 1 /\ j[1] = L + 1 /\ Head(j) = L + 1
        /\ Range(j) = (L + 1)..(L + 1) /\ Range(j) = {L + 1}
    BY <1>i DEF Range
  <2>5. /\ v \in {"dup", "append", "claim", "bcheck"}
        /\ v = "dup" => Deduplication
        /\ v = "append" => BatchSize > 0
        /\ v = "claim" => BatchSize = 0 /\ ~Deduplication
    BY ProducerAssumption DEF AfterCheck, BatchSize, Typed
  <2>6. /\ pc[c] = "idle" /\ running
        /\ pc' = [pc EXCEPT ![c] = v]
        /\ job' = [job EXCEPT ![c] = j]
        /\ own' = [own EXCEPT ![c] = {L + 1}]
        /\ UNCHANGED <<conf, running, mu, starts, done, batchMu, acked, batch, appended>>
        /\ UNCHANGED <<sink, seen, skipped>>
    BY <1>7 DEF PublishWithID
  <2> HIDE DEF j, v, L
  <2>7. HandIn(c)
    BY <2>3, <2>4, <2>5, <2>6, ZenonT(60) DEF HandIn, L
  <2> QED
    BY <2>7 DEF Handled
<1>8. CASE CallPublishBatch(c)
  <2> DEFINE L == Len(msgs)
             j == <<L + 1, L + 2>>
  <2>1. PICK m1 \in NewMessages, m2 \in NewMessages : Handed(<<m1, m2>>)
    BY <1>8 DEF CallPublishBatch
  <2>2. <<m1, m2>> \in Seq(Message) /\ Len(<<m1, m2>>) = 2
    <3>1. m1 \in Message /\ m2 \in Message
      BY ZenonT(60) DEF NewMessages, Message
    <3> QED
      BY <3>1
  <2>3. /\ msgs' \in Seq(Message) /\ Len(msgs') = L + 2
        /\ \A i \in 1..L : msgs'[i] = msgs[i]
        /\ before' \in Seq(SUBSET Numbers)
        /\ Len(before') = L + 2 /\ DOMAIN before' = 1..(L + 2)
        /\ \A i \in 1..L : before'[i] = before[i]
        /\ \A i \in (L + 1)..(L + 2) : before'[i] = acked
    BY <2>1, <2>2, HandedFacts, ZenonT(60)
  <2>4. /\ j \in Seq(Nat) /\ Len(j) = 2 /\ j[1] = L + 1 /\ j[2] = L + 2 /\ Head(j) = L + 1
        /\ DOMAIN j = 1..2
    BY <1>i
  <2>5. Range(j) = (L + 1)..(L + 2)
    <3>1. Range(j) = {L + 1, L + 2}
      BY <2>4 DEF Range
    <3>2. \A l \in Nat : {l + 1, l + 2} = (l + 1)..(l + 2)
      OBVIOUS
    <3> QED
      BY <1>i, <3>1, <3>2, ZenonT(60)
  <2>6. /\ pc[c] = "idle"
        /\ pc' = [pc EXCEPT ![c] = "bcheck"]
        /\ job' = [job EXCEPT ![c] = j]
        /\ own' = [own EXCEPT ![c] = Range(j)]
        /\ UNCHANGED <<conf, running, mu, starts, done, batchMu, acked, batch, appended>>
        /\ UNCHANGED <<sink, seen, skipped>>
    BY <1>8 DEF CallPublishBatch
  <2> HIDE DEF j, L
  <2>7. HandIn(c)
    BY <2>3, <2>4, <2>5, <2>6, ZenonT(60) DEF HandIn, L
  <2> QED
    BY <2>7 DEF Handled
<1> QED
  BY <1>1, <1>2, <1>3, <1>4, <1>5, <1>6, <1>7, <1>8 DEF ClientStep

(* The steps of PublishBatch and flushBatch.                               *)
LEMMA BatchCases ==
  ASSUME Typed, Phases, NEW t \in Threads, BatchStep(t)
  PROVE  Handled(t)
<1>i. /\ Phase(t) /\ job[t] \in Seq(Numbers)
      /\ job[t] # <<>> => Head(job[t]) \in Numbers
      /\ pc[t] \in Single \cup {"bcheck", "publish"} => job[t] # <<>>
  BY InHandFacts
<1> USE DEF life, work, drivers, ghosts, calls, World, Single, InBatch
<1>1. CASE flushBatch(t)
  BY <1>1, ZenonT(60) DEF flushBatch, flushBatchLocked, Handled, Swap, Finish
<1>2. CASE BatchCheck(t)
  BY <1>2, ZenonT(60) DEF BatchCheck, Goto, Handled, Advance, Fail
<1>3. CASE BatchFilter(t)
  <2>1. CASE StoreFaults /\ Return(t, FALSE) /\ UNCHANGED skipped
    BY <1>3, <2>1, ZenonT(60) DEF BatchFilter, Handled, Fail
  <2>2. CASE ~(StoreFaults /\ Return(t, FALSE) /\ UNCHANGED skipped)
    BY <1>3, <2>2, ZenonT(60) DEF BatchFilter, Handled, Sift
  <2> QED
    BY <2>1, <2>2, ZenonT(60)
<1>4. CASE FilterEnds(t)
  BY <1>4, ZenonT(60) DEF FilterEnds, Handled, Turn, Finish
<1>5. CASE BatchPublish(t)
  <2> DEFINE put == sink' = Append(sink, [n |-> Head(job[t]), claim |-> FALSE])
  <2>1. /\ pc[t] = "publish" /\ UNCHANGED <<World, batch, appended, seen, skipped>>
    BY <1>5 DEF BatchPublish
  <2>2. put => Put(Head(job[t]))
    BY <1>i, <2>1, PutEntry, ZenonT(60)
  <2>3. CASE put /\ Return(t, TRUE) /\ Len(job[t]) = 1 /\ ~Deduplication
    BY <2>1, <2>2, <2>3, ZenonT(60) DEF Handled, Finish
  <2>4. CASE /\ put /\ (Len(job[t]) = 1 => Deduplication)
             /\ job'  = [job EXCEPT ![t] = Tail(job[t])]
             /\ done' = [done EXCEPT ![t] = Append(done[t], Head(job[t]))]
             /\ pc'   = [pc EXCEPT ![t] = IF Len(job[t]) = 1 THEN "brecord" ELSE "publish"]
             /\ UNCHANGED <<tries, own, batchMu, acked>>
    BY <2>1, <2>2, <2>4 DEF Handled, Send
  <2>5. CASE SinkFaults # {} /\ (put \/ sink' = sink) /\ Return(t, FALSE)
    BY <2>1, <2>2, <2>5, ZenonT(60) DEF Handled, Fail
  <2> QED
    BY <1>5, <2>3, <2>4, <2>5, ZenonT(60) DEF BatchPublish
<1>6. CASE BatchRecord(t)
  BY <1>6, ZenonT(60) DEF BatchRecord, Handled, Finish
<1> QED
  BY <1>1, <1>2, <1>3, <1>4, <1>5, <1>6 DEF BatchStep

(* All together.                                                           *)
LEMMA Cases ==
  ASSUME Typed, Phases, [Next]_vars
  PROVE  Aside \/ Expire \/ \E t \in Threads : Handled(t)
<1>1. \A c \in Clients : c \in Threads
  BY DEF Threads
<1>2. \A f \in Flushers : f \in Threads
  BY DEF Threads
<1>3. Owner \in Threads
  BY DEF Threads
<1>4. CASE Start \/ StopLocks \/ StopFinishes \/ ContextEnds \/ UNCHANGED vars
  BY <1>3, <1>4, AsideSteps
<1>5. ASSUME NEW f \in Flushers, FlusherTicks(f) \/ FlusherExits(f) PROVE Aside
  BY <1>2, <1>5, AsideSteps
<1>6. ASSUME NEW id \in Ids, WindowPasses(id) PROVE Expire
  BY <1>6 DEF WindowPasses, Expire, World, life, threads, work, ghosts, calls
<1>7. ASSUME NEW c \in Clients, ClientStep(c) PROVE Aside \/ \E t \in Threads : Handled(t)
  BY <1>1, <1>7, ClientCases
<1>8. ASSUME NEW t \in Threads, BatchStep(t) PROVE Handled(t)
  BY <1>8, BatchCases
<1> QED
  BY <1>4, <1>5, <1>6, <1>7, <1>8 DEF Next

-----------------------------------------------------------------------------
(* Types, and what a goroutine has in hand.                                *)

(* Only one goroutine moves.                                               *)
Only(t) ==
  \A u \in Threads : u # t =>
    /\ pc'[u] = pc[u] /\ job'[u] = job[u] /\ done'[u] = done[u] /\ own'[u] = own[u]
    /\ batchMu' = u <=> batchMu = u

(* Nothing is in hand once a call has returned.                            *)
LEMMA Returned ==
  ASSUME Typed, NEW t \in Threads, NEW ok \in BOOLEAN, Return(t, ok)
  PROVE  /\ pc' \in [Threads -> Places]
         /\ job' \in [Threads -> Seq(Numbers)] /\ done' \in [Threads -> Seq(Numbers)]
         /\ own' \in [Threads -> SUBSET Numbers]
         /\ pc'[t] \in Resting /\ pc'[t] = Home(t)
         /\ job'[t] = <<>> /\ done'[t] = <<>> /\ own'[t] = {}
         /\ batchMu' \in Threads \cup {None} /\ batchMu' # t
         /\ acked' = (IF ok THEN acked \cup own[t] ELSE acked)
         /\ Only(t)
<1>1. Home(t) \in Resting /\ Home(t) \in Places
  BY DEF Home, Resting, Places
<1>2. <<>> \in Seq(Numbers)
  OBVIOUS
<1>3. /\ pc' = [pc EXCEPT ![t] = Home(t)]
      /\ job' = [job EXCEPT ![t] = <<>>]
      /\ done' = [done EXCEPT ![t] = <<>>]
      /\ own' = [own EXCEPT ![t] = {}]
      /\ batchMu' = IF batchMu = t THEN None ELSE batchMu
      /\ acked' = IF ok THEN acked \cup own[t] ELSE acked
      /\ pc \in [Threads -> Places]
      /\ job \in [Threads -> Seq(Numbers)] /\ done \in [Threads -> Seq(Numbers)]
      /\ own \in [Threads -> SUBSET Numbers]
      /\ batchMu \in Threads \cup {None}
  BY DEF Return, Typed
<1>4. None \notin Threads
  BY ProducerAssumption
<1> HIDE DEF Home
<1>5. /\ pc' \in [Threads -> Places] /\ pc'[t] = Home(t)
      /\ \A u \in Threads : u # t => pc'[u] = pc[u]
  BY <1>1, <1>3
<1>6. /\ job' \in [Threads -> Seq(Numbers)] /\ job'[t] = <<>>
      /\ \A u \in Threads : u # t => job'[u] = job[u]
  BY <1>2, <1>3
<1>7. /\ done' \in [Threads -> Seq(Numbers)] /\ done'[t] = <<>>
      /\ \A u \in Threads : u # t => done'[u] = done[u]
  BY <1>2, <1>3
<1>8. /\ own' \in [Threads -> SUBSET Numbers] /\ own'[t] = {}
      /\ \A u \in Threads : u # t => own'[u] = own[u]
  BY <1>3
<1>9. /\ batchMu' \in Threads \cup {None} /\ batchMu' # t
      /\ \A u \in Threads : u # t => (batchMu' = u <=> batchMu = u)
  BY <1>3, <1>4
<1> QED
  BY <1>1, <1>3, <1>5, <1>6, <1>7, <1>8, <1>9 DEF Only

(* The sink has one more entry.                                            *)
LEMMA PutFacts ==
  ASSUME Typed, NEW n \in Numbers, Put(n)
  PROVE  /\ sink' \in Seq(Entry) /\ Sent' = Sent \cup {n}
         /\ Len(sink') = Len(sink) + 1 /\ Len(sink) \in Nat
         /\ \A i \in 1..Len(sink) : sink'[i] = sink[i]
         /\ sink'[Len(sink) + 1].n = n
<1>1. PICK e \in Entry : e.n = n /\ sink' = Append(sink, e)
  BY DEF Put
<1>2. sink \in Seq(Entry)
  BY DEF Typed
<1> HIDE DEF Entry
<1>3. /\ sink' \in Seq(Entry) /\ Len(sink') = Len(sink) + 1 /\ Len(sink) \in Nat
      /\ \A i \in 1..Len(sink) : sink'[i] = sink[i]
      /\ sink'[Len(sink) + 1] = e
  BY <1>1, <1>2, AppendFacts
<1>4. DOMAIN sink = 1..Len(sink) /\ DOMAIN sink' = 1..(Len(sink) + 1)
  BY <1>2, <1>3
<1>5. Sent' = {sink'[i].n : i \in 1..(Len(sink) + 1)} /\ Sent = {sink[i].n : i \in 1..Len(sink)}
  BY <1>4 DEF Sent
<1>6. ASSUME NEW x \in Sent \cup {n} PROVE x \in Sent'
  <2>1. CASE x = n
    <3>1. Len(sink) + 1 \in 1..(Len(sink) + 1) /\ sink'[Len(sink) + 1].n = x
      BY <1>1, <1>3, <2>1
    <3> QED
      BY <1>5, <3>1
  <2>2. CASE x \in Sent
    <3>1. PICK i \in 1..Len(sink) : x = sink[i].n
      BY <1>5, <2>2
    <3>2. i \in 1..(Len(sink) + 1) /\ x = sink'[i].n
      BY <1>3, <3>1
    <3> QED
      BY <1>5, <3>2
  <2> QED
    BY <2>1, <2>2
<1>7. ASSUME NEW x \in Sent' PROVE x \in Sent \cup {n}
  <2>1. PICK i \in 1..(Len(sink) + 1) : x = sink'[i].n
    BY <1>5
  <2>2. CASE i = Len(sink) + 1
    BY <1>1, <1>3, <2>1, <2>2
  <2>3. CASE i # Len(sink) + 1
    <3>1. i \in 1..Len(sink)
      BY <1>3, <2>3
    <3> QED
      BY <1>3, <1>5, <2>1, <3>1
  <2> QED
    BY <2>2, <2>3
<1> QED
  BY <1>1, <1>3, <1>6, <1>7

(* What a step of one goroutine leaves alone, and the types of the rest.   *)
LEMMA HandledTypes ==
  ASSUME Typed, Phases, NEW t \in Threads, Handled(t), ~HandIn(t)
  PROVE  /\ Typed' /\ Only(t) /\ Numbers' = Numbers /\ msgs' = msgs
         /\ UNCHANGED World
<1>i. /\ Phase(t) /\ job[t] \in Seq(Numbers) /\ done[t] \in Seq(Numbers) /\ own[t] \subseteq Numbers
      /\ job[t] # <<>> => Head(job[t]) \in Numbers
      /\ pc[t] \in Single \cup {"bcheck", "publish"} => job[t] # <<>>
  BY InHandFacts, ZenonT(60)
<1>m. UNCHANGED World
  BY ZenonT(60) DEF Handled, Advance, Fail, Attempted, Finish, Sift, Turn, Send, Join, Swap
<1>n. Numbers' = Numbers /\ Entry' = Entry /\ msgs' = msgs
  BY <1>m DEF Numbers, Entry, World
<1>t. /\ pc \in [Threads -> Places]
      /\ job \in [Threads -> Seq(Numbers)] /\ done \in [Threads -> Seq(Numbers)]
      /\ own \in [Threads -> SUBSET Numbers]
      /\ batchMu \in Threads \cup {None} /\ batch \in Seq(Numbers) /\ appended \in Seq(Numbers)
      /\ sink \in Seq(Entry) /\ seen \subseteq Ids /\ acked \subseteq Numbers
      /\ skipped \subseteq Numbers
  BY DEF Typed
<1>e. <<>> \in Seq(Numbers)
  OBVIOUS
<1>g. ASSUME /\ pc' \in [Threads -> Places]
             /\ job' \in [Threads -> Seq(Numbers)] /\ done' \in [Threads -> Seq(Numbers)]
             /\ own' \in [Threads -> SUBSET Numbers]
             /\ batchMu' \in Threads \cup {None} /\ batch' \in Seq(Numbers)
             /\ appended' \in Seq(Numbers) /\ sink' \in Seq(Entry) /\ seen' \subseteq Ids
             /\ acked' \subseteq Numbers /\ skipped' \subseteq Numbers
      PROVE  Typed'
  <2>1. /\ conf' \in Setups /\ running' \in BOOLEAN /\ starts' \in 0..MaxStarts
        /\ mu' \in {None, Owner} /\ msgs' \in Seq(Message)
        /\ before' \in Seq(SUBSET Numbers) /\ Len(before') = Len(msgs')
    BY <1>m DEF World, Typed
  <2> QED
    BY <1>g, <1>n, <2>1, ZenonT(60) DEF Typed
<1>p. ASSUME pc[t] \in Single \cup {"publish"}, Put(Head(job[t])) PROVE sink' \in Seq(Entry)
  <2>1. Head(job[t]) \in Numbers
    BY <1>i, <1>p, ZenonT(60)
  <2> QED
    BY <1>p, <2>1, PutFacts, ZenonT(60)
<1> HIDE DEF Entry, Numbers
<1>1. CASE Advance(t)
  <2>1. \E v \in Places : pc' = [pc EXCEPT ![t] = v]
    BY <1>1 DEF Advance, AfterCheck, Places, Single, InBatch
  <2>2. UNCHANGED <<job, done, own, batchMu, acked, batch, appended, sink, seen, skipped>>
    BY <1>1 DEF Advance
  <2> QED
    BY <1>g, <1>m, <1>n, <1>t, <2>1, <2>2 DEF Only
<1>2. CASE Fail(t)
  <2>1. Return(t, FALSE) /\ UNCHANGED <<batch, appended, seen, skipped>>
    BY <1>2, ZenonT(60) DEF Fail
  <2>2. sink' \in Seq(Entry)
    BY <1>2, <1>p, <1>t DEF Fail, Single
  <2> QED
    BY <1>g, <1>m, <1>n, <1>t, <2>1, <2>2, Returned, ZenonT(60)
<1>3. CASE Attempted(t)
  <2>1. \E v \in Places : pc' = [pc EXCEPT ![t] = v]
    BY <1>3, <1>t DEF Attempted, Places, Single
  <2>2. UNCHANGED <<job, done, own, batchMu, acked, batch, appended, seen, skipped>>
    BY <1>3 DEF Attempted
  <2>3. sink' \in Seq(Entry)
    BY <1>3, <1>p DEF Attempted, Single
  <2> QED
    BY <1>g, <1>m, <1>n, <1>t, <2>1, <2>2, <2>3 DEF Only
<1>4. CASE Finish(t)
  <2>1. Return(t, TRUE) /\ UNCHANGED <<batch, appended>>
    BY <1>4, ZenonT(60) DEF Finish
  <2>2. sink' \in Seq(Entry)
    BY <1>4, <1>p, <1>t DEF Finish, Single
  <2>3. skipped' \subseteq Numbers
    BY <1>4, <1>i, <1>t DEF Finish
  <2>4. ASSUME NEW ns \in SUBSET Numbers, Recorded(ns) PROVE seen' \subseteq Ids
    <3>1. PICK R \in SUBSET ns : seen' = seen \cup {msgs[n].id : n \in R}
      BY <2>4, ZenonT(60) DEF Recorded
    <3>2. \A n \in Numbers : msgs[n].id \in Ids
      BY InHandFacts DEF Message
    <3> QED
      BY <1>t, <3>1, <3>2, ZenonT(60)
  <2>5. seen' \subseteq Ids
    <3>1. Range(job[t]) \subseteq Numbers /\ Range(done[t]) \subseteq Numbers
      BY <1>i, RangeFacts
    <3> QED
      BY <1>4, <1>t, <2>4, <3>1, ZenonT(60) DEF Finish
  <2>6. acked' = acked \cup own[t]
    BY <2>1 DEF Return
  <2> QED
    BY <1>g, <1>i, <1>m, <1>n, <1>t, <2>1, <2>2, <2>3, <2>5, <2>6, Returned, ZenonT(60)
<1>5. CASE Sift(t)
  <2>1. /\ job[t] # <<>> /\ job' = [job EXCEPT ![t] = Tail(job[t])]
        /\ skipped' \in {skipped, skipped \cup {Head(job[t])}}
        /\ done' = done \/ done' = [done EXCEPT ![t] = Append(done[t], Head(job[t]))]
        /\ UNCHANGED <<pc, own, batchMu, acked, batch, appended, sink, seen>>
    BY <1>5 DEF Sift
  <2>2. /\ Head(job[t]) \in Numbers /\ Tail(job[t]) \in Seq(Numbers)
        /\ Append(done[t], Head(job[t])) \in Seq(Numbers)
    BY <1>i, <2>1, HeadTail, AppendFacts, ZenonT(60)
  <2>3. /\ job' \in [Threads -> Seq(Numbers)] /\ done' \in [Threads -> Seq(Numbers)]
        /\ \A u \in Threads : u # t => job'[u] = job[u] /\ done'[u] = done[u]
    BY <1>t, <2>1, <2>2, ZenonT(60)
  <2> QED
    BY <1>g, <1>m, <1>n, <1>t, <2>1, <2>2, <2>3, ZenonT(60) DEF Only
<1>6. CASE Turn(t)
  <2>1. /\ job' = [job EXCEPT ![t] = done[t]] /\ done' = [done EXCEPT ![t] = <<>>]
        /\ pc' = [pc EXCEPT ![t] = "publish"] /\ "publish" \in Places
        /\ UNCHANGED <<own, batchMu, acked, batch, appended, sink, seen, skipped>>
    BY <1>6 DEF Turn, Places, InBatch
  <2>2. /\ job' \in [Threads -> Seq(Numbers)] /\ done' \in [Threads -> Seq(Numbers)]
        /\ \A u \in Threads : u # t => job'[u] = job[u] /\ done'[u] = done[u]
    BY <1>e, <1>t, <2>1
  <2> QED
    BY <1>g, <1>m, <1>n, <1>t, <2>1, <2>2 DEF Only
<1>7. CASE Send(t)
  <2>1. /\ job' = [job EXCEPT ![t] = Tail(job[t])]
        /\ done' = [done EXCEPT ![t] = Append(done[t], Head(job[t]))]
        /\ \E v \in Places : pc' = [pc EXCEPT ![t] = v]
        /\ UNCHANGED <<own, batchMu, acked, batch, appended, seen, skipped>>
        /\ job[t] # <<>>
    BY <1>7, <1>i, ZenonT(60) DEF Send, Places, InBatch
  <2>2. /\ Head(job[t]) \in Numbers /\ Tail(job[t]) \in Seq(Numbers)
        /\ Append(done[t], Head(job[t])) \in Seq(Numbers)
    BY <1>i, <2>1, HeadTail, AppendFacts, ZenonT(60)
  <2>3. /\ job' \in [Threads -> Seq(Numbers)] /\ done' \in [Threads -> Seq(Numbers)]
        /\ \A u \in Threads : u # t => job'[u] = job[u] /\ done'[u] = done[u]
    BY <1>t, <2>1, <2>2
  <2>4. sink' \in Seq(Entry)
    BY <1>7, <1>p DEF Send
  <2> QED
    BY <1>g, <1>m, <1>n, <1>t, <2>1, <2>3, <2>4, ZenonT(60) DEF Only
<1>8. CASE Join(t)
  <2>1. /\ Len(job[t]) = 1 /\ batchMu = None
        /\ appended' = appended \o job[t]
        /\ UNCHANGED <<sink, seen, skipped>>
    BY <1>8, <1>i, ZenonT(60) DEF Join, Phase, Single
  <2>2. batch \o job[t] \in Seq(Numbers) /\ appended' \in Seq(Numbers)
    BY <1>i, <1>t, <2>1, ConcatFacts, ZenonT(60)
  <2>3. CASE batch' = batch \o job[t] /\ Return(t, TRUE)
    BY <1>g, <1>i, <1>m, <1>n, <1>t, <2>1, <2>2, <2>3, Returned, ZenonT(60)
  <2>4. CASE /\ batch' = <<>> /\ batchMu' = t
             /\ job' = [job EXCEPT ![t] = batch \o job[t]]
             /\ pc' = [pc EXCEPT ![t] = "bcheck"]
             /\ UNCHANGED <<done, own, acked>>
    <3>1. "bcheck" \in Places /\ None \notin Threads
      BY ProducerAssumption DEF Places, InBatch
    <3> QED
      BY <1>e, <1>g, <1>m, <1>n, <1>t, <2>1, <2>2, <2>4, <3>1, ZenonT(60) DEF Only
  <2> QED
    BY <1>8, <2>3, <2>4, ZenonT(60) DEF Join
<1>9. CASE Swap(t)
  <2>1. /\ batch' = <<>> /\ batchMu' = t /\ batchMu = None
        /\ job' = [job EXCEPT ![t] = batch]
        /\ pc' = [pc EXCEPT ![t] = "bcheck"]
        /\ UNCHANGED <<done, own, acked, appended, sink, seen, skipped>>
    BY <1>9 DEF Swap
  <2>2. "bcheck" \in Places /\ None \notin Threads
    BY ProducerAssumption DEF Places, InBatch
  <2> QED
    BY <1>e, <1>g, <1>m, <1>n, <1>t, <2>1, <2>2, ZenonT(60) DEF Only
<1> QED
  BY <1>1, <1>2, <1>3, <1>4, <1>5, <1>6, <1>7, <1>8, <1>9 DEF Handled

(* A client that hands in messages changes no other goroutine's work.      *)
LEMMA HandInTypes ==
  ASSUME Typed, Phases, NEW t \in Threads, HandIn(t)
  PROVE  /\ Typed' /\ Only(t) /\ Numbers \subseteq Numbers'
         /\ pc[t] = "idle" /\ t \in Clients /\ done'[t] = <<>>
         /\ own'[t] = Range(job'[t]) /\ own'[t] \cap Numbers = {}
         /\ own'[t] = Numbers' \ Numbers
         /\ job'[t] \in Seq(Numbers') /\ Len(job'[t]) \in {1, 2}
         /\ Len(job'[t]) = 2 => job'[t][1] # job'[t][2]
         /\ pc'[t] \in {"dup", "append", "claim", "bcheck"}
         /\ pc'[t] = "bcheck" \/ (Len(job'[t]) = 1 /\ running)
         /\ pc'[t] = "dup" => Deduplication
         /\ pc'[t] = "append" => BatchSize > 0
         /\ pc'[t] = "claim" => BatchSize = 0 /\ ~Deduplication
         /\ \A n \in Numbers : msgs'[n] = msgs[n] /\ before'[n] = before[n]
         /\ \A n \in own'[t] : before'[n] = acked
         /\ Head(job'[t]) \in own'[t] /\ (Len(job'[t]) = 1 => own'[t] = {Head(job'[t])})
<1> DEFINE L == Len(msgs)
<1>1. PICK k \in {1, 2}, j \in Seq(Nat), v \in {"dup", "append", "claim", "bcheck"} :
        /\ msgs' \in Seq(Message) /\ Len(msgs') = L + k
        /\ \A i \in 1..L : msgs'[i] = msgs[i]
        /\ before' \in Seq(SUBSET Numbers)
        /\ Len(before') = L + k /\ DOMAIN before' = 1..(L + k)
        /\ \A i \in 1..L : before'[i] = before[i]
        /\ \A i \in (L + 1)..(L + k) : before'[i] = acked
        /\ Len(j) = k /\ j[1] = L + 1 /\ Head(j) = L + 1 /\ Range(j) = (L + 1)..(L + k)
        /\ k = 2 => j[2] = L + 2
        /\ pc' = [pc EXCEPT ![t] = v]
        /\ job' = [job EXCEPT ![t] = j]
        /\ own' = [own EXCEPT ![t] = Range(j)]
        /\ v = "bcheck" \/ (k = 1 /\ running)
        /\ v = "dup" => Deduplication
        /\ v = "append" => BatchSize > 0
        /\ v = "claim" => BatchSize = 0 /\ ~Deduplication
  BY ZenonT(60) DEF HandIn
<1>2. /\ UNCHANGED <<conf, running, mu, starts, done, batchMu, acked, batch, appended>>
      /\ UNCHANGED <<sink, seen, skipped>>
      /\ t \in Clients /\ pc[t] = "idle"
  BY ZenonT(60) DEF HandIn
<1>3. L \in Nat /\ Numbers = 1..L /\ Numbers' = 1..(L + k)
  <2>1. L \in Nat
    BY DEF Typed
  <2>2. Len(msgs') = L + k
    BY <1>1, ZenonT(60)
  <2> QED
    BY <2>1, <2>2 DEF Numbers
<1>t. /\ pc \in [Threads -> Places]
      /\ job \in [Threads -> Seq(Numbers)] /\ done \in [Threads -> Seq(Numbers)]
      /\ own \in [Threads -> SUBSET Numbers]
      /\ batchMu \in Threads \cup {None} /\ batch \in Seq(Numbers) /\ appended \in Seq(Numbers)
      /\ sink \in Seq(Entry) /\ seen \subseteq Ids /\ acked \subseteq Numbers
      /\ skipped \subseteq Numbers /\ before \in Seq(SUBSET Numbers)
  BY ZenonT(60) DEF Typed
<1>f. done[t] = <<>>
  BY <1>2, InHandFacts, ZenonT(60) DEF Phase, Resting
<1> HIDE DEF L
<1>4. /\ Numbers \subseteq Numbers' /\ (L + 1)..(L + k) = Numbers' \ Numbers
      /\ (L + 1)..(L + k) \cap Numbers = {} /\ L + 1 \in Numbers' /\ L + 1 \in (L + 1)..(L + k)
      /\ k = 2 => L + 2 \in Numbers' /\ L + 1 # L + 2
      /\ k = 1 => (L + 1)..(L + k) = {L + 1}
  BY <1>1, <1>3
<1>5. j \in Seq(Numbers')
  <2>1. \A i \in 1..k : j[i] \in Numbers'
    BY <1>1, <1>4
  <2> HIDE DEF Numbers
  <2> QED
    BY <1>1, <2>1
<1>6. /\ job'[t] = j /\ own'[t] = Range(j) /\ pc'[t] = v /\ pc' \in [Threads -> Places]
      /\ \A u \in Threads : u # t => pc'[u] = pc[u] /\ job'[u] = job[u] /\ own'[u] = own[u]
  BY <1>1, <1>t, ZenonT(60) DEF Places, Single, InBatch
<1>7. /\ batch' \in Seq(Numbers') /\ appended' \in Seq(Numbers')
      /\ \A u \in Threads : job[u] \in Seq(Numbers') /\ done[u] \in Seq(Numbers')
  <2>1. \A s \in Seq(Numbers) : s \in Seq(Numbers')
    BY <1>4, SeqWider
  <2> QED
    BY <1>2, <1>t, <2>1, ZenonT(60)
<1>8. sink' \in Seq(Entry')
  <2>1. Entry \subseteq Entry'
    BY <1>4 DEF Entry
  <2> HIDE DEF Entry
  <2> QED
    BY <1>2, <1>t, <2>1, SeqWider
<1>9. before' \in Seq(SUBSET Numbers')
  <2> DEFINE S == SUBSET Numbers
             T == SUBSET Numbers'
  <2>1. S \subseteq T /\ before' \in Seq(S)
    BY <1>1, <1>4, ZenonT(60)
  <2> HIDE DEF S, T
  <2>2. before' \in Seq(T)
    BY <2>1, SeqWider
  <2> QED
    BY <2>2 DEF T
<1>10. /\ job' \in [Threads -> Seq(Numbers')] /\ done' \in [Threads -> Seq(Numbers')]
  <2>1. DOMAIN job = Threads /\ DOMAIN done = Threads
    BY <1>t
  <2>2. job' = [u \in Threads |-> IF u = t THEN j ELSE job[u]]
    BY <1>1, <2>1, ZenonT(60)
  <2>3. done' = [u \in Threads |-> done[u]]
    BY <1>2, <1>t
  <2> HIDE DEF Numbers
  <2>4. job' \in [Threads -> Seq(Numbers')]
    BY <1>5, <1>7, <2>2
  <2>5. done' \in [Threads -> Seq(Numbers')]
    BY <1>7, <2>3
  <2> QED
    BY <2>4, <2>5
<1>11. own' \in [Threads -> SUBSET Numbers']
  <2>1. Range(j) \subseteq Numbers'
    BY <1>1, <1>4, ZenonT(60)
  <2> HIDE DEF Numbers
  <2> QED
    BY <1>1, <1>4, <1>t, <2>1, ZenonT(60)
<1>12. Typed'
  <2>1. /\ conf' \in Setups /\ running' \in BOOLEAN /\ starts' \in 0..MaxStarts
        /\ mu' \in {None, Owner} /\ batchMu' \in Threads \cup {None}
        /\ seen' \subseteq Ids
    BY <1>2, ZenonT(60) DEF Typed
  <2>2. acked' \subseteq Numbers' /\ skipped' \subseteq Numbers'
    BY <1>2, <1>4, <1>t, ZenonT(60)
  <2>3. msgs' \in Seq(Message) /\ Len(before') = Len(msgs') /\ Message' = Message
    BY <1>1, ZenonT(60) DEF Message
  <2> QED
    BY <1>6, <1>7, <1>8, <1>9, <1>10, <1>11, <2>1, <2>2, <2>3, ZenonT(60) DEF Typed
<1>13. Only(t)
  BY <1>2, <1>6, ZenonT(60) DEF Only
<1>14. Len(job'[t]) = k /\ done'[t] = <<>>
  BY <1>1, <1>2, <1>6, <1>f, ZenonT(60)
<1>15. /\ \A n \in Numbers : msgs'[n] = msgs[n] /\ before'[n] = before[n]
       /\ \A n \in own'[t] : before'[n] = acked
  BY <1>1, <1>3, <1>6, ZenonT(60)
<1>16. /\ own'[t] = (L + 1)..(L + k) /\ Head(job'[t]) = L + 1
       /\ job'[t][1] = L + 1 /\ (k = 2 => job'[t][2] = L + 2)
  BY <1>1, <1>6, ZenonT(60)
<1> QED
  BY <1>1, <1>2, <1>4, <1>5, <1>6, <1>12, <1>13, <1>14, <1>15, <1>16, ZenonT(60)

(* Other steps keep the types as well.                                     *)
LEMMA AsideTypes ==
  ASSUME Typed, Aside \/ Expire
  PROVE  Typed' /\ Numbers' = Numbers /\ UNCHANGED <<conf, msgs, before>>
<1>1. UNCHANGED <<conf, msgs, before>>
  BY ZenonT(60) DEF Aside, Expire, World
<1>2. Numbers' = Numbers /\ Entry' = Entry /\ Message' = Message
  BY <1>1 DEF Numbers, Entry, Message
<1> HIDE DEF Numbers, Entry, Message
<1>3. CASE Aside
  BY <1>1, <1>2, <1>3, ZenonT(60) DEF Aside, Typed
<1>4. CASE Expire
  BY <1>1, <1>2, <1>4, ZenonT(60) DEF Expire, World, Typed
<1> QED
  BY <1>1, <1>2, <1>3, <1>4

(* The sink only ever takes what the moving goroutine has first in hand.   *)
LEMMA SinkCases ==
  ASSUME Typed, Phases, NEW t \in Threads, Handled(t)
  PROVE  \/ sink' = sink /\ Sent' = Sent
         \/ /\ pc[t] \in {"attempt", "publish"} /\ Head(job[t]) \in Numbers
            /\ Put(Head(job[t])) /\ Sent' = Sent \cup {Head(job[t])}
<1>1. \/ sink' = sink
      \/ pc[t] \in {"attempt", "publish"} /\ Put(Head(job[t]))
  BY ZenonT(60) DEF Handled, Advance, Fail, Attempted, Finish, HandIn, Sift, Turn, Send, Join, Swap
<1>2. CASE sink' = sink
  BY <1>2 DEF Sent
<1>3. CASE pc[t] \in {"attempt", "publish"} /\ Put(Head(job[t]))
  <2>1. Head(job[t]) \in Numbers
    BY <1>3, InHandFacts, ZenonT(60) DEF Single
  <2> QED
    BY <1>3, <2>1, PutFacts
<1> QED
  BY <1>1, <1>2, <1>3

(* A goroutine that does not move stays where it is.                       *)
LEMMA PhaseKept ==
  ASSUME NEW t \in Threads, NEW u \in Threads, u # t, Only(t), Phase(u),
         UNCHANGED conf, Sent \subseteq Sent'
  PROVE  Phase(u)'
<1>1. /\ pc'[u] = pc[u] /\ job'[u] = job[u] /\ done'[u] = done[u] /\ own'[u] = own[u]
      /\ batchMu' = u <=> batchMu = u
  BY ZenonT(60) DEF Only
<1>2. BatchSize' = BatchSize /\ Deduplication' = Deduplication
  BY DEF BatchSize, Deduplication
<1> QED
  BY <1>1, <1>2, ZenonT(60) DEF Phase

(* A goroutine at rest has nothing in hand.                                *)
LEMMA PhaseRests ==
  ASSUME NEW t \in Threads, pc'[t] \in Resting, batchMu' # t,
         job'[t] = <<>>, done'[t] = <<>>, own'[t] = {}
  PROVE  Phase(t)'
BY ZenonT(60) DEF Phase, Resting, Single

(* Every step keeps goroutines to their phases.                            *)
LEMMA PhasesStep ==
  ASSUME Typed, Phases, [Next]_vars
  PROVE  Phases'
<1>c. UNCHANGED conf => BatchSize' = BatchSize /\ Deduplication' = Deduplication /\ Stops' = Stops
  BY DEF BatchSize, Deduplication, Stops
<1>1. CASE Aside
  <2>1. UNCHANGED <<conf, job, done, own, batchMu, batch, appended>> /\ Sent' = Sent
    BY <1>1, ZenonT(60) DEF Aside, Sent
  <2>2. ASSUME NEW u \in Threads PROVE Phase(u)'
    <3>1. Phase(u)
      BY DEF Phases
    <3>2. CASE pc'[u] = pc[u]
      BY <1>c, <2>1, <3>1, <3>2, ZenonT(60) DEF Phase
    <3>3. CASE pc[u] \in Resting /\ pc'[u] \in Resting
      <4>1. job[u] = <<>> /\ done[u] = <<>> /\ own[u] = {} /\ batchMu # u
        BY <3>1, <3>3, ZenonT(60) DEF Phase, Resting, InBatch
      <4> QED
        BY <2>1, <3>3, <4>1, PhaseRests, ZenonT(60)
    <3> QED
      BY <1>1, <3>2, <3>3 DEF Aside
  <2> QED
    BY <1>1, <1>c, <2>1, <2>2, ZenonT(60) DEF Aside, Phases
<1>2. CASE Expire
  <2>1. UNCHANGED <<conf, starts, pc, job, done, own, batchMu, batch, appended>> /\ Sent' = Sent
    BY <1>2, ZenonT(60) DEF Expire, World, Sent
  <2>2. ASSUME NEW u \in Threads PROVE Phase(u)'
    BY <1>c, <2>1 DEF Phases, Phase
  <2> QED
    BY <1>c, <2>1, <2>2 DEF Phases, Unstarted
<1>3. ASSUME NEW t \in Threads, Handled(t) PROVE Phases'
  <2>i. /\ Phase(t) /\ job[t] \in Seq(Numbers) /\ done[t] \in Seq(Numbers) /\ own[t] \subseteq Numbers
        /\ job[t] # <<>> => Head(job[t]) \in Numbers
        /\ pc[t] \in Single \cup {"bcheck", "publish"} => job[t] # <<>>
    BY InHandFacts, ZenonT(60)
  <2>o. Only(t) /\ UNCHANGED <<conf, starts>>
    <3>1. CASE HandIn(t)
      BY <3>1, HandInTypes, ZenonT(60) DEF HandIn
    <3>2. CASE ~HandIn(t)
      BY <1>3, <3>2, HandledTypes DEF World
    <3> QED
      BY <3>1, <3>2
  <2>s. Sent \subseteq Sent'
    BY <1>3, SinkCases
  <2>q. pc \in [Threads -> Places] /\ job \in [Threads -> Seq(Numbers)]
        /\ done \in [Threads -> Seq(Numbers)] /\ own \in [Threads -> SUBSET Numbers]
    BY DEF Typed
  <2>0. \A u \in Threads : u # t => Phase(u)'
    BY <2>o, <2>s, PhaseKept DEF Phases
  <2>r. ASSUME NEW ok \in BOOLEAN, Return(t, ok) PROVE Phase(t)'
    BY <2>r, Returned, PhaseRests, ZenonT(60)
  <2>1. Phase(t)'
    <3>1. CASE Advance(t)
      <4>1. UNCHANGED <<job, done, own, batchMu>>
        BY <3>1 DEF Advance
      <4>2. CASE pc[t] = "dup" /\ pc' = [pc EXCEPT ![t] = AfterCheck]
        <5>1. pc'[t] = AfterCheck
          BY <2>q, <4>2
        <5>2. CASE BatchSize > 0
          <6>1. pc'[t] = "append"
            BY <5>1, <5>2 DEF AfterCheck
          <6> QED
            BY <1>c, <2>i, <2>o, <4>1, <4>2, <5>2, <6>1, ZenonT(60) DEF Phase, Resting, Single, InBatch
        <5>3. CASE ~(BatchSize > 0)
          <6>1. pc'[t] = "claim" /\ BatchSize = 0
            BY <5>1, <5>3, SizeFacts DEF AfterCheck
          <6> QED
            BY <1>c, <2>i, <2>o, <4>1, <4>2, <6>1, ZenonT(60) DEF Phase, Resting, Single, InBatch
        <5> QED
          BY <5>2, <5>3
      <4>3. CASE pc[t] = "claim" /\ pc' = [pc EXCEPT ![t] = "attempt"]
        <5>1. pc'[t] = "attempt"
          BY <2>q, <4>3
        <5> QED
          BY <1>c, <2>i, <2>o, <4>1, <4>3, <5>1, ZenonT(60) DEF Phase, Resting, Single, InBatch
      <4>4. CASE /\ pc[t] = "bcheck"
                 /\ pc' = [pc EXCEPT ![t] = IF Deduplication THEN "filter" ELSE "publish"]
        <5>1. pc'[t] = IF Deduplication THEN "filter" ELSE "publish"
          BY <2>q, <4>4
        <5>2. Range(<<>>) = {}
          BY DEF Range
        <5>3. CASE Deduplication
          <6>1. pc'[t] = "filter"
            BY <5>1, <5>3
          <6> QED
            BY <1>c, <2>i, <2>o, <4>1, <4>4, <5>2, <5>3, <6>1, ZenonT(60) DEF Phase, Resting, Single, InBatch
        <5>4. CASE ~Deduplication
          <6>1. pc'[t] = "publish"
            BY <5>1, <5>4
          <6> QED
            BY <1>c, <2>i, <2>o, <4>1, <4>4, <5>2, <6>1, ZenonT(60) DEF Phase, Resting, Single, InBatch
        <5> QED
          BY <5>3, <5>4
      <4> QED
        BY <3>1, <4>2, <4>3, <4>4, ZenonT(60) DEF Advance
    <3>2. CASE Fail(t) \/ Finish(t)
      BY <2>r, <3>2, ZenonT(60) DEF Fail, Finish
    <3>3. CASE Attempted(t)
      <4>1. UNCHANGED <<job, done, own, batchMu>> /\ pc[t] = "attempt"
        BY <3>3 DEF Attempted
      <4>2. CASE pc' = pc
        BY <1>c, <2>i, <2>o, <4>1, <4>2, ZenonT(60) DEF Phase, Resting, Single, InBatch
      <4>3. CASE Deduplication /\ pc' = [pc EXCEPT ![t] = "record"]
        <5>1. pc'[t] = "record"
          BY <2>q, <4>3
        <5>2. Head(job'[t]) \in Sent'
          BY <2>i, <3>3, <4>1, PutFacts, ZenonT(60) DEF Attempted, Single
        <5> QED
          BY <1>c, <2>i, <2>o, <4>1, <4>3, <5>1, <5>2, ZenonT(60) DEF Phase, Resting, Single, InBatch
      <4> QED
        BY <3>3, <4>2, <4>3 DEF Attempted
    <3>4. CASE HandIn(t)
      <4>1. /\ pc[t] = "idle" /\ t \in Clients /\ done'[t] = <<>>
            /\ own'[t] = Range(job'[t])
            /\ job'[t] \in Seq(Numbers') /\ Len(job'[t]) \in {1, 2}
            /\ pc'[t] \in {"dup", "append", "claim", "bcheck"}
            /\ pc'[t] = "bcheck" \/ (Len(job'[t]) = 1 /\ running)
            /\ pc'[t] = "dup" => Deduplication
            /\ pc'[t] = "append" => BatchSize > 0
            /\ pc'[t] = "claim" => BatchSize = 0 /\ ~Deduplication
            /\ Len(job'[t]) = 1 => own'[t] = {Head(job'[t])}
        BY <3>4, HandInTypes, ZenonT(60)
      <4>2. job'[t] # <<>>
        <5>1. Len(<<>>) = 0
          OBVIOUS
        <5>2. 0 \notin {1, 2} /\ Len(job'[t]) \in {1, 2}
          BY <4>1
        <5> QED
          BY <5>1, <5>2, ZenonT(60)
      <4>3. batchMu' # t
        BY <2>i, <3>4, <4>1, ZenonT(60) DEF HandIn, Phase, InBatch
      <4> QED
        BY <1>c, <2>o, <4>1, <4>2, <4>3, ZenonT(60) DEF Phase, Resting, Single, InBatch
    <3>5. CASE Sift(t)
      <4>1. UNCHANGED <<own, batchMu, pc>> /\ pc[t] = "filter"
        BY <3>5, ZenonT(60) DEF Sift
      <4> QED
        BY <1>c, <2>i, <2>o, <4>1, ZenonT(60) DEF Phase, Resting, Single, InBatch
    <3>6. CASE Turn(t)
      <4>1. /\ UNCHANGED <<own, batchMu>> /\ pc[t] = "filter" /\ pc'[t] = "publish"
            /\ job'[t] # <<>> /\ done'[t] = <<>>
        BY <2>q, <3>6, ZenonT(60) DEF Turn
      <4>2. Range(<<>>) = {}
        BY DEF Range
      <4> QED
        BY <1>c, <2>i, <2>o, <4>1, <4>2, ZenonT(60) DEF Phase, Resting, Single, InBatch
    <3>7. CASE Send(t)
      <4>1. /\ UNCHANGED <<own, batchMu>> /\ pc[t] = "publish"
            /\ job'[t] = Tail(job[t]) /\ done'[t] = Append(done[t], Head(job[t]))
            /\ pc'[t] = IF Len(job[t]) = 1 THEN "brecord" ELSE "publish"
            /\ Len(job[t]) = 1 => Deduplication
        BY <2>q, <3>7, ZenonT(60) DEF Send
      <4>2. job[t] # <<>> /\ Head(job[t]) \in Numbers
        BY <2>i, <4>1, ZenonT(60)
      <4>3. Sent' = Sent \cup {Head(job[t])}
        BY <3>7, <4>2, PutFacts, ZenonT(60) DEF Send
      <4>4. Range(done'[t]) = Range(done[t]) \cup {Head(job[t])}
        BY <2>i, <4>1, <4>2, AppendFacts
      <4>5. Range(done[t]) \subseteq Sent
        BY <2>i, <4>1, ZenonT(60) DEF Phase
      <4>6. Tail(job[t]) \in Seq(Numbers) /\ Len(Tail(job[t])) = Len(job[t]) - 1
        BY <2>i, <4>2, HeadTail, ZenonT(60)
      <4>7. Len(job[t]) = 1 <=> job'[t] = <<>>
        <5>1. Len(job[t]) \in Nat
          BY <2>i
        <5>2. Len(Tail(job[t])) = 0 <=> Tail(job[t]) = <<>>
          BY <4>6, EmptySeq, ZenonT(60)
        <5> QED
          BY <4>1, <4>6, <5>1, <5>2
      <4>8. Range(done'[t]) \subseteq Sent'
        BY <4>3, <4>4, <4>5
      <4>9. pc'[t] \in {"publish", "brecord"}
        BY <4>1
      <4> QED
        BY <1>c, <2>i, <2>o, <4>1, <4>7, <4>8, <4>9, ZenonT(60) DEF Phase, Resting, Single, InBatch
    <3>8. CASE Join(t)
      <4>1. CASE Return(t, TRUE)
        BY <2>r, <4>1, ZenonT(60)
      <4>2. CASE /\ job' = [job EXCEPT ![t] = batch \o job[t]] /\ batchMu' = t
                 /\ pc' = [pc EXCEPT ![t] = "bcheck"] /\ UNCHANGED <<done, own, acked>>
        <5>1. pc[t] = "append" /\ pc'[t] = "bcheck" /\ job'[t] = batch \o job[t] /\ batch \in Seq(Numbers)
          BY <2>q, <3>8, <4>2, ZenonT(60) DEF Join, Typed
        <5>2. Len(job[t]) = 1 /\ done[t] = <<>>
          BY <2>i, <5>1, ZenonT(60) DEF Phase, Single
        <5>3. batch \o job[t] = Append(batch, Head(job[t])) /\ Head(job[t]) \in Numbers
          BY <2>i, <5>1, <5>2, JoinOne, ZenonT(60)
        <5>4. job'[t] # <<>>
          <6>1. Len(Append(batch, Head(job[t]))) = Len(batch) + 1
            BY <5>1, <5>3, AppendFacts
          <6>2. Len(batch) \in Nat /\ Len(<<>>) = 0
            BY <5>1
          <6> HIDE DEF Phase
          <6>3. Len(batch) + 1 # 0
            BY <6>2
          <6> QED
            BY <5>1, <5>3, <6>1, <6>2, <6>3, ZenonT(60)
        <5> QED
          BY <2>o, <4>2, <5>1, <5>2, <5>4, ZenonT(60) DEF Phase, Resting, Single, InBatch
      <4> QED
        BY <3>8, <4>1, <4>2, ZenonT(60) DEF Join
    <3>9. CASE Swap(t)
      <4>1. /\ pc[t] = "flush" /\ pc'[t] = "bcheck" /\ job'[t] = batch /\ batch # <<>>
            /\ batchMu' = t /\ done' = done
        BY <2>q, <3>9, ZenonT(60) DEF Swap
      <4>2. done[t] = <<>>
        BY <2>i, <4>1, ZenonT(60) DEF Phase, Resting
      <4> QED
        BY <4>1, <4>2, ZenonT(60) DEF Phase, Resting, Single, InBatch
    <3> QED
      BY <1>3, <3>1, <3>2, <3>3, <3>4, <3>5, <3>6, <3>7, <3>8, <3>9 DEF Handled
  <2>p. pc[t] \in Single \cup InBatch \cup {"flush"} \/ (t \in Clients /\ pc[t] = "idle")
    BY <1>3, ZenonT(60) DEF Handled, Advance, Fail, Attempted, Finish, HandIn, Sift, Turn, Send, Join, Swap,
                Single, InBatch
  <2>2. Unstarted'
    <3>1. ASSUME NEW f \in Flushers, f > starts' PROVE pc'[f] = "off"
      <4>1. pc[f] = "off" /\ f \in Threads /\ f \notin Clients
        BY <2>o, <3>1, ProducerAssumption DEF Phases, Unstarted, Threads
      <4>2. f # t
        BY <2>p, <4>1 DEF Single, InBatch
      <4> QED
        BY <2>o, <4>1, <4>2, ZenonT(60) DEF Only
    <3> QED
      BY <3>1 DEF Unstarted
  <2>3. ~Stops' => pc'[Owner] = "idle"
    <3>1. Owner \in Threads /\ Owner \notin Clients
      BY ProducerAssumption DEF Threads
    <3>2. ~Stops => Owner # t
      BY <2>p, <3>1 DEF Phases, Single, InBatch
    <3> QED
      BY <1>c, <2>o, <3>1, <3>2 DEF Phases, Only
  <2>4. BatchSize' = 0 => batch' = <<>> /\ appended' = <<>>
    <3>1. CASE ~Join(t) /\ ~Swap(t)
      <4>1. UNCHANGED <<batch, appended>>
        BY <1>3, <3>1, ZenonT(60) DEF Handled, Advance, Fail, Attempted, Finish, HandIn, Sift, Turn, Send
      <4> QED
        BY <1>c, <2>o, <4>1 DEF Phases
    <3>2. CASE Join(t)
      <4>1. BatchSize > 0
        BY <2>i, <3>2, ZenonT(60) DEF Join, Phase
      <4> QED
        BY <1>c, <2>o, <4>1
    <3>3. CASE Swap(t)
      BY <1>c, <2>o, <3>3 DEF Swap, Phases
    <3> QED
      BY <3>1, <3>2, <3>3
  <2> QED
    BY <2>0, <2>1, <2>2, <2>3, <2>4, ZenonT(60) DEF Phases
<1> QED
  BY <1>1, <1>2, <1>3, Cases
=============================================================================
