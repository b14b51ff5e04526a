--------------------------- MODULE ProducerProofs ---------------------------
(***************************************************************************)
(* What is kept and what is remembered: the inductive invariant of         *)
(* Producer and the theorems that follow, for any number of clients,       *)
(* starts, messages and retries, and any set of configurations.            *)
(***************************************************************************)
EXTENDS ProducerStepProofs

(* What was handed in is not lost.  Before the first Start there is        *)
(* nothing but calls of PublishBatch that will be refused.                 *)
Placed == Sent \cup Range(batch) \cup skipped
Kept ==
  Undisturbed =>
    /\ BatchSize = 0 =>
         /\ acked \subseteq Sent \cup skipped
         /\ \A t \in Threads : own[t] \subseteq Sent \cup skipped \cup Held(t)
    /\ BatchSize > 0 =>
         /\ acked \subseteq Placed \cup InHand
         /\ \A t \in Threads : own[t] \subseteq Placed \cup InHand
         /\ ~running =>
              /\ acked = {} /\ batch = <<>>
              /\ \A t \in Threads : pc[t] \in Resting \cup {"bcheck"} /\ own[t] \subseteq Held(t)

(* Only the IDs of messages in the sink are recorded.                      *)
Twins ==
  /\ \A id \in seen : \E m \in Sent : msgs[m].id = id
  /\ SkippedHasTwin

(* The messages that have passed the check for duplicates.                 *)
Passed(t) ==
  IF pc[t] \in {"claim", "attempt", "record", "publish"} THEN Range(job[t])
  ELSE IF pc[t] = "filter" THEN Range(done[t]) ELSE {}

(* The IDs of acknowledged messages are recorded, so that a message that   *)
(* passes the check repeats none that was acknowledged before.             *)
Remembered ==
  /\ \A n \in Numbers : before[n] \subseteq acked
  /\ BatchSize = 0 /\ Deduplication /\ ~StoreFaults /\ ~Expires =>
       /\ \A n \in acked : IsDuplicate(n)
       /\ \A t \in Threads : \A n \in own[t] :
            n \in Range(job[t]) \cup Range(done[t]) \/ IsDuplicate(n)
       /\ \A n \in Sent \cup UNION {Passed(t) : t \in Threads} :
            \A m \in before[n] : msgs[m].id # msgs[n].id

Inv == Typed /\ Phases /\ Kept /\ Twins /\ Remembered

-----------------------------------------------------------------------------
(* The hands of the other goroutines.                                      *)
LEMMA HeldOther ==
  ASSUME NEW t \in Threads, Only(t)
  PROVE  \A u \in Threads : u # t =>
           /\ Held(u)' = Held(u) /\ job'[u] = job[u] /\ done'[u] = done[u] /\ pc'[u] = pc[u]
           /\ batchMu' = u <=> batchMu = u
BY DEF Only, Held

(* What is in the sink was handed in.                                      *)
LEMMA SentNumbers ==
  ASSUME Typed
  PROVE  Sent \subseteq Numbers
<1>1. sink \in Seq(Entry)
  BY DEF Typed
<1> HIDE DEF Entry
<1>2. \A i \in DOMAIN sink : sink[i] \in Entry
  BY <1>1
<1>3. \A e \in Entry : e.n \in Numbers
  BY DEF Entry
<1> QED
  BY <1>2, <1>3 DEF Sent

-----------------------------------------------------------------------------
(* Nothing is lost.                                                        *)
Stock(t) == Placed \cup Held(t)

(* What a goroutine has in hand moves on, unless its call fails.           *)
LEMMA Stays ==
  ASSUME Typed, Phases, NEW t \in Threads, Handled(t)
  PROVE  /\ Sent \subseteq Sent' /\ skipped \subseteq skipped'
         /\ Fail(t) \/ Stock(t) \subseteq Stock(t)'
<1>i. /\ Phase(t) /\ job[t] \in Seq(Numbers) /\ done[t] \in Seq(Numbers)
      /\ job[t] # <<>> => Head(job[t]) \in Numbers
      /\ pc[t] \in Single \cup {"bcheck", "publish"} => job[t] # <<>>
  BY InHandFacts
<1>q. pc \in [Threads -> Places] /\ job \in [Threads -> Seq(Numbers)]
      /\ done \in [Threads -> Seq(Numbers)] /\ batch \in Seq(Numbers)
  BY DEF Typed
<1>e. Range(<<>>) = {}
  BY DEF Range
<1>s. Sent \subseteq Sent'
  BY SinkCases
<1>k. skipped \subseteq skipped'
  BY ZenonT(60) DEF Handled, Advance, Fail, Attempted, Finish, HandIn, Sift, Turn, Send, Join, Swap
<1>p. job[t] # <<>> => /\ Range(job[t]) = {Head(job[t])} \cup Range(Tail(job[t]))
                       /\ Len(job[t]) = 1 => Range(job[t]) = {Head(job[t])}
  BY <1>i, HeadTail
<1> SUFFICES Fail(t) \/ Stock(t) \subseteq Stock(t)'
  BY <1>s, <1>k
<1>b. ASSUME Range(batch) \subseteq Range(batch') \cup Held(t)',
             Held(t) \subseteq Sent' \cup skipped' \cup Range(batch') \cup Held(t)'
      PROVE  Stock(t) \subseteq Stock(t)'
  BY <1>b, <1>s, <1>k DEF Stock, Placed
<1>1. CASE Advance(t)
  BY <1>1, <1>b, ZenonT(60) DEF Advance, Held
<1>2. CASE Attempted(t)
  BY <1>2, <1>b, ZenonT(60) DEF Attempted, Held
<1>3. CASE Finish(t)
  <2>1. batch' = batch
    BY <1>3 DEF Finish
  <2>2. CASE pc[t] \in {"flush", "filter", "brecord"}
    <3>1. Held(t) = {}
      BY <1>3, <1>e, <1>i, <2>2, ZenonT(60) DEF Finish, Phase, Resting, Held
    <3> QED
      BY <1>b, <2>1, <3>1
  <2>3. CASE pc[t] = "dup"
    <3>1. Held(t) = own[t] /\ own[t] \subseteq skipped'
      BY <1>3, <1>i, <1>p, <2>3, ZenonT(60) DEF Finish, Phase, Single, Held
    <3> QED
      BY <1>b, <2>1, <3>1, ZenonT(60)
  <2>4. CASE pc[t] \in {"attempt", "publish"}
    <3>1. Held(t) = {Head(job[t])} /\ Head(job[t]) \in Numbers /\ Put(Head(job[t]))
      BY <1>3, <1>i, <1>p, <2>4 DEF Finish, Single, Held
    <3>2. Head(job[t]) \in Sent'
      BY <3>1, PutFacts
    <3> QED
      BY <1>b, <2>1, <3>1, <3>2
  <2>5. CASE pc[t] = "record"
    <3>1. Held(t) = {Head(job[t])} /\ Head(job[t]) \in Sent
      BY <1>i, <1>p, <2>5 DEF Phase, Single, Held
    <3> QED
      BY <1>b, <1>s, <2>1, <3>1
  <2> QED
    BY <1>3, <2>2, <2>3, <2>4, <2>5 DEF Finish
<1>4. CASE HandIn(t)
  <2>1. Held(t) = {} /\ batch' = batch
    BY <1>4, <1>e, <1>i DEF HandIn, Phase, Resting, Held
  <2> QED
    BY <1>b, <2>1
<1>5. CASE Sift(t)
  <2>1. Range(Append(done[t], Head(job[t]))) = Range(done[t]) \cup {Head(job[t])}
    BY <1>5, <1>i, AppendFacts DEF Sift
  <2>2. /\ Held(t) = Range(done[t]) \cup {Head(job[t])} \cup Range(Tail(job[t]))
        /\ Held(t)' = Range(Tail(job[t])) \cup Range(done'[t])
        /\ batch' = batch
    BY <1>5, <1>p, <1>q DEF Sift, Held
  <2>3. CASE done' = done /\ Head(job[t]) \in skipped'
    BY <1>b, <2>2, <2>3
  <2>4. CASE done'[t] = Append(done[t], Head(job[t]))
    BY <1>b, <2>1, <2>2, <2>4
  <2> QED
    BY <1>5, <1>q, <2>3, <2>4 DEF Sift
<1>6. CASE Turn(t)
  <2>1. Held(t) = Range(done[t]) /\ Held(t)' = Range(done[t]) /\ batch' = batch
    BY <1>6, <1>e, <1>q DEF Turn, Held
  <2> QED
    BY <1>b, <2>1
<1>7. CASE Send(t)
  <2>1. /\ Held(t) = {Head(job[t])} \cup Range(Tail(job[t])) /\ batch' = batch
        /\ Head(job[t]) \in Numbers /\ Put(Head(job[t]))
    BY <1>7, <1>i, <1>p DEF Send, Held
  <2>2. Range(Tail(job[t])) \subseteq Held(t)'
    BY <1>7, <1>q DEF Send, Held
  <2>3. Head(job[t]) \in Sent'
    BY <2>1, PutFacts
  <2> QED
    BY <1>b, <2>1, <2>2, <2>3
<1>8. CASE Join(t)
  <2>1. Held(t) = Range(job[t]) /\ Len(job[t]) = 1
    BY <1>8, <1>i, ZenonT(60) DEF Join, Held, Phase, Single
  <2>2. batch \o job[t] = Append(batch, Head(job[t])) /\ Range(job[t]) = {Head(job[t])}
    BY <1>8, <1>i, <1>p, <1>q, <2>1, JoinOne DEF Join, Single
  <2>3. Range(batch \o job[t]) = Range(batch) \cup {Head(job[t])}
    BY <1>8, <1>i, <1>q, <2>2, AppendFacts DEF Join, Single
  <2>4. Range(batch \o job[t]) \subseteq Range(batch') \cup Held(t)'
    BY <1>8, <1>q, ZenonT(60) DEF Join, Held
  <2> QED
    BY <1>b, <2>1, <2>2, <2>3, <2>4
<1>9. CASE Swap(t)
  <2>1. Held(t) = {} /\ Held(t)' = Range(batch)
    BY <1>9, <1>e, <1>i, <1>q DEF Swap, Phase, Resting, Held
  <2> QED
    BY <1>b, <2>1
<1> QED
  BY <1>1, <1>2, <1>3, <1>4, <1>5, <1>6, <1>7, <1>8, <1>9 DEF Handled

(* What a caller has been told, and what it still waits for.               *)
LEMMA Answered ==
  ASSUME Typed, Phases, NEW t \in Threads, Handled(t)
  PROVE  \/ own'[t] = own[t] /\ acked' = acked
         \/ Fail(t) /\ own'[t] = {} /\ acked' = acked
         \/ own'[t] = {} /\ acked' = acked \cup own[t] /\ Held(t)' = {}
         \/ HandIn(t) /\ own'[t] \subseteq Held(t)' /\ acked' = acked
<1>e. Range(<<>>) = {}
  BY DEF Range
<1>1. CASE Fail(t)
  BY <1>1, Returned, ZenonT(60) DEF Fail
<1>2. CASE Finish(t) \/ (Join(t) /\ Return(t, TRUE))
  <2>1. own'[t] = {} /\ acked' = acked \cup own[t] /\ job'[t] = <<>> /\ pc'[t] \in Resting
    BY <1>2, Returned, ZenonT(60) DEF Finish
  <2> QED
    BY <1>e, <2>1, ZenonT(60) DEF Held, Resting
<1>3. CASE HandIn(t)
  BY <1>3, HandInTypes, ZenonT(60) DEF HandIn, Held
<1> QED
  BY <1>1, <1>2, <1>3, ZenonT(60) DEF Handled, Advance, Attempted, Sift, Turn, Send, Join, Swap

(* Every step keeps what was handed in.                                    *)
LEMMA KeptStep ==
  ASSUME Typed, Phases, Kept, [Next]_vars
  PROVE  Kept'
<1>c. UNCHANGED conf => /\ BatchSize' = BatchSize /\ Undisturbed' = Undisturbed
  BY DEF BatchSize, Undisturbed, Stops, SinkFaults, StoreFaults
<1>1. CASE Aside \/ Expire
  <2>1. UNCHANGED <<conf, job, done, own, batch, sink, acked, skipped>>
    BY <1>1 DEF Aside, Expire, World
  <2>2. \A u \in Threads : /\ pc'[u] = pc[u] \/ (pc[u] \in Resting /\ pc'[u] \in Resting)
                           /\ (pc'[u] = "filter") <=> (pc[u] = "filter")
    BY <1>1 DEF Aside, Expire, Resting
  <2>3. \A u \in Threads : Held(u)' = Held(u)
    BY <2>1, <2>2 DEF Held
  <2>4. Sent' = Sent /\ Placed' = Placed /\ InHand' = InHand
    BY <2>1, <2>3 DEF Sent, Placed, InHand
  <2>5. Undisturbed /\ BatchSize > 0 => (~running' => ~running)
    <3>1. BatchSize > 0 => BatchSize # 0
      BY SizeFacts
    <3>2. ~Stops => (~running' => ~running)
      BY <1>1 DEF Aside, Expire, World
    <3> QED
      BY <3>1, <3>2 DEF Undisturbed
  <2> HIDE DEF Resting
  <2> QED
    BY <1>c, <2>1, <2>2, <2>3, <2>4, <2>5, ZenonT(60) DEF Kept
<1>2. ASSUME NEW t \in Threads, Handled(t) PROVE Kept'
  <2>1. Only(t) /\ UNCHANGED <<conf, running>>
    <3>1. CASE HandIn(t)
      BY <3>1, HandInTypes, ZenonT(60) DEF HandIn
    <3>2. CASE ~HandIn(t)
      BY <1>2, <3>2, HandledTypes DEF World
    <3> QED
      BY <3>1, <3>2
  <2>2. /\ Sent \subseteq Sent' /\ skipped \subseteq skipped'
        /\ Fail(t) \/ Stock(t) \subseteq Stock(t)'
    BY <1>2, Stays
  <2>3. \/ own'[t] = own[t] /\ acked' = acked
        \/ Fail(t) /\ own'[t] = {} /\ acked' = acked
        \/ own'[t] = {} /\ acked' = acked \cup own[t] /\ Held(t)' = {}
        \/ HandIn(t) /\ own'[t] \subseteq Held(t)' /\ acked' = acked
    BY <1>2, Answered, ZenonT(60)
  <2>4. \A u \in Threads : u # t => Held(u)' = Held(u) /\ own'[u] = own[u] /\ pc'[u] = pc[u]
    BY <2>1, HeldOther, ZenonT(60) DEF Only
  <2>f. Fail(t) => own'[t] = {} /\ acked' = acked /\ pc'[t] \in Resting /\ batch' = batch
    BY Returned, ZenonT(60) DEF Fail
  <2> SUFFICES ASSUME Undisturbed PROVE Kept'
    BY <1>c, <2>1, ZenonT(60) DEF Kept
  <2>5. CASE BatchSize = 0
    <3>1. /\ acked \subseteq Sent \cup skipped
          /\ \A u \in Threads : own[u] \subseteq Sent \cup skipped \cup Held(u)
      BY <2>5 DEF Kept
    <3>2. Range(batch) = {} /\ Range(batch') = {}
      <4>1. batch = <<>> /\ pc[t] # "append"
        BY <2>5, InHandFacts, SMTT(30) DEF Phases, Phase
      <4>2. batch' = <<>>
        BY <1>2, <4>1, ZenonT(60) DEF Handled, Advance, Fail, Attempted, Finish, HandIn, Sift, Turn, Send, Join, Swap
      <4> QED
        BY <4>1, <4>2 DEF Range
    <3>3. Fail(t) \/ Sent \cup skipped \cup Held(t) \subseteq Sent' \cup skipped' \cup Held(t)'
      BY <2>2, <3>2 DEF Stock, Placed
    <3>4. acked' \subseteq Sent' \cup skipped'
      BY <2>2, <2>3, <2>f, <3>1, <3>3, ZenonT(60)
    <3>5. own'[t] \subseteq Sent' \cup skipped' \cup Held(t)'
      BY <2>2, <2>3, <2>f, <3>1, <3>3, ZenonT(60)
    <3>6. \A u \in Threads : own'[u] \subseteq Sent' \cup skipped' \cup Held(u)'
      BY <2>2, <2>4, <3>1, <3>5, ZenonT(60)
    <3>7. BatchSize' = 0 /\ ~(BatchSize' > 0)
      BY <1>c, <2>1, <2>5
    <3> QED
      BY <3>4, <3>6, <3>7 DEF Kept
  <2>6. CASE BatchSize > 0
    <3>0. BatchSize' > 0 /\ BatchSize' # 0 /\ BatchSize # 0
      BY <1>c, <2>1, <2>6, SizeFacts
    <3>1. /\ acked \subseteq Placed \cup InHand
          /\ \A u \in Threads : own[u] \subseteq Placed \cup InHand
      BY <2>6 DEF Kept
    <3>2. ASSUME ~running
          PROVE  /\ acked = {} /\ batch = <<>>
                 /\ \A u \in Threads : pc[u] \in Resting \cup {"bcheck"} /\ own[u] \subseteq Held(u)
      BY <2>6, <3>2 DEF Kept
    <3>3. Held(t)' \subseteq InHand' /\ \A u \in Threads : Held(u) \subseteq InHand
      BY DEF InHand
    <3>4. Fail(t) => ~running
      BY <3>0 DEF Fail, Undisturbed
    <3>5. ASSUME ~Fail(t) PROVE Placed \cup InHand \subseteq Placed' \cup InHand'
      <4>1. Placed \cup Held(t) \subseteq Placed' \cup Held(t)'
        BY <2>2, <3>5 DEF Stock
      <4>2. ASSUME NEW u \in Threads PROVE Held(u) \subseteq Placed' \cup InHand'
        <5>1. CASE u = t
          BY <3>3, <4>1, <5>1
        <5>2. CASE u # t
          BY <2>4, <5>2 DEF InHand
        <5> QED
          BY <5>1, <5>2
      <4>3. InHand \subseteq Placed' \cup InHand'
        BY <4>2 DEF InHand
      <4> QED
        BY <3>3, <4>1, <4>3
    <3>6. CASE Fail(t)
      <4>1. acked' = {} /\ batch' = <<>> /\ own'[t] = {} /\ pc'[t] \in Resting
        BY <2>f, <3>2, <3>4, <3>6
      <4>2. \A u \in Threads : pc'[u] \in Resting \cup {"bcheck"} /\ own'[u] \subseteq Held(u)'
        BY <2>4, <3>2, <3>4, <3>6, <4>1
      <4>3. \A u \in Threads : own'[u] \subseteq InHand'
        BY <4>2 DEF InHand
      <4> QED
        BY <3>0, <4>1, <4>2, <4>3 DEF Kept
    <3>7. CASE ~Fail(t)
      <4>1. acked' \subseteq Placed' \cup InHand' /\ own'[t] \subseteq Placed' \cup InHand'
        BY <2>3, <3>1, <3>3, <3>5, <3>7
      <4>2. \A u \in Threads : own'[u] \subseteq Placed' \cup InHand'
        BY <2>4, <3>1, <3>5, <3>7, <4>1
      <4>3. ASSUME ~running'
            PROVE  /\ acked' = {} /\ batch' = <<>>
                   /\ \A u \in Threads : pc'[u] \in Resting \cup {"bcheck"} /\ own'[u] \subseteq Held(u)'
        <5>1. ~running
          BY <2>1, <4>3
        <5>2. /\ acked = {} /\ batch = <<>> /\ pc[t] \in Resting \cup {"bcheck"}
              /\ own[t] \subseteq Held(t)
          BY <3>2, <5>1
        <5>3. HandIn(t) \/ (pc[t] = "flush" /\ Finish(t))
          BY <1>2, <3>7, <5>1, <5>2, ZenonT(60)
             DEF Handled, Advance, Attempted, Finish, Sift, Turn, Send, Join, Swap, Resting
        <5>4. CASE HandIn(t)
          <6>1. own'[t] \subseteq Held(t)' /\ acked' = acked /\ batch' = batch /\ pc'[t] = "bcheck"
            BY <5>1, <5>4, HandInTypes, ZenonT(60) DEF HandIn, Held
          <6> QED
            BY <2>4, <3>2, <5>1, <5>2, <6>1, ZenonT(60)
        <5>5. CASE pc[t] = "flush" /\ Finish(t)
          <6>1. own[t] = {}
            BY <5>5, InHandFacts, ZenonT(60) DEF Phase, Resting
          <6>2. pc'[t] \in Resting /\ own'[t] = {} /\ acked' = acked \cup own[t] /\ batch' = batch
            BY <5>5, Returned, ZenonT(60) DEF Finish
          <6> QED
            BY <2>4, <3>2, <5>1, <5>2, <6>1, <6>2, ZenonT(60)
        <5> QED
          BY <5>3, <5>4, <5>5, ZenonT(60)
      <4> QED
        BY <3>0, <4>1, <4>2, <4>3 DEF Kept
    <3> QED
      BY <3>6, <3>7
  <2> QED
    BY <2>5, <2>6, SizeFacts
<1> QED
  BY <1>1, <1>2, Cases

-----------------------------------------------------------------------------
(* Deduplication.                                                          *)

(* Only the IDs of messages in the sink come to be recorded, and only      *)
(* messages whose ID is recorded to be skipped.                            *)
LEMMA SeenCases ==
  ASSUME Typed, Phases, NEW t \in Threads, Handled(t)
  PROVE  /\ \E R \in SUBSET Sent : seen' = seen \cup {msgs[n].id : n \in R}
         /\ \A n \in skipped' : n \in skipped \/ (n \in Numbers /\ IsDuplicate(n))
<1>i. /\ Phase(t) /\ job[t] \in Seq(Numbers)
      /\ job[t] # <<>> => Head(job[t]) \in Numbers
      /\ pc[t] \in Single => job[t] # <<>>
  BY InHandFacts
<1>1. ASSUME seen' = seen PROVE \E R \in SUBSET Sent : seen' = seen \cup {msgs[n].id : n \in R}
  <2>1. {} \in SUBSET Sent /\ seen' = seen \cup {msgs[n].id : n \in {}}
    BY <1>1
  <2> QED
    BY <2>1, ZenonT(60)
<1>2. ASSUME NEW ns \in SUBSET Sent, Recorded(ns)
      PROVE  \E R \in SUBSET Sent : seen' = seen \cup {msgs[n].id : n \in R}
  <2>1. PICK R \in (IF StoreFaults THEN SUBSET ns ELSE {ns}) : seen' = seen \cup {msgs[n].id : n \in R}
    BY <1>2 DEF Recorded
  <2>2. R \in SUBSET Sent
    BY <1>2, <2>1
  <2> QED
    BY <2>1, <2>2
<1>3. \/ seen' = seen
      \/ pc[t] = "record" /\ Recorded(Range(job[t]))
      \/ pc[t] = "brecord" /\ Recorded(Range(done[t]))
  BY ZenonT(60) DEF Handled, Advance, Fail, Attempted, Finish, HandIn, Sift, Turn, Send, Join, Swap
<1>4. pc[t] = "record" => Range(job[t]) \subseteq Sent
  <2>1. job[t] # <<>> /\ Len(job[t]) = 1 => Range(job[t]) = {Head(job[t])}
    BY <1>i, HeadTail
  <2> QED
    BY <1>i, <2>1, ZenonT(60) DEF Phase, Single
<1>5. pc[t] = "brecord" => Range(done[t]) \subseteq Sent
  BY <1>i DEF Phase
<1>6. \E R \in SUBSET Sent : seen' = seen \cup {msgs[n].id : n \in R}
  BY <1>1, <1>2, <1>3, <1>4, <1>5
<1>7. \/ skipped' = skipped
      \/ pc[t] = "dup" /\ IsDuplicate(Head(job[t])) /\ skipped' = skipped \cup own[t]
      \/ /\ job[t] # <<>> /\ IsDuplicate(Head(job[t]))
         /\ skipped' = skipped \cup {Head(job[t])}
  BY ZenonT(60) DEF Handled, Advance, Fail, Attempted, Finish, HandIn, Sift, Turn, Send, Join, Swap
<1>8. pc[t] = "dup" => own[t] = {Head(job[t])} /\ job[t] # <<>>
  BY <1>i, ZenonT(60) DEF Phase, Single
<1> QED
  BY <1>i, <1>6, <1>7, <1>8, ZenonT(60)

(* The messages handed in keep their number and their ID.                  *)
LEMMA MessagesKept ==
  ASSUME Typed, Phases, [Next]_vars
  PROVE  /\ Numbers \subseteq Numbers'
         /\ \A n \in Numbers : msgs'[n] = msgs[n] /\ before'[n] = before[n]
         /\ Sent \subseteq Sent' /\ acked \subseteq acked' /\ UNCHANGED conf
<1>1. CASE Aside \/ Expire
  <2>1. UNCHANGED <<conf, msgs, before, sink, acked>>
    BY <1>1 DEF Aside, Expire, World
  <2> QED
    BY <2>1, ZenonT(60) DEF Numbers, Sent
<1>2. ASSUME NEW t \in Threads, Handled(t)
      PROVE  /\ Numbers \subseteq Numbers'
             /\ \A n \in Numbers : msgs'[n] = msgs[n] /\ before'[n] = before[n]
             /\ Sent \subseteq Sent' /\ acked \subseteq acked' /\ UNCHANGED conf
  <2>1. Sent \subseteq Sent'
    BY <1>2, SinkCases
  <2>2. acked \subseteq acked'
    BY <1>2, Answered
  <2>3. CASE HandIn(t)
    BY <2>1, <2>2, <2>3, HandInTypes, ZenonT(60) DEF HandIn
  <2>4. CASE ~HandIn(t)
    BY <1>2, <2>1, <2>2, <2>4, HandledTypes DEF World
  <2> QED
    BY <2>3, <2>4, ZenonT(60)
<1> QED
  BY <1>1, <1>2, Cases, ZenonT(60)

(* Every step records and skips only what has a twin in the sink.          *)
LEMMA TwinsStep ==
  ASSUME Typed, Phases, Twins, [Next]_vars
  PROVE  Twins'
<1>1. /\ Numbers \subseteq Numbers' /\ \A n \in Numbers : msgs'[n] = msgs[n]
      /\ Sent \subseteq Sent' /\ Sent \subseteq Numbers
  BY MessagesKept, SentNumbers
<1>2. \A id : (\E m \in Sent : msgs[m].id = id) => (\E m \in Sent' : msgs'[m].id = id)
  BY <1>1
<1>3. skipped \subseteq Numbers
  BY DEF Typed
<1>t. /\ \A id \in seen : \E m \in Sent : msgs[m].id = id
      /\ \A n \in skipped : \E m \in Sent : msgs[m].id = msgs[n].id
  BY DEF Twins, SkippedHasTwin
<1> SUFFICES /\ \A id \in seen' : \E m \in Sent : msgs[m].id = id
             /\ \A n \in skipped' : n \in Numbers /\ \E m \in Sent : msgs[m].id = msgs[n].id
  BY <1>1, <1>2 DEF Twins, SkippedHasTwin
<1>4. CASE Aside \/ Expire
  <2>1. seen' \subseteq seen /\ skipped' = skipped
    BY <1>4 DEF Aside, Expire
  <2> QED
    BY <1>3, <1>t, <2>1
<1>5. ASSUME NEW t \in Threads, Handled(t)
      PROVE  /\ \A id \in seen' : \E m \in Sent : msgs[m].id = id
             /\ \A n \in skipped' : n \in Numbers /\ \E m \in Sent : msgs[m].id = msgs[n].id
  <2>1. PICK R \in SUBSET Sent : seen' = seen \cup {msgs[n].id : n \in R}
    BY <1>5, SeenCases, ZenonT(60)
  <2>2. \A id \in seen' : \E m \in Sent : msgs[m].id = id
    BY <1>t, <2>1
  <2>3. \A n \in skipped' : n \in skipped \/ (n \in Numbers /\ msgs[n].id \in seen)
    BY <1>5, SeenCases DEF IsDuplicate
  <2> QED
    BY <1>3, <1>t, <2>2, <2>3
<1> QED
  BY <1>4, <1>5, Cases

(* The condition under which an acknowledged ID stays recorded.            *)
Lasting == BatchSize = 0 /\ Deduplication /\ ~StoreFaults /\ ~Expires

(* A message passes the check only when its ID is not recorded.            *)
LEMMA PassedStep ==
  ASSUME Typed, Phases, Lasting, NEW t \in Threads, Handled(t)
  PROVE  \A n \in Passed(t)' : n \in Passed(t) \/ (n \in Numbers /\ ~IsDuplicate(n))
<1>i. /\ Phase(t) /\ job[t] \in Seq(Numbers) /\ done[t] \in Seq(Numbers)
      /\ job[t] # <<>> => Head(job[t]) \in Numbers
      /\ pc[t] \in Single \cup {"bcheck", "publish"} => job[t] # <<>>
  BY InHandFacts
<1>q. pc \in [Threads -> Places] /\ job \in [Threads -> Seq(Numbers)]
      /\ done \in [Threads -> Seq(Numbers)]
  BY DEF Typed
<1>e. Range(<<>>) = {}
  BY DEF Range
<1>p. job[t] # <<>> => /\ Range(Tail(job[t])) \subseteq Range(job[t])
                       /\ Len(job[t]) = 1 => Range(job[t]) = {Head(job[t])}
  BY <1>i, HeadTail
<1>0. BatchSize = 0 /\ Deduplication
  BY DEF Lasting
<1>1. CASE Advance(t)
  <2>1. UNCHANGED <<job, done>>
    BY <1>1 DEF Advance
  <2>2. CASE pc[t] = "dup"
    <3>1. pc'[t] = "claim" /\ ~IsDuplicate(Head(job[t]))
      BY <1>0, <1>1, <1>q, <2>2 DEF Advance, AfterCheck
    <3>2. Passed(t)' = {Head(job[t])}
      BY <1>i, <1>p, <2>1, <2>2, <3>1, ZenonT(60) DEF Passed, Phase, Single
    <3> QED
      BY <1>i, <2>2, <3>1, <3>2, ZenonT(60) DEF Single
  <2>3. CASE pc[t] = "claim"
    BY <1>1, <1>q, <2>1, <2>3 DEF Advance, Passed
  <2>4. CASE pc[t] = "bcheck"
    <3>1. pc'[t] = "filter" /\ done[t] = <<>>
      BY <1>0, <1>1, <1>i, <1>q, <2>4 DEF Advance, Phase
    <3> QED
      BY <1>e, <2>1, <3>1, ZenonT(60) DEF Passed
  <2> QED
    BY <1>1, <2>2, <2>3, <2>4 DEF Advance
<1>2. CASE Attempted(t)
  BY <1>2, <1>q DEF Attempted, Passed
<1>3. CASE pc'[t] \in Resting
  BY <1>3, ZenonT(60) DEF Passed, Resting
<1>4. CASE Fail(t) \/ Finish(t)
  <2>1. pc'[t] \in Resting
    BY <1>4, Returned, ZenonT(60) DEF Fail, Finish
  <2> QED
    BY <1>3, <2>1
<1>5. CASE HandIn(t)
  <2>1. pc'[t] \in {"dup", "append", "bcheck"}
    BY <1>0, <1>5, HandInTypes, ZenonT(60)
  <2> QED
    BY <2>1, ZenonT(60) DEF Passed
<1>6. CASE Sift(t)
  <2>1. Range(Append(done[t], Head(job[t]))) = Range(done[t]) \cup {Head(job[t])}
    BY <1>6, <1>i, AppendFacts, SMTT(30) DEF Sift
  <2>2. Passed(t) = Range(done[t]) /\ Passed(t)' = Range(done'[t])
    BY <1>6 DEF Sift, Passed
  <2>3. \/ done'[t] = done[t]
        \/ ~IsDuplicate(Head(job[t])) /\ done'[t] = Append(done[t], Head(job[t]))
    BY <1>6, <1>q DEF Sift
  <2>4. Head(job[t]) \in Numbers
    BY <1>6, <1>i DEF Sift
  <2> QED
    BY <2>1, <2>2, <2>3, <2>4, ZenonT(60) DEF IsDuplicate
<1>7. CASE Turn(t)
  BY <1>7, <1>q DEF Turn, Passed
<1>8. CASE Send(t)
  <2>1. Passed(t) = Range(job[t]) /\ job[t] # <<>> /\ job'[t] = Tail(job[t])
    BY <1>8, <1>i, <1>q DEF Send, Passed
  <2>2. pc'[t] \in {"publish", "brecord"}
    BY <1>8, <1>q DEF Send
  <2> QED
    BY <1>p, <2>1, <2>2, ZenonT(60) DEF Passed
<1>9. CASE Join(t)
  <2>1. pc[t] = "append"
    BY <1>9, ZenonT(60) DEF Join
  <2>2. BatchSize > 0
    BY <1>i, <2>1, ZenonT(60) DEF Phase
  <2> QED
    BY <1>0, <2>2
<1>10. CASE Swap(t)
  BY <1>0, <1>10 DEF Swap, Phases
<1> QED
  BY <1>1, <1>2, <1>4, <1>5, <1>6, <1>7, <1>8, <1>9, <1>10 DEF Handled

(* The messages of a call are in hand until their IDs are recorded.        *)
LEMMA OwnStep ==
  ASSUME Typed, Phases, Lasting, NEW t \in Threads, Handled(t),
         \A n \in own[t] : n \in Range(job[t]) \cup Range(done[t]) \/ IsDuplicate(n)
  PROVE  /\ \A n \in own'[t] :
              n \in Range(job'[t]) \cup Range(done'[t]) \/ (n \in Numbers /\ msgs[n].id \in seen')
         /\ \A n \in acked' : n \in acked \/ (n \in Numbers /\ msgs[n].id \in seen')
<1>i. /\ Phase(t) /\ job[t] \in Seq(Numbers) /\ done[t] \in Seq(Numbers) /\ own[t] \subseteq Numbers
      /\ job[t] # <<>> => Head(job[t]) \in Numbers
      /\ pc[t] \in Single \cup {"bcheck", "publish"} => job[t] # <<>>
  BY InHandFacts, ZenonT(60)
<1>q. pc \in [Threads -> Places] /\ job \in [Threads -> Seq(Numbers)]
      /\ done \in [Threads -> Seq(Numbers)] /\ own \in [Threads -> SUBSET Numbers]
  BY DEF Typed
<1>e. Range(<<>>) = {}
  BY SMTT(30) DEF Range
<1>p. job[t] # <<>> => /\ Range(job[t]) = {Head(job[t])} \cup Range(Tail(job[t]))
                       /\ Len(job[t]) = 1 => Range(job[t]) = {Head(job[t])}
                       /\ Range(Append(done[t], Head(job[t]))) = Range(done[t]) \cup {Head(job[t])}
  BY <1>i, HeadTail, AppendFacts, SMTT(30)
<1>0. BatchSize = 0 /\ Deduplication /\ ~StoreFaults
  BY ZenonT(60) DEF Lasting
<1>s. seen \subseteq seen'
  BY SeenCases
<1>d. \A n \in own[t] : /\ n \in Numbers
                        /\ n \in Range(job[t]) \cup Range(done[t]) \/ msgs[n].id \in seen'
  BY <1>i, <1>s DEF IsDuplicate
<1>k. ASSUME own'[t] = own[t], acked' = acked,
             Range(job[t]) \cup Range(done[t]) \subseteq
               Range(job'[t]) \cup Range(done'[t]) \cup {n \in Numbers : msgs[n].id \in seen'}
      PROVE  /\ \A n \in own'[t] :
                  n \in Range(job'[t]) \cup Range(done'[t]) \/ (n \in Numbers /\ msgs[n].id \in seen')
             /\ \A n \in acked' : n \in acked \/ (n \in Numbers /\ msgs[n].id \in seen')
  BY <1>d, <1>k, ZenonT(60)
<1>1. CASE Advance(t) \/ Attempted(t)
  <2>1. UNCHANGED <<job, done, own, acked>>
    BY <1>1, ZenonT(60) DEF Advance, Attempted
  <2> QED
    BY <1>k, <2>1, ZenonT(60)
<1>2. CASE Fail(t)
  <2>1. own'[t] = {} /\ acked' = acked
    BY <1>2, Returned, ZenonT(60) DEF Fail
  <2> QED
    BY <2>1
<1>3. CASE Finish(t)
  <2>1. own'[t] = {} /\ acked' = acked \cup own[t]
    BY <1>3, Returned, ZenonT(60) DEF Finish
  <2>2. CASE pc[t] \in {"flush", "filter"}
    <3>1. job[t] = <<>> /\ done[t] = <<>>
      BY <1>3, <1>i, <2>2, ZenonT(60) DEF Finish, Phase, Resting
    <3> QED
      BY <1>d, <1>e, <2>1, <3>1
  <2>3. CASE pc[t] = "dup"
    <3>1. own[t] = {Head(job[t])} /\ IsDuplicate(Head(job[t]))
      BY <1>3, <1>i, <2>3, ZenonT(60) DEF Finish, Phase, Single
    <3> QED
      BY <1>i, <1>s, <2>1, <3>1, ZenonT(60) DEF IsDuplicate
  <2>r. ASSUME NEW ns, Recorded(ns) PROVE \A n \in ns : msgs[n].id \in seen'
    BY <1>0, <2>r DEF Recorded
  <2>4. CASE pc[t] = "record"
    <3>1. Recorded(Range(job[t])) /\ done[t] = <<>>
      BY <1>3, <1>i, <2>4, ZenonT(60) DEF Finish, Phase, Single
    <3> QED
      BY <1>d, <1>e, <2>1, <2>r, <3>1
  <2>5. CASE pc[t] = "brecord"
    <3>1. Recorded(Range(done[t])) /\ job[t] = <<>>
      BY <1>3, <1>i, <2>5, ZenonT(60) DEF Finish, Phase
    <3> QED
      BY <1>d, <1>e, <2>1, <2>r, <3>1, ZenonT(60)
  <2> QED
    BY <1>0, <1>3, <2>2, <2>3, <2>4, <2>5, ZenonT(60) DEF Finish
<1>4. CASE HandIn(t)
  <2>1. own'[t] = Range(job'[t]) /\ acked' = acked
    BY <1>4, HandInTypes, ZenonT(60) DEF HandIn
  <2> QED
    BY <2>1
<1>5. CASE Sift(t)
  <2>1. UNCHANGED <<own, acked>> /\ job[t] # <<>> /\ job'[t] = Tail(job[t]) /\ Head(job[t]) \in Numbers
        /\ \/ IsDuplicate(Head(job[t])) /\ done'[t] = done[t]
           \/ done'[t] = Append(done[t], Head(job[t]))
    BY <1>5, <1>i, <1>q DEF Sift
  <2> QED
    BY <1>k, <1>p, <1>s, <2>1, ZenonT(60) DEF IsDuplicate
<1>6. CASE Turn(t)
  <2>1. UNCHANGED <<own, acked>> /\ job[t] = <<>> /\ job'[t] = done[t]
    BY <1>6, <1>q DEF Turn
  <2> QED
    BY <1>e, <1>k, <2>1, ZenonT(60)
<1>7. CASE Send(t)
  <2>1. UNCHANGED <<own, acked>> /\ job[t] # <<>> /\ job'[t] = Tail(job[t])
        /\ done'[t] = Append(done[t], Head(job[t]))
    BY <1>7, <1>i, <1>q DEF Send
  <2> QED
    BY <1>k, <1>p, <2>1, ZenonT(60)
<1>8. CASE Join(t)
  <2>1. pc[t] = "append"
    BY <1>8, ZenonT(60) DEF Join
  <2>2. BatchSize > 0
    BY <1>i, <2>1, ZenonT(60) DEF Phase
  <2> QED
    BY <1>0, <2>2
<1>9. CASE Swap(t)
  BY <1>0, <1>9, ZenonT(60) DEF Swap, Phases
<1> QED
  BY <1>1, <1>2, <1>3, <1>4, <1>5, <1>6, <1>7, <1>8, <1>9, ZenonT(60) DEF Handled

(* Every step keeps the acknowledged IDs recorded.                         *)
LEMMA RememberedStep ==
  ASSUME Typed, Phases, Remembered, [Next]_vars
  PROVE  Remembered'
<1>m. /\ Numbers \subseteq Numbers'
      /\ \A n \in Numbers : msgs'[n] = msgs[n] /\ before'[n] = before[n]
      /\ acked \subseteq acked' /\ UNCHANGED conf /\ Sent \subseteq Numbers /\ acked \subseteq Numbers
  BY MessagesKept, SentNumbers, ZenonT(60) DEF Typed
<1>b. \A n \in Numbers : before[n] \subseteq acked
  BY ZenonT(60) DEF Remembered
<1>c. Lasting' = Lasting
  BY <1>m, ZenonT(60) DEF Lasting, BatchSize, Deduplication, StoreFaults, Expires
<1>r. ASSUME Lasting
      PROVE  /\ \A n \in acked : msgs[n].id \in seen
             /\ \A u \in Threads : \A n \in own[u] :
                  n \in Range(job[u]) \cup Range(done[u]) \/ IsDuplicate(n)
             /\ \A n \in Sent : \A m \in before[n] : msgs[m].id # msgs[n].id
             /\ \A u \in Threads : \A n \in Passed(u) : \A m \in before[n] : msgs[m].id # msgs[n].id
  BY <1>r, ZenonT(60) DEF Remembered, Lasting, IsDuplicate
<1>g. ASSUME \A n \in Numbers' : before'[n] \subseteq acked',
             Lasting => /\ \A n \in acked' : msgs'[n].id \in seen'
                        /\ \A u \in Threads : \A n \in own'[u] :
                             n \in Range(job'[u]) \cup Range(done'[u]) \/ msgs'[n].id \in seen'
                        /\ \A n \in Sent' : \A m \in before'[n] : msgs'[m].id # msgs'[n].id
                        /\ \A u \in Threads : \A n \in Passed(u)' :
                             \A m \in before'[n] : msgs'[m].id # msgs'[n].id
      PROVE  Remembered'
  <2>1. Lasting' <=> (BatchSize = 0 /\ Deduplication /\ ~StoreFaults /\ ~Expires)'
    BY DEF Lasting
  <2>2. \A n \in UNION {Passed(u)' : u \in Threads} : \E u \in Threads : n \in Passed(u)'
    OBVIOUS
  <2> QED
    BY <1>c, <1>g, <2>1, <2>2 DEF Remembered, IsDuplicate
<1>1. CASE Aside
  <2>1. UNCHANGED <<conf, msgs, before, job, done, own, acked, sink, seen>>
    BY <1>1 DEF Aside
  <2>2. \A u \in Threads : pc'[u] = pc[u] \/ (pc[u] \in Resting /\ pc'[u] \in Resting)
    BY <1>1 DEF Aside
  <2>3. \A u \in Threads : Passed(u)' = Passed(u)
    BY <2>1, <2>2 DEF Passed, Resting
  <2>4. Numbers' = Numbers /\ Sent' = Sent
    BY <2>1 DEF Numbers, Sent
  <2> QED
    BY <1>b, <1>g, <1>r, <2>1, <2>3, <2>4, ZenonT(60) DEF IsDuplicate
<1>2. CASE Expire
  <2>1. ~Lasting /\ Numbers' = Numbers /\ UNCHANGED <<before, acked>>
    BY <1>2 DEF Expire, Lasting, World, Numbers
  <2> QED
    BY <1>b, <1>g, <2>1
<1>3. ASSUME NEW t \in Threads, Handled(t) PROVE Remembered'
  <2>1. \A n \in Numbers' : before'[n] \subseteq acked'
    <3>1. CASE HandIn(t)
      <4>1. own'[t] = Numbers' \ Numbers /\ \A n \in own'[t] : before'[n] = acked
        BY <3>1, HandInTypes, ZenonT(60)
      <4> QED
        BY <1>b, <1>m, <4>1
    <3>2. CASE ~HandIn(t)
      <4>1. Numbers' = Numbers
        BY <1>3, <3>2, HandledTypes
      <4> QED
        BY <1>b, <1>m, <4>1
    <3> QED
      BY <3>1, <3>2
  <2> SUFFICES ASSUME Lasting PROVE Remembered'
    BY <1>g, <2>1, ZenonT(60)
  <2>o. Only(t)
    BY <1>3, HandInTypes, HandledTypes, ZenonT(60)
  <2>h. /\ \A n \in acked : msgs[n].id \in seen
        /\ \A u \in Threads : \A n \in own[u] :
             n \in Range(job[u]) \cup Range(done[u]) \/ IsDuplicate(n)
        /\ \A n \in Sent : \A m \in before[n] : msgs[m].id # msgs[n].id
        /\ \A u \in Threads : \A n \in Passed(u) : \A m \in before[n] : msgs[m].id # msgs[n].id
    BY <1>r, ZenonT(60)
  <2>s. seen \subseteq seen'
    BY <1>3, SeenCases
  <2>2. /\ \A n \in own'[t] :
             n \in Range(job'[t]) \cup Range(done'[t]) \/ (n \in Numbers /\ msgs[n].id \in seen')
        /\ \A n \in acked' : n \in acked \/ (n \in Numbers /\ msgs[n].id \in seen')
    BY <1>3, <2>h, OwnStep, ZenonT(60)
  <2>3. \A n \in acked' : msgs'[n].id \in seen'
    BY <1>m, <2>2, <2>h, <2>s, ZenonT(60)
  <2>n. \A u \in Threads : own[u] \subseteq Numbers /\ Passed(u) \subseteq Numbers
    <3> SUFFICES ASSUME NEW u \in Threads
                 PROVE  own[u] \subseteq Numbers /\ Passed(u) \subseteq Numbers
      OBVIOUS
    <3>1. job[u] \in Seq(Numbers) /\ done[u] \in Seq(Numbers) /\ own[u] \subseteq Numbers
      BY InHandFacts, ZenonT(60)
    <3>2. Range(job[u]) \subseteq Numbers /\ Range(done[u]) \subseteq Numbers
      BY <3>1, RangeFacts
    <3> QED
      BY <3>1, <3>2, ZenonT(60) DEF Passed
  <2>4. ASSUME NEW u \in Threads, NEW n \in own'[u]
        PROVE  n \in Range(job'[u]) \cup Range(done'[u]) \/ msgs'[n].id \in seen'
    <3>1. CASE u = t
      BY <1>m, <2>2, <2>4, <3>1
    <3>2. CASE u # t
      <4>1. own'[u] = own[u] /\ job'[u] = job[u] /\ done'[u] = done[u]
        BY <2>o, <3>2 DEF Only
      <4>2. n \in Numbers /\ (n \in Range(job[u]) \cup Range(done[u]) \/ msgs[n].id \in seen)
        BY <2>4, <2>h, <2>n, <4>1, ZenonT(60) DEF IsDuplicate
      <4> QED
        BY <1>m, <2>s, <4>1, <4>2
    <3> QED
      BY <3>1, <3>2, ZenonT(60)
  <2>f. ASSUME NEW n \in Numbers, \A m \in before[n] : msgs[m].id # msgs[n].id
        PROVE  \A m \in before'[n] : msgs'[m].id # msgs'[n].id
    BY <1>b, <1>m, <2>f
  <2>5. ASSUME NEW u \in Threads, NEW n \in Passed(u)'
        PROVE  \A m \in before'[n] : msgs'[m].id # msgs'[n].id
    <3>1. CASE u = t
      <4>1. n \in Passed(t) \/ (n \in Numbers /\ msgs[n].id \notin seen)
        BY <1>3, <2>5, <3>1, PassedStep DEF IsDuplicate
      <4>2. n \in Numbers /\ \A m \in before[n] : msgs[m].id # msgs[n].id
        BY <1>b, <2>h, <2>n, <4>1, ZenonT(60)
      <4> QED
        BY <2>f, <4>2
    <3>2. CASE u # t
      <4>1. Passed(u)' = Passed(u)
        BY <2>o, <3>2 DEF Only, Passed
      <4> QED
        BY <2>5, <2>f, <2>h, <2>n, <4>1
    <3> QED
      BY <3>1, <3>2
  <2>6. ASSUME NEW n \in Sent' PROVE \A m \in before'[n] : msgs'[m].id # msgs'[n].id
    <3>1. CASE n \in Sent
      BY <1>m, <2>f, <2>h, <3>1
    <3>2. CASE n \notin Sent
      <4>1. pc[t] \in {"attempt", "publish"} /\ n = Head(job[t])
        BY <1>3, <2>6, <3>2, SinkCases
      <4>2. job[t] # <<>> /\ job[t] \in Seq(Numbers)
        BY <4>1, InHandFacts DEF Single
      <4>3. n \in Range(job[t])
        BY <4>1, <4>2, HeadTail
      <4>4. n \in Passed(t)
        BY <4>1, <4>3 DEF Passed
      <4> QED
        BY <2>f, <2>h, <2>n, <4>4, ZenonT(60)
    <3> QED
      BY <3>1, <3>2
  <2> QED
    BY <1>g, <2>1, <2>3, <2>4, <2>5, <2>6, ZenonT(60)
<1> QED
  BY <1>1, <1>2, <1>3, Cases

-----------------------------------------------------------------------------
(* Every reachable state of the producer satisfies Inv, and with it the    *)
(* properties below.                                                       *)
THEOREM Invariance == Spec => []Inv
<1>1. Init => Inv
  <2> SUFFICES ASSUME Init PROVE Inv
    OBVIOUS
  <2>0. /\ <<>> \in Seq(Numbers) /\ <<>> \in Seq(Message) /\ <<>> \in Seq(Entry)
        /\ <<>> \in Seq(SUBSET Numbers) /\ Len(<<>>) = 0 /\ Numbers = {} /\ Range(<<>>) = {}
        /\ DOMAIN <<>> = {}
    BY DEF Init, Numbers, Range
  <2>t. \A t \in Threads :
          /\ pc[t] \in {"idle", "off"} /\ job[t] = <<>> /\ done[t] = <<>> /\ own[t] = {}
          /\ Held(t) = {} /\ Passed(t) = {}
    BY <2>0 DEF Init, Held, Passed
  <2>s. Sent = {}
    BY <2>0 DEF Init, Sent
  <2>1. Typed
    <3>1. pc \in [Threads -> Places]
      BY DEF Init, Places, Resting
    <3>2. /\ job \in [Threads -> Seq(Numbers)] /\ done \in [Threads -> Seq(Numbers)]
          /\ own \in [Threads -> SUBSET Numbers]
      BY <2>0 DEF Init
    <3>3. starts \in 0..MaxStarts
      BY ProducerAssumption DEF Init
    <3> QED
      BY <2>0, <3>1, <3>2, <3>3, ZenonT(60) DEF Init, Typed
  <2>2. Phases
    <3>1. \A t \in Threads : Phase(t)
      BY <2>t, ProducerAssumption DEF Phase, Init, Resting, Single, InBatch
    <3>2. Unstarted
      BY DEF Init, Unstarted, Threads
    <3>3. pc[Owner] = "idle"
      BY ProducerAssumption DEF Init, Threads
    <3> QED
      BY <3>1, <3>2, <3>3 DEF Phases, Init
  <2>4. Kept
    BY <2>0, <2>t, <2>s DEF Init, Kept, Resting
  <2>5. Twins
    BY DEF Init, Twins, SkippedHasTwin
  <2>6. Remembered
    BY <2>0, <2>t, <2>s, ZenonT(60) DEF Init, Remembered
  <2> QED
    BY <2>1, <2>2, <2>4, <2>5, <2>6 DEF Inv
<1>2. Inv /\ [Next]_vars => Inv'
  <2> SUFFICES ASSUME Inv, [Next]_vars PROVE Inv'
    OBVIOUS
  <2>0. Typed /\ Phases /\ Kept /\ Twins /\ Remembered
    BY DEF Inv
  <2>1. Typed'
    BY <2>0, Cases, HandledTypes, HandInTypes, AsideTypes, ZenonT(60)
  <2>2. Phases'
    BY <2>0, PhasesStep
  <2>4. Kept'
    BY <2>0, KeptStep
  <2>5. Twins'
    BY <2>0, TwinsStep
  <2>6. Remembered'
    BY <2>0, RememberedStep
  <2> QED
    BY <2>1, <2>2, <2>4, <2>5, <2>6 DEF Inv
<1> QED
  BY <1>1, <1>2, PTL DEF Spec

(* A message whose Publish returned nil is in the sink, in the batch, in   *)
(* the hands of a goroutine, or was dropped as a duplicate                 *)
(* (PublishWithID, addToBatch, PublishBatch).                              *)
THEOREM Acknowledged == Spec => []AckedKept
<1>1. Inv => AckedKept
  <2> SUFFICES ASSUME Inv PROVE AckedKept
    OBVIOUS
  <2>1. Typed /\ Kept
    BY DEF Inv
  <2>2. BatchSize = 0 \/ BatchSize > 0
    BY <2>1, SizeFacts
  <2> QED
    BY <2>1, <2>2 DEF Kept, Placed, AckedKept
<1> QED
  BY <1>1, Invariance, PTL

(* Deduplication drops a message only when one with its ID is in the sink, *)
(* and without batching sends none whose ID was acknowledged before its    *)
(* call (isDuplicate, recordMessageID).                                    *)
THEOREM Dedup == Spec => []Deduplicated
<1>1. Inv => Deduplicated
  <2> SUFFICES ASSUME Inv PROVE Deduplicated
    OBVIOUS
  <2>1. Twins /\ Remembered
    BY DEF Inv
  <2> QED
    BY <2>1, ZenonT(60) DEF Twins, Remembered, Deduplicated, AckedNotRepeated
<1> QED
  BY <1>1, Invariance, PTL
=============================================================================
