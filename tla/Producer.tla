------------------------------ MODULE Producer ------------------------------
(***************************************************************************)
(* The producer pattern (patterns/producer/producer.go): client goroutines *)
(* that publish, one at a time or through a shared batch, the background   *)
(* flusher that every Start spawns, and the goroutine that starts and      *)
(* stops the producer.                                                     *)
(*                                                                         *)
(* p.mu is only ever read-locked around one read of p.running, so a reader *)
(* is a step that needs mu = None; Start is one step and Stop holds mu     *)
(* across its flush.  batchMu is held from the append (or the flush) until *)
(* PublishBatch returns.  The message sink, the state store and the object *)
(* store are drivers: what they answer is chosen here.                     *)
(***************************************************************************)
EXTENDS Integers, Sequences, Functions

CONSTANTS
  None,       \* no goroutine holds the lock
  Clients,    \* goroutines that call Publish, PublishBatch and Flush
  Owner,      \* the goroutine that calls Start and Stop
  Ids,        \* message IDs, given or derived from topic and payload
  MaxRetries, \* Behavior.MaxRetries
  MaxStarts,  \* bound: calls of Start that succeed
  MaxMessages, \* bound: messages handed to the producer in any setup
  Setups      \* the configurations, each with its environment (see conf)

Flushers == 1..MaxStarts
Threads  == Clients \cup Flushers \cup {Owner}

ASSUME ProducerAssumption ==
  /\ MaxStarts \in Nat
  /\ None \notin Threads /\ Owner \notin Clients \cup Flushers
  /\ Clients \cap Flushers = {}
  /\ \A s \in Setups : s.batchSize \in Nat

VARIABLES
  conf,                 \* the configuration and what may happen, chosen at first
  running, ctxDone,     \* p.running; whether p.ctx is done
  mu, batchMu,          \* holder of p.mu for writing, and of p.batchMu
  batch,                \* p.batch: numbers of messages
  pc, job, done, tries, \* of each goroutine: where it is, the messages it still
                        \* has to publish, those it has, the attempts it made
  own,                  \* of each goroutine: the messages its caller handed in
  starts,               \* calls of Start that succeeded
  msgs,                 \* the messages, by number: ID and whether over the threshold
  sink, seen, objects,  \* what the drivers hold
  acked, skipped,       \* messages whose call returned nil; dropped as duplicates
  before,               \* of each message: those acknowledged before its call
  appended              \* messages in the order they joined a batch

life    == <<conf, running, ctxDone, mu, starts>>
work    == <<job, done, tries, own>>
threads == <<pc, work>>
drivers == <<sink, seen, objects>>
calls   == <<skipped, before, appended>>
ghosts  == <<acked, calls>>
vars    == <<life, batchMu, batch, threads, msgs, drivers, ghosts>>

(* The producer's configuration ...                                        *)
BatchSize     == conf.batchSize   \* Behavior.BatchSize, 0 = no batching
Deduplication == conf.dedup       \* Behavior.Deduplication, with a state store
ClaimCheck    == conf.claimCheck  \* ClaimCheck.Enabled, with an object store
(* ... and what its clients, its owner and the drivers may do.             *)
SinkFaults    == conf.sinkFaults  \* of {"refused", "unanswered"}
StoreFaults   == conf.storeFaults \* the state store and the object store fail
Expires       == conf.expires     \* the deduplication window can pass
Cancels       == conf.cancels     \* the context given to Start is cancelled
Stops         == conf.stops       \* Stop is called
MaxCalls      == conf.maxCalls    \* bound: messages, at most MaxMessages

Numbers  == 1..Len(msgs)
Sent     == {sink[i].n : i \in DOMAIN sink}
Home(t)  ==
  CASE t \in Clients -> "idle" [] t \in Flushers -> "loop" [] OTHER -> "finish"

Init ==
  /\ conf \in Setups
  /\ running = FALSE /\ ctxDone = TRUE
  /\ mu = None /\ batchMu = None /\ batch = <<>>
  /\ pc = [t \in Threads |-> IF t \in Flushers THEN "off" ELSE "idle"]
  /\ job = [t \in Threads |-> <<>>] /\ done = [t \in Threads |-> <<>>]
  /\ tries = [t \in Threads |-> 0] /\ own = [t \in Threads |-> {}]
  /\ starts = 0 /\ msgs = <<>> /\ sink = <<>> /\ seen = {} /\ objects = {}
  /\ acked = {} /\ skipped = {} /\ before = <<>> /\ appended = <<>>

-----------------------------------------------------------------------------
(* The end of a call: what the goroutine held is let go, and its caller    *)
(* learns that the messages it handed in were taken, or not.               *)

(* Mutant: the end of a call does not unlock batchMu.                      *)
ReturnKeepsLock(t, ok) ==
  /\ pc'    = [pc EXCEPT ![t] = Home(t)]
  /\ job'   = [job EXCEPT ![t] = <<>>]
  /\ done'  = [done EXCEPT ![t] = <<>>]
  /\ tries' = [tries EXCEPT ![t] = 0]
  /\ own'   = [own EXCEPT ![t] = {}]
  /\ UNCHANGED batchMu
  /\ acked' = IF ok THEN acked \cup own[t] ELSE acked

Return(t, ok) ==
  /\ pc'    = [pc EXCEPT ![t] = Home(t)]
  /\ job'   = [job EXCEPT ![t] = <<>>]
  /\ done'  = [done EXCEPT ![t] = <<>>]
  /\ tries' = [tries EXCEPT ![t] = 0]
  /\ own'   = [own EXCEPT ![t] = {}]
  /\ batchMu' = IF batchMu = t THEN None ELSE batchMu
  /\ acked' = IF ok THEN acked \cup own[t] ELSE acked

Goto(t, where) ==
  /\ pc' = [pc EXCEPT ![t] = where]
  /\ UNCHANGED <<work, batchMu, acked>>

-----------------------------------------------------------------------------
(* Lifecycle.                                                              *)

Start ==
  /\ pc[Owner] = "idle" /\ mu = None /\ ~running /\ starts < MaxStarts
  /\ running' = TRUE /\ ctxDone' = FALSE
  /\ starts' = starts + 1
  /\ pc' = IF BatchSize > 0 THEN [pc EXCEPT ![starts + 1] = "loop"] ELSE pc
  /\ UNCHANGED <<conf, drivers, work, ghosts, mu, batchMu, batch, msgs>>

(* Stop takes p.mu and keeps it; with nothing running it returns. *)
StopLocks ==
  /\ Stops /\ pc[Owner] = "idle" /\ mu = None /\ running
  /\ mu' = Owner
  /\ pc' = [pc EXCEPT ![Owner] = "flush"]
  /\ UNCHANGED <<conf, drivers, work, ghosts, running, ctxDone, batchMu, batch, starts, msgs>>

StopFinishes ==
  /\ pc[Owner] = "finish"
  /\ ctxDone' = TRUE /\ running' = FALSE
  /\ mu' = None
  /\ pc' = [pc EXCEPT ![Owner] = "idle"]
  /\ UNCHANGED <<conf, drivers, work, ghosts, batchMu, batch, starts, msgs>>

(* The context Start was given ends while the producer still runs. *)
ContextEnds ==
  /\ Cancels /\ running /\ ~ctxDone
  /\ ctxDone' = TRUE
  /\ UNCHANGED <<conf, threads, drivers, ghosts, running, mu, batchMu, batch, starts, msgs>>

(* Mutant: there is no ticker.                                             *)
FlusherSkipsTicks(f) == FALSE

(* The flusher's select: p.ctx is read afresh in every round, so a flusher *)
(* that misses a Stop lives on under the next Start.                       *)
FlusherTicks(f) ==
  /\ pc[f] = "loop"
  /\ pc' = [pc EXCEPT ![f] = "flush"]
  /\ UNCHANGED <<life, drivers, work, ghosts, batchMu, batch, msgs>>

FlusherExits(f) ==
  /\ pc[f] = "loop" /\ ctxDone
  /\ pc' = [pc EXCEPT ![f] = "off"]
  /\ UNCHANGED <<life, drivers, work, ghosts, batchMu, batch, msgs>>

-----------------------------------------------------------------------------
(* The batch.  Both ways in take batchMu; the batch is swapped out before  *)
(* it is published, and the lock is released by Return.                    *)

(* Mutant: the batch is published but not emptied.                         *)
FlushKeepsBatch(t, b) ==
  /\ batch' = b
  /\ batchMu' = t
  /\ job' = [job EXCEPT ![t] = b]
  /\ pc'  = [pc EXCEPT ![t] = "bcheck"]
  /\ UNCHANGED <<done, tries, own, acked>>

(* Mutant: the batch is published without batchMu.                         *)
FlushUnlocked(t, b) ==
  /\ batch' = <<>>
  /\ batchMu' = batchMu
  /\ job' = [job EXCEPT ![t] = b]
  /\ pc'  = [pc EXCEPT ![t] = "bcheck"]
  /\ UNCHANGED <<done, tries, own, acked>>

flushBatchLocked(t, b) ==
  /\ batch' = <<>>
  /\ batchMu' = t
  /\ job' = [job EXCEPT ![t] = b]
  /\ pc'  = [pc EXCEPT ![t] = "bcheck"]
  /\ UNCHANGED <<done, tries, own, acked>>

addToBatch(t) ==
  /\ pc[t] = "append" /\ batchMu = None
  /\ LET b == batch \o job[t] IN
     /\ appended' = appended \o job[t]
     /\ IF Len(b) >= BatchSize
        THEN flushBatchLocked(t, b)
        ELSE batch' = b /\ Return(t, TRUE)
  /\ UNCHANGED <<life, drivers, msgs, skipped, before>>

flushBatch(t) ==
  /\ pc[t] = "flush" /\ batchMu = None
  /\ IF batch = <<>>
     THEN UNCHANGED batch /\ Return(t, TRUE)
     ELSE flushBatchLocked(t, batch)
  /\ UNCHANGED <<life, drivers, calls, msgs>>

-----------------------------------------------------------------------------
(* Calls of the clients.                                                   *)

(* A message is numbered when it is handed in. *)
Handed(new) ==
  /\ Len(msgs) + Len(new) <= MaxCalls
  /\ msgs' = msgs \o new
  /\ before' = before \o [i \in 1..Len(new) |-> acked]

NewMessages == [id : Ids, large : IF ClaimCheck THEN BOOLEAN ELSE {FALSE}]

AfterCheck == IF BatchSize > 0 THEN "append" ELSE "claim"

(* PublishWithID up to the check for duplicates; not running is an error. *)
PublishWithID(c) ==
  /\ pc[c] = "idle" /\ mu = None /\ running
  /\ \E m \in NewMessages : Handed(<<m>>)
  /\ job' = [job EXCEPT ![c] = <<Len(msgs) + 1>>]
  /\ own' = [own EXCEPT ![c] = {Len(msgs) + 1}]
  /\ pc'  = [pc EXCEPT ![c] = IF Deduplication THEN "dup" ELSE AfterCheck]
  /\ UNCHANGED <<life, drivers, batchMu, batch, done, tries, acked, skipped, appended>>

IsDuplicate(n) == msgs[n].id \in seen

DupCheck(c) ==
  /\ pc[c] = "dup"
  /\ \/ StoreFaults /\ Return(c, FALSE) /\ UNCHANGED skipped
     \/ /\ IsDuplicate(Head(job[c]))
        /\ skipped' = skipped \cup own[c]
        /\ Return(c, TRUE)
     \/ /\ ~IsDuplicate(Head(job[c]))
        /\ UNCHANGED skipped
        /\ Goto(c, AfterCheck)
  /\ UNCHANGED <<life, drivers, batch, msgs, before, appended>>

(* Flush, and PublishBatch called with messages of the caller's own. *)
Flush(c) ==
  /\ pc[c] = "idle" /\ BatchSize > 0
  /\ pc' = [pc EXCEPT ![c] = "flush"]
  /\ UNCHANGED <<life, drivers, work, ghosts, batchMu, batch, msgs>>

CallPublishBatch(c) ==
  /\ pc[c] = "idle"
  /\ \E m1, m2 \in NewMessages : Handed(<<m1, m2>>)
  /\ LET ns == <<Len(msgs) + 1, Len(msgs) + 2>> IN
     /\ job' = [job EXCEPT ![c] = ns]
     /\ own' = [own EXCEPT ![c] = Range(ns)]
  /\ pc' = [pc EXCEPT ![c] = "bcheck"]
  /\ UNCHANGED <<life, drivers, batchMu, batch, done, tries, acked, skipped, appended>>

-----------------------------------------------------------------------------
(* PublishBatch, for a client, a flusher or Stop.                          *)

BatchCheck(t) ==
  /\ pc[t] = "bcheck" /\ mu = None
  /\ IF running
     THEN Goto(t, IF Deduplication THEN "filter" ELSE "publish")
     ELSE Return(t, FALSE)
  /\ UNCHANGED <<life, drivers, calls, batch, msgs>>

(* Mutant: an ID is recorded when it is checked.                           *)
FilterRecords(t) ==
  /\ pc[t] = "filter" /\ job[t] # <<>>
  /\ job' = [job EXCEPT ![t] = Tail(job[t])]
  /\ seen' = seen \cup {msgs[Head(job[t])].id}
  /\ IF IsDuplicate(Head(job[t]))
     THEN skipped' = skipped \cup {Head(job[t])} /\ UNCHANGED done
     ELSE done' = [done EXCEPT ![t] = Append(done[t], Head(job[t]))] /\ UNCHANGED skipped
  /\ UNCHANGED <<life, batch, msgs, sink, objects, before, appended, pc, tries, own, batchMu, acked>>

(* The loop over the batch: what is not a duplicate is gathered in done.   *)
BatchFilter(t) ==
  /\ pc[t] = "filter" /\ job[t] # <<>>
  /\ \/ StoreFaults /\ Return(t, FALSE) /\ UNCHANGED skipped
     \/ /\ job' = [job EXCEPT ![t] = Tail(job[t])]
        /\ IF IsDuplicate(Head(job[t]))
           THEN skipped' = skipped \cup {Head(job[t])} /\ UNCHANGED done
           ELSE done' = [done EXCEPT ![t] = Append(done[t], Head(job[t]))] /\ UNCHANGED skipped
        /\ UNCHANGED <<pc, tries, own, batchMu, acked>>
  /\ UNCHANGED <<life, drivers, batch, msgs, before, appended>>

(* What is left is published; nothing is left of a batch of duplicates.    *)
FilterEnds(t) ==
  /\ pc[t] = "filter" /\ job[t] = <<>>
  /\ IF done[t] = <<>>
     THEN Return(t, TRUE)
     ELSE /\ job'  = [job EXCEPT ![t] = done[t]]
          /\ done' = [done EXCEPT ![t] = <<>>]
          /\ pc'   = [pc EXCEPT ![t] = "publish"]
          /\ UNCHANGED <<tries, own, batchMu, acked>>
  /\ UNCHANGED <<life, drivers, calls, batch, msgs>>

(* One message of the batch; the first error ends the call, what is left   *)
(* of the batch unpublished and what was published unrecorded.             *)
BatchPublish(t) ==
  /\ pc[t] = "publish"
  /\ \/ /\ sink' = Append(sink, [n |-> Head(job[t]), claim |-> FALSE])
        /\ IF Len(job[t]) = 1 /\ ~Deduplication
           THEN Return(t, TRUE)
           ELSE /\ job'  = [job EXCEPT ![t] = Tail(job[t])]
                /\ done' = [done EXCEPT ![t] = Append(done[t], Head(job[t]))]
                /\ pc'   = [pc EXCEPT ![t] = IF Len(job[t]) = 1 THEN "brecord" ELSE "publish"]
                /\ UNCHANGED <<tries, own, batchMu, acked>>
     \/ /\ "refused" \in SinkFaults
        /\ Return(t, FALSE) /\ UNCHANGED sink
     \/ /\ "unanswered" \in SinkFaults
        /\ sink' = Append(sink, [n |-> Head(job[t]), claim |-> FALSE])
        /\ Return(t, FALSE)
  /\ UNCHANGED <<life, calls, batch, msgs, seen, objects>>

(* recordMessageID; a store that fails is only logged. *)
Recorded(ns) ==
  \E R \in (IF StoreFaults THEN SUBSET ns ELSE {ns}) :
    seen' = seen \cup {msgs[n].id : n \in R}

BatchRecord(t) ==
  /\ pc[t] = "brecord"
  /\ Recorded(Range(done[t]))
  /\ Return(t, TRUE)
  /\ UNCHANGED <<life, calls, batch, msgs, sink, objects>>

-----------------------------------------------------------------------------
(* publishMessage, when there is no batching.                              *)

(* shouldUseClaimCheck and createClaimCheck: the payload is uploaded first. *)
Claim(c) ==
  /\ pc[c] = "claim"
  /\ \/ ~msgs[Head(job[c])].large /\ Goto(c, "attempt") /\ UNCHANGED objects
     \/ /\ msgs[Head(job[c])].large
        /\ objects' = objects \cup {Head(job[c])}
        /\ Goto(c, "attempt")
     \/ /\ msgs[Head(job[c])].large /\ StoreFaults
        /\ Return(c, FALSE) /\ UNCHANGED objects
  /\ UNCHANGED <<life, calls, batch, msgs, sink, seen>>

(* Mutant: the last error is dropped.                                      *)
RetryIgnoresError(c) ==
  IF tries[c] < MaxRetries
  THEN /\ tries' = [tries EXCEPT ![c] = @ + 1]
       /\ UNCHANGED <<pc, job, done, own, batchMu, acked>>
  ELSE Return(c, TRUE)

Retry(c) ==
  IF tries[c] < MaxRetries
  THEN /\ tries' = [tries EXCEPT ![c] = @ + 1]
       /\ UNCHANGED <<pc, job, done, own, batchMu, acked>>
  ELSE Return(c, FALSE)

(* An attempt: it succeeds, it is refused, or it is taken and the answer   *)
(* is lost, which the producer cannot tell from a refusal.                 *)
Attempt(c) ==
  /\ pc[c] = "attempt"
  /\ LET n == Head(job[c])
         put == sink' = Append(sink, [n |-> n, claim |-> msgs[n].large]) IN
     \/ put /\ IF Deduplication THEN Goto(c, "record") ELSE Return(c, TRUE)
     \/ "refused" \in SinkFaults /\ UNCHANGED sink /\ Retry(c)
     \/ "unanswered" \in SinkFaults /\ put /\ Retry(c)
  /\ UNCHANGED <<life, calls, batch, msgs, seen, objects>>

(* Mutant: the ID is not recorded.                                         *)
RecordForgets(c) ==
  /\ pc[c] = "record"
  /\ UNCHANGED seen
  /\ Return(c, TRUE)
  /\ UNCHANGED <<life, calls, batch, msgs, sink, objects>>

Record(c) ==
  /\ pc[c] = "record"
  /\ Recorded(Range(job[c]))
  /\ Return(c, TRUE)
  /\ UNCHANGED <<life, calls, batch, msgs, sink, objects>>

(* The deduplication window of a recorded ID passes. *)
WindowPasses(id) ==
  /\ Expires /\ id \in seen
  /\ seen' = seen \ {id}
  /\ UNCHANGED <<life, threads, ghosts, batchMu, batch, msgs, sink, objects>>

-----------------------------------------------------------------------------
ClientStep(c) ==
  \/ PublishWithID(c) \/ DupCheck(c) \/ addToBatch(c)
  \/ Flush(c) \/ CallPublishBatch(c)
  \/ Claim(c) \/ Attempt(c) \/ Record(c)

BatchStep(t) ==
  \/ flushBatch(t) \/ BatchCheck(t) \/ BatchFilter(t) \/ FilterEnds(t)
  \/ BatchPublish(t) \/ BatchRecord(t)

Next ==
  \/ Start \/ StopLocks \/ StopFinishes \/ ContextEnds
  \/ \E id \in Ids : WindowPasses(id)
  \/ \E f \in Flushers : FlusherTicks(f) \/ FlusherExits(f)
  \/ \E c \in Clients : ClientStep(c)
  \/ \E t \in Threads : BatchStep(t)

Spec == Init /\ [][Next]_vars

(* A goroutine that can run does, and the flusher's ticker keeps ticking;  *)
(* nobody has to call the producer.                                        *)
Fairness ==
  /\ WF_vars(StopFinishes)
  /\ \A f \in Flushers : WF_vars(FlusherTicks(f))
  /\ \A t \in Threads : WF_vars(BatchStep(t))
  /\ \A c \in Clients :
       WF_vars(DupCheck(c) \/ addToBatch(c) \/ Claim(c) \/ Attempt(c) \/ Record(c))

FairSpec == Spec /\ Fairness

-----------------------------------------------------------------------------
(* The messages a goroutine has still to publish.                          *)
Held(t) == Range(job[t]) \cup (IF pc[t] = "filter" THEN Range(done[t]) ELSE {})
InHand  == UNION {Held(t) : t \in Threads}

(* Nothing takes a batch away: with batching, a Stop or an error of a      *)
(* driver loses what flushBatchLocked has swapped out.                     *)
Undisturbed == BatchSize = 0 \/ (~Stops /\ SinkFaults = {} /\ ~StoreFaults)

(* Publish returning nil means that the message is not lost: it has        *)
(* reached the sink, waits in the batch or is being published by someone,  *)
(* or it was dropped as a duplicate.                                       *)
AckedKept ==
  Undisturbed => acked \subseteq Sent \cup Range(batch) \cup InHand \cup skipped

(* A message that went into a batch is in one place only: still in the     *)
(* batch, in the hands of one flushing goroutine, or in the sink.          *)
SingleCopy ==
  BatchSize > 0 =>
    /\ IsInjective(batch)
    /\ \A i, j \in DOMAIN sink : sink[i].n = sink[j].n => i = j
    /\ \A t, u \in Threads : t # u => Held(t) \cap Held(u) = {}
    /\ Sent \cap Range(batch) = {} /\ Sent \cap InHand = {} /\ InHand \cap Range(batch) = {}

(* Batched messages reach the sink in the order in which they joined a     *)
(* batch, whoever flushes them: batchMu is held until a batch is out.      *)
BatchesInOrder ==
  \A i, j \in DOMAIN sink : i < j =>
    \A a, b \in DOMAIN appended :
      sink[i].n = appended[a] /\ sink[j].n = appended[b] => a < b

(* Both: what concurrent flushes do to the batch (flushBatchLocked).       *)
BatchesKept == SingleCopy /\ BatchesInOrder

(* Deduplication never drops the only copy: a message is skipped only when *)
(* one with its ID has reached the sink.                                   *)
SkippedHasTwin ==
  \A n \in skipped : \E m \in Sent : msgs[m].id = msgs[n].id

(* Without batching, once a publish has been acknowledged a later call     *)
(* with the same ID within the window does not put the message into the    *)
(* sink again, provided that recordMessageID succeeded.                    *)
AckedNotRepeated ==
  BatchSize = 0 /\ Deduplication /\ ~StoreFaults /\ ~Expires =>
    \A n \in Sent : \A m \in before[n] : msgs[m].id # msgs[n].id

(* Both: deduplication skips neither too much nor too little (isDuplicate, *)
(* recordMessageID).                                                       *)
Deduplicated == SkippedHasTwin /\ AckedNotRepeated

(* Every call a client makes returns, unless Stop is called with a batch   *)
(* (see StopReturns).                                                      *)
CallsReturn ==
  \A c \in Clients :
    pc[c] # "idle" /\ (BatchSize = 0 \/ ~Stops) ~> pc[c] = "idle"

(* Stop returns ("flushing any pending batched messages"). *)
StopReturns == mu = Owner ~> mu = None

(* A message that was acknowledged while it waited in the batch reaches    *)
(* the sink: the flusher publishes what no full batch takes along.         *)
AckedPublished ==
  \A n \in 1..MaxMessages :
    n \in acked /\ Undisturbed /\ ~Cancels ~> n \in Sent \cup skipped
=============================================================================
