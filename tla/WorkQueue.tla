----------------------------- MODULE WorkQueue -----------------------------
(***************************************************************************)
(* The work queue of pkg/procmgr (workqueue.go): a heap of process ids     *)
(* ordered by the time they become ready, one entry per process, with a    *)
(* one-slot notification channel, and the back-off that decides when a     *)
(* failing process is due again.  Every item records its index in the      *)
(* heap; Enqueue hands that index to heap.Fix.                             *)
(*                                                                         *)
(* The consumer goroutine of manager.go drains the queue when it is        *)
(* notified and when its ticker fires.                                     *)
(***************************************************************************)
EXTENDS Integers, Sequences

CONSTANTS Procs,
          Delays,     \* delays Enqueue is called with after a success
          BaseDelay,  \* base delay of the back-off
          MaxDelay,   \* cap of the back-off
          Width,      \* bits of a time.Duration
          Jitters,    \* jitter multipliers that occur, in percent
          MaxFails,   \* bound: consecutive failures of a process
          MaxTime     \* bound: the clock

VARIABLES items,    \* the heap, a sequence of [id, at, index]
          now,      \* the clock
          notified, \* is there a notification in notifyCh
          draining, \* the consumer is in processWorkQueue
          fails,    \* consecutiveFails of each process
          taken     \* the process Dequeue returned last

vars == <<items, now, notified, draining, fails, taken>>

NoProc == "none"

-----------------------------------------------------------------------------
(* container/heap on a workItemHeap; positions count from 1, the index     *)
(* field from 0 as in the code.                                            *)

Swap(h, i, j) ==
  [h EXCEPT ![i] = [h[j] EXCEPT !.index = i - 1],
            ![j] = [h[i] EXCEPT !.index = j - 1]]

Less(h, i, j) == h[i].at < h[j].at

RECURSIVE Up(_, _)
Up(h, j) ==
  LET i == j \div 2
  IN IF j = 1 \/ ~Less(h, j, i) THEN h ELSE Up(Swap(h, i, j), i)

(* Down on the first n elements.                                           *)
RECURSIVE Down(_, _, _)
Down(h, i, n) ==
  LET l == 2 * i
      j == IF l + 1 <= n /\ Less(h, l + 1, l) THEN l + 1 ELSE l
  IN IF l > n \/ ~Less(h, j, i) THEN h ELSE Down(Swap(h, i, j), j, n)

HeapPush(h, item) ==
  LET n == Len(h) + 1 IN Up(Append(h, [item EXCEPT !.index = n - 1]), n)

(* The heap after its first element has been removed.                      *)
HeapPop(h) ==
  LET n == Len(h)
  IN SubSeq(Down(Swap(h, 1, n), 1, n - 1), 1, n - 1)

HeapFix(h, index) ==
  LET i == index + 1
      d == Down(h, i, Len(h))
  IN IF d # h THEN d ELSE Up(h, i)

-----------------------------------------------------------------------------
(* ExponentialBackoff and Jitter *)

MaxDuration == 2 ^ (Width - 1) - 1
MinDuration == -(2 ^ (Width - 1))

(* time.Duration(float64): a value that does not fit becomes the smallest  *)
(* duration on amd64.                                                      *)
ToDuration(x) == IF x > MaxDuration \/ x < MinDuration THEN MinDuration ELSE x

(* Division that truncates towards zero, as the conversion does.           *)
Percent(d, j) == IF d >= 0 THEN (d * j) \div 100 ELSE -((-d * j) \div 100)

Jitter(d, j) == ToDuration(Percent(d, j))

(* Mutant: the cap is forgotten.                                           *)
UncappedBackoff(attempt, j) == Jitter(ToDuration(BaseDelay * 2 ^ attempt), j)

ExponentialBackoff(attempt, j) ==
  LET delay == ToDuration(BaseDelay * 2 ^ attempt)
  IN Jitter(IF delay > MaxDelay THEN MaxDelay ELSE delay, j)

(* A cancelled or timed-out call is retried after Jitter(1s, 0.5), whose   *)
(* multiplier strays twice as far.                                         *)
TransientDelay(j) == Jitter(BaseDelay, 2 * j - 100)

-----------------------------------------------------------------------------
Init ==
  /\ items = <<>>
  /\ now = 0
  /\ notified = FALSE
  /\ draining = FALSE
  /\ fails = [p \in Procs |-> 0]
  /\ taken = NoProc

(* Mutant: the latest delay wins.                                          *)
EnqueuedLast(h, p, at) ==
  IF \E i \in DOMAIN h : h[i].id = p
  THEN LET i == CHOOSE i \in DOMAIN h : h[i].id = p
       IN HeapFix([h EXCEPT ![i].at = at], h[i].index)
  ELSE HeapPush(h, [id |-> p, at |-> at, index |-> 0])

(* Mutant: the item is moved without repairing the heap.                   *)
EnqueuedUnfixed(h, p, at) ==
  IF \E i \in DOMAIN h : h[i].id = p
  THEN LET i == CHOOSE i \in DOMAIN h : h[i].id = p
       IN IF at < h[i].at THEN [h EXCEPT ![i].at = at] ELSE h
  ELSE HeapPush(h, [id |-> p, at |-> at, index |-> 0])

(* Enqueue: a process already queued keeps the earlier of the two times.   *)
Enqueued(h, p, at) ==
  IF \E i \in DOMAIN h : h[i].id = p
  THEN LET i == CHOOSE i \in DOMAIN h : h[i].id = p
       IN IF at < h[i].at THEN HeapFix([h EXCEPT ![i].at = at], h[i].index) ELSE h
  ELSE HeapPush(h, [id |-> p, at |-> at, index |-> 0])

(* The requeue of completeWork after a success and after an error.         *)
EnqueueAfterSuccess(p) ==
  /\ \E d \in Delays : items' = Enqueued(items, p, now + d)
  /\ fails' = [fails EXCEPT ![p] = 0]
  /\ notified' = TRUE
  /\ UNCHANGED <<now, draining, taken>>

EnqueueAfterError(p) ==
  /\ fails[p] < MaxFails
  /\ fails' = [fails EXCEPT ![p] = @ + 1]
  /\ \E j \in Jitters :
       \E delay \in {ExponentialBackoff(fails[p] + 1, j), TransientDelay(j)} :
         items' = Enqueued(items, p, now + delay)
  /\ notified' = TRUE
  /\ UNCHANGED <<now, draining, taken>>

(* Mutant: there is no ticker, only notifications.                         *)
NoTicks == FALSE /\ UNCHANGED vars

(* The consumer: woken by the notification or by its ticker, it dequeues   *)
(* until the first item is not ready.                                      *)
ConsumerWakes ==
  /\ ~draining
  /\ notified
  /\ draining' = TRUE
  /\ notified' = FALSE
  /\ UNCHANGED <<items, now, fails, taken>>

ConsumerTicks ==
  /\ ~draining
  /\ draining' = TRUE
  /\ UNCHANGED <<items, now, notified, fails, taken>>

Ready == Len(items) > 0 /\ items[1].at <= now

Dequeue ==
  /\ draining
  /\ Ready
  /\ taken' = items[1].id
  /\ items' = HeapPop(items)
  /\ UNCHANGED <<now, notified, draining, fails>>

DrainEnds ==
  /\ draining
  /\ ~Ready
  /\ draining' = FALSE
  /\ UNCHANGED <<items, now, notified, fails, taken>>

Tick ==
  /\ now < MaxTime
  /\ now' = now + 1
  /\ UNCHANGED <<items, notified, draining, fails, taken>>

Next ==
  \/ \E p \in Procs : EnqueueAfterSuccess(p) \/ EnqueueAfterError(p)
  \/ ConsumerWakes
  \/ ConsumerTicks
  \/ Dequeue
  \/ DrainEnds
  \/ Tick

(* The clock runs, the ticker fires and the consumer goroutine is          *)
(* scheduled.                                                              *)
Fairness ==
  /\ WF_vars(Tick)
  /\ WF_vars(ConsumerTicks)
  /\ WF_vars(Dequeue)
  /\ WF_vars(DrainEnds)

Spec == Init /\ [][Next]_vars

-----------------------------------------------------------------------------
Queued == {items[i].id : i \in DOMAIN items}

(* Dequeue never takes an item while an item that became ready earlier     *)
(* waits: the root of the heap is the earliest item.                       *)
EarliestFirst ==
  [][Dequeue => \A i \in DOMAIN items : items[1].at <= items[i].at]_vars

(* Enqueueing a process that is queued never postpones it, and an item     *)
(* leaves the queue only through Dequeue.                                  *)
NeverPostponed ==
  [][\A i \in DOMAIN items :
       \/ Dequeue /\ items[i].id = taken'
       \/ \E k \in DOMAIN items' :
            items'[k].id = items[i].id /\ items'[k].at <= items[i].at]_vars

(* A process that has just failed, and was not queued, is due later than   *)
(* now and within the cap of the back-off with its jitter: failures do not *)
(* turn into a busy loop ("maximum delay cap").                            *)
RetryIsDelayed ==
  [][\A p \in Procs :
       (fails'[p] = fails[p] + 1 /\ p \notin Queued) =>
         \E i \in DOMAIN items' :
           /\ items'[i].id = p
           /\ now < items'[i].at
           /\ items'[i].at <= now + (MaxDelay * 125) \div 100]_vars

(* The three together: what the queue makes of the times it is given       *)
(* (Enqueue, Dequeue, ExponentialBackoff).                                 *)
ScheduleKept == EarliestFirst /\ NeverPostponed /\ RetryIsDelayed

(* A queued process is handed to its worker in the end, although           *)
(* notifications are dropped when one is waiting and none is sent when an  *)
(* item becomes ready.  (Items due after the bound of the clock excepted.) *)
QueuedIsServed ==
  \A p \in Procs :
    (\E i \in DOMAIN items : items[i].id = p /\ items[i].at <= MaxTime)
      ~> (p \notin Queued)
=============================================================================
