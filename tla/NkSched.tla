------------------------------- MODULE NkSched -------------------------------
(***************************************************************************)
(* The work queue of libnklabs (src/libnklabs/src/nksched.c): a queue of   *)
(* functions waiting to be called, ordered by the time at which they are   *)
(* due, and the main loop that calls them.                                 *)
(*                                                                         *)
(* Every operation runs between nk_irq_lock and nk_irq_unlock, which mask  *)
(* the interrupts of the only core, so each is one atomic step.  The       *)
(* operations may be called from a task and from an interrupt handler: a   *)
(* step of theirs is possible in every state of the main loop.             *)
(*                                                                         *)
(* The doubly linked list is a sequence here and the free list a number of *)
(* free items; module NkSchedList has the pointers.  Timer values are      *)
(* uint32_t in the code, compared by the sign of their difference: here    *)
(* they are numbers modulo 2 * Half.                                       *)
(***************************************************************************)
EXTENDS Integers, Sequences, FiniteSets, SequencesExt

CONSTANTS
  MaxTid,      \* bound: task ids ever handed out by nk_alloc_tid
  Job,         \* the (func, data) pairs that are submitted
  Delay,       \* the delays, in ms, that callers ask for
  TicksPerMs,  \* NK_TIME_COUNTS_PER_SECOND / 1000
  Half,        \* half the range of nk_time_t (2^31)
  QueueSize,   \* NK_WORK_QUEUE_SIZE
  MaxLate      \* bound: ticks by which the main loop is ever behind

ASSUME SchedAssumption ==
  /\ MaxTid \in Nat
  /\ Delay \subseteq Nat
  /\ TicksPerMs \in Nat \ {0}
  /\ Half \in Nat \ {0}
  /\ QueueSize \in Nat \ {0}
  /\ MaxLate \in Nat

VARIABLES
  queue,        \* the items queue->next, queue->next->next, ... in order
  free,         \* the number of items on freelist
  now,          \* nk_get_time()
  next_tid,     \* the last task id handed out
  current_tid,  \* the task id of the task called last
  main,         \* where main() is: "init", in the "loop", in a "task"
  call          \* if the last step was nk_sched or nk_resched: its return value

vars == <<queue, free, now, next_tid, current_tid, main, call>>

Modulus == 2 * Half
Time == 0 .. Modulus - 1
Tid == 1 .. MaxTid

(***************************************************************************)
(* left is a ghost: the number of ticks until the item is due, negative    *)
(* when it is late, never wrapped.  No guard reads it.                     *)
(***************************************************************************)
Item == [tid : Tid, job : Job, when : Time, left : Int]

Call == [op : {"none", "sched", "resched"}, tid : 0 .. MaxTid, rtn : {0, 1}]
NoCall == [op |-> "none", tid |-> 0, rtn |-> 0]

-----------------------------------------------------------------------------
(***************************************************************************)
(* The arithmetic of the timer.                                            *)
(***************************************************************************)

\* Mutant: the delay is taken to be in ticks already.
ConvertNothing(delay) == delay % Modulus

\* Ticks of a delay: a uint32_t product, so it wraps.
nk_convert_delay(delay) == (delay * TicksPerMs) % Modulus

\* (int32_t)(a - b)
SignedDiff(a, b) ==
  LET d == (a - b) % Modulus IN IF d >= Half THEN d - Modulus ELSE d

-----------------------------------------------------------------------------
(***************************************************************************)
(* Searching and changing the queue.                                       *)
(***************************************************************************)

Tids(q) == {q[i].tid : i \in DOMAIN q}
Queued(tid) == tid \in Tids(queue)

\* Position of the first item with this task id (there is one).
Position(q, tid) ==
  CHOOSE i \in DOMAIN q : /\ q[i].tid = tid
                          /\ \A k \in 1 .. i - 1 : q[k].tid # tid

Deque(q, tid) == RemoveAt(q, Position(q, tid))

\* Mutants: times compared as plain unsigned numbers; ">= 0" for "> 0".
AheadUnsigned(item, other) == other.when > item.when
AheadOrEqual(item, other) == SignedDiff(other.when, item.when) >= 0

Ahead(item, other) == SignedDiff(other.when, item.when) > 0

\* Where the scan stops: at the first item that is due after the new one,
\* or at the end of the queue.
InsertPos(q, item) ==
  CHOOSE i \in 1 .. Len(q) + 1 :
    /\ i \in DOMAIN q => Ahead(item, q[i])
    /\ \A k \in 1 .. i - 1 : ~ Ahead(item, q[k])

Enque(q, item) == InsertAt(q, InsertPos(q, item), item)

NewItem(tid, job, delay) ==
  [tid |-> tid, job |-> job,
   when |-> (now + nk_convert_delay(delay)) % Modulus,
   left |-> delay * TicksPerMs]

Returns(op, tid, rtn) == call' = [op |-> op, tid |-> tid, rtn |-> rtn]

\* Mutant: the base of the queue is put on the free list as well.
InitFreesBase ==
  /\ queue = << >>
  /\ free = QueueSize
  /\ now \in Time
  /\ next_tid = 0
  /\ current_tid = 0
  /\ main = "init"
  /\ call = NoCall

-----------------------------------------------------------------------------
(***************************************************************************)
(* nk_init_sched has run: the queue is empty and every item but the first, *)
(* which is the base of the queue, is free.  The timer may show any time.  *)
(***************************************************************************)
Init ==
  /\ queue = << >>
  /\ free = QueueSize - 1
  /\ now \in Time
  /\ next_tid = 0
  /\ current_tid = 0
  /\ main = "init"
  /\ call = NoCall

nk_alloc_tid ==
  /\ main # "loop"
  /\ next_tid < MaxTid
  /\ next_tid' = next_tid + 1
  /\ call' = NoCall
  /\ UNCHANGED <<queue, free, now, current_tid, main>>

\* A task id that is in the queue: the item is moved, nothing is allocated.
SchedQueued(tid, job, delay) ==
  /\ Queued(tid)
  /\ queue' = Enque(Deque(queue, tid), NewItem(tid, job, delay))
  /\ Returns("sched", tid, 0)
  /\ UNCHANGED free

\* Mutant: no search for an item with the same task id.
SchedNewAlways(tid, job, delay) ==
  /\ free > 0
  /\ queue' = Enque(queue, NewItem(tid, job, delay))
  /\ free' = free - 1
  /\ Returns("sched", tid, 1)

\* A new one takes an item from the free list.
SchedNew(tid, job, delay) ==
  /\ ~ Queued(tid)
  /\ free > 0
  /\ queue' = Enque(queue, NewItem(tid, job, delay))
  /\ free' = free - 1
  /\ Returns("sched", tid, 1)

\* Mutant: the last free item is never handed out.
SchedFullEarly(tid) ==
  /\ ~ Queued(tid)
  /\ free <= 1
  /\ Returns("sched", tid, 1)
  /\ UNCHANGED <<queue, free>>

\* No free item: a message is printed, nothing is queued, rtn is still 1.
SchedFull(tid) ==
  /\ ~ Queued(tid)
  /\ free = 0
  /\ Returns("sched", tid, 1)
  /\ UNCHANGED <<queue, free>>

nk_sched(tid, job, delay) ==
  /\ tid \in 1 .. next_tid
  /\ \/ SchedQueued(tid, job, delay)
     \/ SchedNew(tid, job, delay)
     \/ SchedFull(tid)
  /\ UNCHANGED <<now, next_tid, current_tid, main>>

nk_resched(tid, job, delay) ==
  /\ tid \in 1 .. next_tid
  /\ \/ /\ Queued(tid)
        /\ queue' = Enque(Deque(queue, tid), NewItem(tid, job, delay))
        /\ Returns("resched", tid, 1)
     \/ /\ ~ Queued(tid)
        /\ Returns("resched", tid, 0)
        /\ UNCHANGED queue
  /\ UNCHANGED <<free, now, next_tid, current_tid, main>>

\* (nk_check changes nothing: it returns Queued(tid).)
nk_unsched(tid) ==
  /\ tid \in 1 .. next_tid
  /\ Queued(tid)
  /\ queue' = Deque(queue, tid)
  /\ free' = free + 1
  /\ call' = NoCall
  /\ UNCHANGED <<now, next_tid, current_tid, main>>

\* main() has initialised every module and enters nk_sched_loop.
EnterLoop ==
  /\ main = "init"
  /\ main' = "loop"
  /\ call' = NoCall
  /\ UNCHANGED <<queue, free, now, next_tid, current_tid>>

\* Mutant: the times are compared as unsigned numbers.
DueUnsigned(item) == now >= item.when

Due(item) == SignedDiff(now, item.when) >= 0

\* Mutant of the main loop: the item is not freed.
DispatchLeaks ==
  /\ main = "loop"
  /\ queue # << >>
  /\ Due(Head(queue))
  /\ queue' = Tail(queue)
  /\ current_tid' = Head(queue).tid
  /\ main' = "task"
  /\ call' = NoCall
  /\ UNCHANGED <<free, now, next_tid>>

\* The body of the loop: the first item is taken off the queue and freed
\* before its function is called, so the task may submit itself again.
\* When nothing is due the loop only goes round (nk_sched_wakeup does
\* nothing and nk_irq_unlock_and_wait does not wait on this port).
Dispatch ==
  /\ main = "loop"
  /\ queue # << >>
  /\ Due(Head(queue))
  /\ queue' = Tail(queue)
  /\ free' = free + 1
  /\ current_tid' = Head(queue).tid
  /\ main' = "task"
  /\ call' = NoCall
  /\ UNCHANGED <<now, next_tid>>

\* The function returns to the main loop.
TaskReturn ==
  /\ main = "task"
  /\ main' = "loop"
  /\ call' = NoCall
  /\ UNCHANGED <<queue, free, now, next_tid, current_tid>>

\* The hardware timer.  It stops for no one; that no item becomes more than
\* MaxLate late is the assumption that tasks return soon enough.
Tick ==
  /\ \A i \in DOMAIN queue : queue[i].left > - MaxLate
  /\ now' = (now + 1) % Modulus
  /\ queue' = [i \in DOMAIN queue |->
                 [queue[i] EXCEPT !.left = queue[i].left - 1]]
  /\ call' = NoCall
  /\ UNCHANGED <<free, next_tid, current_tid, main>>

Submit ==
  \E tid \in Tid, job \in Job, delay \in Delay :
    nk_sched(tid, job, delay) \/ nk_resched(tid, job, delay)

Next ==
  \/ nk_alloc_tid
  \/ Submit
  \/ \E tid \in Tid : nk_unsched(tid)
  \/ EnterLoop
  \/ Dispatch
  \/ TaskReturn
  \/ Tick

Spec == Init /\ [][Next]_vars

-----------------------------------------------------------------------------
(***************************************************************************)
(* What the queue promises.                                                *)
(***************************************************************************)

\* The delays the callers use, with the time the main loop may be behind,
\* fit in half the range of the timer and do not overflow when converted.
\* The longest delay this firmware asks for is 5 s of a range of 35 min.
ShortDelays ==
  MaxLate < Half /\ \A d \in Delay : d * TicksPerMs + MaxLate < Half

\* The values each variable takes; the list head item is never allocated.
TypeOK ==
  /\ queue \in Seq(Item)
  /\ free \in 0 .. QueueSize - 1
  /\ now \in Time
  /\ next_tid \in 0 .. MaxTid
  /\ current_tid \in 0 .. MaxTid
  /\ main \in {"init", "loop", "task"}
  /\ call \in Call

\* Items are neither lost nor duplicated between the queue and the free
\* list: alloc_item, free_item, deque and enque account for every item.
ItemsAccounted == Len(queue) + free = QueueSize - 1

\* There is at most one item in the queue for each task id (nksched.md:83).
UniqueTids ==
  \A i, k \in DOMAIN queue : queue[i].tid = queue[k].tid => i = k

\* The wrapped time of every item says how long it really has to wait: the
\* signed comparison of the main loop is never misled by the timer's wrap.
TimesAgree ==
  \A i \in DOMAIN queue : SignedDiff(queue[i].when, now) = queue[i].left

\* The scan of nk_sched keeps the queue in the order of the true due times,
\* also across a wrap of the timer, so the head is always the next due.
Sorted ==
  \A i, k \in DOMAIN queue : i < k => queue[i].left <= queue[k].left

\* The main loop calls nothing before its delay has passed (nksched.h:31).
NeverEarly ==
  [][main = "loop" /\ main' = "task" => Head(queue).left <= 0]_vars

\* With an item for every task id no submission is ever dropped.
NeverDropped ==
  [][\A tid \in Tid : call'.op = "sched" /\ call'.tid = tid
                        => tid \in Tids(queue')]_vars

\* A submitted task is called, unless it is cancelled or submitted again
\* for ever: it does not starve behind other tasks.
EveryTaskCalled ==
  \A tid \in Tid :
    []<>(~ Queued(tid) \/ (call.tid = tid /\ call.op \in {"sched", "resched"}))

=============================================================================
