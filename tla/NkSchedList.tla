----------------------------- MODULE NkSchedList -----------------------------
(***************************************************************************)
(* The work queue as nksched.c keeps it: an array of items that are linked *)
(* into a circular doubly linked list (item 0 is its base) or into a singly *)
(* linked free list.  It implements NkSched, where the queue is a sequence *)
(* and the free list a number.                                             *)
(***************************************************************************)
EXTENDS Integers, Sequences, FiniteSets

CONSTANTS MaxTid, Job, Delay, TicksPerMs, Half, QueueSize, MaxLate

ASSUME ListAssumption ==
  /\ MaxTid \in Nat
  /\ Delay \subseteq Nat
  /\ TicksPerMs \in Nat \ {0}
  /\ Half \in Nat \ {0}
  /\ QueueSize \in Nat \ {0}
  /\ MaxLate \in Nat

VARIABLES
  next, prev,   \* the links of each item
  freelist,     \* the first free item, or Null
  body,         \* tid, func and data, when of each item (left is the ghost)
  order, spare, \* derived: the ring in order, the items on the free list
  now, next_tid, current_tid, main, call

links == <<next, prev, freelist, order, spare>>
vars == <<links, body, now, next_tid, current_tid, main, call>>

Base == 0
Null == -1
Items == 0 .. QueueSize - 1

-----------------------------------------------------------------------------
(***************************************************************************)
(* Walking the lists.                                                      *)
(***************************************************************************)

\* The item reached from i after n links of the list nx.
Steps(nx, i) ==
  LET step[n \in 0 .. QueueSize] ==
        IF n = 0 THEN i
        ELSE IF step[n - 1] = Null THEN Null ELSE nx[step[n - 1]]
  IN  step

\* The items after the base, in order, up to the base again.
QueueItems(nx) ==
  LET step == Steps(nx, Base)
      ends == {n \in 1 .. QueueSize : step[n] = Base}
      len == IF ends = {} THEN QueueSize
             ELSE (CHOOSE n \in ends : \A m \in ends : n <= m) - 1
  IN  [n \in 1 .. len |-> step[n]]

\* The items on the free list (it ends within QueueSize links).
FreeItems(nx, fl) ==
  LET step == Steps(nx, fl) IN {step[n] : n \in 0 .. QueueSize} \ {Null}

Sched ==
  INSTANCE NkSched WITH
    queue <- [n \in DOMAIN order |-> body[order[n]]],
    free <- Cardinality(spare)

SignedDiff(a, b) == Sched!SignedDiff(a, b)
NewItem(tid, job, delay) == Sched!NewItem(tid, job, delay)

\* for (item = queue->next; item != queue; item = item->next)
\*     if (Test(item)) break;
\* The item where the loop stops, the base if at none.
Scan(walk, Test(_)) ==
  LET hits == {n \in DOMAIN walk : Test(walk[n])}
  IN  IF hits = {} THEN Base
      ELSE walk[CHOOSE n \in hits : \A m \in hits : n <= m]

Find(tid) == Scan(order, LAMBDA i : body[i].tid = tid)

-----------------------------------------------------------------------------
(***************************************************************************)
(* The list primitives.  l is the triple of links, a record.               *)
(***************************************************************************)

Links == [next |-> next, prev |-> prev, freelist |-> freelist]

SetLinks(l) ==
  /\ next' = l.next
  /\ prev' = l.prev
  /\ freelist' = l.freelist
  /\ order' = QueueItems(l.next)
  /\ spare' = FreeItems(l.next, l.freelist)

\* Mutant: the list keeps a backward link to the item taken off.
deque_forward(l, i) == [l EXCEPT !.next[l.prev[i]] = l.next[i]]

deque(l, i) ==
  LET fwd == [l EXCEPT !.next[l.prev[i]] = l.next[i]]
  IN  [fwd EXCEPT !.prev[fwd.next[i]] = fwd.prev[i]]

enque(l, q, i) ==
  LET at == [l EXCEPT !.next[i] = q, !.prev[i] = l.prev[q]]
  IN  [at EXCEPT !.next[at.prev[q]] = i, !.prev[q] = i]

\* Mutant: the item becomes the end of the free list.
free_item_cut(l, i) == [l EXCEPT !.next[i] = Null, !.freelist = i]

free_item(l, i) == [l EXCEPT !.next[i] = l.freelist, !.freelist = i]

\* alloc_item, when the free list is not empty: the item is l.freelist.
alloc_item(l) == [l EXCEPT !.freelist = l.next[l.freelist]]

\* Fill the item in and insert it before the first one that is due later.
Insert(l, i, new) ==
  LET q == Scan(QueueItems(l.next), LAMBDA k : SignedDiff(body[k].when, new.when) > 0)
  IN  /\ SetLinks(enque(l, q, i))
      /\ body' = [body EXCEPT ![i] = new]

NoBody == [tid |-> 0, job |-> CHOOSE j \in Job : TRUE, when |-> 0, left |-> 0]

\* What a free item still holds is never read: it is written again when the
\* item is allocated.  The model forgets it.
Clear(i) == body' = [body EXCEPT ![i] = NoBody]

-----------------------------------------------------------------------------
\* nk_init_sched frees the items 1, 2, ... in turn, so the last is first on
\* the free list.  The array is zeroed (static storage).
Init ==
  /\ next = [i \in Items |-> IF i = Base THEN Base
                             ELSE IF i = 1 THEN Null ELSE i - 1]
  /\ prev = [i \in Items |-> Base]
  /\ freelist = IF QueueSize = 1 THEN Null ELSE QueueSize - 1
  /\ order = << >>
  /\ spare = Items \ {Base}
  /\ body = [i \in Items |-> NoBody]
  /\ now \in Sched!Time
  /\ next_tid = 0
  /\ current_tid = 0
  /\ main = "init"
  /\ call = Sched!NoCall

nk_sched(tid, job, delay) ==
  /\ tid \in 1 .. next_tid
  /\ \/ /\ Find(tid) # Base
        /\ Insert(deque(Links, Find(tid)), Find(tid), NewItem(tid, job, delay))
        /\ Sched!Returns("sched", tid, 0)
     \/ /\ Find(tid) = Base
        /\ freelist # Null
        /\ Insert(alloc_item(Links), freelist, NewItem(tid, job, delay))
        /\ Sched!Returns("sched", tid, 1)
     \/ /\ Find(tid) = Base
        /\ freelist = Null
        /\ Sched!Returns("sched", tid, 1)
        /\ UNCHANGED <<links, body>>
  /\ UNCHANGED <<now, next_tid, current_tid, main>>

nk_resched(tid, job, delay) ==
  /\ tid \in 1 .. next_tid
  /\ \/ /\ Find(tid) # Base
        /\ Insert(deque(Links, Find(tid)), Find(tid), NewItem(tid, job, delay))
        /\ Sched!Returns("resched", tid, 1)
     \/ /\ Find(tid) = Base
        /\ Sched!Returns("resched", tid, 0)
        /\ UNCHANGED <<links, body>>
  /\ UNCHANGED <<now, next_tid, current_tid, main>>

nk_unsched(tid) ==
  /\ tid \in 1 .. next_tid
  /\ Find(tid) # Base
  /\ SetLinks(free_item(deque(Links, Find(tid)), Find(tid)))
  /\ Clear(Find(tid))
  /\ call' = Sched!NoCall
  /\ UNCHANGED <<now, next_tid, current_tid, main>>

\* Mutant: a task is called only on the very tick it is due.
DispatchExactly ==
  /\ main = "loop"
  /\ next[Base] # Base
  /\ now = body[next[Base]].when
  /\ SetLinks(free_item(deque(Links, next[Base]), next[Base]))
  /\ current_tid' = body[next[Base]].tid
  /\ main' = "task"
  /\ Clear(next[Base])
  /\ call' = Sched!NoCall
  /\ UNCHANGED <<now, next_tid>>

Dispatch ==
  /\ main = "loop"
  /\ next[Base] # Base
  /\ SignedDiff(now, body[next[Base]].when) >= 0
  /\ SetLinks(free_item(deque(Links, next[Base]), next[Base]))
  /\ current_tid' = body[next[Base]].tid
  /\ main' = "task"
  /\ Clear(next[Base])
  /\ call' = Sched!NoCall
  /\ UNCHANGED <<now, next_tid>>

\* The timer; the ghost of the items that are in the queue counts down.
Tick ==
  LET queued == {order[n] : n \in DOMAIN order}
  IN  /\ \A i \in queued : body[i].left > - MaxLate
      /\ now' = (now + 1) % Sched!Modulus
      /\ body' = [i \in Items |->
                    IF i \in queued
                      THEN [body[i] EXCEPT !.left = body[i].left - 1]
                      ELSE body[i]]
      /\ call' = Sched!NoCall
      /\ UNCHANGED <<links, next_tid, current_tid, main>>

\* nk_alloc_tid, entering the loop and the return of a task leave the lists
\* alone.
nk_alloc_tid ==
  /\ main # "loop"
  /\ next_tid < MaxTid
  /\ next_tid' = next_tid + 1
  /\ call' = Sched!NoCall
  /\ UNCHANGED <<links, body, now, current_tid, main>>

EnterLoop ==
  /\ main = "init"
  /\ main' = "loop"
  /\ call' = Sched!NoCall
  /\ UNCHANGED <<links, body, now, next_tid, current_tid>>

TaskReturn ==
  /\ main = "task"
  /\ main' = "loop"
  /\ call' = Sched!NoCall
  /\ UNCHANGED <<links, body, now, next_tid, current_tid>>

Next ==
  \/ \E tid \in Sched!Tid, job \in Job, delay \in Delay :
       nk_sched(tid, job, delay) \/ nk_resched(tid, job, delay)
  \/ \E tid \in Sched!Tid : nk_unsched(tid)
  \/ Dispatch
  \/ Tick
  \/ nk_alloc_tid \/ EnterLoop \/ TaskReturn

Spec == Init /\ [][Next]_vars

(***************************************************************************)
(* Fairness: the main loop keeps going round, tasks return, the timer      *)
(* counts.  Nothing is assumed of the callers.                             *)
(***************************************************************************)
FairSpec ==
  /\ Spec
  /\ WF_vars(Dispatch)
  /\ WF_vars(Tick)
  /\ WF_vars(EnterLoop)
  /\ WF_vars(TaskReturn)

-----------------------------------------------------------------------------
\* The pointers form one ring through the base, whose backward links invert
\* its forward links, and one free list that ends; together they hold every
\* item exactly once.
RingAndFreeList ==
  LET ring == {order[n] : n \in DOMAIN order} \cup {Base}
  IN  /\ \A i \in ring : next[prev[i]] = i /\ prev[next[i]] = i
      /\ ring \cap spare = {}
      /\ ring \cup spare = Items
      /\ Steps(next, freelist)[QueueSize] = Null

\* Every step of the pointer program is a step of the work queue of NkSched.
ImplementsNkSched == Sched!Spec

\* A submitted task is called, unless it is cancelled or submitted again for
\* ever: it does not starve behind other tasks, nor when there are fewer
\* items than tasks.
EveryTaskCalled == Sched!EveryTaskCalled

=============================================================================
