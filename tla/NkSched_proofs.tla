--------------------------- MODULE NkSched_proofs ---------------------------
(***************************************************************************)
(* Theorems about the work queue, for every queue size, timer range, set   *)
(* of delays and number of task ids.                                       *)
(*                                                                         *)
(* The first half of the inductive invariant (the items are accounted for, *)
(* task ids are unique) needs nothing of the delays.  The second half (the *)
(* wrapped times agree with the true ones, the queue is sorted) needs the  *)
(* delays to be short: ShortDelays.                                        *)
(***************************************************************************)
EXTENDS NkSchedLog, SequenceLemmas

-----------------------------------------------------------------------------
(***************************************************************************)
(* The invariants as predicates of a queue, so that the lemmas about deque *)
(* and enque can be stated for the intermediate queue of nk_sched too.     *)
(***************************************************************************)

UniqueIn(q) == \A i, k \in 1 .. Len(q) : q[i].tid = q[k].tid => i = k

SortedIn(q) == \A i, k \in 1 .. Len(q) : i < k => q[i].left <= q[k].left

\* Every item waits for less than half the range of the timer.
InWindow(item, t) ==
  /\ - MaxLate <= item.left
  /\ item.left + MaxLate < Half
  /\ SignedDiff(item.when, t) = item.left

TimelyIn(q, t) == \A i \in 1 .. Len(q) : InWindow(q[i], t)

Timely(q, t) == SortedIn(q) /\ TimelyIn(q, t)

-----------------------------------------------------------------------------
(***************************************************************************)
(* The arithmetic of the timer.                                            *)
(***************************************************************************)

LEMMA ModulusType == Modulus \in Nat \ {0} /\ Modulus = Half + Half
BY SchedAssumption DEF Modulus

\* The signed difference of two times, without the remainder.
LEMMA SignedDiffCases ==
  ASSUME NEW a \in Time, NEW b \in Time
  PROVE  /\ SignedDiff(a, b) \in Int
         /\ - Half <= SignedDiff(a, b) /\ SignedDiff(a, b) < Half
         /\ \/ SignedDiff(a, b) = a - b
            \/ SignedDiff(a, b) = a - b + Modulus
            \/ SignedDiff(a, b) = a - b - Modulus
<1>1. a \in Int /\ b \in Int /\ 0 <= a /\ a < Modulus /\ 0 <= b /\ b < Modulus
  BY ModulusType DEF Time
<1> DEFINE x == a - b
<1>2. x \in Int /\ - Modulus < x /\ x < Modulus
  BY <1>1, ModulusType
<1> HIDE DEF x
<1>3. x % Modulus = x \/ x % Modulus = x + Modulus
  <2>1. CASE x >= 0
    BY <1>2, <2>1, ModulusType, ModWrap
  <2>2. CASE x < 0
    <3>1. - Modulus <= x
      BY <1>2, ModulusType
    <3> QED BY <1>2, <2>2, <3>1, ModulusType, ModWrap
  <2> QED BY <1>2, <2>1, <2>2
<1>4. x % Modulus \in 0 .. Modulus - 1
  BY <1>2, ModulusType, ModWrap
<1>5. SignedDiff(a, b) = IF x % Modulus >= Half THEN (x % Modulus) - Modulus
                                               ELSE x % Modulus
  BY DEF SignedDiff, x
<1> DEFINE r == x % Modulus
<1> HIDE DEF r
<1>6. /\ r \in Int /\ 0 <= r /\ r < Modulus
      /\ r = x \/ r = x + Modulus
      /\ SignedDiff(a, b) = IF r >= Half THEN r - Modulus ELSE r
  BY <1>3, <1>4, <1>5, ModulusType DEF r
<1> QED BY <1>1, <1>2, <1>6, ModulusType, SchedAssumption DEF x

\* Two times in the window compare as their distances from now do.
LEMMA DiffOfLeft ==
  ASSUME NEW a \in Time, NEW b \in Time, NEW t \in Time,
         - Half < SignedDiff(a, t) - SignedDiff(b, t),
         SignedDiff(a, t) - SignedDiff(b, t) < Half
  PROVE  SignedDiff(a, b) = SignedDiff(a, t) - SignedDiff(b, t)
<1>1. a \in Int /\ b \in Int /\ t \in Int
  BY ModulusType DEF Time
<1> QED BY <1>1, SignedDiffCases, ModulusType, SchedAssumption

\* One tick brings a time that is not yet half a range late one tick nearer.
LEMMA DiffAfterTick ==
  ASSUME NEW a \in Time, NEW t \in Time, - Half < SignedDiff(a, t)
  PROVE  /\ (t + 1) % Modulus \in Time
         /\ SignedDiff(a, (t + 1) % Modulus) = SignedDiff(a, t) - 1
<1>1. a \in Int /\ t \in Int /\ 0 <= t /\ t < Modulus
  BY ModulusType DEF Time
<1>2. (t + 1) % Modulus = t + 1 \/ (t + 1) % Modulus = t + 1 - Modulus
  BY <1>1, ModulusType, ModWrap
<1>3. (t + 1) % Modulus \in Time
  BY <1>1, ModulusType, ModWrap DEF Time
<1> QED BY <1>1, <1>2, <1>3, SignedDiffCases, ModulusType, SchedAssumption

\* The time of a new item, when its delay is short.
LEMMA DiffOfNew ==
  ASSUME NEW t \in Time, NEW d \in Nat, d * TicksPerMs < Half
  PROVE  SignedDiff((t + nk_convert_delay(d)) % Modulus, t) = d * TicksPerMs
<1>1. t \in Int /\ 0 <= t /\ t < Modulus
  BY ModulusType DEF Time
<1>2. d * TicksPerMs \in Nat
  BY SchedAssumption
<1> DEFINE n == d * TicksPerMs
<1> HIDE DEF n
<1>3. n \in Nat /\ n < Half
  BY <1>2 DEF n
<1>4. n % Modulus = n
  BY <1>3, ModulusType, ModWrap, SchedAssumption
<1>5. nk_convert_delay(d) = n
  BY <1>4 DEF nk_convert_delay, n
<1> DEFINE y == t + n
           w == y % Modulus
<1>6. y \in Int /\ 0 <= y /\ y < Modulus + Modulus /\ y = t + n
  BY <1>1, <1>3, ModulusType, SchedAssumption
<1> HIDE DEF y
<1>7. w \in Time /\ w \in Int
  <2>1. w \in 0 .. Modulus - 1
    BY <1>6, ModulusType, ModWrap
  <2> QED BY <2>1 DEF Time
<1>8. w = y \/ w = y - Modulus
  <2>1. CASE y < Modulus
    BY <2>1, <1>6, ModulusType, ModWrap
  <2>2. CASE Modulus <= y
    BY <2>2, <1>6, ModulusType, ModWrap
  <2> QED BY <2>1, <2>2, <1>6, ModulusType
<1> HIDE DEF w
<1>9. SignedDiff(w, t) = n
  <2>1. /\ SignedDiff(w, t) \in Int
        /\ - Half <= SignedDiff(w, t) /\ SignedDiff(w, t) < Half
        /\ \/ SignedDiff(w, t) = w - t
           \/ SignedDiff(w, t) = w - t + Modulus
           \/ SignedDiff(w, t) = w - t - Modulus
    BY <1>7, SignedDiffCases
  <2>2. Half \in Int /\ Modulus \in Int /\ n \in Int /\ 0 <= n
    BY <1>3, ModulusType, SchedAssumption
  <2>3. w - t = n \/ w - t = n - Modulus
    BY <2>2, <1>1, <1>6, <1>7, <1>8
  <2> DEFINE sd == SignedDiff(w, t)
             v == w - t
  <2>4. v \in Int
    BY <1>1, <1>7
  <2> HIDE DEF sd, v
  <2>5. /\ sd \in Int /\ - Half <= sd /\ sd < Half
        /\ sd = v \/ sd = v + Modulus \/ sd = v - Modulus
    BY <2>1 DEF sd, v
  <2>6. v = n \/ v = n - Modulus
    BY <2>3 DEF v
  <2>7. sd = n
    BY <2>2, <2>4, <2>5, <2>6, <1>3, ModulusType
  <2> QED BY <2>7 DEF sd
<1> QED BY <1>5, <1>9, <1>6 DEF w, n

LEMMA NewItemType ==
  ASSUME NEW tid \in Tid, NEW job \in Job, NEW d \in Delay, now \in Time
  PROVE  NewItem(tid, job, d) \in Item
<1>1. d \in Nat /\ d * TicksPerMs \in Int
  BY SchedAssumption
<1>2. nk_convert_delay(d) \in Int
  BY <1>1, ModulusType, ModWrap DEF nk_convert_delay
<1>3. (now + nk_convert_delay(d)) % Modulus \in Time
  BY <1>2, ModulusType, ModWrap DEF Time
<1> QED BY <1>1, <1>3 DEF NewItem, Item

LEMMA NewItemInWindow ==
  ASSUME ShortDelays, NEW tid, NEW job, NEW d \in Delay, now \in Time
  PROVE  InWindow(NewItem(tid, job, d), now)
<1>1. /\ d \in Nat /\ d * TicksPerMs \in Nat
      /\ d * TicksPerMs + MaxLate < Half /\ d * TicksPerMs < Half
  BY SchedAssumption DEF ShortDelays
<1>2. NewItem(tid, job, d).left = d * TicksPerMs
  BY DEF NewItem
<1>3. NewItem(tid, job, d).when = (now + nk_convert_delay(d)) % Modulus
  BY DEF NewItem
<1>4. SignedDiff(NewItem(tid, job, d).when, now) = d * TicksPerMs
  BY <1>1, <1>3, DiffOfNew
<1>5. - MaxLate <= d * TicksPerMs
  BY <1>1, SchedAssumption
<1> QED BY <1>1, <1>2, <1>4, <1>5 DEF InWindow


-----------------------------------------------------------------------------
(***************************************************************************)
(* deque and enque.                                                        *)
(***************************************************************************)

\* The search for a task id that is in the queue finds its first item.
LEMMA PositionFound ==
  ASSUME NEW q \in Seq(Item), NEW tid \in Tids(q)
  PROVE  Position(q, tid) \in 1 .. Len(q) /\ q[Position(q, tid)].tid = tid
<1> DEFINE T == {i \in 1 .. Len(q) : q[i].tid = tid}
<1>1. DOMAIN q = 1 .. Len(q) /\ Len(q) \in Nat
  OBVIOUS
<1>2. T # {} /\ T \subseteq Nat
  BY <1>1 DEF Tids
<1>3. PICK i \in T : \A k \in T : i <= k
  BY <1>2, LeastNat
<1>4. /\ i \in DOMAIN q /\ q[i].tid = tid
      /\ \A k \in 1 .. i - 1 : q[k].tid # tid
  BY <1>1, <1>3
<1> QED BY <1>1, <1>4 DEF Position

\* The scan of enque stops somewhere, at the first later item or the end.
LEMMA InsertPosFound ==
  ASSUME NEW q \in Seq(Item), NEW item
  PROVE  LET p == InsertPos(q, item)
         IN  /\ p \in 1 .. Len(q) + 1
             /\ p \in 1 .. Len(q) => Ahead(item, q[p])
             /\ \A k \in 1 .. p - 1 : ~ Ahead(item, q[k])
<1> DEFINE T == {i \in 1 .. Len(q) + 1 : i \in 1 .. Len(q) => Ahead(item, q[i])}
<1>1. DOMAIN q = 1 .. Len(q) /\ Len(q) \in Nat
  OBVIOUS
<1>2. Len(q) + 1 \in T /\ T \subseteq Nat
  BY <1>1
<1>3. PICK i \in T : \A k \in T : i <= k
  BY <1>2, LeastNat
<1>4. /\ i \in 1 .. Len(q) + 1
      /\ i \in DOMAIN q => Ahead(item, q[i])
      /\ \A k \in 1 .. i - 1 : ~ Ahead(item, q[k])
  BY <1>1, <1>3
<1> QED BY <1>1, <1>4 DEF InsertPos

LEMMA DequeFacts ==
  ASSUME NEW q \in Seq(Item), NEW tid \in Tids(q), UniqueIn(q)
  PROVE  /\ Deque(q, tid) \in Seq(Item)
         /\ Len(Deque(q, tid)) = Len(q) - 1
         /\ UniqueIn(Deque(q, tid))
         /\ tid \notin Tids(Deque(q, tid))
         /\ \A t : Timely(q, t) => Timely(Deque(q, tid), t)
<1> DEFINE p == Position(q, tid)
           r == Deque(q, tid)
           m == [k \in 1 .. Len(q) - 1 |-> IF k < p THEN k ELSE k + 1]
<1>1. Len(q) \in Nat /\ p \in 1 .. Len(q) /\ q[p].tid = tid
  BY PositionFound
<1>2. r = RemoveAt(q, p)
  BY DEF Deque
<1> HIDE DEF r, p
<1>3. r \in Seq(Item) /\ Len(r) = Len(q) - 1
  BY <1>1, <1>2, RemoveAtElements
<1>4. \A k \in 1 .. Len(r) : m[k] \in 1 .. Len(q) /\ m[k] # p /\ r[k] = q[m[k]]
  BY <1>1, <1>2, <1>3, RemoveAtElements
<1>5. \A i, k \in 1 .. Len(r) :
        /\ m[i] = m[k] => i = k
        /\ i < k => m[i] < m[k]
  BY <1>1, <1>3
<1> HIDE DEF m
<1>6. UniqueIn(r)
  <2> SUFFICES ASSUME NEW i \in 1 .. Len(r), NEW k \in 1 .. Len(r),
                      r[i].tid = r[k].tid
               PROVE  i = k
    BY DEF UniqueIn
  <2>1. q[m[i]].tid = q[m[k]].tid /\ m[i] \in 1 .. Len(q) /\ m[k] \in 1 .. Len(q)
    BY <1>4
  <2>2. m[i] = m[k]
    BY <2>1 DEF UniqueIn
  <2> QED BY <2>2, <1>5
<1>7. \A k \in 1 .. Len(r) : r[k].tid # tid
  BY <1>1, <1>4 DEF UniqueIn
<1>8. tid \notin Tids(r)
  BY <1>3, <1>7 DEF Tids
<1>9. ASSUME NEW t, Timely(q, t) PROVE Timely(r, t)
  <2>1. ASSUME NEW i \in 1 .. Len(r), NEW k \in 1 .. Len(r), i < k
        PROVE  r[i].left <= r[k].left
    <3>1. /\ m[i] \in 1 .. Len(q) /\ m[k] \in 1 .. Len(q) /\ m[i] < m[k]
          /\ r[i] = q[m[i]] /\ r[k] = q[m[k]]
      BY <1>4, <1>5, <2>1
    <3> QED BY <3>1, <1>9 DEF Timely, SortedIn
  <2>2. ASSUME NEW k \in 1 .. Len(r) PROVE InWindow(r[k], t)
    BY <1>4, <1>9 DEF Timely, TimelyIn
  <2> QED BY <2>1, <2>2 DEF Timely, SortedIn, TimelyIn
<1> QED BY <1>3, <1>6, <1>8, <1>9 DEF r

\* A new item whose task id is not in the queue.  With its time in the
\* window, enque puts it where the true due times want it.
LEMMA EnqueFacts ==
  ASSUME NEW q \in Seq(Item), NEW item \in Item, UniqueIn(q),
         item.tid \notin Tids(q)
  PROVE  /\ Enque(q, item) \in Seq(Item)
         /\ Len(Enque(q, item)) = Len(q) + 1
         /\ UniqueIn(Enque(q, item))
         /\ item.tid \in Tids(Enque(q, item))
         /\ \A t \in Time : Timely(q, t) /\ InWindow(item, t)
                            => Timely(Enque(q, item), t)
<1> DEFINE p == InsertPos(q, item)
           r == Enque(q, item)
<1>1. /\ Len(q) \in Nat /\ p \in 1 .. Len(q) + 1
      /\ p \in 1 .. Len(q) => Ahead(item, q[p])
      /\ \A k \in 1 .. p - 1 : ~ Ahead(item, q[k])
  BY InsertPosFound
<1>2. r = InsertAt(q, p, item)
  BY DEF Enque
<1> HIDE DEF r, p
<1>3. /\ r \in Seq(Item) /\ Len(r) = Len(q) + 1
      /\ \A k \in 1 .. Len(q) + 1 :
           r[k] = IF k < p THEN q[k] ELSE IF k = p THEN item ELSE q[k - 1]
  <2>1. p \in 1 .. Len(q) + 1
    BY <1>1
  <2>2. /\ InsertAt(q, p, item) \in Seq(Item)
        /\ Len(InsertAt(q, p, item)) = Len(q) + 1
        /\ \A k \in 1 .. Len(q) + 1 : InsertAt(q, p, item)[k] =
             IF k < p THEN q[k] ELSE IF k = p THEN item ELSE q[k - 1]
    BY <2>1, InsertAtElements, SMTT(20)
  <2> QED BY ONLY <2>2, <1>2
<1>a. \A k \in 1 .. Len(r) :
        /\ k < p => r[k] = q[k] /\ k \in 1 .. Len(q)
        /\ k = p => r[k] = item
        /\ k > p => r[k] = q[k - 1] /\ k - 1 \in 1 .. Len(q)
  BY <1>1, <1>3
<1>b. p \in 1 .. Len(r)
  BY <1>1, <1>3
<1>4. DOMAIN q = 1 .. Len(q) /\ DOMAIN r = 1 .. Len(r)
  BY <1>3
<1>5. \A k \in 1 .. Len(q) : q[k].tid # item.tid
  BY <1>4 DEF Tids
<1>6. UniqueIn(r)
  <2> SUFFICES ASSUME NEW i \in 1 .. Len(r), NEW k \in 1 .. Len(r), i < k
               PROVE  r[i].tid # r[k].tid
    BY <1>1, <1>3 DEF UniqueIn
  <2>0. p \in Int /\ i \in Int /\ k \in Int
    BY <1>b
  <2>1. CASE i = p
    BY <2>0, <2>1, <1>a, <1>5
  <2>2. CASE k = p
    BY <2>0, <2>2, <1>a, <1>5
  <2>3. CASE i < p /\ k < p
    BY <2>3, <1>a DEF UniqueIn
  <2>4. CASE i < p /\ k > p
    <3>1. i # k - 1
      BY <2>0, <2>4
    <3> QED BY <3>1, <2>4, <1>a DEF UniqueIn
  <2>5. CASE i > p /\ k > p
    <3>1. i - 1 # k - 1
      BY <2>0
    <3> QED BY <3>1, <2>5, <1>a DEF UniqueIn
  <2> QED BY <2>0, <2>1, <2>2, <2>3, <2>4, <2>5
<1>7. item.tid \in Tids(r)
  BY <1>a, <1>b, <1>4 DEF Tids
<1>8. ASSUME NEW t \in Time, Timely(q, t), InWindow(item, t)
      PROVE  Timely(r, t)
  <2>1. TimelyIn(r, t)
    <3> SUFFICES ASSUME NEW k \in 1 .. Len(r)
                 PROVE  InWindow(r[k], t)
      BY DEF TimelyIn
    <3>1. \A i \in 1 .. Len(q) : InWindow(q[i], t)
      BY <1>8 DEF Timely, TimelyIn
    <3>2. k < p \/ k = p \/ k > p
      BY <1>b
    <3>3. r[k] = item \/ \E i \in 1 .. Len(q) : r[k] = q[i]
      BY <3>2, <1>a, Zenon
    <3> QED BY <3>1, <3>3, <1>8
  <2>2. \A k \in 1 .. Len(q) : Ahead(item, q[k]) <=> q[k].left > item.left
    <3> TAKE k \in 1 .. Len(q)
    <3>1. /\ InWindow(q[k], t) /\ InWindow(item, t)
          /\ q[k].when \in Time /\ item.when \in Time
          /\ q[k].left \in Int /\ item.left \in Int
      <4>1. q[k] \in Item
        OBVIOUS
      <4> QED BY <4>1, <1>8 DEF Timely, TimelyIn, Item
    <3>2. SignedDiff(q[k].when, item.when) = q[k].left - item.left
      <4>1. - Half < q[k].left - item.left /\ q[k].left - item.left < Half
        BY <3>1, SchedAssumption DEF InWindow
      <4> QED BY <3>1, <4>1, DiffOfLeft DEF InWindow
    <3> QED BY <3>1, <3>2 DEF Ahead
  <2>3. \A k \in 1 .. Len(q) : q[k].left \in Int /\ item.left \in Int
    <3>1. \A k \in 1 .. Len(q) : q[k] \in Item
      OBVIOUS
    <3> QED BY <3>1 DEF Item
  <2>4. ASSUME NEW k \in 1 .. Len(q), k < p
        PROVE  q[k].left <= item.left
    BY <1>1, <2>2, <2>3, <2>4
  <2>5. ASSUME NEW k \in 1 .. Len(q), p <= k
        PROVE  item.left <= q[k].left
    <3>1. p \in 1 .. Len(q) /\ item.left < q[p].left
      BY <1>1, <2>2, <2>3, <2>5
    <3>2. q[p].left <= q[k].left
      BY <3>1, <2>3, <2>5, <1>1, <1>8 DEF Timely, SortedIn
    <3> QED BY <3>1, <3>2, <2>3
  <2>6. SortedIn(r)
    <3> SUFFICES ASSUME NEW i \in 1 .. Len(r), NEW k \in 1 .. Len(r), i < k
                 PROVE  r[i].left <= r[k].left
      BY DEF SortedIn
    <3>0. p \in Int /\ i \in Int /\ k \in Int
      BY <1>b
    <3>1. CASE i = p
      <4>1. r[i] = item /\ r[k] = q[k - 1] /\ k - 1 \in 1 .. Len(q) /\ p <= k - 1
        BY <3>0, <3>1, <1>a
      <4> QED BY <4>1, <2>5
    <3>2. CASE k = p
      <4>1. r[k] = item /\ r[i] = q[i] /\ i \in 1 .. Len(q) /\ i < p
        BY <3>0, <3>2, <1>a
      <4> QED BY <4>1, <2>4
    <3>3. CASE i < p /\ k < p
      BY <3>3, <1>a, <1>8 DEF Timely, SortedIn
    <3>4. CASE i < p /\ k > p
      <4>1. i < k - 1
        BY <3>0, <3>4
      <4> QED BY <4>1, <3>4, <1>a, <1>8 DEF Timely, SortedIn
    <3>5. CASE i > p /\ k > p
      <4>1. i - 1 < k - 1
        BY <3>0
      <4> QED BY <4>1, <3>5, <1>a, <1>8 DEF Timely, SortedIn
    <3> QED BY <3>0, <3>1, <3>2, <3>3, <3>4, <3>5
  <2> QED BY <2>1, <2>6 DEF Timely
<1> QED BY <1>3, <1>6, <1>7, <1>8 DEF r


-----------------------------------------------------------------------------
(***************************************************************************)
(* What the operations do to the queue.                                    *)
(***************************************************************************)

LEMMA SubmitFacts ==
  ASSUME TypeOK, UniqueIn(queue), NEW tid \in Tid, NEW job \in Job,
         NEW delay \in Delay, ~ Queued(tid)
  PROVE  LET r == Enque(queue, NewItem(tid, job, delay))
         IN  /\ r \in Seq(Item) /\ Len(r) = Len(queue) + 1
             /\ UniqueIn(r) /\ tid \in Tids(r)
             /\ ShortDelays /\ Timely(queue, now) => Timely(r, now)
<1> DEFINE item == NewItem(tid, job, delay)
<1>1. queue \in Seq(Item) /\ now \in Time
  BY DEF TypeOK
<1>2. item \in Item
  BY <1>1, NewItemType
<1>3. item.tid = tid
  BY DEF NewItem
<1>4. ShortDelays => InWindow(item, now)
  BY <1>1, NewItemInWindow
<1>5. tid \notin Tids(queue)
  BY DEF Queued
<1> HIDE DEF item
<1>6. /\ Enque(queue, item) \in Seq(Item)
      /\ Len(Enque(queue, item)) = Len(queue) + 1
      /\ UniqueIn(Enque(queue, item))
      /\ tid \in Tids(Enque(queue, item))
      /\ \A t \in Time : Timely(queue, t) /\ InWindow(item, t)
                         => Timely(Enque(queue, item), t)
  BY <1>1, <1>2, <1>3, <1>5, EnqueFacts
<1> QED BY <1>1, <1>4, <1>6 DEF item

LEMMA ResubmitFacts ==
  ASSUME TypeOK, UniqueIn(queue), NEW tid \in Tid, NEW job \in Job,
         NEW delay \in Delay, Queued(tid)
  PROVE  LET r == Enque(Deque(queue, tid), NewItem(tid, job, delay))
         IN  /\ r \in Seq(Item) /\ Len(r) = Len(queue)
             /\ UniqueIn(r) /\ tid \in Tids(r)
             /\ ShortDelays /\ Timely(queue, now) => Timely(r, now)
<1> DEFINE item == NewItem(tid, job, delay)
           q == Deque(queue, tid)
<1>1. queue \in Seq(Item) /\ now \in Time /\ Len(queue) \in Nat
  BY DEF TypeOK
<1>2. item \in Item
  BY <1>1, NewItemType
<1>3. item.tid = tid
  BY DEF NewItem
<1>4. ShortDelays => InWindow(item, now)
  BY <1>1, NewItemInWindow
<1>5. tid \in Tids(queue)
  BY DEF Queued
<1>6. /\ q \in Seq(Item) /\ Len(q) = Len(queue) - 1 /\ UniqueIn(q)
      /\ tid \notin Tids(q)
      /\ \A t : Timely(queue, t) => Timely(q, t)
  BY <1>1, <1>5, DequeFacts
<1> HIDE DEF item, q
<1>7. /\ Enque(q, item) \in Seq(Item)
      /\ Len(Enque(q, item)) = Len(q) + 1
      /\ UniqueIn(Enque(q, item))
      /\ tid \in Tids(Enque(q, item))
      /\ \A t \in Time : Timely(q, t) /\ InWindow(item, t)
                         => Timely(Enque(q, item), t)
  BY <1>2, <1>3, <1>6, EnqueFacts
<1>8. Len(Enque(q, item)) = Len(queue)
  BY <1>1, <1>6, <1>7
<1> QED BY <1>1, <1>4, <1>6, <1>7, <1>8 DEF item, q

LEMMA TailFacts ==
  ASSUME NEW q \in Seq(Item), q # << >>, UniqueIn(q)
  PROVE  /\ Tail(q) \in Seq(Item) /\ Len(Tail(q)) = Len(q) - 1
         /\ Head(q) = q[1] /\ Head(q) \in Item /\ Len(q) \in Nat \ {0}
         /\ UniqueIn(Tail(q))
         /\ \A t : Timely(q, t) => Timely(Tail(q), t)
<1>1. /\ Tail(q) \in Seq(Item) /\ Len(Tail(q)) = Len(q) - 1
      /\ Head(q) \in Item /\ Len(q) \in Nat \ {0}
      /\ \A i \in 1 .. Len(q) - 1 : Tail(q)[i] = q[i + 1]
  <2>1. /\ Tail(q) \in Seq(Item) /\ Len(Tail(q)) = Len(q) - 1 /\ Head(q) \in Item
        /\ \A i \in 1 .. Len(Tail(q)) : Tail(q)[i] = q[i + 1]
    BY HeadTailProperties, Zenon
  <2>2. Len(q) \in Nat \ {0}
    BY EmptySeq, Zenon
  <2>3. \A i \in 1 .. Len(q) - 1 : Tail(q)[i] = q[i + 1]
    BY ONLY <2>1
  <2> QED BY ONLY <2>1, <2>2, <2>3
<1>2. Head(q) = q[1]
  BY <1>1
<1> DEFINE r == Tail(q)
<1>3. \A i \in 1 .. Len(r) : r[i] = q[i + 1] /\ i + 1 \in 1 .. Len(q)
  BY <1>1
<1>4. Len(r) \in Nat
  BY <1>1
<1> HIDE DEF r
<1>5. UniqueIn(r)
  <2> SUFFICES ASSUME NEW i \in 1 .. Len(r), NEW k \in 1 .. Len(r),
                      r[i].tid = r[k].tid
               PROVE  i = k
    BY DEF UniqueIn
  <2>1. i + 1 \in 1 .. Len(q) /\ k + 1 \in 1 .. Len(q) /\ q[i + 1].tid = q[k + 1].tid
    BY <1>3
  <2>2. i + 1 = k + 1
    BY <2>1 DEF UniqueIn
  <2> QED BY <2>2, <1>4
<1>6. ASSUME NEW t, Timely(q, t) PROVE Timely(r, t)
  <2>1. SortedIn(r)
    BY <1>3, <1>4, <1>6 DEF Timely, SortedIn
  <2>2. TimelyIn(r, t)
    BY <1>3, <1>6 DEF Timely, TimelyIn
  <2> QED BY <2>1, <2>2 DEF Timely
<1> QED BY <1>1, <1>2, <1>5, <1>6 DEF r

LEMMA NearerType ==
  ASSUME NEW x \in Item
  PROVE  LET y == [x EXCEPT !.left = x.left - 1]
         IN  /\ y \in Item
             /\ y.tid = x.tid /\ y.when = x.when /\ y.left = x.left - 1
             /\ x.left \in Int /\ x.when \in Time
BY DEF Item

\* The ghost of Tick: everything is one tick nearer, nothing moves.
LEMMA TickFacts ==
  ASSUME TypeOK, UniqueIn(queue), Tick
  PROVE  /\ queue' \in Seq(Item) /\ Len(queue') = Len(queue)
         /\ now' \in Time /\ UniqueIn(queue')
         /\ ShortDelays /\ Timely(queue, now) => Timely(queue', now')
<1>1. /\ queue \in Seq(Item) /\ Len(queue) \in Nat
      /\ DOMAIN queue = 1 .. Len(queue) /\ now \in Time
  BY DEF TypeOK
<1>2. queue' = [i \in 1 .. Len(queue) |->
                  [queue[i] EXCEPT !.left = queue[i].left - 1]]
  BY <1>1 DEF Tick
<1>3. \A i \in 1 .. Len(queue) :
        /\ queue[i] \in Item
        /\ [queue[i] EXCEPT !.left = queue[i].left - 1] \in Item
  <2>1. \A i \in 1 .. Len(queue) : queue[i] \in Item
    BY <1>1
  <2> QED BY <2>1, NearerType
<1>4. queue' \in Seq(Item) /\ Len(queue') = Len(queue)
  BY <1>1, <1>2, <1>3
<1>5. \A i \in 1 .. Len(queue) :
        /\ queue'[i].tid = queue[i].tid /\ queue'[i].when = queue[i].when
        /\ queue'[i].left = queue[i].left - 1 /\ queue[i].left \in Int
        /\ queue[i].when \in Time
  BY <1>2, <1>3, NearerType
<1>6. UniqueIn(queue')
  BY <1>4, <1>5 DEF UniqueIn
<1>7. now' = (now + 1) % Modulus /\ now' \in Time
  <2>1. now + 1 \in Int
    BY <1>1, ModulusType DEF Time
  <2> QED BY <2>1, ModulusType, ModWrap DEF Tick, Time
<1>8. ASSUME ShortDelays, Timely(queue, now) PROVE Timely(queue', now')
  <2>1. SortedIn(queue')
    BY <1>4, <1>5, <1>8 DEF Timely, SortedIn
  <2>2. ASSUME NEW i \in 1 .. Len(queue) PROVE InWindow(queue'[i], now')
    <3>1. /\ - MaxLate < queue[i].left /\ queue[i].left + MaxLate < Half
          /\ SignedDiff(queue[i].when, now) = queue[i].left
      <4>1. InWindow(queue[i], now)
        BY <1>8 DEF Timely, TimelyIn
      <4>2. queue[i].left > - MaxLate
        BY <1>1 DEF Tick
      <4> QED BY <4>1, <4>2, <1>5, SchedAssumption DEF InWindow
    <3>2. - Half < queue[i].left
      BY <3>1, <1>5, <1>8, SchedAssumption DEF ShortDelays
    <3>3. SignedDiff(queue[i].when, now') = queue[i].left - 1
      <4>1. /\ queue[i].when \in Time /\ now \in Time
            /\ - Half < SignedDiff(queue[i].when, now)
        BY <3>1, <3>2, <1>1, <1>5
      <4>2. SignedDiff(queue[i].when, (now + 1) % Modulus)
              = SignedDiff(queue[i].when, now) - 1
        BY <4>1, DiffAfterTick
      <4> QED BY <4>2, <3>1, <1>7
    <3> QED BY <3>1, <3>3, <1>5, SchedAssumption DEF InWindow
  <2> QED BY <2>1, <2>2, <1>4 DEF Timely, TimelyIn
<1> QED BY <1>4, <1>6, <1>7, <1>8


-----------------------------------------------------------------------------
(***************************************************************************)
(* The inductive invariant.  TypeOK alone is not inductive: that free does *)
(* not exceed its range when an item is freed follows from the accounting, *)
(* and that removal removes the task id from the queue from uniqueness.    *)
(***************************************************************************)
IInv == TypeOK /\ ItemsAccounted /\ UniqueIn(queue)

TInv == IInv /\ Timely(queue, now)

LEMMA NoCallType == NoCall \in Call
BY SchedAssumption DEF NoCall, Call

LEMMA InitIInv == Init => TInv
<1> SUFFICES ASSUME Init PROVE TInv
  OBVIOUS
<1>1. queue = << >> /\ Len(queue) = 0 /\ queue \in Seq(Item)
  BY EmptySeq DEF Init
<1>2. TypeOK
  BY <1>1, SchedAssumption, NoCallType DEF Init, TypeOK
<1>3. ItemsAccounted
  BY <1>1, SchedAssumption DEF Init, ItemsAccounted
<1>4. UniqueIn(queue) /\ Timely(queue, now)
  BY <1>1 DEF UniqueIn, Timely, SortedIn, TimelyIn
<1> QED BY <1>2, <1>3, <1>4 DEF TInv, IInv

LEMMA NextIInv ==
  ASSUME IInv, [Next]_vars
  PROVE  IInv' /\ (ShortDelays /\ Timely(queue, now) => Timely(queue', now'))
<1>0. /\ TypeOK /\ ItemsAccounted /\ UniqueIn(queue)
      /\ Len(queue) \in Nat /\ QueueSize - 1 \in Nat
  BY SchedAssumption DEF IInv, TypeOK
<1> USE DEF IInv
<1>1. CASE nk_alloc_tid
  BY <1>0, <1>1, SchedAssumption, NoCallType
     DEF nk_alloc_tid, TypeOK, ItemsAccounted
<1>2. ASSUME NEW tid \in Tid, NEW job \in Job, NEW delay \in Delay,
             nk_sched(tid, job, delay)
      PROVE  IInv' /\ (ShortDelays /\ Timely(queue, now) => Timely(queue', now'))
  <2>1. CASE SchedQueued(tid, job, delay)
    BY <1>0, <1>2, <2>1, ResubmitFacts
       DEF SchedQueued, nk_sched, TypeOK, ItemsAccounted, Call, Returns, Tid
  <2>2. CASE SchedNew(tid, job, delay)
    <3>1. call' \in Call
      BY <1>2, <2>2 DEF SchedNew, Call, Returns, Tid
    <3> QED BY <1>0, <1>2, <2>2, <3>1, SubmitFacts
            DEF SchedNew, nk_sched, TypeOK, ItemsAccounted
  <2>3. CASE SchedFull(tid)
    <3>1. call' \in Call
      BY <1>2, <2>3 DEF SchedFull, Call, Returns, Tid
    <3> QED BY <1>0, <1>2, <2>3, <3>1
            DEF SchedFull, nk_sched, TypeOK, ItemsAccounted
  <2> QED BY <1>2, <2>1, <2>2, <2>3 DEF nk_sched
<1>3. ASSUME NEW tid \in Tid, NEW job \in Job, NEW delay \in Delay,
             nk_resched(tid, job, delay)
      PROVE  IInv' /\ (ShortDelays /\ Timely(queue, now) => Timely(queue', now'))
  <2>1. CASE Queued(tid)
    <3>1. call' \in Call
      BY <1>3, <2>1 DEF nk_resched, Call, Returns, Tid
    <3> QED BY <1>0, <1>3, <2>1, <3>1, ResubmitFacts
            DEF nk_resched, TypeOK, ItemsAccounted
  <2>2. CASE ~ Queued(tid)
    <3>1. call' \in Call
      BY <1>3, <2>2 DEF nk_resched, Call, Returns, Tid
    <3> QED BY <1>0, <1>3, <2>2, <3>1
            DEF nk_resched, TypeOK, ItemsAccounted
  <2> QED BY <2>1, <2>2
<1>4. ASSUME NEW tid \in Tid, nk_unsched(tid)
      PROVE  IInv' /\ (ShortDelays /\ Timely(queue, now) => Timely(queue', now'))
  <2>1. /\ queue \in Seq(Item) /\ tid \in Tids(queue)
        /\ queue' = Deque(queue, tid) /\ now' = now
    BY <1>0, <1>4 DEF nk_unsched, Queued, TypeOK
  <2>2. /\ queue' \in Seq(Item) /\ Len(queue') = Len(queue) - 1
        /\ UniqueIn(queue') /\ Len(queue') \in Nat
        /\ (Timely(queue, now) => Timely(queue', now))
    BY <1>0, <2>1, DequeFacts
  <2> QED BY <1>0, <1>4, <2>1, <2>2, NoCallType
             DEF nk_unsched, TypeOK, ItemsAccounted
<1>5. CASE EnterLoop
  BY <1>0, <1>5, NoCallType DEF EnterLoop, TypeOK, ItemsAccounted
<1>6. CASE Dispatch
  <2>1. /\ queue \in Seq(Item) /\ queue # << >> /\ queue' = Tail(queue)
        /\ now' = now /\ current_tid' = Head(queue).tid
    BY <1>0, <1>6 DEF Dispatch, TypeOK
  <2>2. /\ queue' \in Seq(Item) /\ Len(queue') = Len(queue) - 1
        /\ UniqueIn(queue') /\ Len(queue') \in Nat
        /\ Head(queue) \in Item
        /\ (Timely(queue, now) => Timely(queue', now))
    BY <1>0, <2>1, TailFacts
  <2>3. current_tid' \in 0 .. MaxTid
    BY <2>1, <2>2, SchedAssumption DEF Item, Tid
  <2> QED BY <1>0, <1>6, <2>1, <2>2, <2>3, NoCallType
             DEF Dispatch, TypeOK, ItemsAccounted
<1>7. CASE TaskReturn
  BY <1>0, <1>7, NoCallType DEF TaskReturn, TypeOK, ItemsAccounted
<1>8. CASE Tick
  BY <1>0, <1>8, TickFacts, NoCallType DEF Tick, TypeOK, ItemsAccounted
<1>9. CASE UNCHANGED vars
  BY <1>0, <1>9 DEF vars, TypeOK, ItemsAccounted
<1> QED BY <1>1, <1>2, <1>3, <1>4, <1>5, <1>6, <1>7, <1>8, <1>9
           DEF Next, Submit

\* UniqueIn is UniqueTids, on the domain written as an interval.
LEMMA IInvUnique == ASSUME IInv PROVE UniqueTids
<1>1. DOMAIN queue = 1 .. Len(queue)
  BY DEF IInv, TypeOK
<1> QED BY <1>1 DEF IInv, UniqueIn, UniqueTids

LEMMA SpecIInv == Spec => []IInv
<1>1. Init => IInv
  BY InitIInv DEF TInv
<1>2. IInv /\ [Next]_vars => IInv'
  BY NextIInv
<1> QED BY <1>1, <1>2, PTL DEF Spec

\* The state of the work queue is well typed: in particular the free list
\* never holds more items than the array has, whatever the order of calls.
THEOREM TypeCorrect == Spec => []TypeOK
<1>1. IInv => TypeOK
  BY DEF IInv
<1> QED BY <1>1, SpecIInv, PTL

\* No item is lost or duplicated between the queue and the free list, for
\* every interleaving of tasks and interrupt handlers.
THEOREM QueueIntegrity == Spec => []ItemsAccounted
<1>1. IInv => ItemsAccounted
  BY DEF IInv
<1> QED BY <1>1, SpecIInv, PTL

\* There is at most one item in the queue for each task id, also when an
\* interrupt submits the task that is being submitted or called.
THEOREM OneItemPerTask == Spec => []UniqueTids
<1>1. IInv => UniqueTids
  BY IInvUnique
<1> QED BY <1>1, SpecIInv, PTL

-----------------------------------------------------------------------------
(***************************************************************************)
(* Time.  Everything below assumes ShortDelays.                            *)
(***************************************************************************)

LEMMA SpecTInv == ASSUME ShortDelays PROVE Spec => []TInv
<1>1. Init => TInv
  BY InitIInv
<1>2. TInv /\ [Next]_vars => TInv'
  BY NextIInv DEF TInv
<1> QED BY <1>1, <1>2, PTL DEF Spec

\* The signed comparison of wrapped times is never misled, however often the
\* 32-bit timer wraps: as long as a delay and the time the main loop is
\* behind are together less than half the range of the timer.
THEOREM TimesTrue == ASSUME ShortDelays PROVE Spec => []TimesAgree
<1>1. ASSUME TInv PROVE TimesAgree
  <2>1. DOMAIN queue = 1 .. Len(queue)
    BY <1>1 DEF TInv, IInv, TypeOK
  <2> QED BY <1>1, <2>1 DEF TInv, Timely, TimelyIn, InWindow, TimesAgree
<1> QED BY <1>1, SpecTInv, PTL

\* Under the same condition the queue stays in the order of the true due
\* times, so its head is always the next task to call.
THEOREM QueueInTrueOrder == ASSUME ShortDelays PROVE Spec => []Sorted
<1>1. ASSUME TInv PROVE Sorted
  <2>1. DOMAIN queue = 1 .. Len(queue)
    BY <1>1 DEF TInv, IInv, TypeOK
  <2> QED BY <1>1, <2>1 DEF TInv, Timely, SortedIn, Sorted
<1> QED BY <1>1, SpecTInv, PTL

\* Dispatch is the only step that takes main() from the loop into a task.
LEMMA DispatchOnly ==
  ASSUME Next, main = "loop", main' = "task"
  PROVE  Dispatch
BY DEF Next, Submit, nk_alloc_tid, nk_sched, nk_resched, nk_unsched,
       EnterLoop, TaskReturn, Tick

\* The main loop calls no function before its delay has passed.
THEOREM NothingEarly == ASSUME ShortDelays PROVE Spec => NeverEarly
<1>1. ASSUME TInv, Next, main = "loop", main' = "task"
      PROVE  Head(queue).left <= 0
  <2>1. Dispatch
    BY <1>1, DispatchOnly
  <2>2. /\ queue \in Seq(Item) /\ queue # << >> /\ UniqueIn(queue)
        /\ Timely(queue, now) /\ now \in Time
    BY <1>1, <2>1 DEF Dispatch, TInv, IInv, TypeOK
  <2>3. /\ Head(queue) = queue[1] /\ Head(queue) \in Item
        /\ 1 \in 1 .. Len(queue)
    BY <2>2, TailFacts
  <2> DEFINE h == Head(queue)
  <2>4. InWindow(h, now) /\ h.when \in Time /\ h.left \in Int
    BY <2>2, <2>3 DEF Timely, TimelyIn, Item
  <2>5. SignedDiff(now, h.when) >= 0
    BY <2>1 DEF Dispatch, Due
  <2> HIDE DEF h
  <2>6. /\ SignedDiff(h.when, now) = h.left
        /\ - Half < h.left /\ h.left < Half
    <3>1. /\ SignedDiff(h.when, now) = h.left /\ - MaxLate <= h.left
          /\ h.left + MaxLate < Half
      BY <2>4 DEF InWindow
    <3> QED BY <3>1, <2>4, SchedAssumption DEF ShortDelays
  <2>7. SignedDiff(now, h.when) = - h.left
    <3>1. now \in Int /\ h.when \in Int
      BY <2>2, <2>4, ModulusType DEF Time
    <3> DEFINE x == SignedDiff(now, h.when)
               y == SignedDiff(h.when, now)
    <3>2. /\ x \in Int /\ - Half <= x /\ x < Half
          /\ \/ x = now - h.when
             \/ x = now - h.when + Modulus
             \/ x = now - h.when - Modulus
      BY <2>2, <2>4, SignedDiffCases
    <3>3. /\ y = h.left
          /\ \/ y = h.when - now
             \/ y = h.when - now + Modulus
             \/ y = h.when - now - Modulus
      BY <2>2, <2>4, <2>6, SignedDiffCases
    <3> HIDE DEF x, y
    <3>4. x = - h.left
      BY <3>1, <3>2, <3>3, <2>4, <2>6, ModulusType, SchedAssumption
    <3> QED BY <3>4 DEF x
  <2> QED BY <2>4, <2>5, <2>7 DEF h
<1>2. TInv /\ [Next]_vars
        => [main = "loop" /\ main' = "task" => Head(queue).left <= 0]_vars
  BY <1>1
<1> QED BY <1>2, SpecTInv, PTL DEF Spec, NeverEarly

-----------------------------------------------------------------------------
(***************************************************************************)
(* The limit of the queue.                                                 *)
(***************************************************************************)

\* With a usable item for every task id a task id that is not in the queue
\* leaves an item on the free list.
LEMMA RoomForAll ==
  ASSUME MaxTid <= QueueSize - 1, IInv, NEW tid \in Tid, ~ Queued(tid)
  PROVE  free > 0
<1> DEFINE n == Len(queue)
           f == [i \in 1 .. n |-> queue[i].tid]
           T == Tid \ {tid}
<1>1. /\ queue \in Seq(Item) /\ n \in Nat /\ DOMAIN queue = 1 .. n
      /\ free \in Nat /\ n + free = QueueSize - 1 /\ UniqueIn(queue)
  BY SchedAssumption DEF IInv, TypeOK, ItemsAccounted
<1>2. f \in [1 .. n -> T]
  <2> SUFFICES ASSUME NEW i \in 1 .. n PROVE queue[i].tid \in T
    OBVIOUS
  <2>1. queue[i] \in Item
    BY <1>1
  <2>2. queue[i].tid # tid
    BY <1>1 DEF Queued, Tids
  <2> QED BY <2>1, <2>2 DEF Item
<1>3. \A i, k \in 1 .. n : f[i] = f[k] => i = k
  BY <1>1 DEF UniqueIn
<1>4. IsFiniteSet(Tid) /\ Cardinality(Tid) = MaxTid
  BY FS_Interval, SchedAssumption DEF Tid
<1>5. IsFiniteSet(T) /\ Cardinality(T) = MaxTid - 1
  BY <1>4, FS_RemoveElement
<1>6. IsFiniteSet(1 .. n) /\ Cardinality(1 .. n) = n
  <2> HIDE DEF n
  <2>1. n \in Int /\ (IF 1 > n THEN 0 ELSE n - 1 + 1) = n
    BY <1>1
  <2> QED BY <2>1, FS_Interval
<1> HIDE DEF f, T
<1>7. ~ (Cardinality(T) < Cardinality(1 .. n))
  BY <1>2, <1>3, <1>5, <1>6, FS_PigeonHole
<1>8. n <= MaxTid - 1
  BY <1>1, <1>5, <1>6, <1>7, SchedAssumption
<1> HIDE DEF n
<1> QED BY <1>1, <1>8, SchedAssumption

\* nk_sched never runs out of items when NK_WORK_QUEUE_SIZE exceeds the
\* number of task ids in use: no wake-up is lost for want of an item.
THEOREM NothingDropped ==
  ASSUME MaxTid <= QueueSize - 1 PROVE Spec => NeverDropped
<1>1. ASSUME IInv, Next, NEW tid \in Tid, call'.op = "sched", call'.tid = tid
      PROVE  tid \in Tids(queue')
  <2>1. PICK t \in Tid, job \in Job, delay \in Delay : nk_sched(t, job, delay)
    BY <1>1 DEF Next, Submit, nk_alloc_tid, nk_resched, nk_unsched, EnterLoop,
                Dispatch, TaskReturn, Tick, Returns, NoCall
  <2>2. t = tid
    BY <1>1, <2>1 DEF nk_sched, SchedQueued, SchedNew, SchedFull, Returns
  <2>3. TypeOK /\ UniqueIn(queue)
    BY <1>1 DEF IInv
  <2>4. CASE SchedQueued(t, job, delay)
    BY <2>2, <2>3, <2>4, ResubmitFacts DEF SchedQueued
  <2>5. CASE SchedNew(t, job, delay)
    BY <2>2, <2>3, <2>5, SubmitFacts DEF SchedNew
  <2>6. CASE SchedFull(t)
    BY <1>1, <2>6, RoomForAll DEF SchedFull
  <2> QED BY <2>1, <2>4, <2>5, <2>6 DEF nk_sched
<1>2. IInv /\ [Next]_vars
        => [\A tid \in Tid : call'.op = "sched" /\ call'.tid = tid
                               => tid \in Tids(queue')]_vars
  BY <1>1
<1> QED BY <1>2, SpecIInv, PTL DEF Spec, NeverDropped

-----------------------------------------------------------------------------
(***************************************************************************)
(* Which jobs wait under which task id after each operation: all that a    *)
(* program which uses the queue has to know of it.                         *)
(***************************************************************************)
Waits(q, tid, job) == \E i \in 1 .. Len(q) : q[i].tid = tid /\ q[i].job = job

LEMMA DequeWaits ==
  ASSUME NEW q \in Seq(Item), NEW tid \in Tids(q), UniqueIn(q), NEW t, NEW j
  PROVE  Waits(Deque(q, tid), t, j) <=> t # tid /\ Waits(q, t, j)
<1> DEFINE p == Position(q, tid)
           r == Deque(q, tid)
<1>1. Len(q) \in Nat /\ p \in 1 .. Len(q) /\ q[p].tid = tid
  BY PositionFound
<1>2. r = RemoveAt(q, p)
  BY DEF Deque
<1> HIDE DEF r, p
<1>3. /\ Len(r) = Len(q) - 1
      /\ \A k \in 1 .. Len(q) - 1 : r[k] = IF k < p THEN q[k] ELSE q[k + 1]
  BY <1>1, <1>2, RemoveAtElements
<1>4. ASSUME NEW k \in 1 .. Len(r), r[k].tid = t, r[k].job = j
      PROVE  t # tid /\ Waits(q, t, j)
  <2>1. PICK m \in 1 .. Len(q) : m # p /\ r[k] = q[m]
    BY <1>1, <1>3
  <2> QED BY <2>1, <1>1, <1>4 DEF UniqueIn, Waits
<1>5. ASSUME t # tid, NEW m \in 1 .. Len(q), q[m].tid = t, q[m].job = j
      PROVE  Waits(r, t, j)
  <2>1. m # p
    BY <1>1, <1>5
  <2>2. CASE m < p
    <3>1. m \in 1 .. Len(r) /\ r[m] = q[m]
      BY <2>2, <1>1, <1>3
    <3> QED BY <3>1, <1>5 DEF Waits
  <2>3. CASE m > p
    <3>1. m - 1 \in 1 .. Len(r) /\ r[m - 1] = q[m]
      BY <2>3, <1>1, <1>3
    <3> QED BY <3>1, <1>5 DEF Waits
  <2> QED BY <2>1, <2>2, <2>3, <1>1
<1> QED BY <1>4, <1>5 DEF Waits, r

LEMMA EnqueWaits ==
  ASSUME NEW q \in Seq(Item), NEW item \in Item, NEW t, NEW j
  PROVE  Waits(Enque(q, item), t, j)
           <=> (item.tid = t /\ item.job = j) \/ Waits(q, t, j)
<1> DEFINE p == InsertPos(q, item)
           r == Enque(q, item)
<1>1. Len(q) \in Nat /\ p \in 1 .. Len(q) + 1
  BY InsertPosFound
<1>2. r = InsertAt(q, p, item)
  BY DEF Enque
<1> HIDE DEF r, p
<1>3. /\ Len(r) = Len(q) + 1
      /\ \A k \in 1 .. Len(q) + 1 :
           r[k] = IF k < p THEN q[k] ELSE IF k = p THEN item ELSE q[k - 1]
  <2>1. p \in 1 .. Len(q) + 1
    BY <1>1
  <2>2. /\ Len(InsertAt(q, p, item)) = Len(q) + 1
        /\ \A k \in 1 .. Len(q) + 1 : InsertAt(q, p, item)[k] =
             IF k < p THEN q[k] ELSE IF k = p THEN item ELSE q[k - 1]
    BY <2>1, InsertAtElements, SMTT(20)
  <2> QED BY ONLY <2>2, <1>2
<1>4. ASSUME NEW k \in 1 .. Len(r), r[k].tid = t, r[k].job = j
      PROVE  (item.tid = t /\ item.job = j) \/ Waits(q, t, j)
  <2>1. r[k] = item \/ \E m \in 1 .. Len(q) : r[k] = q[m]
    BY <1>1, <1>3
  <2> QED BY <2>1, <1>4 DEF Waits
<1>5. ASSUME item.tid = t, item.job = j PROVE Waits(r, t, j)
  <2>1. p \in 1 .. Len(r) /\ r[p] = item
    BY <1>1, <1>3
  <2> QED BY <2>1, <1>5 DEF Waits
<1>6. ASSUME NEW m \in 1 .. Len(q), q[m].tid = t, q[m].job = j
      PROVE  Waits(r, t, j)
  <2>1. CASE m < p
    <3>1. m \in 1 .. Len(r) /\ r[m] = q[m]
      BY <2>1, <1>1, <1>3
    <3> QED BY <3>1, <1>6 DEF Waits
  <2>2. CASE m >= p
    <3>1. m + 1 \in 1 .. Len(r) /\ r[m + 1] = q[m]
      BY <2>2, <1>1, <1>3
    <3> QED BY <3>1, <1>6 DEF Waits
  <2> QED BY <2>1, <2>2, <1>1
<1> QED BY <1>4, <1>5, <1>6 DEF Waits, r

\* nk_sched with an item for every task id: afterwards the job, and no other,
\* waits under the task id.
LEMMA SchedWaits ==
  ASSUME MaxTid <= QueueSize - 1, IInv, NEW tid \in Tid, NEW job \in Job,
         NEW delay \in Delay, nk_sched(tid, job, delay)
  PROVE  /\ IInv'
         /\ \A t, j : Waits(queue', t, j)
                        <=> IF t = tid THEN j = job ELSE Waits(queue, t, j)
<1>1. IInv'
  BY NextIInv DEF Next, Submit
<1> DEFINE item == NewItem(tid, job, delay)
<1>2. queue \in Seq(Item) /\ UniqueIn(queue) /\ now \in Time
  BY DEF IInv, TypeOK
<1>3. item \in Item
  BY <1>2, NewItemType
<1>4. item.tid = tid /\ item.job = job
  BY DEF NewItem
<1> HIDE DEF item
<1>5. SchedQueued(tid, job, delay) \/ SchedNew(tid, job, delay)
  BY RoomForAll DEF nk_sched, SchedFull
<1>6. ASSUME NEW t, NEW j
      PROVE  Waits(queue', t, j)
               <=> IF t = tid THEN j = job ELSE Waits(queue, t, j)
  <2>1. CASE SchedQueued(tid, job, delay)
    <3> DEFINE q == Deque(queue, tid)
    <3>1. tid \in Tids(queue) /\ queue' = Enque(q, item)
      BY <2>1 DEF SchedQueued, Queued, item
    <3>2. q \in Seq(Item) /\ (Waits(q, t, j) <=> t # tid /\ Waits(queue, t, j))
      BY <1>2, <3>1, DequeFacts, DequeWaits
    <3> HIDE DEF q
    <3> QED BY <1>3, <1>4, <3>1, <3>2, EnqueWaits
  <2>2. CASE SchedNew(tid, job, delay)
    <3>1. tid \notin Tids(queue) /\ queue' = Enque(queue, item)
      BY <2>2 DEF SchedNew, Queued, item
    <3>2. t = tid => ~ Waits(queue, t, j)
      BY <1>2, <3>1 DEF Waits, Tids
    <3> QED BY <1>2, <1>3, <1>4, <3>1, <3>2, EnqueWaits
  <2> QED BY <1>5, <2>1, <2>2
<1> QED BY <1>1, <1>6

LEMMA UnschedWaits ==
  ASSUME IInv, NEW tid \in Tid, nk_unsched(tid)
  PROVE  /\ IInv'
         /\ \A t, j : Waits(queue', t, j) <=> t # tid /\ Waits(queue, t, j)
<1>1. IInv'
  BY NextIInv DEF Next
<1>2. queue \in Seq(Item) /\ UniqueIn(queue)
  BY DEF IInv, TypeOK
<1>3. tid \in Tids(queue) /\ queue' = Deque(queue, tid)
  BY DEF nk_unsched, Queued
<1> QED BY <1>1, <1>2, <1>3, DequeWaits

\* The main loop takes one job off the queue, all there is of its task id.
LEMMA DispatchWaits ==
  ASSUME IInv, Dispatch
  PROVE  /\ IInv'
         /\ Head(queue) \in Item
         /\ current_tid' = Head(queue).tid
         /\ Waits(queue, Head(queue).tid, Head(queue).job)
         /\ \A t, j : Waits(queue', t, j)
                        <=> t # Head(queue).tid /\ Waits(queue, t, j)
<1>1. IInv'
  BY NextIInv DEF Next
<1>2. queue \in Seq(Item) /\ UniqueIn(queue) /\ queue # << >>
  BY DEF IInv, TypeOK, Dispatch
<1> DEFINE h == Head(queue)
           r == Tail(queue)
<1>3. /\ h = queue[1] /\ h \in Item /\ Len(queue) \in Nat \ {0}
      /\ Len(r) = Len(queue) - 1
  BY <1>2, TailFacts
<1>4. \A i \in 1 .. Len(queue) - 1 : r[i] = queue[i + 1]
  BY <1>2, HeadTailProperties
<1>5. queue' = r /\ current_tid' = h.tid
  BY DEF Dispatch
<1> HIDE DEF h, r
<1>6. Waits(queue, h.tid, h.job)
  BY <1>3 DEF Waits
<1>7. ASSUME NEW t, NEW j
      PROVE  Waits(r, t, j) <=> t # h.tid /\ Waits(queue, t, j)
  <2>1. ASSUME NEW k \in 1 .. Len(r), r[k].tid = t, r[k].job = j
        PROVE  t # h.tid /\ Waits(queue, t, j)
    <3>1. k + 1 \in 1 .. Len(queue) /\ k + 1 # 1 /\ r[k] = queue[k + 1]
      BY <1>3, <1>4
    <3>2. 1 \in 1 .. Len(queue)
      BY <1>3
    <3> QED BY <1>2, <1>3, <2>1, <3>1, <3>2 DEF UniqueIn, Waits
  <2>2. ASSUME t # h.tid, NEW m \in 1 .. Len(queue), queue[m].tid = t,
               queue[m].job = j
        PROVE  Waits(r, t, j)
    <3>1. m # 1
      BY <1>3, <2>2
    <3>2. m - 1 \in 1 .. Len(r) /\ r[m - 1] = queue[m]
      BY <1>3, <1>4, <3>1
    <3> QED BY <2>2, <3>2 DEF Waits
  <2> QED BY <2>1, <2>2 DEF Waits
<1> QED BY <1>1, <1>3, <1>5, <1>6, <1>7 DEF h

LEMMA TickWaits ==
  ASSUME IInv, Tick
  PROVE  IInv' /\ \A t, j : Waits(queue', t, j) <=> Waits(queue, t, j)
<1>1. IInv'
  BY NextIInv DEF Next
<1>2. /\ queue \in Seq(Item) /\ DOMAIN queue = 1 .. Len(queue)
      /\ queue' \in Seq(Item) /\ Len(queue') = Len(queue)
  BY TickFacts DEF IInv, TypeOK
<1>3. queue' = [i \in 1 .. Len(queue) |->
                  [queue[i] EXCEPT !.left = queue[i].left - 1]]
  BY <1>2 DEF Tick
<1>4. \A i \in 1 .. Len(queue) :
        queue'[i].tid = queue[i].tid /\ queue'[i].job = queue[i].job
  <2>1. \A i \in 1 .. Len(queue) : queue[i] \in Item
    BY <1>2
  <2>2. \A x \in Item : LET y == [x EXCEPT !.left = x.left - 1]
                        IN  y.tid = x.tid /\ y.job = x.job
    BY DEF Item
  <2> QED BY <1>3, <2>1, <2>2
<1> QED BY <1>1, <1>2, <1>4 DEF Waits

\* The remaining operations leave the queue alone.
LEMMA OtherWaits ==
  ASSUME IInv, nk_alloc_tid \/ EnterLoop \/ TaskReturn
  PROVE  IInv' /\ queue' = queue
<1>1. IInv'
  BY NextIInv DEF Next
<1> QED BY <1>1 DEF nk_alloc_tid, EnterLoop, TaskReturn

LEMMA QueuedWaits ==
  ASSUME IInv, NEW tid
  PROVE  Queued(tid) <=> \E job \in Job : Waits(queue, tid, job)
<1>1. queue \in Seq(Item) /\ DOMAIN queue = 1 .. Len(queue)
  BY DEF IInv, TypeOK
<1>2. \A i \in 1 .. Len(queue) : queue[i] \in Item
  BY <1>1
<1>3. \A x \in Item : x.job \in Job
  BY DEF Item
<1> QED BY <1>1, <1>2, <1>3 DEF Queued, Tids, Waits

-----------------------------------------------------------------------------
(***************************************************************************)
(* First come, first served.  The history variable of NkSchedLog records   *)
(* the pending submissions in the order in which they were made: each is   *)
(* in the queue and in the log, and items with the same due time are in    *)
(* the order of the log.                                                   *)
(***************************************************************************)
Same(x, e) == x.tid = e.tid /\ x.job = e.job

Recorded(q, l) ==
  /\ Len(l) = Len(q) /\ UniqueIn(l)
  /\ \A i \in 1 .. Len(q) : \E n \in 1 .. Len(l) : Same(q[i], l[n])
  /\ \A n \in 1 .. Len(l) : \E i \in 1 .. Len(q) : Same(q[i], l[n])

InTurn(q, l) ==
  \A i, k \in 1 .. Len(q), m, n \in 1 .. Len(l) :
    /\ i < k /\ q[i].left = q[k].left
    /\ q[i].tid = l[m].tid /\ q[k].tid = l[n].tid
    => m < n

LInv == log \in Seq(Entry) /\ Recorded(queue, log) /\ InTurn(queue, log)

\* r is s without its element at position p.
Without(r, s, p) ==
  /\ Len(r) = Len(s) - 1
  /\ \A k \in 1 .. Len(s) - 1 : r[k] = IF k < p THEN s[k] ELSE s[k + 1]

\* Where an element of r was in s, and where one of s is in r.
Moves(r, s, p) ==
  /\ \A k \in 1 .. Len(r) : \E m \in 1 .. Len(s) :
       m # p /\ r[k] = s[m] /\ m = IF k < p THEN k ELSE k + 1
  /\ \A m \in 1 .. Len(s) : m # p => \E k \in 1 .. Len(r) : r[k] = s[m]

LEMMA WithoutMoves ==
  ASSUME NEW s, Len(s) \in Nat, NEW p \in 1 .. Len(s), NEW r, Without(r, s, p)
  PROVE  Moves(r, s, p)
<1>1. ASSUME NEW k \in 1 .. Len(r)
      PROVE  \E m \in 1 .. Len(s) :
               m # p /\ r[k] = s[m] /\ m = IF k < p THEN k ELSE k + 1
  <2>1. CASE k < p
    BY <2>1 DEF Without
  <2>2. CASE ~ (k < p)
    <3>1. k + 1 \in 1 .. Len(s) /\ k + 1 # p /\ r[k] = s[k + 1]
      BY <2>2 DEF Without
    <3> QED BY <2>2, <3>1
  <2> QED BY <2>1, <2>2
<1>2. ASSUME NEW m \in 1 .. Len(s), m # p
      PROVE  \E k \in 1 .. Len(r) : r[k] = s[m]
  <2>1. CASE m < p
    BY <2>1 DEF Without
  <2>2. CASE ~ (m < p)
    <3>1. m - 1 \in 1 .. Len(s) - 1 /\ ~ (m - 1 < p) /\ (m - 1) + 1 = m
      BY <2>2, <1>2
    <3>2. m - 1 \in 1 .. Len(r) /\ r[m - 1] = s[m]
      BY <3>1 DEF Without
    <3> QED BY <3>2
  <2> QED BY <2>1, <2>2
<1> QED BY <1>1, <1>2, Zenon DEF Moves

\* A job leaves the queue and the log.
LEMMA LeaveInTurn ==
  ASSUME NEW q, NEW l, Len(q) \in Nat, UniqueIn(q),
         Recorded(q, l), InTurn(q, l),
         NEW p \in 1 .. Len(q), NEW n \in 1 .. Len(l), q[p].tid = l[n].tid,
         NEW r, Without(r, q, p), NEW w, Without(w, l, n)
  PROVE  Recorded(r, w) /\ InTurn(r, w)
<1>1. Len(l) \in Nat /\ Len(l) = Len(q) /\ UniqueIn(l)
  BY DEF Recorded
<1>2. Moves(r, q, p) /\ Moves(w, l, n)
  BY <1>1, WithoutMoves
<1>3. Len(w) = Len(r) /\ Len(r) \in Nat
  BY <1>1 DEF Without
<1>4. UniqueIn(w)
  <2> SUFFICES ASSUME NEW i \in 1 .. Len(w), NEW k \in 1 .. Len(w),
                      w[i].tid = w[k].tid
               PROVE  i = k
    BY DEF UniqueIn
  <2>1. PICK a \in 1 .. Len(l) : w[i] = l[a] /\ a = IF i < n THEN i ELSE i + 1
    BY <1>2, Zenon DEF Moves
  <2>2. PICK b \in 1 .. Len(l) : w[k] = l[b] /\ b = IF k < n THEN k ELSE k + 1
    BY <1>2, Zenon DEF Moves
  <2>3. a = b
    BY <1>1, <2>1, <2>2 DEF UniqueIn
  <2> QED BY <2>1, <2>2, <2>3
<1>5. ASSUME NEW i \in 1 .. Len(r)
      PROVE  \E m \in 1 .. Len(w) : Same(r[i], w[m])
  <2>1. PICK a \in 1 .. Len(q) : a # p /\ r[i] = q[a]
    BY <1>2, Zenon DEF Moves
  <2>2. PICK b \in 1 .. Len(l) : Same(q[a], l[b])
    BY DEF Recorded
  <2>3. b # n
    BY <2>1, <2>2 DEF UniqueIn, Same
  <2>4. PICK m \in 1 .. Len(w) : w[m] = l[b]
    BY <1>2, <2>3, Zenon DEF Moves
  <2> QED BY <2>1, <2>2, <2>4
<1>6. ASSUME NEW m \in 1 .. Len(w)
      PROVE  \E i \in 1 .. Len(r) : Same(r[i], w[m])
  <2>1. PICK b \in 1 .. Len(l) : b # n /\ w[m] = l[b]
    BY <1>2, Zenon DEF Moves
  <2>2. PICK a \in 1 .. Len(q) : Same(q[a], l[b])
    BY DEF Recorded
  <2>3. a # p
    BY <1>1, <2>1, <2>2 DEF UniqueIn, Same
  <2>4. PICK i \in 1 .. Len(r) : r[i] = q[a]
    BY <1>2, <2>3, Zenon DEF Moves
  <2> QED BY <2>1, <2>2, <2>4
<1>7. InTurn(r, w)
  <2> SUFFICES ASSUME NEW i \in 1 .. Len(r), NEW k \in 1 .. Len(r),
                      NEW x \in 1 .. Len(w), NEW y \in 1 .. Len(w),
                      i < k, r[i].left = r[k].left,
                      r[i].tid = w[x].tid, r[k].tid = w[y].tid
               PROVE  x < y
    BY DEF InTurn
  <2>1. PICK a \in 1 .. Len(q) : r[i] = q[a] /\ a = IF i < p THEN i ELSE i + 1
    BY <1>2, Zenon DEF Moves
  <2>2. PICK b \in 1 .. Len(q) : r[k] = q[b] /\ b = IF k < p THEN k ELSE k + 1
    BY <1>2, Zenon DEF Moves
  <2>3. PICK c \in 1 .. Len(l) : w[x] = l[c] /\ c = IF x < n THEN x ELSE x + 1
    BY <1>2, Zenon DEF Moves
  <2>4. PICK d \in 1 .. Len(l) : w[y] = l[d] /\ d = IF y < n THEN y ELSE y + 1
    BY <1>2, Zenon DEF Moves
  <2>5. a < b
    <3>1. i < k /\ i \in Int /\ k \in Int /\ p \in Int
      OBVIOUS
    <3>2. /\ a = IF i < p THEN i ELSE i + 1
          /\ b = IF k < p THEN k ELSE k + 1
      BY <2>1, <2>2, Zenon
    <3> QED BY ONLY <3>1, <3>2
  <2>6. q[a].left = q[b].left /\ q[a].tid = l[c].tid /\ q[b].tid = l[d].tid
    BY <2>1, <2>2, <2>3, <2>4
  <2>7. c < d
    BY <2>5, <2>6 DEF InTurn
  <2> QED BY <2>3, <2>4, <2>7
<1> QED BY <1>3, <1>4, <1>5, <1>6, <1>7 DEF Recorded

\* A job enters the queue by the scan of enque, and the log at its end.
LEMMA EnterInTurn ==
  ASSUME NEW t \in Time, NEW q \in Seq(Item), Timely(q, t),
         NEW item \in Item, InWindow(item, t), item.tid \notin Tids(q),
         NEW l \in Seq(Entry), Recorded(q, l), InTurn(q, l),
         NEW e \in Entry, Same(item, e)
  PROVE  /\ Append(l, e) \in Seq(Entry)
         /\ Recorded(Enque(q, item), Append(l, e))
         /\ InTurn(Enque(q, item), Append(l, e))
<1> DEFINE p == InsertPos(q, item)
           r == Enque(q, item)
           w == Append(l, e)
<1>1. /\ Len(q) \in Nat /\ p \in 1 .. Len(q) + 1
      /\ p \in 1 .. Len(q) => Ahead(item, q[p])
  BY InsertPosFound
<1>2. r = InsertAt(q, p, item)
  BY DEF Enque
<1>3. /\ w \in Seq(Entry) /\ Len(w) = Len(l) + 1 /\ w[Len(l) + 1] = e
      /\ \A m \in 1 .. Len(l) : w[m] = l[m]
  BY AppendProperties
<1> HIDE DEF r, p, w
<1>4. /\ Len(r) = Len(q) + 1
      /\ \A k \in 1 .. Len(q) + 1 :
           r[k] = IF k < p THEN q[k] ELSE IF k = p THEN item ELSE q[k - 1]
  <2>1. p \in 1 .. Len(q) + 1
    BY <1>1
  <2>2. /\ Len(InsertAt(q, p, item)) = Len(q) + 1
        /\ \A k \in 1 .. Len(q) + 1 : InsertAt(q, p, item)[k] =
             IF k < p THEN q[k] ELSE IF k = p THEN item ELSE q[k - 1]
    BY <2>1, InsertAtElements, SMTT(20)
  <2> QED BY ONLY <2>2, <1>2
<1>5. \A k \in 1 .. Len(r) :
        \/ k = p /\ r[k] = item
        \/ \E m \in 1 .. Len(q) :
             /\ r[k] = q[m] /\ k # p
             /\ k = IF m < p THEN m ELSE m + 1
  <2> TAKE k \in 1 .. Len(r)
  <2>1. CASE k < p
    <3>1. k \in 1 .. Len(q) /\ r[k] = q[k]
      BY <2>1, <1>1, <1>4
    <3> QED BY <2>1, <3>1
  <2>2. CASE k = p
    BY <2>2, <1>1, <1>4
  <2>3. CASE k > p
    <3>1. /\ k - 1 \in 1 .. Len(q) /\ r[k] = q[k - 1] /\ ~ (k - 1 < p)
          /\ k = (k - 1) + 1
      BY <2>3, <1>1, <1>4
    <3> QED BY <2>3, <3>1, <1>1
  <2> QED BY <2>1, <2>2, <2>3, <1>1
<1>6. \A m \in 1 .. Len(q) : \E k \in 1 .. Len(r) : r[k] = q[m]
  <2> TAKE m \in 1 .. Len(q)
  <2>1. CASE m < p
    BY <2>1, <1>1, <1>4
  <2>2. CASE m >= p
    <3>1. m + 1 \in 1 .. Len(r) /\ r[m + 1] = q[m]
      BY <2>2, <1>1, <1>4
    <3> QED BY <3>1
  <2> QED BY <2>1, <2>2, <1>1
<1>7. p \in 1 .. Len(r) /\ r[p] = item
  BY <1>1, <1>4
<1>8. Len(l) \in Nat /\ Len(l) = Len(q) /\ UniqueIn(l)
  BY <1>1 DEF Recorded
<1>9. \A m \in 1 .. Len(q) : q[m].tid # item.tid
  <2>1. DOMAIN q = 1 .. Len(q)
    OBVIOUS
  <2> QED BY <2>1 DEF Tids
<1>10. \A m \in 1 .. Len(l) : l[m].tid # item.tid
  BY <1>9 DEF Recorded, Same
<1>11. \A m \in 1 .. Len(w) : (m = Len(l) + 1 /\ w[m] = e)
                              \/ (m \in 1 .. Len(l) /\ w[m] = l[m])
  BY <1>3, <1>8
<1>12. item.tid = e.tid /\ item.job = e.job
  BY DEF Same
<1>13. UniqueIn(w)
  BY <1>8, <1>10, <1>11, <1>12 DEF UniqueIn
<1>14. ASSUME NEW i \in 1 .. Len(r)
       PROVE  \E m \in 1 .. Len(w) : Same(r[i], w[m])
  <2>1. CASE r[i] = item
    <3>1. Len(l) + 1 \in 1 .. Len(w)
      BY <1>3, <1>8
    <3> QED BY <2>1, <3>1, <1>3
  <2>2. CASE \E m \in 1 .. Len(q) : r[i] = q[m]
    <3>1. PICK n \in 1 .. Len(l) : Same(r[i], l[n])
      BY <2>2 DEF Recorded
    <3>2. n \in 1 .. Len(w) /\ w[n] = l[n]
      BY <1>3, <1>8
    <3> QED BY <3>1, <3>2
  <2> QED BY <2>1, <2>2, <1>5
<1>15. ASSUME NEW m \in 1 .. Len(w)
       PROVE  \E i \in 1 .. Len(r) : Same(r[i], w[m])
  <2>1. CASE w[m] = e
    BY <2>1, <1>7
  <2>2. CASE m \in 1 .. Len(l) /\ w[m] = l[m]
    <3>1. PICK k \in 1 .. Len(q) : Same(q[k], l[m])
      BY <2>2 DEF Recorded
    <3> QED BY <2>2, <3>1, <1>6
  <2> QED BY <2>1, <2>2, <1>11
<1>16. \A m \in 1 .. Len(q) : p <= m => item.left < q[m].left
  <2>1. \A m \in 1 .. Len(q) : q[m] \in Item
    OBVIOUS
  <2>2. \A x \in Item : x.left \in Int /\ x.when \in Time
    BY DEF Item
  <2>3. p \in 1 .. Len(q) => item.left < q[p].left
    <3> SUFFICES ASSUME p \in 1 .. Len(q) PROVE item.left < q[p].left
      OBVIOUS
    <3>1. /\ InWindow(q[p], t) /\ InWindow(item, t)
          /\ q[p].when \in Time /\ item.when \in Time
          /\ q[p].left \in Int /\ item.left \in Int
      BY <2>1, <2>2 DEF Timely, TimelyIn
    <3>2. - Half < q[p].left - item.left /\ q[p].left - item.left < Half
      BY <3>1, SchedAssumption DEF InWindow
    <3>3. SignedDiff(q[p].when, item.when) = q[p].left - item.left
      BY <3>1, <3>2, DiffOfLeft DEF InWindow
    <3>4. SignedDiff(q[p].when, item.when) > 0
      BY <1>1 DEF Ahead
    <3> QED BY <3>1, <3>3, <3>4
  <2> TAKE m \in 1 .. Len(q)
  <2> HAVE p <= m
  <2>4. p \in 1 .. Len(q)
    BY <1>1
  <2>5. p = m \/ q[p].left <= q[m].left
    BY <2>4 DEF Timely, SortedIn
  <2> QED BY <2>1, <2>2, <2>3, <2>4, <2>5
<1>17. InTurn(r, w)
  <2> SUFFICES ASSUME NEW i \in 1 .. Len(r), NEW k \in 1 .. Len(r),
                      NEW x \in 1 .. Len(w), NEW y \in 1 .. Len(w),
                      i < k, r[i].left = r[k].left,
                      r[i].tid = w[x].tid, r[k].tid = w[y].tid
               PROVE  x < y
    BY DEF InTurn
  <2>1. CASE i = p
    <3>1. PICK b \in 1 .. Len(q) : r[k] = q[b] /\ k = IF b < p THEN b ELSE b + 1
      BY <2>1, <1>5
    <3>2. p <= b
      BY <2>1, <3>1, <1>1
    <3>3. item.left < q[b].left /\ item.left = q[b].left
      BY <2>1, <3>1, <3>2, <1>7, <1>16
    <3>4. item.left \in Int
      BY DEF Item
    <3> QED BY <3>3, <3>4
  <2>2. CASE k = p
    <3>1. PICK a \in 1 .. Len(q) : r[i] = q[a]
      BY <2>2, <1>5
    <3>2. x \in 1 .. Len(l)
      BY <3>1, <1>9, <1>11, <1>12
    <3>3. y = Len(l) + 1
      BY <2>2, <1>7, <1>10, <1>11
    <3> QED BY <3>2, <3>3, <1>8
  <2>3. CASE i # p /\ k # p
    <3>1. PICK a \in 1 .. Len(q) : r[i] = q[a] /\ i = IF a < p THEN a ELSE a + 1
      BY <2>3, <1>5
    <3>2. PICK b \in 1 .. Len(q) : r[k] = q[b] /\ k = IF b < p THEN b ELSE b + 1
      BY <2>3, <1>5
    <3>3. a < b
      BY <3>1, <3>2, <1>1
    <3>4. x \in 1 .. Len(l) /\ w[x] = l[x] /\ y \in 1 .. Len(l) /\ w[y] = l[y]
      BY <3>1, <3>2, <1>9, <1>11, <1>12
    <3> QED BY <3>1, <3>2, <3>3, <3>4 DEF InTurn
  <2> QED BY <2>1, <2>2, <2>3
<1>18. Len(w) = Len(r)
  BY <1>3, <1>4, <1>8
<1> QED BY <1>3, <1>13, <1>14, <1>15, <1>17, <1>18 DEF Recorded, r, w

\* Forget takes the one entry of the task id out of the log.
LEMMA ForgetFacts ==
  ASSUME IInv, LInv, NEW p \in 1 .. Len(queue), NEW r, Without(r, queue, p)
  PROVE  /\ Forget(queue[p].tid) \in Seq(Entry)
         /\ Recorded(r, Forget(queue[p].tid))
         /\ InTurn(r, Forget(queue[p].tid))
<1> DEFINE t == queue[p].tid
           n == LogPosition(t)
           w == Forget(t)
<1>1. /\ log \in Seq(Entry) /\ DOMAIN log = 1 .. Len(log) /\ Len(log) \in Nat
      /\ queue \in Seq(Item) /\ Len(queue) \in Nat /\ UniqueIn(queue)
      /\ Recorded(queue, log) /\ InTurn(queue, log)
  BY DEF LInv, IInv, TypeOK
<1>2. \E m \in DOMAIN log : log[m].tid = t
  <2>1. \E m \in 1 .. Len(log) : Same(queue[p], log[m])
    BY <1>1, Zenon DEF Recorded
  <2> QED BY <1>1, <2>1 DEF Same
<1>3. n \in 1 .. Len(log) /\ log[n].tid = t
  BY <1>1, <1>2 DEF LogPosition
<1>4. w = RemoveAt(log, n)
  BY <1>2 DEF Forget, Logged
<1> HIDE DEF n, w
<1>5. /\ w \in Seq(Entry) /\ Len(w) = Len(log) - 1
      /\ \A k \in 1 .. Len(log) - 1 : w[k] = IF k < n THEN log[k] ELSE log[k + 1]
  BY <1>1, <1>3, <1>4, RemoveAtElements
<1>6. Without(w, log, n)
  BY <1>5 DEF Without
<1>7. queue[p].tid = log[n].tid
  BY <1>3
<1>8. Recorded(r, w) /\ InTurn(r, w)
  BY <1>1, <1>3, <1>6, <1>7, LeaveInTurn
<1> QED BY <1>5, <1>8 DEF w

LEMMA DequeWithout ==
  ASSUME NEW q \in Seq(Item), NEW tid \in Tids(q)
  PROVE  \E p \in 1 .. Len(q) : q[p].tid = tid /\ Without(Deque(q, tid), q, p)
<1> DEFINE p == Position(q, tid)
           r == Deque(q, tid)
<1>1. Len(q) \in Nat /\ p \in 1 .. Len(q) /\ q[p].tid = tid
  BY PositionFound
<1>2. r = RemoveAt(q, p)
  BY DEF Deque
<1> HIDE DEF r, p
<1>3. Without(r, q, p)
  BY <1>1, <1>2, RemoveAtElements DEF Without
<1> QED BY <1>1, <1>3 DEF r

\* A task id that is not in the queue is not in the log either.
LEMMA NotLogged ==
  ASSUME IInv, LInv, NEW tid, ~ Queued(tid)
  PROVE  Forget(tid) = log
<1>1. /\ DOMAIN log = 1 .. Len(log) /\ DOMAIN queue = 1 .. Len(queue)
      /\ Recorded(queue, log)
  BY DEF LInv, IInv, TypeOK
<1>2. ~ Logged(tid)
  <2> SUFFICES ASSUME NEW n \in 1 .. Len(log), log[n].tid = tid PROVE FALSE
    BY <1>1 DEF Logged
  <2>1. PICK i \in 1 .. Len(queue) : Same(queue[i], log[n])
    BY <1>1, Zenon DEF Recorded
  <2>2. queue[i].tid = tid
    BY <2>1 DEF Same
  <2> QED BY <1>1, <2>2 DEF Queued, Tids
<1> QED BY <1>2 DEF Forget

\* What nk_sched and nk_resched do: an item that takes the place of the one
\* with the same task id, and one that is new.
LEMMA ResubmitInTurn ==
  ASSUME ShortDelays, TInv, LInv, NEW tid \in Tid, NEW job \in Job,
         NEW delay \in Delay, Queued(tid)
  PROVE  LET r == Enque(Deque(queue, tid), NewItem(tid, job, delay))
         IN  /\ Note(tid, job) \in Seq(Entry)
             /\ Recorded(r, Note(tid, job)) /\ InTurn(r, Note(tid, job))
<1> DEFINE item == NewItem(tid, job, delay)
           q == Deque(queue, tid)
           e == [tid |-> tid, job |-> job]
           l == Forget(tid)
<1>1. /\ IInv /\ queue \in Seq(Item) /\ now \in Time /\ UniqueIn(queue)
      /\ Timely(queue, now) /\ tid \in Tids(queue)
  BY DEF TInv, IInv, TypeOK, Queued
<1>2. item \in Item /\ InWindow(item, now)
  BY <1>1, NewItemType, NewItemInWindow
<1>3. item.tid = tid /\ Same(item, e) /\ e \in Entry
  BY DEF NewItem, Same, Entry
<1>4. q \in Seq(Item) /\ tid \notin Tids(q) /\ Timely(q, now)
  BY <1>1, DequeFacts
<1>5. PICK p \in 1 .. Len(queue) : queue[p].tid = tid /\ Without(q, queue, p)
  BY <1>1, DequeWithout
<1> HIDE DEF item, q
<1>6. l \in Seq(Entry) /\ Recorded(q, l) /\ InTurn(q, l)
  BY <1>1, <1>5, ForgetFacts
<1> HIDE DEF e, l
<1>7. /\ Append(l, e) \in Seq(Entry)
      /\ Recorded(Enque(q, item), Append(l, e))
      /\ InTurn(Enque(q, item), Append(l, e))
  BY <1>1, <1>2, <1>3, <1>4, <1>6, EnterInTurn
<1> QED BY <1>7 DEF Note, item, q, e, l

LEMMA SubmitInTurn ==
  ASSUME ShortDelays, TInv, LInv, NEW tid \in Tid, NEW job \in Job,
         NEW delay \in Delay, ~ Queued(tid)
  PROVE  LET r == Enque(queue, NewItem(tid, job, delay))
         IN  /\ Note(tid, job) \in Seq(Entry)
             /\ Recorded(r, Note(tid, job)) /\ InTurn(r, Note(tid, job))
<1> DEFINE item == NewItem(tid, job, delay)
           e == [tid |-> tid, job |-> job]
<1>1. /\ IInv /\ queue \in Seq(Item) /\ now \in Time
      /\ Timely(queue, now) /\ tid \notin Tids(queue)
      /\ log \in Seq(Entry) /\ Recorded(queue, log) /\ InTurn(queue, log)
  BY DEF TInv, IInv, TypeOK, Queued, LInv
<1>2. item \in Item /\ InWindow(item, now)
  BY <1>1, NewItemType, NewItemInWindow
<1>3. item.tid = tid /\ Same(item, e) /\ e \in Entry
  BY DEF NewItem, Same, Entry
<1>4. Forget(tid) = log
  BY <1>1, NotLogged
<1> HIDE DEF item, e
<1>5. /\ Append(log, e) \in Seq(Entry)
      /\ Recorded(Enque(queue, item), Append(log, e))
      /\ InTurn(Enque(queue, item), Append(log, e))
  BY <1>1, <1>2, <1>3, EnterInTurn
<1> QED BY <1>4, <1>5 DEF Note, item, e

LEMMA TickInTurn ==
  ASSUME IInv, LInv, Tick
  PROVE  Recorded(queue', log) /\ InTurn(queue', log)
<1>1. /\ queue \in Seq(Item) /\ DOMAIN queue = 1 .. Len(queue)
      /\ queue' \in Seq(Item) /\ Len(queue') = Len(queue)
      /\ Recorded(queue, log) /\ InTurn(queue, log)
  BY TickFacts DEF IInv, TypeOK, LInv
<1>2. queue' = [i \in 1 .. Len(queue) |->
                  [queue[i] EXCEPT !.left = queue[i].left - 1]]
  BY <1>1 DEF Tick
<1>3. \A i \in 1 .. Len(queue) :
        /\ queue'[i].tid = queue[i].tid /\ queue'[i].job = queue[i].job
        /\ queue'[i].left = queue[i].left - 1 /\ queue[i].left \in Int
  <2>1. \A i \in 1 .. Len(queue) : queue[i] \in Item
    BY <1>1
  <2>2. \A x \in Item :
          LET y == [x EXCEPT !.left = x.left - 1]
          IN  /\ y.tid = x.tid /\ y.job = x.job
              /\ y.left = x.left - 1 /\ x.left \in Int
    BY DEF Item
  <2> QED BY <1>2, <2>1, <2>2
<1>4. Recorded(queue', log)
  BY <1>1, <1>3 DEF Recorded, Same
<1>5. InTurn(queue', log)
  <2> SUFFICES ASSUME NEW i \in 1 .. Len(queue), NEW k \in 1 .. Len(queue),
                      NEW m \in 1 .. Len(log), NEW n \in 1 .. Len(log),
                      i < k, queue'[i].left = queue'[k].left,
                      queue'[i].tid = log[m].tid, queue'[k].tid = log[n].tid
               PROVE  m < n
    BY <1>1 DEF InTurn
  <2>1. /\ queue[i].left = queue[k].left
        /\ queue[i].tid = log[m].tid /\ queue[k].tid = log[n].tid
    <3>1. /\ queue'[i].left = queue[i].left - 1 /\ queue[i].left \in Int
          /\ queue'[k].left = queue[k].left - 1 /\ queue[k].left \in Int
          /\ queue'[i].tid = queue[i].tid /\ queue'[k].tid = queue[k].tid
      BY <1>3, Zenon
    <3>2. /\ queue'[i].left = queue'[k].left
          /\ queue'[i].tid = log[m].tid /\ queue'[k].tid = log[n].tid
      OBVIOUS
    <3> QED BY ONLY <3>1, <3>2
  <2>2. /\ i \in 1 .. Len(queue) /\ k \in 1 .. Len(queue) /\ i < k
        /\ m \in 1 .. Len(log) /\ n \in 1 .. Len(log) /\ InTurn(queue, log)
    BY <1>1
  <2>3. ASSUME NEW i1 \in 1 .. Len(queue), NEW i2 \in 1 .. Len(queue),
               NEW n1 \in 1 .. Len(log), NEW n2 \in 1 .. Len(log),
               /\ i1 < i2 /\ queue[i1].left = queue[i2].left
               /\ queue[i1].tid = log[n1].tid /\ queue[i2].tid = log[n2].tid
        PROVE  n1 < n2
    BY ONLY <2>2, <2>3 DEF InTurn
  <2> QED BY ONLY <2>1, <2>2, <2>3
<1> QED BY <1>4, <1>5

\* A step of the logged work queue is a step of the work queue.
LEMMA LogStep == ASSUME [LogNext]_logVars PROVE [Next]_vars
BY DEF LogNext, logVars, SchedLogged, ReschedLogged, Next, Submit

LEMMA NextLInv ==
  ASSUME ShortDelays, TInv, LInv, [LogNext]_logVars
  PROVE  LInv'
<1>0. IInv /\ log \in Seq(Entry) /\ queue \in Seq(Item) /\ UniqueIn(queue)
  BY DEF TInv, IInv, TypeOK, LInv
<1>1. ASSUME NEW tid \in Tid, NEW job \in Job, NEW delay \in Delay,
             nk_sched(tid, job, delay),
             log' = IF tid \in Tids(queue') THEN Note(tid, job) ELSE log
      PROVE  LInv'
  <2>1. CASE SchedQueued(tid, job, delay)
    <3>1. Queued(tid) /\ queue' = Enque(Deque(queue, tid), NewItem(tid, job, delay))
      BY <2>1 DEF SchedQueued
    <3>2. tid \in Tids(queue')
      BY <1>0, <3>1, ResubmitFacts DEF IInv
    <3> QED BY <1>1, <3>1, <3>2, ResubmitInTurn DEF LInv
  <2>2. CASE SchedNew(tid, job, delay)
    <3>1. ~ Queued(tid) /\ queue' = Enque(queue, NewItem(tid, job, delay))
      BY <2>2 DEF SchedNew
    <3>2. tid \in Tids(queue')
      BY <1>0, <3>1, SubmitFacts DEF IInv
    <3> QED BY <1>1, <3>1, <3>2, SubmitInTurn DEF LInv
  <2>3. CASE SchedFull(tid)
    <3>1. queue' = queue /\ tid \notin Tids(queue)
      BY <2>3 DEF SchedFull, Queued
    <3>2. log' = log
      BY <1>1, <3>1
    <3> QED BY <3>1, <3>2 DEF LInv
  <2> QED BY <1>1, <2>1, <2>2, <2>3 DEF nk_sched
<1>2. ASSUME NEW tid \in Tid, NEW job \in Job, NEW delay \in Delay,
             nk_resched(tid, job, delay),
             log' = IF Queued(tid) THEN Note(tid, job) ELSE log
      PROVE  LInv'
  <2>1. CASE Queued(tid)
    <3>1. queue' = Enque(Deque(queue, tid), NewItem(tid, job, delay))
      BY <1>2, <2>1 DEF nk_resched
    <3> QED BY <1>2, <2>1, <3>1, ResubmitInTurn DEF LInv
  <2>2. CASE ~ Queued(tid)
    BY <1>2, <2>2 DEF nk_resched, LInv
  <2> QED BY <2>1, <2>2
<1>3. ASSUME NEW tid \in Tid, nk_unsched(tid), log' = Forget(tid)
      PROVE  LInv'
  <2>1. queue' = Deque(queue, tid) /\ tid \in Tids(queue)
    BY <1>3 DEF nk_unsched, Queued
  <2>2. PICK p \in 1 .. Len(queue) :
          queue[p].tid = tid /\ Without(queue', queue, p)
    BY <1>0, <2>1, DequeWithout
  <2> QED BY <1>0, <1>3, <2>2, ForgetFacts DEF LInv
<1>4. ASSUME Dispatch, log' = Forget(current_tid')
      PROVE  LInv'
  <2>1. queue # << >> /\ queue' = Tail(queue) /\ current_tid' = Head(queue).tid
    BY <1>4 DEF Dispatch
  <2>2. /\ Head(queue) = queue[1] /\ Len(queue) \in Nat \ {0}
        /\ Len(Tail(queue)) = Len(queue) - 1
    BY <1>0, <2>1, TailFacts
  <2>3. \A i \in 1 .. Len(queue) - 1 : Tail(queue)[i] = queue[i + 1]
    BY <1>0, <2>1, HeadTailProperties
  <2>4. 1 \in 1 .. Len(queue) /\ Without(queue', queue, 1)
    BY <2>1, <2>2, <2>3 DEF Without
  <2> QED BY <1>0, <1>4, <2>1, <2>2, <2>4, ForgetFacts DEF LInv
<1>5. ASSUME nk_alloc_tid \/ EnterLoop \/ TaskReturn, UNCHANGED log
      PROVE  LInv'
  BY <1>5 DEF nk_alloc_tid, EnterLoop, TaskReturn, LInv
<1>6. ASSUME Tick, UNCHANGED log PROVE LInv'
  BY <1>0, <1>6, TickInTurn DEF LInv
<1>7. CASE UNCHANGED logVars
  BY <1>7 DEF logVars, vars, LInv
<1> QED BY <1>1, <1>2, <1>3, <1>4, <1>5, <1>6, <1>7
           DEF LogNext, SchedLogged, ReschedLogged

\* Tasks due at the same tick are called in the order in which they were
\* submitted, and what is called for a task id is what was submitted last:
\* for every interleaving of submissions, moves and cancellations from tasks
\* and interrupt handlers, however often the timer wraps.
THEOREM ServedInTurn ==
  ASSUME ShortDelays PROVE LogSpec => []FirstComeFirstServed
<1>1. LogInit => TInv /\ LInv
  <2> SUFFICES ASSUME LogInit PROVE TInv /\ LInv
    OBVIOUS
  <2>1. TInv
    BY InitIInv DEF LogInit
  <2>2. /\ queue = << >> /\ log = << >> /\ Len(queue) = 0 /\ Len(log) = 0
        /\ log \in Seq(Entry)
    BY EmptySeq DEF LogInit, Init
  <2>3. Recorded(queue, log) /\ InTurn(queue, log)
    BY <2>2 DEF Recorded, InTurn, UniqueIn
  <2> QED BY <2>1, <2>2, <2>3 DEF LInv
<1>2. TInv /\ LInv /\ [LogNext]_logVars => TInv' /\ LInv'
  BY LogStep, NextIInv, NextLInv DEF TInv
<1>3. ASSUME TInv, LInv PROVE FirstComeFirstServed
  <2>1. /\ DOMAIN queue = 1 .. Len(queue) /\ DOMAIN log = 1 .. Len(log)
        /\ Recorded(queue, log) /\ InTurn(queue, log)
    BY <1>3 DEF TInv, IInv, TypeOK, LInv
  <2>2. ASSUME NEW i \in 1 .. Len(queue)
        PROVE  LET n == LogPosition(queue[i].tid)
               IN  /\ Logged(queue[i].tid) /\ n \in 1 .. Len(log)
                   /\ log[n].tid = queue[i].tid /\ log[n].job = queue[i].job
    <3>1. PICK m \in 1 .. Len(log) : Same(queue[i], log[m])
      BY <2>1 DEF Recorded
    <3>2. /\ LogPosition(queue[i].tid) \in 1 .. Len(log)
          /\ log[LogPosition(queue[i].tid)].tid = queue[i].tid
      BY <2>1, <3>1 DEF LogPosition, Same
    <3>3. LogPosition(queue[i].tid) = m
      <4> DEFINE n == LogPosition(queue[i].tid)
      <4> HIDE DEF n
      <4>1. n \in 1 .. Len(log) /\ log[n].tid = log[m].tid
        BY <3>1, <3>2 DEF Same, n
      <4>2. n = m
        BY <2>1, <4>1 DEF Recorded, UniqueIn
      <4> QED BY <4>2 DEF n
    <3> QED BY <2>1, <3>1, <3>3 DEF Same, Logged
  <2>3. ASSUME NEW i \in 1 .. Len(queue), NEW k \in 1 .. Len(queue),
               i < k, queue[i].left = queue[k].left
        PROVE  LogPosition(queue[i].tid) < LogPosition(queue[k].tid)
    BY <2>1, <2>2, <2>3 DEF InTurn
  <2>4. Len(log) = Len(queue)
    BY <2>1 DEF Recorded
  <2> QED BY <2>1, <2>2, <2>3, <2>4 DEF FirstComeFirstServed
<1> QED BY <1>1, <1>2, <1>3, PTL DEF LogSpec

=============================================================================
