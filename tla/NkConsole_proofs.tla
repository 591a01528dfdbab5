-------------------------- MODULE NkConsole_proofs --------------------------
(***************************************************************************)
(* Proofs about the console.                                               *)
(*                                                                         *)
(* The first part is the ring buffer: InOrder is inductive together with   *)
(* the types, and rests on a few facts about remainders.                   *)
(*                                                                         *)
(* The second part is who listens to the console.  The properties speak of *)
(* the main loop only; the inductive invariant CInv says for every place   *)
(* of the thread who is registered, in the queue or in the callback, who   *)
(* owns the terminal and whether the time-out runs.  The work queue is     *)
(* seen only through Waits (module NkSched_proofs).                        *)
(***************************************************************************)
EXTENDS NkConsole, SequenceLemmas, TLAPS

SP == INSTANCE NkSched_proofs WITH
        MaxTid <- timeout_tid, Delay <- {0, Wait},
        log <- << >>  \* the console keeps no history of the queue

-----------------------------------------------------------------------------
(***************************************************************************)
(* The inductive invariant.                                                *)
(***************************************************************************)

Waits(tid, job) == SP!Waits(queue, tid, job)
InQueue(tid) == \E job \in Job : Waits(tid, job)

\* main() is where the thread is, and the task ids are allocated in order.
ThreadInv ==
  /\ pc \in Place \cup PeriodicJobs
  /\ main = "init" <=> pc \in {"boot", "boot_sched"}
  /\ main = "loop" <=> pc = "loop"
  /\ pc = "boot" => next_tid <= 1 + Len(Periodic)
  /\ pc = "boot_sched" => next_tid \in 1 .. 1 + Len(Periodic)
  /\ pc \in PeriodicJobs => /\ current_tid \in 2 .. 1 + Len(Periodic)
                            /\ Periodic[current_tid - 1] = pc

\* Each task id is used by one party.
JobInv ==
  \A tid \in 1 .. timeout_tid, job \in Job :
    Waits(tid, job) =>
      \/ tid = nk_cli_tid /\ job \in {"handle_cmd", "prompt", "ymodem"}
      \/ tid \in 2 .. 1 + Len(Periodic) /\ job = Periodic[tid - 1]
      \/ tid = timeout_tid /\ job = "timeout"

\* What the interrupt handler leaves behind: a registered task means an empty
\* buffer unless the handler is about to submit it, and a reader is in the
\* queue only if there is something to read.
WakeInv ==
  /\ isr = "run" => hw # None \/ rx_buf_rd # rx_buf_wr
  /\ waiting_rx_task # "none" /\ rx_buf_rd # rx_buf_wr => isr = "run"
  /\ \A job \in {"prompt", "ymodem"} :
       Waits(nk_cli_tid, job) => rx_buf_rd # rx_buf_wr

\* The places at which the task of the console itself runs and nobody listens.
Deaf ==
  \/ pc \in {"prompt", "prompt_wait", "command", "yrecv_tid", "yrecv_wait",
             "ymodem", "ymodem_done", "ymodem_enable"}
  \/ pc = "handle_cmd" /\ ~ cli_disabled
  \/ pc = "boot" /\ next_tid = 0
  \/ pc = "boot_sched" /\ next_tid = 1

ListenInv ==
  /\ waiting_rx_task \in {"none", "prompt", "ymodem"}
  /\ ~ InQueue(nk_cli_tid) \/ waiting_rx_task = "none"
  /\ Deaf => ~ InQueue(nk_cli_tid) /\ waiting_rx_task = "none"
  /\ ~ Deaf /\ pc # "ymodem_wait"
       => InQueue(nk_cli_tid) \/ waiting_rx_task # "none"

\* The one who listens is the one in charge.
OwnerInv ==
  /\ \A job \in Job : Waits(nk_cli_tid, job) =>
       job \in IF cli_disabled THEN {"ymodem"} ELSE {"prompt", "handle_cmd"}
  /\ waiting_rx_task \in {"none", IF cli_disabled THEN "ymodem" ELSE "prompt"}

SessionInv ==
  /\ cli_disabled \in BOOLEAN
  /\ tty_mode \in {0, 1}
  /\ pc \in {"boot", "boot_sched", "prompt", "prompt_wait", "command",
             "ymodem_unsched"} => ~ cli_disabled
  /\ pc \in {"yrecv_tid", "yrecv_wait", "yrecv_timer", "ymodem",
             "ymodem_wait", "ymodem_timer", "timeout", "ymodem_done",
             "ymodem_enable"} => cli_disabled
  /\ pc \notin {"yrecv_tid", "yrecv_wait", "yrecv_timer", "timeout",
                "ymodem_wait", "ymodem_timer", "ymodem_unsched"}
       => (cli_disabled <=> InQueue(timeout_tid))
  /\ pc # "ymodem_enable" => (cli_disabled <=> tty_mode = 1)
  /\ pc = "ymodem_enable" => tty_mode = 0

\* The ring buffer's part.
RingInv ==
  /\ hw \in {None} \cup 0 .. CharMod - 1
  /\ isr \in {"idle", "run"}
  /\ rx_buf \in [0 .. RxSize - 1 -> 0 .. CharMod - 1]
  /\ rx_buf_rd \in 0 .. IndexMod - 1
  /\ rx_buf_wr \in 0 .. IndexMod - 1
  /\ arrived \in 0 .. CharMod - 1
  /\ taken \in 0 .. CharMod - 1
  /\ InOrder

CInv ==
  /\ SP!IInv
  /\ RingInv
  /\ ThreadInv
  /\ JobInv
  /\ WakeInv
  /\ ListenInv
  /\ OwnerInv
  /\ SessionInv

-----------------------------------------------------------------------------
(***************************************************************************)
(* The ring buffer.                                                        *)
(***************************************************************************)

LEMMA RangeType ==
  /\ IndexMod \in Nat \ {0} /\ RxSize \in Nat \ {0} /\ CharMod \in Nat \ {0}
  /\ RxSize < IndexMod /\ IndexMod % RxSize = 0
BY ConsoleAssumption

LEMMA CharModType == CharMod \in Nat \ {0}
BY ConsoleAssumption

\* The wrapped difference of two indices is the number of steps from the
\* one to the other.
LEMMA Distance ==
  ASSUME NEW rd \in 0 .. IndexMod - 1, NEW wr \in 0 .. IndexMod - 1
  PROVE  LET u == (wr - rd) % IndexMod
         IN  /\ u \in 0 .. IndexMod - 1
             /\ wr = rd + u \/ wr = (rd + u) - IndexMod
             /\ u = 0 <=> rd = wr
<1> DEFINE d == wr - rd
<1>1. IndexMod \in Nat \ {0} /\ d \in Int /\ - IndexMod <= d /\ d < IndexMod
  BY RangeType
<1> HIDE DEF d
<1>2. d % IndexMod \in 0 .. IndexMod - 1
  BY <1>1, ModWrap
<1>3. CASE 0 <= d
  <2>1. d % IndexMod = d
    BY <1>1, <1>3, ModWrap
  <2> QED BY <1>1, <1>2, <2>1 DEF d
<1>4. CASE d < 0
  <2>1. d % IndexMod = d + IndexMod
    BY <1>1, <1>4, ModWrap
  <2> QED BY <1>1, <1>2, <2>1 DEF d
<1> QED BY <1>1, <1>3, <1>4

LEMMA DistanceIs ==
  ASSUME NEW rd \in 0 .. IndexMod - 1, NEW wr \in 0 .. IndexMod - 1,
         NEW n \in 0 .. IndexMod - 1,
         wr = rd + n \/ wr = (rd + n) - IndexMod
  PROVE  (wr - rd) % IndexMod = n
<1>1. \E q \in Int : wr - rd = q * IndexMod + n
  <2>1. CASE wr = rd + n
    <3>1. wr - rd = 0 * IndexMod + n
      BY <2>1, RangeType
    <3> QED BY <3>1
  <2>2. CASE wr = (rd + n) - IndexMod
    <3>1. wr - rd = (- 1) * IndexMod + n
      BY <2>2, RangeType
    <3> QED BY <3>1
  <2> QED BY <2>1, <2>2
<1>2. wr - rd \in Int
  BY RangeType
<1> QED BY <1>1, <1>2, RangeType, ModUnique

\* The handler stores a character: it goes where the unread part ends, and
\* overwrites none of it.
LEMMA RxRing ==
  ASSUME RingInv, IsrRx
  PROVE  RingInv' /\ rx_buf_rd' # rx_buf_wr'
<1> DEFINE u == Used
<1>1. /\ rx_buf_rd \in 0 .. IndexMod - 1 /\ rx_buf_wr \in 0 .. IndexMod - 1
      /\ u \in 0 .. IndexMod - 1 /\ u + 1 \in 0 .. IndexMod - 1 /\ u + 1 <= RxSize
      /\ rx_buf_wr = rx_buf_rd + u \/ rx_buf_wr = (rx_buf_rd + u) - IndexMod
  <2>1. /\ rx_buf_rd \in 0 .. IndexMod - 1 /\ rx_buf_wr \in 0 .. IndexMod - 1
        /\ u <= RxSize /\ u # RxSize
    BY DEF RingInv, InOrder, IsrRx, HasRoom
  <2>2. /\ u \in 0 .. IndexMod - 1
        /\ rx_buf_wr = rx_buf_rd + u \/ rx_buf_wr = (rx_buf_rd + u) - IndexMod
    BY <2>1, Distance DEF Used
  <2> QED BY <2>1, <2>2, RangeType
<1>2. /\ rx_buf_wr' \in 0 .. IndexMod - 1 /\ rx_buf_rd' = rx_buf_rd
      /\ rx_buf_wr' = rx_buf_wr + 1 \/ rx_buf_wr' = (rx_buf_wr + 1) - IndexMod
  BY <1>1, RangeType, ModIncrement DEF IsrRx, reader
<1>3. Used' = u + 1
  <2> HIDE DEF u
  <2>1. (rx_buf_wr' - rx_buf_rd) % IndexMod = u + 1
    BY <1>1, <1>2, RangeType, DistanceIs
  <2> QED BY <1>2, <2>1 DEF Used
<1>4. rx_buf_rd' # rx_buf_wr'
  BY <1>1, <1>2, RangeType
<1>5. Slot(rx_buf_wr) = Slot(rx_buf_rd + u)
  <2> HIDE DEF u
  <2>1. ((rx_buf_rd + u) - IndexMod) % RxSize
          = (rx_buf_rd + u) % RxSize
    <3> DEFINE y == rx_buf_rd + u
    <3>1. y \in Int
      BY <1>1, RangeType
    <3> HIDE DEF y
    <3>2. (y - IndexMod) % RxSize = y % RxSize
      BY <3>1, ModShift, RangeType
    <3> QED BY <3>2 DEF y
  <2> QED BY <1>1, <2>1 DEF Slot
<1>6. \A k \in 0 .. u - 1 : Slot(rx_buf_rd + k) # Slot(rx_buf_rd + u)
  <2> HIDE DEF u
  <2> TAKE k \in 0 .. u - 1
  <2>1. rx_buf_rd + k \in Int /\ u - k \in 1 .. RxSize - 1
    BY <1>1, RangeType
  <2>2. ((rx_buf_rd + k) + (u - k)) % RxSize # (rx_buf_rd + k) % RxSize
    BY <2>1, RangeType, ModDistinct
  <2>3. (rx_buf_rd + k) + (u - k) = rx_buf_rd + u
    BY <1>1, RangeType
  <2> QED BY <2>2, <2>3 DEF Slot
<1>7. \A k \in 0 .. u : Slot(rx_buf_rd + k) \in 0 .. RxSize - 1
  <2> HIDE DEF u
  <2> TAKE k \in 0 .. u
  <2>1. rx_buf_rd + k \in Int
    BY <1>1, RangeType
  <2> QED BY <2>1, RangeType, DivMod DEF Slot
<1>8. /\ hw \in 0 .. CharMod - 1 /\ hw = (taken + u) % CharMod /\ hw' = None
      /\ arrived = (taken + u + 1) % CharMod
      /\ rx_buf \in [0 .. RxSize - 1 -> 0 .. CharMod - 1]
      /\ \A k \in 0 .. u - 1 : rx_buf[Slot(rx_buf_rd + k)] = (taken + k) % CharMod
  BY DEF RingInv, InOrder, IsrRx, None
<1>9. /\ rx_buf' = [rx_buf EXCEPT ![Slot(rx_buf_wr)] = hw]
      /\ taken' = taken /\ arrived' = arrived /\ isr' = isr
  BY DEF IsrRx, reader
<1> HIDE DEF u
<1>10. \A k \in 0 .. u : rx_buf'[Slot(rx_buf_rd + k)] = (taken + k) % CharMod
  <2> TAKE k \in 0 .. u
  <2>0. u \in 0 .. u
    BY <1>1, RangeType
  <2>1. CASE k = u
    BY <2>0, <2>1, <1>5, <1>7, <1>8, <1>9
  <2>2. CASE k # u
    <3>1. k \in 0 .. u - 1
      BY <2>2, <1>1, RangeType
    <3> QED BY <3>1, <1>5, <1>6, <1>7, <1>8, <1>9
  <2> QED BY <2>1, <2>2
<1>11. InOrder'
  <2>1. \A k \in 0 .. Used' - 1 :
          rx_buf'[Slot(rx_buf_rd' + k)] = (taken' + k) % CharMod
    <3>1. 0 .. Used' - 1 = 0 .. u
      BY <1>1, <1>3, RangeType
    <3> QED BY <3>1, <1>2, <1>9, <1>10
  <2>2. (taken' + Used' + 0) % CharMod = (taken + u + 1) % CharMod
    <3>1. taken \in Int
      BY ConsoleAssumption DEF RingInv
    <3>2. taken' + Used' + 0 = taken + u + 1
      BY <3>1, <1>1, <1>3, <1>9, RangeType
    <3> QED BY <3>2
  <2> QED BY <1>1, <1>3, <1>8, <1>9, <2>1, <2>2 DEF InOrder, Slot
<1>12. /\ rx_buf' \in [0 .. RxSize - 1 -> 0 .. CharMod - 1]
  BY <1>8, <1>9
<1> QED BY <1>2, <1>4, <1>8, <1>9, <1>11, <1>12 DEF RingInv

\* The thread takes a character: the unread part and the stream move on
\* together.
LEMMA GetcRing ==
  ASSUME RingInv, nk_getc, UNCHANGED uart
  PROVE  RingInv'
<1> DEFINE u == Used
           v == u - 1
<1>1. /\ rx_buf_rd \in 0 .. IndexMod - 1 /\ rx_buf_wr \in 0 .. IndexMod - 1
      /\ u \in 1 .. IndexMod - 1 /\ v \in 0 .. IndexMod - 1 /\ v + 1 = u
      /\ u <= RxSize
      /\ rx_buf_wr = rx_buf_rd + u \/ rx_buf_wr = (rx_buf_rd + u) - IndexMod
  <2>1. /\ rx_buf_rd \in 0 .. IndexMod - 1 /\ rx_buf_wr \in 0 .. IndexMod - 1
        /\ u <= RxSize /\ rx_buf_rd # rx_buf_wr
    BY DEF RingInv, InOrder, nk_getc
  <2>2. /\ u \in 0 .. IndexMod - 1 /\ u # 0
        /\ rx_buf_wr = rx_buf_rd + u \/ rx_buf_wr = (rx_buf_rd + u) - IndexMod
    BY <2>1, Distance DEF Used
  <2> QED BY <2>1, <2>2, RangeType
<1>2. /\ rx_buf_rd' \in 0 .. IndexMod - 1
      /\ rx_buf_rd' = rx_buf_rd + 1 \/ rx_buf_rd' = (rx_buf_rd + 1) - IndexMod
      /\ taken \in 0 .. CharMod - 1 /\ taken' \in 0 .. CharMod - 1
      /\ rx_buf_rd' = (rx_buf_rd + 1) % IndexMod
      /\ taken' = (taken + 1) % CharMod
  BY <1>1, RangeType, ModIncrement DEF RingInv, nk_getc
<1>3. hw' = hw /\ isr' = isr /\ rx_buf' = rx_buf /\ rx_buf_wr' = rx_buf_wr
      /\ arrived' = arrived
  BY DEF uart
<1>4. Used' = v
  <2> HIDE DEF u, v
  <2>1. rx_buf_wr = rx_buf_rd' + v \/ rx_buf_wr = (rx_buf_rd' + v) - IndexMod
    BY ONLY <1>1, <1>2, RangeType
  <2>2. (rx_buf_wr - rx_buf_rd') % IndexMod = v
    BY ONLY <1>1, <1>2, <2>1, DistanceIs
  <2> QED BY <1>3, <2>2 DEF Used
<1>5. \A k \in Int : Slot(rx_buf_rd' + k) = Slot(rx_buf_rd + (1 + k))
  <2> TAKE k \in Int
  <2> DEFINE z == rx_buf_rd + (1 + k)
  <2>1. z \in Int /\ (rx_buf_rd' + k = z \/ rx_buf_rd' + k = z - IndexMod)
    BY <1>1, <1>2, RangeType
  <2> HIDE DEF z
  <2>2. (z - IndexMod) % RxSize = z % RxSize
    BY <2>1, ModShift, RangeType
  <2> QED BY <2>1, <2>2 DEF Slot, z
<1>6. \A k \in Int : (taken' + k) % CharMod = (taken + (1 + k)) % CharMod
  <2> TAKE k \in Int
  <2> DEFINE x == taken + 1
  <2>0. x \in Int /\ taken' = x % CharMod
    BY <1>2, RangeType
  <2> HIDE DEF x
  <2>1. (taken' + k) % CharMod = (x + k) % CharMod
    BY <2>0, CharModType, ModAddVar, Zenon
  <2>2. taken + 1 + k = taken + (1 + k)
    BY <1>2, RangeType
  <2> QED BY <2>1, <2>2 DEF x
<1>7. /\ \A k \in 0 .. u - 1 : rx_buf[Slot(rx_buf_rd + k)] = (taken + k) % CharMod
      /\ hw # None => hw = (taken + u) % CharMod
      /\ arrived = (taken + u + (IF hw = None THEN 0 ELSE 1)) % CharMod
  BY DEF RingInv, InOrder
<1> HIDE DEF u, v
<1>8. \A k \in 0 .. v - 1 :
        rx_buf[Slot(rx_buf_rd' + k)] = (taken' + k) % CharMod
  <2> TAKE k \in 0 .. v - 1
  <2>1. 1 + k \in 0 .. u - 1 /\ k \in Int
    BY <1>1, RangeType
  <2> QED BY <2>1, <1>5, <1>6, <1>7
<1>9. (taken' + v) % CharMod = (taken + u) % CharMod
  <2>1. v \in Int /\ 1 + v = u
    BY <1>1, RangeType
  <2> QED BY <2>1, <1>6
<1>10. ASSUME NEW e \in {0, 1}
       PROVE  (taken' + v + e) % CharMod = (taken + u + e) % CharMod
  <2>1. /\ v + e \in Int /\ 1 + (v + e) = u + e
        /\ taken' + v + e = taken' + (v + e) /\ taken + u + e = taken + (u + e)
    BY <1>1, <1>2, RangeType
  <2> QED BY <2>1, <1>6
<1>11. arrived = (taken' + v + (IF hw = None THEN 0 ELSE 1)) % CharMod
  <2>1. (IF hw = None THEN 0 ELSE 1) \in {0, 1}
    OBVIOUS
  <2> QED BY <2>1, <1>7, <1>10
<1>12. v <= RxSize
  BY <1>1, RangeType
<1>13. InOrder'
  BY <1>3, <1>4, <1>7, <1>8, <1>9, <1>11, <1>12 DEF InOrder, Slot
<1> QED BY <1>2, <1>3, <1>13 DEF RingInv

\* A character arrives in the holding register: it is the next of the stream.
LEMMA ArriveRing ==
  ASSUME RingInv, Arrive
  PROVE  RingInv'
<1>1. /\ hw = None /\ hw' = arrived /\ arrived' = (arrived + 1) % CharMod
      /\ rx_buf' = rx_buf /\ rx_buf_rd' = rx_buf_rd /\ rx_buf_wr' = rx_buf_wr
      /\ taken' = taken /\ isr' = isr
  BY DEF Arrive, reader
<1>2. Used' = Used
  BY <1>1 DEF Used
<1>3. /\ arrived \in 0 .. CharMod - 1 /\ taken \in 0 .. CharMod - 1
      /\ Used \in 0 .. IndexMod - 1
      /\ arrived = (taken + Used + 0) % CharMod
  BY <1>1, Distance DEF RingInv, InOrder, Used
<1>4. arrived' \in 0 .. CharMod - 1 /\ arrived # None
  BY <1>1, <1>3, RangeType, ModIncrement DEF None
<1> DEFINE x == taken + Used
<1>5. x \in Int /\ taken + Used + 0 = x
  BY <1>3, RangeType
<1> HIDE DEF x
<1>6. arrived = x % CharMod
  BY <1>3, <1>5
<1>7. (arrived + 1) % CharMod = (x + 1) % CharMod
  <2>1. 1 \in Int
    OBVIOUS
  <2> QED BY <1>5, <1>6, <2>1, CharModType, ModAddVar, Zenon
<1>8. InOrder'
  BY <1>1, <1>2, <1>4, <1>6, <1>7 DEF x, RingInv, InOrder, Slot
<1> QED BY <1>1, <1>3, <1>4, <1>8 DEF RingInv

LEMMA SameRing ==
  ASSUME RingInv, UNCHANGED <<hw, rx_buf, rx_buf_wr, arrived, reader>>,
         isr' \in {"idle", "run"}
  PROVE  RingInv'
BY DEF RingInv, InOrder, Used, Slot, reader

LEMMA InitRing == Init => RingInv
<1> SUFFICES ASSUME Init PROVE RingInv
  OBVIOUS
<1>1. /\ hw = None /\ isr = "idle" /\ rx_buf = [i \in 0 .. RxSize - 1 |-> 0]
      /\ rx_buf_rd = 0 /\ rx_buf_wr = 0 /\ arrived = 0 /\ taken = 0
  BY DEF Init
<1>2. 0 \in 0 .. IndexMod - 1 /\ 0 \in 0 .. CharMod - 1
  BY RangeType
<1>3. Used = 0
  BY <1>1, <1>2, Distance DEF Used
<1>4. (taken + Used + 0) % CharMod = 0
  <2>1. 0 % CharMod = 0
    BY RangeType, ModWrap
  <2> QED BY <1>1, <1>3, <2>1
<1> QED BY <1>1, <1>2, <1>3, <1>4, RangeType DEF RingInv, InOrder

-----------------------------------------------------------------------------
(***************************************************************************)
(* The work queue.  Sched is the instance the console runs on, SP the one  *)
(* its lemmas are about: they are the same definitions.                    *)
(***************************************************************************)

LEMMA QueueAssumption == SP!SchedAssumption
<1>1. timeout_tid \in Nat /\ {0, Wait} \subseteq Nat
  BY ConsoleAssumption DEF timeout_tid
<1>2. /\ TicksPerMs \in Nat \ {0} /\ Half \in Nat \ {0}
      /\ QueueSize \in Nat \ {0} /\ MaxLate \in Nat
  BY <1>1, ConsoleAssumption
<1> QED BY <1>1, <1>2 DEF SP!SchedAssumption

LEMMA QueueRoom ==
  /\ timeout_tid \in Nat /\ timeout_tid <= QueueSize - 1
  /\ Len(Periodic) \in Nat /\ timeout_tid = 2 + Len(Periodic)
BY ConsoleAssumption DEF timeout_tid

LEMMA SameDeque == \A q, tid : SP!Deque(q, tid) = Sched!Deque(q, tid)
BY DEF SP!Deque, Sched!Deque, SP!RemoveAt, Sched!RemoveAt,
       SP!Position, Sched!Position

LEMMA SameEnque == \A q, item : SP!Enque(q, item) = Sched!Enque(q, item)
BY DEF SP!Enque, Sched!Enque, SP!InsertAt, Sched!InsertAt, SP!InsertPos,
       Sched!InsertPos, SP!Ahead, Sched!Ahead, SP!SignedDiff,
       Sched!SignedDiff, SP!Modulus, Sched!Modulus

LEMMA SameNewItem ==
  \A tid, job, delay : SP!NewItem(tid, job, delay) = Sched!NewItem(tid, job, delay)
BY DEF SP!NewItem, Sched!NewItem, SP!nk_convert_delay, Sched!nk_convert_delay,
       SP!Modulus, Sched!Modulus

LEMMA SameQueued == \A tid : SP!Queued(tid) <=> Sched!Queued(tid)
BY DEF SP!Queued, Sched!Queued, SP!Tids, Sched!Tids

LEMMA SameSched ==
  ASSUME NEW tid, NEW job, NEW delay, Sched!nk_sched(tid, job, delay)
  PROVE  SP!nk_sched(tid, job, delay)
BY SameDeque, SameEnque, SameNewItem, SameQueued
   DEF SP!nk_sched, Sched!nk_sched, SP!SchedQueued, Sched!SchedQueued,
       SP!SchedNew, Sched!SchedNew, SP!SchedFull, Sched!SchedFull,
       SP!Returns, Sched!Returns

LEMMA SameUnsched ==
  ASSUME NEW tid, Sched!nk_unsched(tid)
  PROVE  SP!nk_unsched(tid)
BY SameDeque, SameQueued
   DEF SP!nk_unsched, Sched!nk_unsched, SP!NoCall, Sched!NoCall

LEMMA SameDispatch == Sched!Dispatch => SP!Dispatch
BY DEF SP!Dispatch, Sched!Dispatch, SP!Due, Sched!Due, SP!SignedDiff,
       Sched!SignedDiff, SP!Modulus, Sched!Modulus, SP!NoCall, Sched!NoCall

LEMMA SameTick == Sched!Tick => SP!Tick
BY DEF SP!Tick, Sched!Tick, SP!Modulus, Sched!Modulus, SP!NoCall, Sched!NoCall

LEMMA SameOther ==
  /\ Sched!nk_alloc_tid => SP!nk_alloc_tid
  /\ Sched!EnterLoop => SP!EnterLoop
  /\ Sched!TaskReturn => SP!TaskReturn
BY DEF SP!nk_alloc_tid, Sched!nk_alloc_tid, SP!EnterLoop, Sched!EnterLoop,
       SP!TaskReturn, Sched!TaskReturn, SP!NoCall, Sched!NoCall

LEMMA SameInit == Sched!Init => SP!Init
BY DEF SP!Init, Sched!Init, SP!NoCall, Sched!NoCall, SP!Time, Sched!Time,
       SP!Modulus, Sched!Modulus

LEMMA SameType == SP!TypeOK => Sched!TypeOK
BY DEF SP!TypeOK, Sched!TypeOK, SP!Item, Sched!Item, SP!Call, Sched!Call,
       SP!Tid, Sched!Tid, SP!Time, Sched!Time, SP!Modulus, Sched!Modulus

\* Only the jobs and task ids of the console are ever in the queue.
LEMMA WaitsType ==
  ASSUME SP!IInv, NEW tid, NEW job, Waits(tid, job)
  PROVE  tid \in 1 .. timeout_tid /\ job \in Job
<1>1. queue \in Seq(SP!Item)
  BY DEF SP!IInv, SP!TypeOK
<1>2. PICK i \in 1 .. Len(queue) : queue[i].tid = tid /\ queue[i].job = job
  BY DEF Waits, SP!Waits
<1>3. queue[i] \in SP!Item
  BY <1>1, <1>2
<1> QED BY <1>2, <1>3 DEF SP!Item, SP!Tid

LEMMA QueuedMeans ==
  ASSUME SP!IInv, NEW tid
  PROVE  Sched!Queued(tid) <=> InQueue(tid)
BY QueueAssumption, SameQueued, SP!QueuedWaits DEF InQueue, Waits

\* What a submission does to the queue, seen from outside.
LEMMA SchedEffect ==
  ASSUME SP!IInv, NEW tid \in 1 .. timeout_tid, NEW job \in Job,
         NEW delay \in {0, Wait}, Sched!nk_sched(tid, job, delay)
  PROVE  /\ SP!IInv'
         /\ \A t, j : Waits(t, j)' <=> IF t = tid THEN j = job ELSE Waits(t, j)
         /\ \A t : InQueue(t)' <=> (t = tid \/ InQueue(t))
         /\ next_tid' = next_tid /\ current_tid' = current_tid /\ main' = main
<1>1. SP!nk_sched(tid, job, delay) /\ tid \in SP!Tid
  BY SameSched DEF SP!Tid
<1>2. /\ SP!IInv'
      /\ \A t, j : SP!Waits(queue', t, j)
                     <=> IF t = tid THEN j = job ELSE SP!Waits(queue, t, j)
  BY <1>1, QueueAssumption, QueueRoom, SP!SchedWaits
<1>3. \A t, j : Waits(t, j)' <=> IF t = tid THEN j = job ELSE Waits(t, j)
  BY <1>2 DEF Waits
<1>4. \A t : InQueue(t)' <=> (t = tid \/ InQueue(t))
  BY <1>3 DEF InQueue
<1> QED BY <1>1, <1>2, <1>3, <1>4 DEF SP!nk_sched

LEMMA UnschedEffect ==
  ASSUME SP!IInv, NEW tid \in 1 .. timeout_tid, Sched!nk_unsched(tid)
  PROVE  /\ SP!IInv'
         /\ \A t, j : Waits(t, j)' <=> t # tid /\ Waits(t, j)
         /\ \A t : InQueue(t)' <=> t # tid /\ InQueue(t)
         /\ next_tid' = next_tid /\ current_tid' = current_tid /\ main' = main
<1>1. SP!nk_unsched(tid) /\ tid \in SP!Tid
  BY SameUnsched DEF SP!Tid
<1>2. /\ SP!IInv'
      /\ \A t, j : SP!Waits(queue', t, j) <=> t # tid /\ SP!Waits(queue, t, j)
  BY <1>1, QueueAssumption, SP!UnschedWaits
<1>3. \A t, j : Waits(t, j)' <=> t # tid /\ Waits(t, j)
  BY <1>2 DEF Waits
<1>4. \A t : InQueue(t)' <=> t # tid /\ InQueue(t)
  BY <1>3 DEF InQueue
<1> QED BY <1>1, <1>2, <1>3, <1>4 DEF SP!nk_unsched

LEMMA DispatchEffect ==
  ASSUME SP!IInv, Sched!Dispatch
  PROVE  \E tid \in 1 .. timeout_tid, job \in Job :
           /\ Head(queue).job = job /\ Waits(tid, job)
           /\ SP!IInv'
           /\ \A t, j : Waits(t, j)' <=> t # tid /\ Waits(t, j)
           /\ \A t : InQueue(t)' <=> t # tid /\ InQueue(t)
           /\ next_tid' = next_tid /\ current_tid' = tid /\ main' = "task"
<1> DEFINE tid == Head(queue).tid
           job == Head(queue).job
<1>1. SP!Dispatch
  BY SameDispatch
<1>2. /\ SP!IInv' /\ Head(queue) \in SP!Item /\ current_tid' = tid
      /\ SP!Waits(queue, tid, job)
      /\ \A t, j : SP!Waits(queue', t, j) <=> t # tid /\ SP!Waits(queue, t, j)
  BY <1>1, QueueAssumption, SP!DispatchWaits
<1>3. tid \in 1 .. timeout_tid /\ job \in Job
  BY <1>2 DEF SP!Item, SP!Tid
<1>4. \A t, j : Waits(t, j)' <=> t # tid /\ Waits(t, j)
  BY <1>2 DEF Waits
<1>5. \A t : InQueue(t)' <=> t # tid /\ InQueue(t)
  BY <1>4 DEF InQueue
<1>6. next_tid' = next_tid /\ main' = "task"
  BY <1>1 DEF SP!Dispatch
<1>7. Waits(tid, job)
  BY <1>2 DEF Waits
<1> QED BY <1>2, <1>3, <1>4, <1>5, <1>6, <1>7

\* The queue as the console sees it stays as it is.
SameQueue ==
  /\ \A t, j : Waits(t, j)' <=> Waits(t, j)
  /\ \A t : InQueue(t)' <=> InQueue(t)

LEMMA TickEffect ==
  ASSUME SP!IInv, Sched!Tick
  PROVE  /\ SP!IInv' /\ SameQueue
         /\ next_tid' = next_tid /\ current_tid' = current_tid /\ main' = main
<1>1. SP!Tick
  BY SameTick
<1>2. SP!IInv' /\ \A t, j : SP!Waits(queue', t, j) <=> SP!Waits(queue, t, j)
  BY <1>1, QueueAssumption, SP!TickWaits
<1>3. SameQueue
  BY <1>2 DEF SameQueue, InQueue, Waits
<1> QED BY <1>1, <1>2, <1>3 DEF SP!Tick

LEMMA OtherEffect ==
  ASSUME SP!IInv, Sched!nk_alloc_tid \/ Sched!EnterLoop \/ Sched!TaskReturn
  PROVE  SP!IInv' /\ SameQueue /\ current_tid' = current_tid
<1>1. SP!nk_alloc_tid \/ SP!EnterLoop \/ SP!TaskReturn
  BY SameOther
<1>2. SP!IInv' /\ queue' = queue
  BY <1>1, QueueAssumption, SP!OtherWaits
<1>3. SameQueue
  BY <1>2 DEF SameQueue, InQueue, Waits
<1> QED BY <1>1, <1>2, <1>3 DEF SP!nk_alloc_tid, SP!EnterLoop, SP!TaskReturn

LEMMA IdleEffect ==
  ASSUME SP!IInv, UNCHANGED sched
  PROVE  /\ SP!IInv' /\ SameQueue
         /\ next_tid' = next_tid /\ current_tid' = current_tid /\ main' = main
<1>1. SP!IInv'
  BY QueueAssumption, SP!NextIInv DEF sched, SP!vars
<1>2. SameQueue
  BY DEF SameQueue, InQueue, Waits, sched
<1> QED BY <1>1, <1>2 DEF sched

-----------------------------------------------------------------------------
(***************************************************************************)
(* The steps of the sender and of the interrupt handler, at any place of   *)
(* the thread.                                                             *)
(***************************************************************************)

LEMMA ArriveStep ==
  ASSUME CInv, Arrive
  PROVE  CInv'
<1>1. SP!IInv' /\ SameQueue /\ RingInv'
      /\ next_tid' = next_tid /\ current_tid' = current_tid /\ main' = main
  BY IdleEffect, ArriveRing DEF CInv, Arrive
<1>2. arrived # None
  BY CharModType DEF CInv, RingInv, None
<1>3. /\ UNCHANGED <<pc, isr, rx_buf_rd, rx_buf_wr, waiting_rx_task>>
      /\ UNCHANGED <<cli_disabled, tty_mode>> /\ hw' # None
  BY <1>2 DEF Arrive, reader, cli
<1> QED BY <1>1, <1>3 DEF CInv, SameQueue, ThreadInv, JobInv, WakeInv, Deaf,
                          ListenInv, OwnerInv, SessionInv

LEMMA IsrEnterStep ==
  ASSUME CInv, IsrEnter
  PROVE  CInv'
<1>1. SP!IInv' /\ SameQueue
      /\ next_tid' = next_tid /\ current_tid' = current_tid /\ main' = main
  BY IdleEffect DEF CInv, IsrEnter
<1>2. RingInv'
  BY SameRing DEF CInv, IsrEnter
<1>3. /\ UNCHANGED <<pc, hw, rx_buf_rd, rx_buf_wr, waiting_rx_task>>
      /\ UNCHANGED <<cli_disabled, tty_mode>> /\ hw # None /\ isr' = "run"
  BY DEF IsrEnter, reader, cli
<1> QED BY <1>1, <1>2, <1>3 DEF CInv, SameQueue, ThreadInv, JobInv, WakeInv,
                                Deaf, ListenInv, OwnerInv, SessionInv

LEMMA IsrRxStep ==
  ASSUME CInv, IsrRx
  PROVE  CInv'
<1>1. SP!IInv' /\ SameQueue /\ RingInv' /\ rx_buf_rd' # rx_buf_wr'
      /\ next_tid' = next_tid /\ current_tid' = current_tid /\ main' = main
  BY IdleEffect, RxRing DEF CInv, IsrRx
<1>2. /\ UNCHANGED <<pc, rx_buf_rd, waiting_rx_task>>
      /\ UNCHANGED <<cli_disabled, tty_mode>> /\ isr' = "run"
  BY DEF IsrRx, reader, cli
<1> QED BY <1>1, <1>2 DEF CInv, SameQueue, ThreadInv, JobInv, WakeInv, Deaf,
                          ListenInv, OwnerInv, SessionInv

\* The handler submits whoever waits; there is something to read.
LEMMA IsrRetStep ==
  ASSUME CInv, IsrRet
  PROVE  CInv'
<1>1. RingInv'
  BY SameRing DEF CInv, IsrRet
<1>2. /\ UNCHANGED <<pc, hw, rx_buf_rd, rx_buf_wr>>
      /\ UNCHANGED <<cli_disabled, tty_mode>> /\ isr = "run" /\ isr' = "idle"
      /\ hw = None
  BY DEF IsrRet, reader, cli
<1>3. rx_buf_rd # rx_buf_wr
  BY <1>2 DEF CInv, WakeInv
<1>4. CASE /\ waiting_rx_task # "none"
           /\ Sched!nk_sched(nk_cli_tid, waiting_rx_task, 0)
           /\ waiting_rx_task' = "none"
  <2>1. waiting_rx_task \in {"prompt", "ymodem"}
    BY <1>4 DEF CInv, ListenInv
  <2>2. nk_cli_tid \in 1 .. timeout_tid /\ waiting_rx_task \in Job
        /\ timeout_tid # nk_cli_tid
    BY <2>1, QueueRoom DEF nk_cli_tid, Job
  <2> DEFINE w == waiting_rx_task
  <2>3. /\ SP!IInv'
        /\ \A t, j : Waits(t, j)' <=> IF t = nk_cli_tid THEN j = w ELSE Waits(t, j)
        /\ \A t : InQueue(t)' <=> (t = nk_cli_tid \/ InQueue(t))
        /\ next_tid' = next_tid /\ current_tid' = current_tid /\ main' = main
    BY <1>4, <2>2, SchedEffect DEF CInv
  <2>4. ThreadInv' /\ JobInv'
    BY <1>2, <2>1, <2>3 DEF CInv, ThreadInv, JobInv
  <2>5. WakeInv'
    BY <1>2, <1>3, <1>4, <2>3 DEF WakeInv
  <2>6. ListenInv'
    BY <1>2, <1>4, <2>3 DEF CInv, ListenInv, Deaf
  <2>7. OwnerInv'
    BY <1>2, <1>4, <2>3 DEF CInv, OwnerInv
  <2>8. SessionInv'
    BY <1>2, <2>2, <2>3 DEF CInv, SessionInv
  <2> QED BY <1>1, <2>3, <2>4, <2>5, <2>6, <2>7, <2>8 DEF CInv
<1>5. CASE waiting_rx_task = "none" /\ UNCHANGED <<sched, waiting_rx_task>>
  <2>1. /\ SP!IInv' /\ SameQueue
        /\ next_tid' = next_tid /\ current_tid' = current_tid /\ main' = main
    BY <1>5, IdleEffect DEF CInv
  <2> QED BY <1>1, <1>2, <1>5, <2>1
          DEF CInv, SameQueue, ThreadInv, JobInv, WakeInv, Deaf, ListenInv,
              OwnerInv, SessionInv
<1> QED BY <1>4, <1>5 DEF IsrRet

LEMMA TickStep ==
  ASSUME CInv, Tick
  PROVE  CInv'
<1>1. SP!IInv' /\ SameQueue
      /\ next_tid' = next_tid /\ current_tid' = current_tid /\ main' = main
  BY TickEffect DEF CInv, Tick
<1>2. RingInv'
  BY SameRing DEF CInv, RingInv, Tick, uart
<1>3. /\ UNCHANGED <<pc, hw, isr, rx_buf_rd, rx_buf_wr, waiting_rx_task>>
      /\ UNCHANGED <<cli_disabled, tty_mode>>
  BY DEF Tick, uart, reader, cli
<1> QED BY <1>1, <1>2, <1>3 DEF CInv, SameQueue, ThreadInv, JobInv, WakeInv,
                                Deaf, ListenInv, OwnerInv, SessionInv

-----------------------------------------------------------------------------
(***************************************************************************)
(* The steps of the thread.                                                *)
(***************************************************************************)

LEMMA PlaceFacts ==
  /\ \A job \in PeriodicJobs : job \notin Place /\ job # "none"
  /\ \A i \in 1 .. Len(Periodic) : Periodic[i] \in PeriodicJobs
  /\ PeriodicJobs \subseteq Job
  /\ nk_cli_tid = 1 /\ nk_cli_tid \in 1 .. timeout_tid
  /\ timeout_tid \in 1 .. timeout_tid /\ timeout_tid # nk_cli_tid
  /\ \A t \in 2 .. 1 + Len(Periodic) :
       t # nk_cli_tid /\ t # timeout_tid /\ t \in 1 .. timeout_tid
<1>1. DOMAIN Periodic = 1 .. Len(Periodic)
  BY ConsoleAssumption
<1>2. \A job \in PeriodicJobs : job \notin Place /\ job # "none"
  BY ConsoleAssumption
<1>3. \A i \in 1 .. Len(Periodic) : Periodic[i] \in PeriodicJobs
  BY <1>1 DEF PeriodicJobs
<1>4. PeriodicJobs \subseteq Job
  BY DEF Job
<1> QED BY <1>2, <1>3, <1>4, QueueRoom DEF nk_cli_tid

\* A step of the thread keeps the ring buffer's invariant.
LEMMA ThreadRing ==
  ASSUME RingInv, UNCHANGED uart, nk_getc \/ UNCHANGED reader
  PROVE  RingInv' /\ isr' = isr /\ hw' = hw /\ rx_buf_wr' = rx_buf_wr
<1>1. CASE nk_getc
  BY <1>1, GetcRing DEF uart
<1>2. CASE UNCHANGED reader
  BY <1>2, SameRing DEF RingInv, uart
<1> QED BY <1>1, <1>2

\* Registering for data: afterwards the job is in the queue or in the
\* callback, never in both and never in neither.
LEMMA CallbackEffect ==
  ASSUME CInv, isr = "idle", isr' = "idle", NEW job \in {"prompt", "ymodem"},
         nk_set_uart_callback(job), InQueue(nk_cli_tid) => cli_disabled,
         cli_disabled' \in BOOLEAN,
         job = IF cli_disabled' THEN "ymodem" ELSE "prompt",
         UNCHANGED <<hw, rx_buf_rd, rx_buf_wr>>
  PROVE  /\ SP!IInv' /\ JobInv' /\ WakeInv' /\ OwnerInv'
         /\ waiting_rx_task' \in {"none", "prompt", "ymodem"}
         /\ InQueue(nk_cli_tid)' <=> waiting_rx_task' = "none"
         /\ \A t : t # nk_cli_tid => (InQueue(t)' <=> InQueue(t))
         /\ next_tid' = next_tid /\ current_tid' = current_tid /\ main' = main
<1>1. CASE /\ rx_buf_rd # rx_buf_wr
           /\ Sched!nk_sched(nk_cli_tid, job, 0)
           /\ waiting_rx_task' = "none"
  <2>1. job \in Job
    BY DEF Job
  <2>2. /\ SP!IInv'
        /\ \A t, j : Waits(t, j)' <=> IF t = nk_cli_tid THEN j = job ELSE Waits(t, j)
        /\ \A t : InQueue(t)' <=> (t = nk_cli_tid \/ InQueue(t))
        /\ next_tid' = next_tid /\ current_tid' = current_tid /\ main' = main
    BY <1>1, <2>1, PlaceFacts, SchedEffect DEF CInv
  <2>3. JobInv'
    BY <2>2 DEF CInv, JobInv
  <2>4. WakeInv'
    BY <1>1, <2>2 DEF WakeInv
  <2>5. OwnerInv'
    BY <1>1, <2>2 DEF OwnerInv
  <2> QED BY <1>1, <2>2, <2>3, <2>4, <2>5
<1>2. CASE /\ rx_buf_rd = rx_buf_wr
           /\ waiting_rx_task' = job
           /\ UNCHANGED sched
  <2>1. /\ SP!IInv' /\ SameQueue
        /\ next_tid' = next_tid /\ current_tid' = current_tid /\ main' = main
    BY <1>2, IdleEffect DEF CInv
  <2>2. ~ InQueue(nk_cli_tid)
    BY <1>2 DEF CInv, WakeInv, OwnerInv, InQueue
  <2>3. \A j \in Job : ~ Waits(nk_cli_tid, j)
    BY <2>2 DEF InQueue
  <2>4. JobInv'
    BY <2>1 DEF CInv, JobInv, SameQueue
  <2>5. WakeInv'
    BY <1>2, <2>1, <2>3 DEF WakeInv, SameQueue, Job
  <2>6. OwnerInv'
    BY <1>2, <2>1, <2>3 DEF OwnerInv, SameQueue
  <2> QED BY <1>2, <2>1, <2>2, <2>4, <2>5, <2>6 DEF SameQueue
<1> QED BY <1>1, <1>2 DEF nk_set_uart_callback

LEMMA HandleCmdEndStep ==
  ASSUME CInv, HandleCmdEnd
  PROVE  CInv'
<1>1. /\ isr = "idle" /\ pc = "handle_cmd" /\ pc' = "return"
      /\ UNCHANGED <<cli_disabled, tty_mode, rx_buf_rd>>
      /\ cli_disabled \in BOOLEAN
  BY DEF HandleCmdEnd, At, Goto, cli, reader, CInv, SessionInv
<1>2. RingInv' /\ isr' = isr /\ hw' = hw /\ rx_buf_wr' = rx_buf_wr
  BY ThreadRing DEF CInv, HandleCmdEnd
<1>3. CASE cli_disabled
  <2>1. UNCHANGED <<sched, waiting_rx_task>>
    BY <1>3 DEF HandleCmdEnd
  <2>2. /\ SP!IInv' /\ SameQueue
        /\ next_tid' = next_tid /\ current_tid' = current_tid /\ main' = main
    BY <2>1, IdleEffect DEF CInv
  <2> QED BY <1>1, <1>2, <1>3, <2>1, <2>2, PlaceFacts
          DEF CInv, SameQueue, ThreadInv, JobInv, WakeInv, Deaf, ListenInv,
              OwnerInv, SessionInv, Place
<1>4. CASE ~ cli_disabled
  <2>1. nk_set_uart_callback("prompt")
    BY <1>4 DEF HandleCmdEnd
  <2>2. ~ InQueue(nk_cli_tid)
    BY <1>1, <1>4 DEF CInv, ListenInv, Deaf
  <2>3. /\ SP!IInv' /\ JobInv' /\ WakeInv' /\ OwnerInv'
        /\ waiting_rx_task' \in {"none", "prompt", "ymodem"}
        /\ InQueue(nk_cli_tid)' <=> waiting_rx_task' = "none"
        /\ \A t : t # nk_cli_tid => (InQueue(t)' <=> InQueue(t))
        /\ next_tid' = next_tid /\ current_tid' = current_tid /\ main' = main
    BY <1>1, <1>2, <1>4, <2>1, <2>2, CallbackEffect
  <2>4. ThreadInv'
    BY <1>1, <2>3, PlaceFacts DEF CInv, ThreadInv, Place
  <2>5. ListenInv'
    BY <1>1, <2>3 DEF ListenInv, Deaf
  <2>6. SessionInv'
    BY <1>1, <2>3, PlaceFacts DEF CInv, SessionInv
  <2> QED BY <1>2, <2>3, <2>4, <2>5, <2>6 DEF CInv
<1> QED BY <1>3, <1>4

LEMMA PromptWaitStep ==
  ASSUME CInv, PromptWait
  PROVE  CInv'
<1>1. /\ isr = "idle" /\ pc = "prompt_wait" /\ pc' = "return"
      /\ UNCHANGED <<cli_disabled, tty_mode, rx_buf_rd>>
      /\ cli_disabled = FALSE
  BY DEF PromptWait, At, Goto, cli, reader, CInv, SessionInv
<1>2. RingInv' /\ isr' = isr /\ hw' = hw /\ rx_buf_wr' = rx_buf_wr
  BY ThreadRing DEF CInv, PromptWait
<1>3. nk_set_uart_callback("prompt") /\ ~ InQueue(nk_cli_tid)
  BY <1>1 DEF PromptWait, CInv, ListenInv, Deaf
<1>4. /\ SP!IInv' /\ JobInv' /\ WakeInv' /\ OwnerInv'
      /\ waiting_rx_task' \in {"none", "prompt", "ymodem"}
      /\ InQueue(nk_cli_tid)' <=> waiting_rx_task' = "none"
      /\ \A t : t # nk_cli_tid => (InQueue(t)' <=> InQueue(t))
      /\ next_tid' = next_tid /\ current_tid' = current_tid /\ main' = main
  BY <1>1, <1>2, <1>3, CallbackEffect
<1>5. ThreadInv'
  BY <1>1, <1>4, PlaceFacts DEF CInv, ThreadInv, Place
<1>6. ListenInv'
  BY <1>1, <1>4 DEF ListenInv, Deaf
<1>7. SessionInv'
  BY <1>1, <1>4, PlaceFacts DEF CInv, SessionInv
<1> QED BY <1>2, <1>4, <1>5, <1>6, <1>7 DEF CInv

LEMMA YrecvWaitStep ==
  ASSUME CInv, YrecvWait
  PROVE  CInv'
<1>1. /\ isr = "idle" /\ pc = "yrecv_wait" /\ pc' = "yrecv_timer"
      /\ UNCHANGED <<cli_disabled, tty_mode, rx_buf_rd>>
      /\ cli_disabled = TRUE
  BY DEF YrecvWait, At, Goto, cli, reader, CInv, SessionInv
<1>2. RingInv' /\ isr' = isr /\ hw' = hw /\ rx_buf_wr' = rx_buf_wr
  BY ThreadRing DEF CInv, YrecvWait
<1>3. nk_set_uart_callback("ymodem")
  BY DEF YrecvWait
<1>4. /\ SP!IInv' /\ JobInv' /\ WakeInv' /\ OwnerInv'
      /\ waiting_rx_task' \in {"none", "prompt", "ymodem"}
      /\ InQueue(nk_cli_tid)' <=> waiting_rx_task' = "none"
      /\ \A t : t # nk_cli_tid => (InQueue(t)' <=> InQueue(t))
      /\ next_tid' = next_tid /\ current_tid' = current_tid /\ main' = main
  BY <1>1, <1>2, <1>3, CallbackEffect
<1>5. ThreadInv'
  BY <1>1, <1>4, PlaceFacts DEF CInv, ThreadInv, Place
<1>6. ListenInv'
  BY <1>1, <1>4 DEF ListenInv, Deaf
<1>7. SessionInv'
  BY <1>1, <1>4, PlaceFacts DEF CInv, SessionInv
<1> QED BY <1>2, <1>4, <1>5, <1>6, <1>7 DEF CInv

\* After a packet nobody listens; after a time-out the receiver may, in the
\* callback or in the queue, and it is registered a second time.
LEMMA YmodemWaitStep ==
  ASSUME CInv, YmodemWait
  PROVE  CInv'
<1>1. /\ isr = "idle" /\ pc = "ymodem_wait" /\ pc' = "ymodem_timer"
      /\ UNCHANGED <<cli_disabled, tty_mode, rx_buf_rd>>
      /\ cli_disabled = TRUE
  BY DEF YmodemWait, At, Goto, cli, reader, CInv, SessionInv
<1>2. RingInv' /\ isr' = isr /\ hw' = hw /\ rx_buf_wr' = rx_buf_wr
  BY ThreadRing DEF CInv, YmodemWait
<1>3. nk_set_uart_callback("ymodem")
  BY DEF YmodemWait
<1>4. /\ SP!IInv' /\ JobInv' /\ WakeInv' /\ OwnerInv'
      /\ waiting_rx_task' \in {"none", "prompt", "ymodem"}
      /\ InQueue(nk_cli_tid)' <=> waiting_rx_task' = "none"
      /\ \A t : t # nk_cli_tid => (InQueue(t)' <=> InQueue(t))
      /\ next_tid' = next_tid /\ current_tid' = current_tid /\ main' = main
  BY <1>1, <1>2, <1>3, CallbackEffect
<1>5. ThreadInv'
  BY <1>1, <1>4, PlaceFacts DEF CInv, ThreadInv, Place
<1>6. ListenInv'
  BY <1>1, <1>4 DEF ListenInv, Deaf
<1>7. SessionInv'
  BY <1>1, <1>4, PlaceFacts DEF CInv, SessionInv
<1> QED BY <1>2, <1>4, <1>5, <1>6, <1>7 DEF CInv

\* The end of a session: the CLI takes the console back in one step.
LEMMA YmodemEnableStep ==
  ASSUME CInv, YmodemEnable
  PROVE  CInv'
<1>1. /\ isr = "idle" /\ pc = "ymodem_enable" /\ pc' = "ymodem_unsched"
      /\ UNCHANGED <<tty_mode, rx_buf_rd>>
      /\ cli_disabled = TRUE /\ tty_mode = 0
  BY DEF YmodemEnable, At, Goto, reader, CInv, SessionInv
<1>2. RingInv' /\ isr' = isr /\ hw' = hw /\ rx_buf_wr' = rx_buf_wr
  BY ThreadRing DEF CInv, YmodemEnable
<1>3. nk_set_uart_callback("prompt") /\ cli_disabled' = FALSE
  BY <1>1 DEF YmodemEnable
<1>4. /\ SP!IInv' /\ JobInv' /\ WakeInv' /\ OwnerInv'
      /\ waiting_rx_task' \in {"none", "prompt", "ymodem"}
      /\ InQueue(nk_cli_tid)' <=> waiting_rx_task' = "none"
      /\ \A t : t # nk_cli_tid => (InQueue(t)' <=> InQueue(t))
      /\ next_tid' = next_tid /\ current_tid' = current_tid /\ main' = main
  BY <1>1, <1>2, <1>3, CallbackEffect
<1>5. ThreadInv'
  BY <1>1, <1>4, PlaceFacts DEF CInv, ThreadInv, Place
<1>6. ListenInv'
  BY <1>1, <1>4 DEF ListenInv, Deaf
<1>7. SessionInv'
  <2>1. pc' = "ymodem_unsched" /\ tty_mode' = 0 /\ ~ cli_disabled'
        /\ cli_disabled' \in BOOLEAN
    BY <1>1, <1>3
  <2> QED BY <2>1 DEF SessionInv
<1> QED BY <1>2, <1>4, <1>5, <1>6, <1>7 DEF CInv

LEMMA BootAllocStep ==
  ASSUME CInv, BootAlloc
  PROVE  CInv'
<1>1. /\ isr = "idle" /\ pc = "boot" /\ pc' = "boot_sched"
      /\ UNCHANGED <<cli_disabled, tty_mode, rx_buf_rd, waiting_rx_task>>
      /\ next_tid < 1 + Len(Periodic) /\ next_tid' = next_tid + 1 /\ main' = main
  BY DEF BootAlloc, At, Goto, cli, reader, Sched!nk_alloc_tid
<1>2. RingInv' /\ isr' = isr /\ hw' = hw /\ rx_buf_wr' = rx_buf_wr
  BY ThreadRing DEF CInv, BootAlloc
<1>3. SP!IInv' /\ SameQueue
  BY OtherEffect DEF CInv, BootAlloc
<1>4. next_tid \in Nat
  BY QueueRoom DEF CInv, SP!IInv, SP!TypeOK
<1>5. ThreadInv'
  BY <1>1, <1>4, QueueRoom, PlaceFacts DEF CInv, ThreadInv, Place
<1>6. JobInv' /\ WakeInv' /\ OwnerInv'
  BY <1>1, <1>2, <1>3 DEF CInv, JobInv, WakeInv, OwnerInv, SameQueue
<1>7. ListenInv'
  BY <1>1, <1>3, <1>4 DEF CInv, ListenInv, Deaf, SameQueue
<1>8. SessionInv'
  BY <1>1, <1>3 DEF CInv, SessionInv, SameQueue
<1> QED BY <1>2, <1>3, <1>5, <1>6, <1>7, <1>8 DEF CInv

LEMMA BootSchedStep ==
  ASSUME CInv, BootSched
  PROVE  CInv'
<1>1. /\ isr = "idle" /\ pc = "boot_sched" /\ pc' = "boot"
      /\ UNCHANGED <<cli_disabled, tty_mode, rx_buf_rd, waiting_rx_task>>
      /\ next_tid \in 1 .. 1 + Len(Periodic) /\ ~ cli_disabled
  BY DEF BootSched, At, Goto, cli, reader, CInv, ThreadInv, SessionInv
<1>2. RingInv' /\ isr' = isr /\ hw' = hw /\ rx_buf_wr' = rx_buf_wr
  BY ThreadRing DEF CInv, BootSched
<1>3. CASE next_tid = nk_cli_tid
  <2>1. Sched!nk_sched(nk_cli_tid, "handle_cmd", 0) /\ "handle_cmd" \in Job
    BY <1>3 DEF BootSched, Job
  <2>2. /\ SP!IInv'
        /\ \A t, j : Waits(t, j)' <=> IF t = nk_cli_tid THEN j = "handle_cmd"
                                      ELSE Waits(t, j)
        /\ \A t : InQueue(t)' <=> (t = nk_cli_tid \/ InQueue(t))
        /\ next_tid' = next_tid /\ current_tid' = current_tid /\ main' = main
    BY <2>1, PlaceFacts, SchedEffect DEF CInv
  <2>3. waiting_rx_task = "none"
    BY <1>1, <1>3, PlaceFacts DEF CInv, ListenInv, Deaf
  <2>4. ThreadInv'
    BY <1>1, <2>2, QueueRoom, PlaceFacts DEF CInv, ThreadInv, Place
  <2>5. JobInv' /\ WakeInv' /\ OwnerInv'
    BY <1>1, <1>2, <2>2, <2>3 DEF CInv, JobInv, WakeInv, OwnerInv
  <2>6. ListenInv'
    BY <1>1, <1>3, <2>2, <2>3, PlaceFacts DEF ListenInv, Deaf
  <2>7. SessionInv'
    BY <1>1, <2>2, PlaceFacts DEF CInv, SessionInv
  <2> QED BY <1>2, <2>2, <2>4, <2>5, <2>6, <2>7 DEF CInv
<1>4. CASE next_tid # nk_cli_tid
  <2> DEFINE tid == next_tid
             job == Periodic[next_tid - 1]
  <2>1. tid \in 2 .. 1 + Len(Periodic) /\ tid - 1 \in 1 .. Len(Periodic)
    BY <1>1, <1>4, QueueRoom, PlaceFacts
  <2>2. Sched!nk_sched(tid, job, Wait) /\ job \in Job /\ job \in PeriodicJobs
    BY <1>4, <2>1, PlaceFacts DEF BootSched
  <2>3. /\ SP!IInv'
        /\ \A t, j : Waits(t, j)' <=> IF t = tid THEN j = job ELSE Waits(t, j)
        /\ \A t : InQueue(t)' <=> (t = tid \/ InQueue(t))
        /\ next_tid' = next_tid /\ current_tid' = current_tid /\ main' = main
    BY <2>1, <2>2, PlaceFacts, SchedEffect DEF CInv
  <2>4. tid # nk_cli_tid /\ tid # timeout_tid /\ tid # 0 /\ tid # 1
    BY <2>1, PlaceFacts, QueueRoom
  <2>5. ThreadInv'
    BY <1>1, <2>3, QueueRoom, PlaceFacts DEF CInv, ThreadInv, Place
  <2>6. JobInv'
    BY <2>1, <2>3 DEF CInv, JobInv
  <2>7. WakeInv' /\ OwnerInv'
    BY <1>1, <1>2, <2>3, <2>4 DEF CInv, WakeInv, OwnerInv
  <2>8. ListenInv'
    BY <1>1, <2>3, <2>4 DEF CInv, ListenInv, Deaf
  <2>9. SessionInv'
    BY <1>1, <2>3, <2>4 DEF CInv, SessionInv
  <2> QED BY <1>2, <2>3, <2>5, <2>6, <2>7, <2>8, <2>9 DEF CInv
<1> QED BY <1>3, <1>4

LEMMA BootDoneStep ==
  ASSUME CInv, BootDone
  PROVE  CInv'
<1>1. /\ isr = "idle" /\ pc = "boot" /\ pc' = "loop"
      /\ UNCHANGED <<cli_disabled, tty_mode, rx_buf_rd, waiting_rx_task>>
      /\ next_tid = 1 + Len(Periodic) /\ next_tid' = next_tid /\ main' = "loop"
  BY DEF BootDone, At, Goto, cli, reader, Sched!EnterLoop
<1>2. RingInv' /\ isr' = isr /\ hw' = hw /\ rx_buf_wr' = rx_buf_wr
  BY ThreadRing DEF CInv, BootDone
<1>3. SP!IInv' /\ SameQueue
  BY OtherEffect DEF CInv, BootDone
<1>4. ThreadInv'
  BY <1>1, PlaceFacts DEF ThreadInv, Place
<1>5. JobInv' /\ WakeInv' /\ OwnerInv'
  BY <1>1, <1>2, <1>3 DEF CInv, JobInv, WakeInv, OwnerInv, SameQueue
<1>6. ListenInv'
  BY <1>1, <1>3, QueueRoom DEF CInv, ListenInv, Deaf, SameQueue
<1>7. SessionInv'
  BY <1>1, <1>3 DEF CInv, SessionInv, SameQueue
<1> QED BY <1>2, <1>3, <1>4, <1>5, <1>6, <1>7 DEF CInv

\* The main loop calls a task: the console's own, which then is the one
\* nobody else listens beside, or another.
LEMMA DispatchStep ==
  ASSUME CInv, Dispatch
  PROVE  CInv'
<1>1. /\ isr = "idle" /\ pc = "loop" /\ pc' = Head(queue).job
      /\ UNCHANGED <<cli_disabled, tty_mode, rx_buf_rd, waiting_rx_task>>
  BY DEF Dispatch, At, Goto, cli, reader
<1>2. RingInv' /\ isr' = isr /\ hw' = hw /\ rx_buf_wr' = rx_buf_wr
  BY ThreadRing DEF CInv, Dispatch
<1>3. PICK tid \in 1 .. timeout_tid, job \in Job :
           /\ Head(queue).job = job /\ Waits(tid, job)
           /\ SP!IInv'
           /\ \A t, j : Waits(t, j)' <=> t # tid /\ Waits(t, j)
           /\ \A t : InQueue(t)' <=> t # tid /\ InQueue(t)
           /\ next_tid' = next_tid /\ current_tid' = tid /\ main' = "task"
  BY DispatchEffect DEF CInv, Dispatch
<1>4. InQueue(tid)
  BY <1>3 DEF InQueue
<1>5. JobInv' /\ WakeInv' /\ OwnerInv'
  BY <1>1, <1>2, <1>3 DEF CInv, JobInv, WakeInv, OwnerInv
<1>6. \/ tid = nk_cli_tid /\ job \in {"handle_cmd", "prompt", "ymodem"}
      \/ tid \in 2 .. 1 + Len(Periodic) /\ job = Periodic[tid - 1]
      \/ tid = timeout_tid /\ job = "timeout"
  BY <1>3 DEF CInv, JobInv
<1>7. CASE tid = nk_cli_tid /\ job \in {"handle_cmd", "prompt", "ymodem"}
  <2>1. ThreadInv'
    BY <1>1, <1>3, <1>7, PlaceFacts DEF ThreadInv, Place
  <2>2. IF cli_disabled THEN job = "ymodem" ELSE job \in {"prompt", "handle_cmd"}
    BY <1>3, <1>7 DEF CInv, OwnerInv
  <2>3. ListenInv'
    BY <1>1, <1>3, <1>4, <1>7, <2>2 DEF CInv, ListenInv, Deaf
  <2>4. SessionInv'
    BY <1>1, <1>3, <1>7, <2>2, PlaceFacts DEF CInv, SessionInv
  <2> QED BY <1>2, <1>3, <1>5, <2>1, <2>3, <2>4 DEF CInv
<1>8. CASE tid \in 2 .. 1 + Len(Periodic) /\ job = Periodic[tid - 1]
  <2>1. job \in PeriodicJobs /\ tid # nk_cli_tid /\ tid # timeout_tid
    <3>1. tid - 1 \in 1 .. Len(Periodic)
      BY <1>8, QueueRoom
    <3> QED BY <1>8, <3>1, PlaceFacts
  <2>2. job \notin Place
    BY <2>1, PlaceFacts
  <2>3. ThreadInv'
    BY <1>1, <1>3, <1>8, <2>1, <2>2 DEF ThreadInv, Place
  <2>4. ListenInv'
    BY <1>1, <1>3, <2>1, <2>2 DEF CInv, ListenInv, Deaf, Place
  <2>5. SessionInv'
    BY <1>1, <1>3, <2>1, <2>2 DEF CInv, SessionInv, Place
  <2> QED BY <1>2, <1>3, <1>5, <2>3, <2>4, <2>5 DEF CInv
<1>9. CASE tid = timeout_tid /\ job = "timeout"
  <2>1. ThreadInv'
    BY <1>1, <1>3, <1>9, PlaceFacts DEF ThreadInv, Place
  <2>2. ListenInv'
    BY <1>1, <1>3, <1>9, PlaceFacts DEF CInv, ListenInv, Deaf
  <2>3. SessionInv'
    BY <1>1, <1>3, <1>4, <1>9 DEF CInv, SessionInv
  <2> QED BY <1>2, <1>3, <1>5, <2>1, <2>2, <2>3 DEF CInv
<1> QED BY <1>6, <1>7, <1>8, <1>9

LEMMA ReturnStep ==
  ASSUME CInv, Return
  PROVE  CInv'
<1>1. /\ isr = "idle" /\ pc = "return" /\ pc' = "loop"
      /\ UNCHANGED <<cli_disabled, tty_mode, rx_buf_rd, waiting_rx_task>>
      /\ next_tid' = next_tid /\ main' = "loop"
  BY DEF Return, At, Goto, cli, reader, Sched!TaskReturn
<1>2. RingInv' /\ isr' = isr /\ hw' = hw /\ rx_buf_wr' = rx_buf_wr
  BY ThreadRing DEF CInv, Return
<1>3. SP!IInv' /\ SameQueue
  BY OtherEffect DEF CInv, Return
<1>4. ThreadInv'
  BY <1>1, PlaceFacts DEF ThreadInv, Place
<1>5. JobInv' /\ WakeInv' /\ OwnerInv'
  BY <1>1, <1>2, <1>3 DEF CInv, JobInv, WakeInv, OwnerInv, SameQueue
<1>6. ListenInv'
  BY <1>1, <1>3 DEF CInv, ListenInv, Deaf, SameQueue
<1>7. SessionInv'
  BY <1>1, <1>3 DEF CInv, SessionInv, SameQueue
<1> QED BY <1>2, <1>3, <1>4, <1>5, <1>6, <1>7 DEF CInv

LEMMA PokeStep ==
  ASSUME CInv, Poke
  PROVE  CInv'
<1>1. /\ isr = "idle" /\ pc \in PeriodicJobs /\ pc' = "return"
      /\ UNCHANGED <<cli_disabled, tty_mode, rx_buf_rd, waiting_rx_task>>
      /\ Sched!nk_sched(current_tid, pc, Wait)
      /\ current_tid \in 2 .. 1 + Len(Periodic)
      /\ Periodic[current_tid - 1] = pc
  BY DEF Poke, Goto, cli, reader, CInv, ThreadInv
<1>2. RingInv' /\ isr' = isr /\ hw' = hw /\ rx_buf_wr' = rx_buf_wr
  BY ThreadRing DEF CInv, Poke
<1> DEFINE tid == current_tid
           job == pc
<1>3. tid # nk_cli_tid /\ tid # timeout_tid /\ pc \notin Place
  BY <1>1, PlaceFacts
<1>4. /\ SP!IInv'
      /\ \A t, j : Waits(t, j)' <=> IF t = tid THEN j = job ELSE Waits(t, j)
      /\ \A t : InQueue(t)' <=> (t = tid \/ InQueue(t))
      /\ next_tid' = next_tid /\ current_tid' = current_tid /\ main' = main
  BY <1>1, PlaceFacts, SchedEffect DEF CInv
<1>5. ThreadInv'
  BY <1>1, <1>3, <1>4, PlaceFacts DEF CInv, ThreadInv, Place
<1>6. JobInv'
  BY <1>1, <1>4 DEF CInv, JobInv
<1>7. WakeInv' /\ OwnerInv'
  BY <1>1, <1>2, <1>3, <1>4 DEF CInv, WakeInv, OwnerInv
<1>8. ListenInv'
  BY <1>1, <1>3, <1>4 DEF CInv, ListenInv, Deaf, Place
<1>9. SessionInv'
  BY <1>1, <1>3, <1>4 DEF CInv, SessionInv, Place
<1> QED BY <1>2, <1>4, <1>5, <1>6, <1>7, <1>8, <1>9 DEF CInv

\* The steps that touch neither the queue nor the callback: reading, and
\* what a task does between its calls.
LEMMA QuietStep ==
  ASSUME CInv, isr = "idle", UNCHANGED <<sched, uart, waiting_rx_task>>,
         nk_getc \/ UNCHANGED reader,
         nk_getc => Deaf,
         Deaf' <=> Deaf, pc' = "ymodem_wait" \/ pc # "ymodem_wait",
         cli_disabled' = cli_disabled \/ Deaf,
         pc \in Place \ {"boot", "boot_sched", "loop"},
         pc' \in Place \ {"boot", "boot_sched", "loop"},
         SessionInv'
  PROVE  CInv'
<1>1. RingInv' /\ isr' = isr /\ hw' = hw /\ rx_buf_wr' = rx_buf_wr
  BY ThreadRing DEF CInv
<1>2. /\ SP!IInv' /\ SameQueue
      /\ next_tid' = next_tid /\ current_tid' = current_tid /\ main' = main
  BY IdleEffect DEF CInv
<1>3. waiting_rx_task' = waiting_rx_task
  OBVIOUS
<1>4. ThreadInv'
  BY <1>2, PlaceFacts DEF CInv, ThreadInv, Place
<1>5. JobInv'
  BY <1>2 DEF CInv, JobInv, SameQueue
<1>6. CASE Deaf
  <2>1. waiting_rx_task = "none" /\ ~ InQueue(nk_cli_tid)
    BY <1>6 DEF CInv, ListenInv
  <2>2. \A j \in Job : ~ Waits(nk_cli_tid, j)
    BY <2>1 DEF InQueue
  <2>3. WakeInv' /\ OwnerInv'
    BY <1>1, <1>2, <1>3, <2>1, <2>2 DEF WakeInv, OwnerInv, SameQueue, Job
  <2>4. ListenInv'
    BY <1>2, <1>3, <1>6, <2>1 DEF ListenInv, SameQueue
  <2> QED BY <1>1, <1>2, <1>4, <1>5, <2>3, <2>4 DEF CInv
<1>7. CASE ~ Deaf
  <2>1. rx_buf_rd' = rx_buf_rd /\ cli_disabled' = cli_disabled
    BY <1>7 DEF reader
  <2>2. WakeInv' /\ OwnerInv'
    BY <1>1, <1>2, <1>3, <2>1 DEF CInv, WakeInv, OwnerInv, SameQueue
  <2>3. ListenInv'
    BY <1>2, <1>3, <1>7 DEF CInv, ListenInv, SameQueue
  <2> QED BY <1>1, <1>2, <1>4, <1>5, <2>2, <2>3 DEF CInv
<1> QED BY <1>6, <1>7

LEMMA PromptStep ==
  ASSUME CInv, PromptChar \/ PromptNoChar \/ Command
  PROVE  CInv'
<1>1. /\ isr = "idle" /\ UNCHANGED <<sched, uart, waiting_rx_task>>
      /\ UNCHANGED <<cli_disabled, tty_mode>>
      /\ nk_getc \/ UNCHANGED reader
      /\ pc \in {"prompt", "command"}
      /\ pc' \in {"prompt", "command", "prompt_wait", "handle_cmd"}
  BY DEF PromptChar, PromptNoChar, Command, At, Goto, NoChar, cli
<1>2. cli_disabled = FALSE
  BY <1>1 DEF CInv, SessionInv
<1>3. SameQueue
  BY <1>1, IdleEffect DEF CInv
<1>4. SessionInv'
  BY <1>1, <1>2, <1>3 DEF CInv, SessionInv, SameQueue
<1>5. Deaf /\ Deaf'
  BY <1>1, <1>2 DEF Deaf
<1>6. pc \in Place \ {"boot", "boot_sched", "loop"}
      /\ pc' \in Place \ {"boot", "boot_sched", "loop"}
  BY <1>1 DEF Place
<1> QED BY <1>1, <1>4, <1>5, <1>6, QuietStep

\* The command "ymodem" takes the console from the CLI.
LEMMA YrecvStep ==
  ASSUME CInv, Yrecv
  PROVE  CInv'
<1>1. /\ isr = "idle" /\ UNCHANGED <<sched, uart, waiting_rx_task, reader>>
      /\ cli_disabled' = TRUE /\ tty_mode' = 1
      /\ pc = "command" /\ pc' = "yrecv_tid"
  BY DEF Yrecv, At, Goto
<1>2. SessionInv'
  <2>1. cli_disabled' \in BOOLEAN /\ cli_disabled'
    BY <1>1
  <2> QED BY <1>1, <2>1 DEF SessionInv
<1>3. Deaf /\ Deaf'
  BY <1>1 DEF Deaf
<1>4. pc \in Place \ {"boot", "boot_sched", "loop"}
      /\ pc' \in Place \ {"boot", "boot_sched", "loop"}
  BY <1>1 DEF Place
<1> QED BY <1>1, <1>2, <1>3, <1>4, QuietStep

LEMMA YrecvTidStep ==
  ASSUME CInv, YrecvTid
  PROVE  CInv'
<1>1. /\ isr = "idle" /\ pc = "yrecv_tid" /\ pc' = "yrecv_wait"
      /\ UNCHANGED <<cli_disabled, tty_mode, rx_buf_rd, waiting_rx_task>>
      /\ Sched!nk_alloc_tid \/ UNCHANGED sched
  BY DEF YrecvTid, At, Goto, cli, reader
<1>2. RingInv' /\ isr' = isr /\ hw' = hw /\ rx_buf_wr' = rx_buf_wr
  BY ThreadRing DEF CInv, YrecvTid
<1>3. SP!IInv' /\ SameQueue /\ main' = main
  <2>1. CASE Sched!nk_alloc_tid
    BY <2>1, OtherEffect DEF CInv, Sched!nk_alloc_tid
  <2>2. CASE UNCHANGED sched
    BY <2>2, IdleEffect DEF CInv
  <2> QED BY <1>1, <2>1, <2>2
<1>4. ThreadInv'
  BY <1>1, <1>3, PlaceFacts DEF CInv, ThreadInv, Place
<1>5. JobInv' /\ WakeInv' /\ OwnerInv'
  BY <1>1, <1>2, <1>3 DEF CInv, JobInv, WakeInv, OwnerInv, SameQueue
<1>6. ListenInv'
  BY <1>1, <1>3 DEF CInv, ListenInv, Deaf, SameQueue
<1>7. SessionInv'
  BY <1>1, <1>3 DEF CInv, SessionInv, SameQueue
<1> QED BY <1>2, <1>3, <1>4, <1>5, <1>6, <1>7 DEF CInv

\* The time-out is started, at the beginning of a session and after a packet.
LEMMA TimerStep ==
  ASSUME CInv, YrecvTimer \/ YmodemTimer
  PROVE  CInv'
<1>1. /\ isr = "idle" /\ pc \in {"yrecv_timer", "ymodem_timer"}
      /\ pc' \in {"handle_cmd", "return"}
      /\ UNCHANGED <<cli_disabled, tty_mode, rx_buf_rd, waiting_rx_task>>
      /\ Sched!nk_sched(timeout_tid, "timeout", Wait) /\ "timeout" \in Job
      /\ UNCHANGED <<uart, reader>>
  BY DEF YrecvTimer, YmodemTimer, At, Goto, cli, reader, Job
<1>2. RingInv' /\ isr' = isr /\ hw' = hw /\ rx_buf_wr' = rx_buf_wr
  BY <1>1, ThreadRing DEF CInv
<1>3. /\ SP!IInv'
      /\ \A t, j : Waits(t, j)' <=> IF t = timeout_tid THEN j = "timeout"
                                    ELSE Waits(t, j)
      /\ \A t : InQueue(t)' <=> (t = timeout_tid \/ InQueue(t))
      /\ next_tid' = next_tid /\ current_tid' = current_tid /\ main' = main
  BY <1>1, PlaceFacts, SchedEffect DEF CInv
<1>4. cli_disabled = TRUE
  BY <1>1 DEF CInv, SessionInv
<1>5. ThreadInv'
  BY <1>1, <1>3, PlaceFacts DEF CInv, ThreadInv, Place
<1>6. JobInv'
  BY <1>3 DEF CInv, JobInv
<1>7. WakeInv' /\ OwnerInv'
  BY <1>1, <1>2, <1>3, PlaceFacts DEF CInv, WakeInv, OwnerInv
<1>8. ListenInv'
  BY <1>1, <1>3, <1>4, PlaceFacts DEF CInv, ListenInv, Deaf
<1>9. SessionInv'
  BY <1>1, <1>3, <1>4 DEF CInv, SessionInv
<1> QED BY <1>2, <1>3, <1>5, <1>6, <1>7, <1>8, <1>9 DEF CInv

LEMMA YmodemReadStep ==
  ASSUME CInv, YmodemChar \/ YmodemDone
  PROVE  CInv'
<1>1. /\ isr = "idle" /\ UNCHANGED <<sched, uart, waiting_rx_task>>
      /\ cli_disabled' = cli_disabled
      /\ nk_getc \/ UNCHANGED reader
      /\ \/ /\ pc = "ymodem" /\ pc' \in {"ymodem", "ymodem_done"}
            /\ tty_mode' = tty_mode
         \/ pc = "ymodem_done" /\ pc' = "ymodem_enable" /\ tty_mode' = 0
  BY DEF YmodemChar, YmodemDone, At, Goto, cli
<1>2. cli_disabled = TRUE
  BY <1>1 DEF CInv, SessionInv
<1>3. SameQueue
  BY <1>1, IdleEffect DEF CInv
<1>4. SessionInv'
  BY <1>1, <1>2, <1>3 DEF CInv, SessionInv, SameQueue
<1>5. Deaf /\ Deaf'
  BY <1>1 DEF Deaf
<1>6. pc \in Place \ {"boot", "boot_sched", "loop"}
      /\ pc' \in Place \ {"boot", "boot_sched", "loop"}
  BY <1>1 DEF Place
<1> QED BY <1>1, <1>4, <1>5, <1>6, QuietStep

\* On the way to nk_set_uart_callback: after the last character nobody
\* listens, after a time-out the receiver does.
LEMMA YmodemPauseStep ==
  ASSUME CInv, YmodemNoChar \/ YmodemTimeout
  PROVE  CInv'
<1>1. /\ isr = "idle" /\ UNCHANGED <<sched, uart, waiting_rx_task>>
      /\ UNCHANGED <<cli_disabled, tty_mode>> /\ UNCHANGED reader
      /\ pc \in {"ymodem", "timeout"} /\ pc' = "ymodem_wait"
  BY DEF YmodemNoChar, YmodemTimeout, At, Goto, NoChar, cli
<1>2. RingInv' /\ isr' = isr /\ hw' = hw /\ rx_buf_wr' = rx_buf_wr
  BY <1>1, ThreadRing DEF CInv
<1>3. /\ SP!IInv' /\ SameQueue
      /\ next_tid' = next_tid /\ current_tid' = current_tid /\ main' = main
  BY <1>1, IdleEffect DEF CInv
<1>4. cli_disabled = TRUE /\ rx_buf_rd' = rx_buf_rd
  BY <1>1 DEF CInv, SessionInv, reader
<1>5. ThreadInv'
  BY <1>1, <1>3, PlaceFacts DEF CInv, ThreadInv, Place
<1>6. JobInv' /\ WakeInv' /\ OwnerInv'
  BY <1>1, <1>2, <1>3, <1>4 DEF CInv, JobInv, WakeInv, OwnerInv, SameQueue
<1>7. ListenInv'
  BY <1>1, <1>3 DEF CInv, ListenInv, Deaf, SameQueue
<1>8. SessionInv'
  BY <1>1, <1>4 DEF CInv, SessionInv
<1> QED BY <1>2, <1>3, <1>5, <1>6, <1>7, <1>8 DEF CInv

\* The end of a session cancels the time-out, if there is one.
LEMMA YmodemUnschedStep ==
  ASSUME CInv, YmodemUnsched
  PROVE  CInv'
<1>1. /\ isr = "idle" /\ pc = "ymodem_unsched" /\ pc' = "return"
      /\ UNCHANGED <<cli_disabled, tty_mode, rx_buf_rd, waiting_rx_task>>
      /\ cli_disabled = FALSE
  BY DEF YmodemUnsched, At, Goto, cli, reader, CInv, SessionInv
<1>2. RingInv' /\ isr' = isr /\ hw' = hw /\ rx_buf_wr' = rx_buf_wr
  BY ThreadRing DEF CInv, YmodemUnsched
<1>3. /\ SP!IInv'
      /\ \A t, j : Waits(t, j)' <=> t # timeout_tid /\ Waits(t, j)
      /\ \A t : InQueue(t)' <=> t # timeout_tid /\ InQueue(t)
      /\ next_tid' = next_tid /\ current_tid' = current_tid /\ main' = main
  <2>1. CASE Sched!Queued(timeout_tid)
    <3>1. Sched!nk_unsched(timeout_tid)
      BY <2>1 DEF YmodemUnsched
    <3> QED BY <3>1, PlaceFacts, UnschedEffect DEF CInv
  <2>2. CASE ~ Sched!Queued(timeout_tid)
    <3>1. UNCHANGED sched
      BY <2>2 DEF YmodemUnsched
    <3>2. ~ InQueue(timeout_tid)
      BY <2>2, QueuedMeans DEF CInv
    <3>3. \A j : ~ Waits(timeout_tid, j)
      BY <3>2, WaitsType DEF CInv, InQueue
    <3>4. /\ SP!IInv' /\ SameQueue
          /\ next_tid' = next_tid /\ current_tid' = current_tid /\ main' = main
      BY <3>1, IdleEffect DEF CInv
    <3> QED BY <3>2, <3>3, <3>4 DEF SameQueue
  <2> QED BY <2>1, <2>2
<1>4. ThreadInv'
  BY <1>1, <1>3, PlaceFacts DEF CInv, ThreadInv, Place
<1>5. JobInv' /\ WakeInv' /\ OwnerInv'
  BY <1>1, <1>2, <1>3 DEF CInv, JobInv, WakeInv, OwnerInv
<1>6. ListenInv'
  BY <1>1, <1>3, PlaceFacts DEF CInv, ListenInv, Deaf
<1>7. SessionInv'
  BY <1>1, <1>3 DEF CInv, SessionInv
<1> QED BY <1>2, <1>3, <1>4, <1>5, <1>6, <1>7 DEF CInv

-----------------------------------------------------------------------------
(***************************************************************************)
(* The invariant, and what follows from it.                                *)
(***************************************************************************)

LEMMA InitCInv == Init => CInv
<1> SUFFICES ASSUME Init PROVE CInv
  OBVIOUS
<1>1. SP!IInv
  <2>1. SP!Init
    BY SameInit DEF Init
  <2>2. SP!TInv
    BY <2>1, QueueAssumption, SP!InitIInv
  <2> QED BY <2>2 DEF SP!TInv
<1>2. RingInv
  BY InitRing
<1>3. /\ queue = << >> /\ main = "init" /\ next_tid = 0 /\ pc = "boot"
      /\ isr = "idle" /\ waiting_rx_task = "none" /\ cli_disabled = FALSE
      /\ tty_mode = 0
  BY DEF Init, Sched!Init
<1>4. \A tid, job : ~ Waits(tid, job)
  BY <1>3 DEF Waits, SP!Waits
<1>5. \A tid : ~ InQueue(tid)
  BY <1>4 DEF InQueue
<1>6. ThreadInv
  BY <1>3, QueueRoom, PlaceFacts DEF ThreadInv, Place
<1>7. JobInv /\ WakeInv /\ OwnerInv
  BY <1>3, <1>4 DEF JobInv, WakeInv, OwnerInv
<1>8. ListenInv
  BY <1>3, <1>5 DEF ListenInv, Deaf
<1>9. SessionInv
  <2>1. cli_disabled \in BOOLEAN /\ ~ cli_disabled
    BY <1>3
  <2> QED BY <1>3, <1>5, <2>1 DEF SessionInv
<1> QED BY <1>1, <1>2, <1>6, <1>7, <1>8, <1>9 DEF CInv

LEMMA StutterCInv == ASSUME CInv, UNCHANGED vars PROVE CInv'
<1>1. /\ SP!IInv' /\ SameQueue
      /\ next_tid' = next_tid /\ current_tid' = current_tid /\ main' = main
  BY IdleEffect DEF CInv, vars
<1>2. RingInv'
  BY SameRing DEF CInv, RingInv, vars, uart
<1>3. /\ UNCHANGED <<pc, hw, isr, rx_buf_rd, rx_buf_wr, waiting_rx_task>>
      /\ UNCHANGED <<cli_disabled, tty_mode>>
  BY DEF vars, uart, reader, cli
<1> QED BY <1>1, <1>2, <1>3 DEF CInv, SameQueue, ThreadInv, JobInv, WakeInv,
                                Deaf, ListenInv, OwnerInv, SessionInv

LEMMA NextCInv == ASSUME CInv, [Next]_vars PROVE CInv'
<1>1. CASE Isr
  <2>1. CASE IsrSpin
    BY <2>1, StutterCInv DEF IsrSpin
  <2> QED BY <1>1, <2>1, IsrEnterStep, IsrRxStep, IsrRetStep DEF Isr
<1>2. CASE Thread
  BY <1>2, BootAllocStep, BootSchedStep, BootDoneStep, DispatchStep, ReturnStep,
     PokeStep, HandleCmdEndStep, PromptStep, PromptWaitStep, YrecvStep,
     YrecvTidStep, YrecvWaitStep, TimerStep, YmodemReadStep, YmodemPauseStep,
     YmodemWaitStep, YmodemEnableStep, YmodemUnschedStep DEF Thread
<1>3. CASE Arrive
  BY <1>3, ArriveStep
<1>4. CASE Tick
  BY <1>4, TickStep
<1>5. CASE UNCHANGED vars
  BY <1>5, StutterCInv
<1> QED BY <1>1, <1>2, <1>3, <1>4, <1>5 DEF Next

LEMMA SpecCInv == Spec => []CInv
<1>1. Init => CInv
  BY InitCInv
<1>2. CInv /\ [Next]_vars => CInv'
  BY NextCInv
<1> QED BY <1>1, <1>2, PTL DEF Spec

\* Every variable of the console has its type, for a ring of any size and
\* any number of periodic tasks: indices stay in range across their wrap,
\* and the work queue below is never asked for something it cannot hold.
THEOREM ConsoleTypes == Spec => []TypeOK
<1>1. ASSUME CInv PROVE TypeOK
  <2>1. Sched!TypeOK
    BY <1>1, SameType DEF CInv, SP!IInv
  <2>2. waiting_rx_task \in Job \cup {"none"}
    BY <1>1 DEF CInv, ListenInv, Job
  <2> QED BY <1>1, <2>1, <2>2
          DEF TypeOK, CInv, RingInv, ThreadInv, SessionInv
<1> QED BY <1>1, SpecCInv, PTL

\* The characters the receiver accepts are handed to the readers once each
\* and in order, whatever the interleaving of on_uart_rx and nk_getc, and
\* although both indices and the ring wrap.
THEOREM CharactersInOrder == Spec => []InOrder
<1>1. CInv => InOrder
  BY DEF CInv, RingInv
<1> QED BY <1>1, SpecCInv, PTL

\* When the main loop looks for work exactly one task listens to the console,
\* in the queue or in the callback, and it is the one in charge: the hand-over
\* between the CLI and YMODEM never leaves two or none.
THEOREM ExactlyOneListener == Spec => []OneListener
<1>1. ASSUME CInv PROVE OneListener
  <2> SUFFICES ASSUME main = "loop" PROVE OneListener
    BY DEF OneListener
  <2>1. pc = "loop" /\ ~ Deaf
    BY <1>1 DEF CInv, ThreadInv, Deaf
  <2>2. Sched!Queued(nk_cli_tid) <=> waiting_rx_task = "none"
    BY <1>1, <2>1, QueuedMeans DEF CInv, ListenInv
  <2> DEFINE owners == IF cli_disabled THEN {"ymodem"} ELSE {"prompt", "handle_cmd"}
  <2>3. ASSUME NEW i \in DOMAIN queue, queue[i].tid = nk_cli_tid
        PROVE  queue[i].job \in owners
    <3>1. i \in 1 .. Len(queue)
      BY <1>1 DEF CInv, SP!IInv, SP!TypeOK
    <3>2. Waits(nk_cli_tid, queue[i].job)
      BY <2>3, <3>1 DEF Waits, SP!Waits
    <3>3. queue[i].job \in Job
      BY <1>1, <3>2, WaitsType DEF CInv
    <3> QED BY <1>1, <3>2, <3>3 DEF CInv, OwnerInv
  <2>4. waiting_rx_task # "none" => waiting_rx_task \in owners
    BY <1>1 DEF CInv, OwnerInv
  <2> HIDE DEF owners
  <2>5. Listeners \subseteq owners
    BY <2>3, <2>4 DEF Listeners
  <2> QED BY <2>2, <2>5 DEF OneListener, owners
<1> QED BY <1>1, SpecCInv, PTL

\* No wake-up is lost between nk_getc returning -1 and the registration of
\* the callback, wherever the interrupt strikes.
THEOREM WakeupsKept == Spec => []NoLostWakeup
<1>1. ASSUME CInv PROVE NoLostWakeup
  <2> SUFFICES ASSUME main = "loop", isr = "idle", rx_buf_rd # rx_buf_wr
               PROVE  Sched!Queued(nk_cli_tid)
    BY DEF NoLostWakeup
  <2>1. pc = "loop" /\ ~ Deaf
    BY <1>1 DEF CInv, ThreadInv, Deaf
  <2>2. waiting_rx_task = "none"
    BY <1>1 DEF CInv, WakeInv
  <2> QED BY <1>1, <2>1, <2>2, QueuedMeans DEF CInv, ListenInv
<1> QED BY <1>1, SpecCInv, PTL

\* Between tasks a YMODEM session is on exactly as long as its time-out is in
\* the queue and the terminal is raw: no session can hang without a time-out
\* and no time-out outlives its session.
THEOREM SessionsTimed == Spec => []SessionTimed
<1>1. ASSUME CInv PROVE SessionTimed
  <2> SUFFICES ASSUME main = "loop" PROVE SessionTimed
    BY DEF SessionTimed
  <2>1. pc = "loop"
    BY <1>1 DEF CInv, ThreadInv
  <2>2. Sched!Queued(timeout_tid) <=> InQueue(timeout_tid)
    BY <1>1, QueuedMeans DEF CInv
  <2> QED BY <1>1, <2>1, <2>2 DEF CInv, SessionInv, SessionTimed
<1> QED BY <1>1, SpecCInv, PTL

=============================================================================
