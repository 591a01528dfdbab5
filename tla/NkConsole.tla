------------------------------ MODULE NkConsole ------------------------------
(***************************************************************************)
(* The console: the receive interrupt of the UART and its ring buffer      *)
(* (src/nkuart_pico.c), the command line interface and the line editor     *)
(* that read from it (nkcli.c, nkreadline.c), the YMODEM receiver that     *)
(* takes the UART over for the time of a transfer (nkymodem.c), and the    *)
(* work queue through which the interrupt wakes them (module NkSched).     *)
(*                                                                         *)
(* Tasks and main() are one thread of control; the interrupt handler may   *)
(* run between any two of its steps, and it runs to its end before the     *)
(* thread goes on.  A step of the thread is one critical section           *)
(* (nk_irq_lock ... nk_irq_unlock) or code that touches nothing shared.    *)
(*                                                                         *)
(* Characters are numbers: the n-th character that the receiver accepts is *)
(* n % CharMod.  What a character does to the line or to a packet is a     *)
(* choice.  A character that arrives while the one before it is still in   *)
(* the holding register is lost in the hardware (the FIFO is off, there    *)
(* is no flow control): it is no step here.                                *)
(***************************************************************************)
EXTENDS Integers, Sequences

CONSTANTS
  RxSize,     \* NK_UART_RXBUF_SIZE, a power of 2
  IndexMod,   \* the range of rx_buf_rd and rx_buf_wr (2^32), a multiple of RxSize
  CharMod,    \* bound: characters are numbered modulo this
  Periodic,   \* the jobs that keep resubmitting themselves, in boot order
  Wait,       \* their delay and the time-out of YMODEM, in ms
  TicksPerMs, Half, QueueSize, MaxLate  \* see NkSched

VARIABLES
  queue, free, now, next_tid, current_tid, main, call,  \* see NkSched
  hw,               \* the character in the receiver's holding register, or None
  isr,              \* on_uart_rx: "idle" or "run"
  rx_buf, rx_buf_rd, rx_buf_wr,
  waiting_rx_task,  \* the job to submit when data arrives (always for nk_cli_tid)
  cli_disabled,
  tty_mode,         \* 1: YMODEM owns the terminal
  pc,               \* what the task that is running does next
  arrived, taken    \* ghosts: number of the next character to arrive, to be read

sched == <<queue, free, now, next_tid, current_tid, main, call>>
uart == <<hw, isr, rx_buf, rx_buf_wr, arrived>>
reader == <<rx_buf_rd, taken>>
cli == <<cli_disabled, tty_mode>>
vars == <<sched, uart, reader, waiting_rx_task, cli, pc>>

None == -1
nk_cli_tid == 1
timeout_tid == 2 + Len(Periodic)

PeriodicJobs == {Periodic[i] : i \in DOMAIN Periodic}
Job == {"handle_cmd", "prompt", "ymodem", "timeout"} \cup PeriodicJobs

\* The other places of the thread: where a task is called and what it does
\* after each of its steps.
Place ==
  {"boot", "boot_sched", "loop", "return",
   "handle_cmd", "prompt", "prompt_wait", "command",
   "yrecv_tid", "yrecv_wait", "yrecv_timer",
   "ymodem", "ymodem_wait", "ymodem_timer", "timeout",
   "ymodem_done", "ymodem_enable", "ymodem_unsched"}

Sched == INSTANCE NkSched WITH MaxTid <- timeout_tid, Delay <- {0, Wait}

(***************************************************************************)
(* The ring is smaller than the range of its indices and divides it, and   *)
(* the work queue has an item for every task id this firmware allocates    *)
(* (NK_WORK_QUEUE_SIZE is 20).                                             *)
(***************************************************************************)
ASSUME ConsoleAssumption ==
  /\ RxSize \in Nat \ {0}
  /\ IndexMod \in Nat /\ RxSize < IndexMod /\ IndexMod % RxSize = 0
  /\ CharMod \in Nat \ {0}
  /\ Periodic \in Seq(STRING)
  /\ PeriodicJobs \cap (Place \cup {"none"}) = {}
  /\ Wait \in Nat
  /\ TicksPerMs \in Nat \ {0}
  /\ Half \in Nat \ {0}
  /\ QueueSize \in Nat /\ timeout_tid <= QueueSize - 1
  /\ MaxLate \in Nat

-----------------------------------------------------------------------------
(***************************************************************************)
(* The receive interrupt.                                                  *)
(***************************************************************************)

Used == (rx_buf_wr - rx_buf_rd) % IndexMod
Slot(index) == index % RxSize
InFlight == (arrived - taken) % CharMod

Arrive ==
  /\ hw = None
  /\ hw' = arrived
  /\ arrived' = (arrived + 1) % CharMod
  /\ UNCHANGED <<sched, isr, rx_buf, rx_buf_wr, reader, waiting_rx_task, cli, pc>>

IsrEnter ==
  /\ isr = "idle"
  /\ hw # None
  /\ isr' = "run"
  /\ UNCHANGED <<sched, hw, rx_buf, rx_buf_wr, arrived, reader, waiting_rx_task, cli, pc>>

\* Mutant: a full buffer is overwritten.
HasRoomAlways == TRUE

HasRoom == Used # RxSize

IsrRx ==
  /\ isr = "run"
  /\ hw # None
  /\ HasRoom
  /\ rx_buf' = [rx_buf EXCEPT ![Slot(rx_buf_wr)] = hw]
  /\ rx_buf_wr' = (rx_buf_wr + 1) % IndexMod
  /\ hw' = None
  /\ UNCHANGED <<sched, isr, arrived, reader, waiting_rx_task, cli, pc>>

\* The buffer is full: the character stays in the receiver, uart_is_readable
\* stays true and the loop of rx_chars goes round.
IsrSpin ==
  /\ isr = "run"
  /\ hw # None
  /\ ~ HasRoom
  /\ UNCHANGED vars

\* Mutants: the callback is cleared and nothing is submitted; it is submitted
\* and stays registered.
IsrRetSilent ==
  /\ isr = "run"
  /\ hw = None
  /\ isr' = "idle"
  /\ waiting_rx_task' = "none"
  /\ UNCHANGED <<sched, hw, rx_buf, rx_buf_wr, arrived, reader, cli, pc>>

IsrRetKeeps ==
  /\ isr = "run"
  /\ hw = None
  /\ isr' = "idle"
  /\ \/ /\ waiting_rx_task # "none"
        /\ Sched!nk_sched(nk_cli_tid, waiting_rx_task, 0)
     \/ /\ waiting_rx_task = "none"
        /\ UNCHANGED sched
  /\ UNCHANGED <<waiting_rx_task, hw, rx_buf, rx_buf_wr, arrived, reader, cli, pc>>

\* Nothing more to read: submit the waiting task, once.
IsrRet ==
  /\ isr = "run"
  /\ hw = None
  /\ isr' = "idle"
  /\ \/ /\ waiting_rx_task # "none"
        /\ Sched!nk_sched(nk_cli_tid, waiting_rx_task, 0)
        /\ waiting_rx_task' = "none"
     \/ /\ waiting_rx_task = "none"
        /\ UNCHANGED <<sched, waiting_rx_task>>
  /\ UNCHANGED <<hw, rx_buf, rx_buf_wr, arrived, reader, cli, pc>>

Isr == IsrEnter \/ IsrRx \/ IsrSpin \/ IsrRet

-----------------------------------------------------------------------------
(***************************************************************************)
(* What the thread calls: nk_set_uart_callback and nk_getc.                *)
(***************************************************************************)

\* The thread is at this place, and no interrupt is being served.
At(place) == isr = "idle" /\ pc = place
Goto(place) == pc' = place

\* Mutant: the task is registered also when data is there already.
nk_set_uart_callback_late(job) ==
  /\ waiting_rx_task' = job
  /\ UNCHANGED sched

nk_set_uart_callback(job) ==
  \/ /\ rx_buf_rd # rx_buf_wr
     /\ Sched!nk_sched(nk_cli_tid, job, 0)
     /\ waiting_rx_task' = "none"
  \/ /\ rx_buf_rd = rx_buf_wr
     /\ waiting_rx_task' = job
     /\ UNCHANGED sched

\* nk_getc returns a character ...
nk_getc ==
  /\ rx_buf_rd # rx_buf_wr
  /\ rx_buf_rd' = (rx_buf_rd + 1) % IndexMod
  /\ taken' = (taken + 1) % CharMod

\* ... or -1.
NoChar == rx_buf_rd = rx_buf_wr /\ UNCHANGED reader

-----------------------------------------------------------------------------
(***************************************************************************)
(* main(): the CLI, the watchdog and the LED each allocate a task id and   *)
(* submit their first task; then the work queue takes over.                *)
(***************************************************************************)

BootAlloc ==
  /\ At("boot")
  /\ next_tid < 1 + Len(Periodic)
  /\ Sched!nk_alloc_tid
  /\ Goto("boot_sched")
  /\ UNCHANGED <<uart, reader, waiting_rx_task, cli>>

BootSched ==
  /\ At("boot_sched")
  /\ IF next_tid = nk_cli_tid THEN Sched!nk_sched(next_tid, "handle_cmd", 0)
     ELSE Sched!nk_sched(next_tid, Periodic[next_tid - 1], Wait)
  /\ Goto("boot")
  /\ UNCHANGED <<uart, reader, waiting_rx_task, cli>>

BootDone ==
  /\ At("boot")
  /\ next_tid = 1 + Len(Periodic)
  /\ Sched!EnterLoop
  /\ Goto("loop")
  /\ UNCHANGED <<uart, reader, waiting_rx_task, cli>>

\* The main loop calls the first task, which starts at the place of its name.
Dispatch ==
  /\ At("loop")
  /\ Sched!Dispatch
  /\ Goto(Head(queue).job)
  /\ UNCHANGED <<uart, reader, waiting_rx_task, cli>>

Return ==
  /\ At("return")
  /\ Sched!TaskReturn
  /\ Goto("loop")
  /\ UNCHANGED <<uart, reader, waiting_rx_task, cli>>

\* wdt_poke and led_blinker submit themselves again.
Poke ==
  /\ isr = "idle"
  /\ pc \in PeriodicJobs
  /\ Sched!nk_sched(current_tid, pc, Wait)
  /\ Goto("return")
  /\ UNCHANGED <<uart, reader, waiting_rx_task, cli>>

-----------------------------------------------------------------------------
(***************************************************************************)
(* The command line interface.                                             *)
(***************************************************************************)

\* The end of handle_cmd (at start-up it is called with no command, so this
\* is all of it): ask for a line, unless a command has disabled the CLI.
HandleCmdEnd ==
  /\ At("handle_cmd")
  /\ IF cli_disabled THEN UNCHANGED <<sched, waiting_rx_task>>
     ELSE nk_set_uart_callback("prompt")
  /\ Goto("return")
  /\ UNCHANGED <<uart, reader, cli>>

\* prompt_task reads a character: it edits the line or it is Enter, and the
\* line goes to process_cmd.
PromptChar ==
  /\ At("prompt")
  /\ nk_getc
  /\ Goto("prompt") \/ Goto("command")
  /\ UNCHANGED <<sched, uart, waiting_rx_task, cli>>

PromptNoChar ==
  /\ At("prompt")
  /\ NoChar
  /\ Goto("prompt_wait")
  /\ UNCHANGED <<sched, uart, waiting_rx_task, cli>>

PromptWait ==
  /\ At("prompt_wait")
  /\ nk_set_uart_callback("prompt")
  /\ Goto("return")
  /\ UNCHANGED <<uart, reader, cli>>

\* Any command but "ymodem"; none of them touches this state.
Command ==
  /\ At("command")
  /\ Goto("handle_cmd")
  /\ UNCHANGED <<sched, uart, reader, waiting_rx_task, cli>>

-----------------------------------------------------------------------------
(***************************************************************************)
(* The YMODEM receiver.                                                    *)
(***************************************************************************)

\* The command "ymodem": nk_yrecv disables the CLI and CR insertion, ...
Yrecv ==
  /\ At("command")
  /\ cli_disabled' = TRUE
  /\ tty_mode' = 1
  /\ Goto("yrecv_tid")
  /\ UNCHANGED <<sched, uart, reader, waiting_rx_task>>

\* ... allocates its task id the first time, ...
YrecvTid ==
  /\ At("yrecv_tid")
  /\ IF next_tid < timeout_tid THEN Sched!nk_alloc_tid ELSE UNCHANGED sched
  /\ Goto("yrecv_wait")
  /\ UNCHANGED <<uart, reader, waiting_rx_task, cli>>

\* ... waits for data and starts the time-out, and returns to handle_cmd.
YrecvWait ==
  /\ At("yrecv_wait")
  /\ nk_set_uart_callback("ymodem")
  /\ Goto("yrecv_timer")
  /\ UNCHANGED <<uart, reader, cli>>

YrecvTimer ==
  /\ At("yrecv_timer")
  /\ Sched!nk_sched(timeout_tid, "timeout", Wait)
  /\ Goto("handle_cmd")
  /\ UNCHANGED <<uart, reader, waiting_rx_task, cli>>

\* ymodem_recv_task: a character is buffered, completes a packet, or
\* completes the packet with which the session is over.
YmodemChar ==
  /\ At("ymodem")
  /\ nk_getc
  /\ Goto("ymodem") \/ Goto("ymodem_done")
  /\ UNCHANGED <<sched, uart, waiting_rx_task, cli>>

YmodemNoChar ==
  /\ At("ymodem")
  /\ NoChar
  /\ Goto("ymodem_wait")
  /\ UNCHANGED <<sched, uart, waiting_rx_task, cli>>

\* The same task submitted with TIMEOUT: it asks the sender again; a
\* time-out never ends the session.
YmodemTimeout ==
  /\ At("timeout")
  /\ Goto("ymodem_wait")
  /\ UNCHANGED <<sched, uart, reader, waiting_rx_task, cli>>

YmodemWait ==
  /\ At("ymodem_wait")
  /\ nk_set_uart_callback("ymodem")
  /\ Goto("ymodem_timer")
  /\ UNCHANGED <<uart, reader, cli>>

YmodemTimer ==
  /\ At("ymodem_timer")
  /\ Sched!nk_sched(timeout_tid, "timeout", Wait)
  /\ Goto("return")
  /\ UNCHANGED <<uart, reader, waiting_rx_task, cli>>

\* process_full_outer at the end of a session: restore the terminal, wait
\* a second (with interrupts enabled), ...
YmodemDone ==
  /\ At("ymodem_done")
  /\ tty_mode' = 0
  /\ Goto("ymodem_enable")
  /\ UNCHANGED <<sched, uart, reader, waiting_rx_task, cli_disabled>>

\* ... nk_cli_enable, which asks for a line, ...
YmodemEnable ==
  /\ At("ymodem_enable")
  /\ IF cli_disabled
       THEN /\ cli_disabled' = FALSE
            /\ nk_set_uart_callback("prompt")
       ELSE UNCHANGED <<cli_disabled, sched, waiting_rx_task>>
  /\ Goto("ymodem_unsched")
  /\ UNCHANGED <<uart, reader, tty_mode>>

\* Mutant: the time-out is left in the queue.
YmodemUnschedSkipped ==
  /\ At("ymodem_unsched")
  /\ Goto("return")
  /\ UNCHANGED <<sched, uart, reader, waiting_rx_task, cli>>

\* ... and cancel the time-out.
YmodemUnsched ==
  /\ At("ymodem_unsched")
  /\ IF Sched!Queued(timeout_tid) THEN Sched!nk_unsched(timeout_tid)
     ELSE UNCHANGED sched
  /\ Goto("return")
  /\ UNCHANGED <<uart, reader, waiting_rx_task, cli>>

-----------------------------------------------------------------------------
Init ==
  /\ Sched!Init
  /\ hw = None
  /\ isr = "idle"
  /\ rx_buf = [i \in 0 .. RxSize - 1 |-> 0]
  /\ rx_buf_rd = 0
  /\ rx_buf_wr = 0
  /\ waiting_rx_task = "none"
  /\ cli_disabled = FALSE
  /\ tty_mode = 0
  /\ pc = "boot"
  /\ arrived = 0
  /\ taken = 0

Tick ==
  /\ Sched!Tick
  /\ UNCHANGED <<uart, reader, waiting_rx_task, cli, pc>>

Thread ==
  \/ BootAlloc \/ BootSched \/ BootDone \/ Dispatch \/ Return \/ Poke
  \/ HandleCmdEnd \/ PromptChar \/ PromptNoChar \/ PromptWait \/ Command
  \/ Yrecv \/ YrecvTid \/ YrecvWait \/ YrecvTimer
  \/ YmodemChar \/ YmodemNoChar \/ YmodemTimeout \/ YmodemWait \/ YmodemTimer
  \/ YmodemDone \/ YmodemEnable \/ YmodemUnsched

Next == Arrive \/ Isr \/ Thread \/ Tick

Spec == Init /\ [][Next]_vars

(***************************************************************************)
(* Fairness: the processor serves a pending interrupt and otherwise runs   *)
(* the thread, and the timer counts.  Nobody has to send anything.         *)
(***************************************************************************)
FairSpec == Spec /\ WF_vars(Isr) /\ WF_vars(Thread) /\ WF_vars(Tick)

-----------------------------------------------------------------------------
(***************************************************************************)
(* Properties.                                                             *)
(***************************************************************************)

\* The values each variable takes; the buffer never holds more than its size.
TypeOK ==
  /\ Sched!TypeOK
  /\ hw \in {None} \cup 0 .. CharMod - 1
  /\ isr \in {"idle", "run"}
  /\ rx_buf \in [0 .. RxSize - 1 -> 0 .. CharMod - 1]
  /\ rx_buf_rd \in 0 .. IndexMod - 1
  /\ rx_buf_wr \in 0 .. IndexMod - 1
  /\ waiting_rx_task \in Job \cup {"none"}
  /\ cli_disabled \in BOOLEAN
  /\ tty_mode \in {0, 1}
  /\ pc \in Place \cup PeriodicJobs
  /\ arrived \in 0 .. CharMod - 1
  /\ taken \in 0 .. CharMod - 1

\* Every character the receiver accepts is handed out once and in order:
\* the unread part of the buffer, then the holding register, is exactly the
\* stream from the next character to be read to the next one to arrive,
\* also across the wrap of the indices.
InOrder ==
  /\ Used <= RxSize
  /\ \A k \in 0 .. Used - 1 :
       rx_buf[Slot(rx_buf_rd + k)] = (taken + k) % CharMod
  /\ hw # None => hw = (taken + Used) % CharMod
  /\ arrived = (taken + Used + (IF hw = None THEN 0 ELSE 1)) % CharMod

\* The job waiting for the console, in the queue or in the callback.
Listeners ==
  {queue[i].job : i \in {k \in DOMAIN queue : queue[k].tid = nk_cli_tid}}
    \cup ({waiting_rx_task} \ {"none"})

\* Whenever the main loop looks for work exactly one task listens to the
\* console, in the queue or in the callback but not both, and it is the one
\* in charge: the receiver during a transfer, else the CLI.
OneListener ==
  main = "loop" =>
    /\ Sched!Queued(nk_cli_tid) <=> waiting_rx_task = "none"
    /\ Listeners \subseteq
         IF cli_disabled THEN {"ymodem"} ELSE {"prompt", "handle_cmd"}

\* No wake-up is lost between nk_getc returning -1 and the registration of
\* the callback: if the main loop runs and there is unread data, its reader
\* is in the queue.
NoLostWakeup ==
  main = "loop" /\ isr = "idle" /\ rx_buf_rd # rx_buf_wr
    => Sched!Queued(nk_cli_tid)

\* Between tasks a transfer is on exactly as long as its time-out is in the
\* queue and the terminal is in raw mode.
SessionTimed ==
  main = "loop" =>
    /\ cli_disabled <=> Sched!Queued(timeout_tid)
    /\ cli_disabled <=> tty_mode = 1

Unread(c) == \E k \in 0 .. InFlight - 1 : c = (taken + k) % CharMod

\* If the sender never has more than RxSize characters unread, every one is
\* read in the end, by whoever owns the console then.
EveryCharRead ==
  [](InFlight <= RxSize) =>
    \A c \in 0 .. CharMod - 1 : Unread(c) ~> ~ Unread(c)

\* The comment on rx_chars, "Transfer any available characters from UART
\* FIFO to input buffer" (nkuart_pico.c:112): the receiver is emptied.
ReceiverEmptied == hw # None ~> hw = None

=============================================================================
