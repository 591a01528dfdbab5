# TLA+ models of libnklabs-pico

`libnklabs-pico` is firmware for the Raspberry Pi Pico built on `libnklabs`, a
library of run-to-completion tasks, a serial command line, file transfer and
small files in flash. This directory holds TLA+ modules translated from its C
code, TLC configurations that check them on small instances, and proofs, for
every instance, of nearly all safety properties and of the refinements. Paths
below are relative to the repository (`src/`).

## The system

One core runs `main()` and one interrupt handler matters, that of the console
UART. There are no threads: everything else is a *task*, a function called by
the main loop of the work queue, which runs until it returns. Data shared
between tasks and the interrupt is protected by `nk_irq_lock` /
`nk_irq_unlock`, which mask interrupts (`nkarch_pico.h:40-67`).

| component | state | operations | who calls it |
|---|---|---|---|
| work queue `nksched.c` | list of items sorted by due time, free list, task ids | `nk_alloc_tid`, `nk_sched`, `nk_resched`, `nk_unsched`, `nk_check`, main loop | every task, the UART interrupt |
| console UART `nkuart_pico.c` | ring buffer, its two indices, one waiting callback, terminal mode | interrupt `on_uart_rx`, `nk_getc`, `nk_set_uart_callback`, `nk_set_uart_mode`, output | line editor, YMODEM |
| CLI `nkcli.c` | `cli_disabled` | `handle_cmd`, `nk_cli_enable/disable`, completion | line editor; commands run inside it |
| line editor `nkreadline.c` | line being edited, history buffer and index, escape mode | `prompt_task`: one step per key | work queue, when a character has come |
| YMODEM `nkymodem.c` | packet assembly, protocol state of receiver and sender, time-out task | `nk_yrecv`, `ymodem_recv_task`, `nk_ysend_file`, `nk_ysend_evt` | command `ymodem`; takes the console from the CLI and gives it back |
| update `nkymodem_cmd.c` | the file being written, boot flag in flash | open, write, close, cancel, all_done | YMODEM receiver, through function pointers |
| periodic tasks `wdt.c`, `led.c` | a task id each | poke the watchdog, blink | work queue |
| checked file `nkchecked.c` | size and CRC of the file being written | open, write, close; check on opening | database |
| database `nkdbase.c`, `database.c` | copy in RAM, its revision; two banks in flash | load, save, `dbase` commands | start-up, CLI |
| direct file `nkdirect.c` | size, CRC | as above without header | YMODEM (firmware update) |
| flash `nkarch_pico.c` | the flash | erase a sector, program pages (read-modify-write), read | files |
| buffered files `nkinfile.c`, `nkoutfile.c` | a block buffer | get, peek, seek / put, flush | database, parser |
| serialization, scanning, printing, CRC, date, I2C, pins | none or tables | pure functions and immediate I/O | commands |

What is hard about it: an interrupt between any two steps of a task (lost
wake-ups, a task submitted while it runs); 32-bit times that wrap and are
compared by the sign of a difference; a hand-over of the console between CLI
and YMODEM with a time-out running; packets and answers that are lost, damaged
or late; queue, ring buffer and history at their limits; power failing in the middle of a flash operation; several writes of which one
fails. `PROJECT.json` lists each under `hazards` with its line and the
properties that cover it.

What makes each component correct:

* work queue: items are neither lost nor duplicated, one per task id, called in
  the order of their due times, never early, first come first served;
* console: characters are handed out once and in order, exactly one task
  listens, no wake-up is lost, a transfer has a time-out for as long as it lasts;
* database: a save is atomic, a power failure never costs the database saved
  before, the newest one is loaded;
* YMODEM: what is stored is a prefix of what was sent, all of it when the
  session ends well, and a session ends in spite of lost and damaged packets;
* update: the bytes lie in their area in order, the boot flag stands for a whole
  image, which survives everything but the next download for its bank;
* line editor: the history is a row of whole lines, no edited line is lost,
  Enter moves the recalled line, and no other, to the end.

## Modules

| module | models | remarks |
|---|---|---|
| `NkSched` | `nksched.c` with the timer of `nkarch_pico.c` | list as a sequence, free list as a number |
| `NkSchedList` | the pointers of `nksched.c` | implements `NkSched` |
| `NkConsole` | `nkuart_pico.c`, the control of `nkcli.c`, `nkreadline.c`, `nkymodem.c`, `wdt.c`, `led.c`, `main.c` | uses the actions of `NkSched` through `INSTANCE` |
| `NkChecked` | `nkchecked.c` on NOR flash | operators only |
| `NkDbase` | `nkdbase.c`, `nkoutfile.c`, `database.c` | extends `NkChecked` |
| `NkStore` | what the database promises | abstract specification |
| `NkTransfer` | in which order and with which data the receiver calls a file handler | abstract specification |
| `NkYmodem` | sender and receiver of `nkymodem.c` and the line between them | implements `NkTransfer` |
| `NkUpdate` | the file handler in `nkymodem_cmd.c`, `nkdirect.c`, the boot flag | driven by the actions of `NkTransfer`; flash cells from `NkChecked` |
| `NkHistory` | what the history promises: a list of lines and a place in it | abstract specification |
| `NkReadline` | `nkreadline.c`, `nk_complete` of `nkcli.c` | bytes; implements `NkHistory` |
| `NkSchedLog` | the work queue with a history variable | `log`: the pending submissions in the order of the calls |
| `MC...` | instances for TLC | |
| `SequenceLemmas`, `NkSched_proofs`, `NkSchedList_proofs`, `NkConsole_proofs`, `NkDbase_proofs`, `NkUpdate_proofs`, `NkYmodem_proofs`, `NkReadline_proofs` | lemmas and theorems | checked by TLAPS |

Definitions whose comment starts with "Mutant" are faulty variants of the
definition that follows them. No specification uses them; replacing the
original by one shows that the property named in `PROJECT.json` notices.

### Work queue: `NkSched`

`queue` is the list after its base item, `free` the length of the free list,
`now` the timer. Each operation is one action, because the code runs it with
interrupts masked; it may happen in any state of the main loop, because
interrupt handlers may submit work. `main` says whether the program is still in
`main()`'s initialisation, looks for work, or runs a task. Times are numbers
modulo `2 * Half`; `SignedDiff` is the cast to `int32_t`. Each item carries a
ghost `left`, the true number of ticks until it is due, which never wraps and
which no guard reads; the properties compare the code's arithmetic with it.
`call` holds the return value of a submission, for the properties about it.

The functions and arguments of a submission are one value of `Job`. The
texts kept for the `work` command, and sleep modes, are left out: on this port
`nk_sched_wakeup` and the wait do nothing.

`MaxLate` bounds how far the main loop is ever behind: `Tick` waits when an item
is that late. This is the assumption that tasks return in time. It keeps the
ghost finite and is needed: an item late by half the timer's range looks early
again.

### Linked lists: `NkSchedList`

Arrays `next` and `prev`, `freelist`, and the bodies of the items, changed by
`alloc_item`, `free_item`, `deque` and `enque` in the code's own order of
assignments. `order` and `spare` are recomputed from the links after each step
for the refinement mapping. A freed body is reset to a fixed value, since
nothing reads it before it is written again.

### Console: `NkConsole`

The thread of control (`main()`, then tasks) has a program counter `pc`; one
step is one critical section. The interrupt handler is enabled between any two
of them, and while it runs (`isr = "run"`) the thread stands still. Characters
are numbered modulo `CharMod` as the receiver accepts them, so order, loss and
duplication show. What a character means to the line editor or to YMODEM is a
nondeterministic choice: edit or Enter, more or end of session. A time-out
never ends a session (`ymodem_rcv` answers it with `C` or NAK), and the model
has none that does. A character that arrives while the holding register is full
is lost in the hardware (FIFO and flow control are off) and is no step.

The safety properties hold for any sender. `EveryCharRead` has the premise that
the sender never has more than `RxSize` characters unread: a typist and a YMODEM
sender, which waits for an acknowledgement after at most 1029 characters,
satisfy it with the 2048 byte buffer.

### Database: `NkChecked`, `NkDbase`, `NkStore`

A bank is a function from cells to contents: erased, garbage, a character, or
the header (which takes one cell). Programming a cell that is not erased spoils
it unless it already has that value, as in NOR flash; the driver's
read-modify-write of a page relies on the latter. A flash operation is one step
with three kinds of outcome: it completes; it fails and leaves each of its cells
old, new or in between, but not all new (only if `FlashErrors`); the power fails
and leaves any such mixture. The power may also fail between operations.

A database is the sequence of its serialized characters, and its CRC is that
sequence: the models assume that a CRC tells all files apart. `SaveFlush` is the
buffer of `nkoutfile`, `PageErase` and `PageWrite` the loop of
`nk_checked_write`, which splits at erase blocks and erases a block when a page
starts it. `WriteFails` drops one character, as `_nk_flush_and_putc` does.
`again` is the second save of `dbase clear`. A text in a bank with a good CRC that
is none of the databases (`Db`) does not parse: `Parse` leaves any members in RAM,
and the revision has been set before it, as in the code.

`NkStore` is the promise: a store with atomic saves. The refinement maps its
`stored` to what a load would return from the flash as it is at that moment.
The ghost `acked` is the database last loaded or saved with success, and nothing
after a load that did not parse.

### YMODEM: `NkYmodem`, `NkTransfer`

Both ends are in the model. A message on the line is a sequence of numbers with
the values of the protocol (SOH, STX, EOT, ACK, NAK, CAN, 'C'), and the receiver
takes one character at a time, so a packet whose first character is lost is read
as what its bytes happen to be: one of the blocks of the instance holds bytes
with the value of EOT. The lengths are constants; the name and the size take one
character each. The CRC is the code's CRC-16, bit for bit, in two characters
(`nk_crc16be_update`, `Crc`). `toR` is a list of transmissions, of the first of
which `gone` characters have left the line.
`Collect` is `ymodem_recv_task`, the `Wait...` and `Data...` actions
are the branches of `ymodem_rcv` without and with an open file, `Returns` is
what `process_full_outer` does with its result. XMODEM, which the receiver falls
back to when a session starts with block 1, and CAN CAN are included.

A fault loses or damages a character in either direction, or lets the time-out
pass while something is under way ("late"). `Noise` is what a damaged character
for the receiver is read as: a control character that means something to it, or
255, which stands for all others. `MaxFaults` bounds their number; it
must not exceed `SeqCount`, or a line could lose a whole round of sequence
numbers, which with 256 of them the code need not fear. The ghost `harm` records
the three kinds of fault the protocol has no answer to: a control character
nobody sent, or a Ctrl-X of the operator that is read as the start of a packet
("stray"), an answer later than the time-out ("late"), and the loss of the ACK
that ends a file ("ending"). `NeverOutOfSync` and `BothComplete` hold
without the first two, `Recovers` without all three; what happens otherwise is
described under Findings and observations.

`DamageNoticed` says that nothing damage can make of the packet that the sender
sends now is taken by the receiver. It is the hypothesis of the theorems and no
property of the runs: a check of 16 bits cannot promise it of every file and
every damage, and that it holds of one file says nothing of the code. (It holds
of the file of the runs, in every state.)

`NkTransfer` is what a file handler may rely on: open, writes that extend a
prefix of the file sent, close when it is complete, then all_done; or cancel at
any time. Once the line is no longer `clean` it promises only the order of the
calls.

### Firmware update: `NkUpdate`

The handler's functions are actions that happen together with the corresponding
action of `NkTransfer`, so the composition is with everything the receiver can
do, not with one run of the protocol. `nk_direct_write` is cut into its flash
operations: up to the end of an erase block, erasing the block first if the page
starts it. Power may fail at each, or the operation may report an error; then
the cells are any mixture of old, new and in between, as for the database. What
comes over a disturbed line has any size up to `MaxSize` and no content. The
ghost `image` is the image the flag stands for, `failed` says that a flash
operation of the session reported an error: the handler ignores it, and nothing
can be said of such a session.

### Line editor: `NkReadline`, `NkHistory`

`histbuf` is the sequence of the `hist_end` bytes in use, `tty_buf` that of the
`tty_len` characters of the line; indices count from 0 as in the code. Bytes
behind the end are not kept: nothing reads them before they are written, which
`WholeLines` supports. Each key is one action of `prompt_task`; the completion
is a loop of its own steps, one character each, so that it could fail to end.
What is printed is left out. `Evict` says where the loop of `hist_ins` ends, the
first start of a line that leaves room, and where the index is then; the loop as
it is written is `EvictLoop` of `MCNkReadline`, and `EvictIsLoop` compares the two.
The refinement mapping to `NkHistory` cuts the bytes at their NULs.

## Runs

| run | instance | result |
|---|---|---|
| `sched` | 3 task ids, 3 usable items, 2 jobs (symmetric), delays 0 and 2 ticks, timer of 8 values | all safety properties hold |
| `sched_list` | 3 task ids, 2 usable items, timer of 6 values | the pointers implement `NkSched`; every task is called |
| `console` | ring of 2, indices modulo 4, one periodic task, any sender | all safety properties hold; every character is read if the sender does not overrun the buffer |
| `dbase` | banks of two erase blocks of 3 cells, databases of 1 and 3 characters, revisions modulo 8, power failures | atomic store |
| `dbase_errors` | the same with flash errors | the database last saved with success or loaded survives, until a load finds a text that does not parse |
| `ymodem` | a file of 7 bytes in 4 blocks of 2, sequence numbers modulo 3, up to 3 faults | in step, complete, repaired; implements `NkTransfer` |
| `update` | areas of two erase blocks of 2 cells, images of 1 and 4 bytes, packets of 3, one power failure or flash error | stored in order, the flag stands for a whole image that survives |
| `readline` | lines of 3 characters, history of 6 bytes, keys `a` and `b`, commands `aaa` and `ab` | whole lines; eviction is the loop; implements `NkHistory`; TAB ends |
| `console_full` | a sender that overruns the buffer, with fairness | violated: the interrupt never returns |
| `dbase_failed` | flash errors | violated: a failed save changes what is loaded |
| `ymodem_done` | as `ymodem`, 2 faults | violated: a file that lacks a block is reported as done |
| `dbase_kept` | flash errors | violated: the only bank that can be read is erased |

Why the bounds are enough. Three task ids give a task before, at and after any
place in the queue, and a queue that is exactly full or one short. A timer of
six or eight values wraps in every run, with items on both sides of the wrap. A
ring of two characters is empty, half full, full and wraps; the indices wrap
too. In the database the long text crosses from the first erase block into the
second in the middle of a buffer, the short one stays in the first, and eight
revisions make the wrap and a wrong distance of three both possible. The file of
the YMODEM run wraps the sequence number, its last block is padded, and three
faults are enough for a loss, the loss of its repair, and one more. A size that
no header gives (`Max32`) is larger than the file. In the update
the long image crosses an erase block in the middle of a packet and the short
one leaves it half empty; sessions follow one another without bound, so a
failure meets an empty, a half written and a flagged bank. `aaa` fills a line: TAB
on `aa` types its last character, and TAB on the full line finds a single match
whose space does not fit. In the history of
six bytes storing a line evicts none, one, several or all of the others, with
the index before, on and behind the evicted ones.

### Findings and observations

The violations are disagreements between the code and what its comments or
documents say; `findings` in `PROJECT.json` quotes them. `console_full`: if the
buffer is full `rx_chars` leaves the character in the receiver and loops while
it is there, inside the interrupt; nothing can make room, and in the real system
the watchdog resets the board. `dbase_failed` needs an erase that reports an
error after a save interrupted earlier; the flash driver of this board never
reports one, other drivers of the library do. `ymodem_done`: answers carry no
sequence number. A block that comes after the time-out is acknowledged twice,
the sender runs one block ahead, and a loss later on goes unnoticed until the
EOT. `dbase_kept` has the same cause as `dbase_failed` and goes on: the header of
the failed save stands over a shortened text, a load prefers that bank, fails to
parse it, and has by then taken over its revision (`nkdbase.c:137`). The next save
goes to the other bank, the one with the database last saved with success, and
erases it. A smaller one is visible in `Init` of `NkSched`: the first of the
`NK_WORK_QUEUE_SIZE` items is the base of the list, so the queue holds one function less than
nksched.md:10 says.

Smaller things met while modelling, which no run is about:

* `nk_sched` returns 1, "submitted", also when the queue is full and the
  submission is dropped (`nksched.h:39`); a delay of half the timer's range or
  more, 2147 s, is due at once (`nksched.h:31`). `NeverDropped` and
  `NeverEarly` are proved under the conditions that exclude these.
* `nk_direct_write` never looks at `area_size`: a file larger than its area is
  written on over what follows, where `nkdirect.md:46` says it is truncated.
* The loop of the completion (`nkreadline.c:326`) ends on a full line because a
  name that is complete is answered with a space. A name longer than the line
  would keep it going for ever; `NK_MAX_CMD_LEN` (16) is far below `LINE_SIZE` (128).
* The loss of the ACK of the second EOT leaves the sender repeating EOT and the
  receiver, which waits for the next file, purging it and answering C, for ever;
  only the operator ends it. The sender has no time-out of its own.
* A Ctrl-X of the operator that is damaged to SOH, followed by packet 254 whose
  third byte is lost, is read as packet 1: its number is the SOH of that packet,
  the complement its number 254, and its CRC is good. That is why such a Ctrl-X
  counts as stray; the proof of `InSync` came to a halt there.
* If the number of blocks is a multiple of the sequence numbers, a late answer
  and a loss can make the receiver take the empty header that ends a session for
  a block of data.
* A TAB inside a word inserts what completes the word at the cursor. ESC followed
  by Enter loses the Enter. Down on an emptied recalled line recalls it again.
* `ymodem_recv_file_write` and `ymodem_recv_all_done` ignore flash errors, and
  the flag always names bank 0, under a comment that says "Switch to new bank".
* The area of the FPGA image is at flash offset 0, where the program itself
  lives (`nkmcuflash_map.h`).
* `nkymodem.c:698` declares `ymodem_file` with another type than
  `nkymodem_cmd.c` defines it with, and prints its size through that type. The
  comment at `nkdirect.c:56` says the open erases the first block; it erases nothing.

### Fairness

`NkSchedList!FairSpec` and `NkConsole!FairSpec` assume weak fairness of the main
loop, of a task's steps, of the interrupt handler and of the timer: the
processor keeps executing. Nothing is assumed of callers or of the sender. In
`NkConsole` the thread is disabled while the interrupt runs, so weak fairness
gives it a step only because a sender that waits for the reader stops; an
endless stream at line rate could indeed keep a task from returning (see the
hazards). `EveryTaskCalled` needs `MaxLate` of at least 1: with 0 time could
not pass an item that is due, and fairness of the timer would say nothing.

`NkYmodem!FairSpec` assumes that both ends go on reading and that the time-out,
a task of the work queue, is called (`EveryTaskCalled` is what justifies it);
losses are bounded by `MaxFaults`, nothing is assumed of the operator.
`NkReadline!Spec` assumes that the loop of the completion, which runs inside one
call, goes on; that it ends is the property.

## Proofs

`NkSched_proofs`, for every number of task ids, queue size, set of delays and
timer range:

* `TypeCorrect`: `Spec => []TypeOK`;
* `QueueIntegrity`: `Spec => []ItemsAccounted`, and `OneItemPerTask`:
  `Spec => []UniqueTids`;
* if delays plus lateness are below half the timer's range (`ShortDelays`):
  `TimesTrue`: `Spec => []TimesAgree`, `QueueInTrueOrder`: `Spec => []Sorted`,
  `NothingEarly`: `Spec => NeverEarly`;
* `NothingDropped`: if there is an item for every task id, `Spec => NeverDropped`.

The only assumption on the constants is `SchedAssumption` (they are natural
numbers, some positive); `ShortDelays` is a hypothesis, because the code does
not enforce it.

The argument. `IInv` is type correctness, `Len(queue) + free = QueueSize - 1`
and uniqueness of task ids. None is inductive alone: `free` stays in its range
only because an item is freed for each one taken off the queue, and a task id
stays unique only because `Position` finds it if it is there. `TInv` adds that
every item's wrapped time agrees with its ghost, that the ghost lies in a range
shorter than half the timer, and that the queue is sorted by the ghost; the
range is what makes the signed comparison of two items equal to the comparison
of their ghosts, hence the insertion point right, hence the order. The lemmas
of `SequenceLemmas` say which elements `RemoveAt` and `InsertAt` leave and that
adding before and after taking a remainder is the same.

`ServedInTurn` (`FirstComeFirstServed`), under `ShortDelays` too, is about
`NkSchedLog`, which adds the history variable `log` of the pending submissions.
`LInv` says that the log and the queue hold the same submissions (`Recorded`)
and that of two items with the same true due time the one logged first is first
in the queue (`InTurn`). A submission goes behind every item that is not later,
because the signed comparison is right by `TInv`, and to the end of the log;
`ForgetFacts`, `ResubmitInTurn` and `SubmitInTurn` are the ways the two change.

### YMODEM: `NkYmodem_proofs`

`PurgeAgrees` (`Spec => []PurgeMode`) and `SessionTyped` (`Spec => []TypeOK`)
hold for every file, packet size, number of sequence numbers and of faults;
`YmodemAssumption` is all they assume (the file is one of bytes, no longer than
`Max32`).

The inductive invariant of the first, `Agree`, adds to `PurgeMode` that the
buffer is empty outside a packet, which is why a packet starts with room, and
that the receiver's state is a record with known fields, without which an update
of one field says nothing of the others. `ReturnsAgree` is the heart of it: a
branch of `ymodem_rcv` keeps the agreement if it sets `purge` exactly when it
returns "purge". For the second, that a CRC is a character at all: `Crc` is a
fold, hence a `CHOOSE` among the solutions of a recursion on sets of positions.
`CrcExists` shows that there is a solution and `CrcValues` that every one gives two
bytes, both by the least counterexample (`LeastNat`); `XorType` and
`CrcUpdateType` are the arithmetic of one step.

The protocol itself is proved on the condition that damage is noticed:

* `InSync`: `Spec /\ []DamageNoticed => []NeverOutOfSync`;
* `CompleteForBoth`: `Spec /\ []DamageNoticed => []BothComplete`;
* `ReceiverKeepsPromise`: `Spec /\ []DamageNoticed => ImplementsTransfer`;
* `ReceiverComplete`: the same condition, `[]Transfer!DoneMeansComplete`.

`[]DamageNoticed` is a condition on behaviours and not an assumption about `Crc`,
because no CRC of two bytes can tell all packets of 128 bytes apart; it speaks
only of what damage may make of the packets really sent, and only while neither a
late answer nor a stray character has met the protocol.

The invariant `YInv` says, while neither stray nor late has been met, what the
sender repeats and where the receiver is. `Pending`: the receiver waits for it;
`Taken`: the receiver had it last; `TakenEot`: the file is closed and the sender
does not know. `Talk` adds what is on the two lines: every transmission to the receiver is a
tail of what the sender repeats, Ctrl-X aside (`Carries`), and the receiver
collects at most one packet of it, from its start or not at all (`Fits`), so a
packet that is complete is the sender's with some characters damaged; and at
most one line is in use (`Lone`, `Quiet`), but after the last EOT both may be.
`Ends` says how a session may be over.
The steps: `MessageRead` shows that a packet the receiver takes is the one that
the sender repeats, the only use of `DamageNoticed`; `Outcome` sums up the
branches of `ymodem_rcv` by what they do to the file and to the answer;
`PacketRead` and `EotRead` follow them, `TimeoutClean`, `SendClean` and
`CancelsClean` do the other steps. That the block just taken and the one waited
for have different numbers needs `SeqCount > 1`. `BlockWritten`
says that the blocks written, the last one cut to the size of the header, are a
prefix of the file.

For the refinement each `Outcome` is a step of `NkTransfer` or none
(`OutcomeStep`); what `Talk` says of the file after the step gives the guards
that `NkTransfer` has on a clean line (`TalkFile`), and a step that first meets
a stray or a late character takes no packet, so it is `Disturbed` at most.

The update is composed with `NkTransfer`, and `ReceiverKeepsPromise` is why it
may be.

### Line editor: `NkReadline_proofs`

For every command table of printable names, every line size and every larger
history size (`ReadlineAssumption`): `EditorTypes` (no line outgrows the edit
buffer), `HistoryStaysWhole` (the bytes are a row of whole lines) and
`RecalledAlwaysStored` (a line that is not edited is the one at the index), and
the refinement `EditorKeepsHistory` (`Spec => ImplementsHistory`).

`TypeOK` is not inductive: `strcpy` from the history fits the edit buffer only
because every line of the history does. `Rows` says so of a row of bytes: the end
is a start, and from every other start the next is at least two and at most
`LineSize` bytes away. `Editing` says `Rows` of the history, that the index is
at a start, and, byte by byte (`LineAt`), that a line that is not edited is in
the history at the index. The proof is about three things the functions do to
the bytes: walk to the next NUL (`NulFacts`), take out what is between two
starts (`WithoutStarts`, `WithoutRows`: `hist_del` and eviction) and put in a
line at a start (`WithStarts`, `WithRows`: `hist_ins`). Each shows which
positions are starts afterwards; a step of the editor is then one or two of them
and the copy of a line. That eviction finds room needs that a line and its NUL
fit the empty history, the comment on `NKREADLINE_HIST_SIZE`.
`RecalledAlwaysStored` goes from bytes to lines by counting: the NULs up to the
end of the recalled line are one more than those up to its start (`NthNulIs`).

For the refinement `Text(buf, ls, st)` says that a buffer is the lines `ls` one
after the other, the n-th up to byte `st[n]`. Every history has such a reading
(`HasText`), there is only one (`LineListIs`), and the starts are its ends
(`StartsOf`), so `Shows(h, ls, st, p)` can speak of a history as lines and a
place. In that reading `hist_del` is the removal of a line (`DelShows`),
eviction a cut of the first `k` (`EvictShows`) and `hist_ins` an insertion
(`InsShows`). `k` is the number that `NkHistory` forgets (`ForgottenIs`) because
`Size`, a fold, is the distance between two ends: `SizeExists` shows that the
recursion of the fold has a solution and `SizeValues` what every solution
returns, both by the least counterexample (`LeastNat`). A step of the editor is
then a step of `NkHistory` or none; for Enter on a line that was not edited this
rests on `RecalledLine`, for what `hist_del` takes out must be what was recalled.

### Linked lists: `NkSchedList_proofs`

For every number of items, task ids, delays and timer range
(`ListAssumption`): `PointersSound` (`Spec => []RingAndFreeList`), the
refinement `ListImplementsQueue` (`Spec => ImplementsNkSched`), and
`PointersInherit`, which joins it to the theorems of `NkSched_proofs` through an
instance of that module.

`RingAndFreeList` is far from inductive: that links invert each other does not
say that they are one ring. `ListInv` gives the links by the lists they stand
for. `Forward` and `Backward` say that place `n` of `order` is linked to place
`n + 1`, the base being place 0 and the place after the last; `Chain` says the
same of one free list, which ends; both hold no item twice, share none, and hold
all items but the base. On that level `deque` is the removal of a place
(`DequeRing`), `enque` the insertion before one (`EnqueRing`), `free_item` and
`alloc_item` put on and take off the front (`ListsFree`, `ListsAlloc`).
`order` and `spare` are computed by walking the links: `Steps` is a recursive
function, and `WalkIs` shows, by the least place at which two walks could differ
(`LeastNat`), that a walk is determined by its start and its links; so walking
returns the lists that `ListInv` speaks of (`QueueItemsIs`, `FreeItemsAre`). The
two search loops stop at the first hit (`ScanStops`), which is where the
`CHOOSE` of `Position` and of `InsertPos` is (`PositionIs`, `InsertPosIs`), and
the bodies along the ring change as the sequence does (`BodiesRemoved`,
`BodiesInserted`). The size of the free list is the number of its items because
it holds none twice (`ElemsCount`).

### Console: `NkConsole_proofs`

For a ring of any size, any multiple of it as the range of the indices, any
number of periodic tasks and any size of the work queue that `ConsoleAssumption`
allows: `ConsoleTypes`, `CharactersInOrder`, `ExactlyOneListener`, `WakeupsKept`
and `SessionsTimed`, for `TypeOK`, `InOrder`, `OneListener`, `NoLostWakeup` and
`SessionTimed`.

The properties speak of the main loop, where no task runs, and are far from
inductive: between two of its rounds the listener is taken out of the queue,
runs, looks for a character, and registers again, while the interrupt handler
may submit it at any point. `CInv` therefore says for every place of the thread
who is registered, in the queue or in the callback (`ListenInv`), who is in
charge (`OwnerInv`), whether the time-out runs (`SessionInv`), and what the
handler owes (`WakeInv`: a registered task with something to read means that the
handler is still running; a reader that is in the queue has something to read).
The work queue enters only through `Waits`, whose effect under each of its
operations is a lemma of `NkSched_proofs`, and through its invariant `IInv`. The
ring buffer needs no more than its types and remainder arithmetic. An attempt
without `tty_mode = 0` at the place where the CLI is given the console back
failed: a session that ended there with the terminal raw would have been
allowed.

### Database: `NkDbase_proofs`

For every set of databases that fit a bank, every area, erase block and buffer
size, and every range of revisions that is a multiple of 4:

* with or without flash errors: `DbaseTypes` (`TypeOK`), `OlderAlwaysPreserved`
  (`OlderPreserved`): until a load finds a text that does not parse, the database
  last loaded or reported as saved is in a good bank;
* with `~ FlashErrors`: `RevisionsTracked`, `NewestAlwaysKept`,
  `RevisionsStayAdjacent`, and the refinement `BanksImplementStore`
  (`Spec => Store!Spec`).

`CheckedAssumption` and `DbaseAssumption` are all that is assumed. The
hypothesis of the second group is needed: two runs that expect a violation show
what a flash error does (see Findings and observations), and "until" in the first
is needed because of `dbase_kept`.

`DInv` says that the revision in a header has the parity of its bank, so the
bank that a save writes is never the one the revision in RAM belongs to; and how
far a save has come. Its part `Intact` holds while no step has failed: what was
given to `nk_checked_write` is in the flash, and from there to the end of the
erase block nothing is programmed. The second half is what makes the next page
readable, and it is kept because a page ends at the end of a block or before it
(`NextPage` of `SequenceLemmas`), and a page that starts a block erases it
first. `RInv` adds, without errors, that two good banks are one revision apart
and that the revision in RAM is the newer one: then the signed comparison modulo
`RevMod` gives the bank that was saved last.

The refinement: the bank that a save writes is not the one that a load would
use, so erasing and filling it are stutters. Programming the header makes it a
good bank whose revision follows that of the other, and is the abstract `Saved`.
A power failure in that step leaves a header that is absent, spoilt or whole, and
what a load returns is the old database or the new one, as the abstract
`PowerFailure` says.

### Firmware update: `NkUpdate_proofs`

`UpdateTypes` (`TypeOK`) for everything that may be sent; and for images that
fit their area (`Fits`) `ReceivedIsStored` (`WrittenIsStored`), `ImageSurvives`
(`InstalledSurvives`) and `FlagIsLast` (`FlagMeansComplete`), for every layout,
block size, packet size and number of faults that `UpdateAssumption` allows.
`Fits` is a hypothesis and not an assumption because `nk_direct_write` does not
check it: a larger image leaves its area.

`UInv` has four parts. `OrderInv` is the order of the receiver's calls, from
which a flag is written only after a complete file for bank 0; `SizeInv` ties
what is still to be written to the end of what was received, so page addresses
stay in the area; `StoreInv` is the invariant of the database's save again, for
packets of any size; `FlagInv` says that no image counts as installed from the
moment one for bank 0 is opened until its flag is written, which is why a page
written over bank 0 destroys nothing that the flag stands for. What an
interrupted operation may leave (`InterruptedFacts`) differs only in the block
of the page, or of the flag; that the blocks are inside one area and the areas
apart (`Layout`, `PageInside`) does the rest. The proof needs the areas to be
apart from the block of the flag, as `nkmcuflash_map.h` has it; an earlier form
of the assumption, a set of areas that are pairwise disjoint, allowed an area to
be the block of the flag.

### Only model-checked

* Liveness (`EveryTaskCalled`, `EveryCharRead`, `Recovers`, `CompletionEnds`):
  fairness is out of the prover's reach.
* That `Evict` is the loop of `hist_ins` (`EvictIsLoop`): the loop is a RECURSIVE
  operator of the instance.

`DamageNoticed` is neither proved nor checked: it is a hypothesis (see above).

## Plan

Done: the work queue with its lists, the console, the database with its
refinement of `NkStore`, YMODEM with its refinement of `NkTransfer`, the update,
the line editor with its refinement of `NkHistory`; each with proofs of its
types, its safety properties and its refinement. Left: files sent one after the
other in one YMODEM session, the rate of input against the time tasks take, and
the parser with `nkinfile`, which would say what a text of another schema is
loaded as.

## Not modelled

`nkinfile` is a cache of one block with one reader at a time, driven by the
parser, which is not modelled; `nkdatetime` converts and checks dates and keeps
no state; `nkrtc` passes them on to the clock of the chip.

Text formatting and parsing (`nkprintf`, `nkscan`, `nkserialize`), the 32-bit CRC
of checked files, pins and information commands, I2C register access, the chip
drivers and ports that this board does not build, and the vendored Pico SDK.
They hold no state that other parts depend on, or only compute. Of the
parser the database model has that what was saved parses and any other text does
not.
