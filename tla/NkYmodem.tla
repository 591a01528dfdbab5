------------------------------- MODULE NkYmodem -------------------------------
(***************************************************************************)
(* The YMODEM protocol of src/libnklabs/src/nkymodem.c: its sender         *)
(* (nk_ysend_file) and its receiver (nk_yrecv), joined by a serial line    *)
(* that loses and damages characters and delays them past the receiver's   *)
(* time-out.                                                               *)
(*                                                                         *)
(* Characters are numbers.  The receiver takes them one at a time, so a    *)
(* packet that lost its first character is read as what its bytes happen   *)
(* to be.  In a header the name takes one character, and so does the size. *)
(***************************************************************************)
EXTENDS Integers, Sequences, SequencesExt

CONSTANTS
  File,       \* the bytes of the file
  DataLen,    \* bytes of data in a short packet (128)
  LongLen,    \* bytes of data in a long packet (1024)
  SeqCount,   \* sequence numbers are counted modulo this (256)
  Timeouts,   \* NK_YM_TIMEOUT
  Max32,      \* 0xffffffff, the size of a file whose header gives none
  MaxFaults   \* bound: faults of the line, late answers included

ASSUME YmodemAssumption ==
  /\ File \in Seq(0 .. 255)
  /\ Max32 \in Nat /\ Max32 >= 255 /\ Len(File) <= Max32
  /\ DataLen \in Nat /\ DataLen >= 2
  /\ LongLen \in Nat /\ LongLen > DataLen
  /\ SeqCount \in 2 .. 256
  /\ Timeouts \in Nat
  /\ MaxFaults \in Nat

VARIABLES
  snd,      \* the sender's state
  rcv,      \* the receiver's state
  data,     \* what the file handler was given since the file was opened
  closed,   \* dld_done: a file was closed
  toR,      \* on the line to the receiver: transmissions
  gone,     \* how many characters of the first one have left the line
  toS,      \* on the line to the sender: characters
  faults,   \* number of faults so far
  harm      \* ghost: the kinds of fault the protocol has no answer to

vars == <<snd, rcv, data, closed, toR, gone, toS, faults, harm>>

SOH == 1
STX == 2
EOT == 4
ACK == 6
NAK == 21
CAN == 24
REQ == 67   \* NK_YM_REQ, 'C'

\* What one character of the model stands for: a byte, or a size as text.
Byte == 0 .. 255
Char == 0 .. Max32 + 48

-----------------------------------------------------------------------------
(***************************************************************************)
(* Packets.                                                                *)
(***************************************************************************)

\* The exclusive or of two bytes.
Xor ==
  [a \in Byte |-> [b \in Byte |->
     LET bit(x, y) == (x + y) % 2
         two(x, y) == 2 * bit(x \div 2, y \div 2) + bit(x, y)
         four(x, y) == 4 * two(x \div 4, y \div 4) + two(x, y)
     IN  16 * four(a \div 16, b \div 16) + four(a, b)]]

\* The CRC is kept as its two bytes, the upper one first: the upper bytes of
\* crc << 8, x << 12 and x << 5, and the lower ones of x << 5 and x.
nk_crc16be_update ==
  [crc \in Byte \X Byte |-> [ch \in Byte |->
     LET e == Xor[crc[1]][ch]
         x == Xor[e][e \div 16]
     IN  <<Xor[Xor[crc[2]][16 * (x % 16)]][x \div 8], Xor[32 * (x % 8)][x]>>]]

\* nk_crc16be_check.  A size counts with its last eight bits.
Crc(m) ==
  FoldLeft(LAMBDA crc, ch : nk_crc16be_update[crc][ch % 256], <<0, 0>>, m)

\* ymodem_setup_header.
Packet(seq, payload) == <<SOH, seq, 255 - seq>> \o payload \o Crc(payload)

ShortPacket == DataLen + 5
LongPacket == LongLen + 5

Payload(m) == SubSeq(m, 4, Len(m) - 2)

Zeros == [i \in 1 .. DataLen |-> 0]

\* The file name, and the size as text: never empty, "0" for an empty file.
HeaderPayload == [Zeros EXCEPT ![1] = 65, ![2] = 48 + Len(File)]

\* The size that ymodem_rcv reads in a header: none, or atoi of the text.
HeaderSize(payload) ==
  IF payload[2] = 0 THEN Max32
  ELSE IF payload[2] >= 48 THEN payload[2] - 48 ELSE 0

\* The CRC of data and CRC is 0.
ymcrc_check(m) == Crc(SubSeq(m, 4, Len(m))) = <<0, 0>>

Checks(m) == m[3] = 255 - m[2] /\ ymcrc_check(m)

IsShort(m) == Len(m) = ShortPacket /\ m[1] = SOH /\ Checks(m)
IsLong(m) == Len(m) = LongPacket /\ m[1] = STX /\ Checks(m)

-----------------------------------------------------------------------------
(***************************************************************************)
(* The sender.  packet is packet_buf, read the bytes taken from the file.  *)
(***************************************************************************)

Block(at) ==
  [i \in 1 .. DataLen |-> IF at + i <= Len(File) THEN File[at + i] ELSE 0]

\* nk_ysend_file: the header is ready, to be sent when it is asked for.
SenderInit ==
  [eot |-> FALSE, fin |-> FALSE, hdr |-> TRUE, seq |-> 0, read |-> 0,
   packet |-> Packet(0, HeaderPayload), sta |-> "more"]

Sends(m) == toR' = Append(toR, m)

\* 'C' or NAK: send again what was sent last, or for the first time what was
\* prepared.
Resend(c) ==
  /\ c \in {REQ, NAK}
  /\ Sends(IF snd.eot THEN <<EOT>> ELSE snd.packet)
  /\ UNCHANGED snd

\* ACK of the EOT: the empty header that ends the session waits for a 'C'.
AckOfEot(c) ==
  /\ c = ACK
  /\ snd.eot
  /\ snd' = [snd EXCEPT !.eot = FALSE, !.fin = TRUE, !.hdr = TRUE, !.seq = 0,
                        !.packet = Packet(0, Zeros)]
  /\ UNCHANGED toR

AckOfFin(c) ==
  /\ c = ACK
  /\ ~ snd.eot /\ snd.fin
  /\ snd' = [snd EXCEPT !.sta = "done"]
  /\ UNCHANGED toR

\* ACK of the header or of a block: the next block, or the EOT after the
\* last.  After the header it waits for a 'C'.
AckOfBlock(c) ==
  LET seq == (snd.seq + 1) % SeqCount
      more == snd.read < Len(File)
      packet == Packet(seq, Block(snd.read))
  IN  /\ c = ACK
      /\ ~ snd.eot /\ ~ snd.fin
      /\ snd' = [snd EXCEPT !.seq = seq, !.hdr = FALSE, !.eot = ~ more,
                            !.read = IF more THEN @ + DataLen ELSE @,
                            !.packet = IF more THEN packet ELSE @]
      /\ \/ snd.hdr /\ UNCHANGED toR
         \/ ~ snd.hdr /\ Sends(IF more THEN packet ELSE <<EOT>>)

CancelSend(c) ==
  /\ c = CAN
  /\ snd' = [snd EXCEPT !.sta = "cancel"]
  /\ UNCHANGED toR

\* One round of ymodem_send_task.
nk_ysend_evt(c) ==
  Resend(c) \/ AckOfEot(c) \/ AckOfFin(c) \/ AckOfBlock(c) \/ CancelSend(c)

-----------------------------------------------------------------------------
(***************************************************************************)
(* The receiver: ymodem_rcv is given a whole message, or none when the     *)
(* time-out has passed, and process_full_outer acts on its status.         *)
(***************************************************************************)

\* The fields that ymodem_recv_init resets (it sends a 'C' too).
InitFields(r) ==
  [r EXCEPT !.opened = FALSE, !.got_eot = FALSE, !.purge = FALSE, !.seq = 0,
            !.first = FALSE, !.can = FALSE, !.to = Timeouts, !.xmodem = FALSE]

\* Static storage, then nk_yrecv.
ReceiverInit ==
  InitFields([opened |-> FALSE, got_eot |-> FALSE, purge |-> FALSE, seq |-> 0,
              first |-> FALSE, can |-> FALSE, to |-> 0, xmodem |-> FALSE,
              old_seq |-> 0, size |-> 0, mode |-> 0, buf |-> << >>,
              sta |-> "more"])

\* ymodem_rcv leaves the state r, returns the status sta and has sent out.
\* After any status but MORE and PURGE the session is over.  yrecv_mode is
\* already 0 then: ymodem_recv_task resets it when a packet is complete.
Returns(sta, r, out) ==
  /\ rcv' = [r EXCEPT !.buf = << >>,
                      !.mode = IF sta = "purge" THEN 3 ELSE 0,
                      !.sta = IF sta = "purge" THEN "more" ELSE sta]
  /\ toS' = toS \o out

FileUnchanged == UNCHANGED <<data, closed>>

\* Mutants: the padding of the last block is written; the bytes left are not
\* kept from going below 0.
WriteWhole(payload, size, before) == data' = before \o payload
SizeLeftBelow(payload, size) == size - Len(payload)

\* write() is limited to what is left of the size given in the header.
WriteLimited(payload, size, before) ==
  data' = before \o SubSeq(payload, 1, IF Len(payload) > size THEN size ELSE Len(payload))
SizeLeft(payload, size) == IF Len(payload) > size THEN 0 ELSE size - Len(payload)

\* No file is open, and a message comes.
WaitCan(m) ==
  /\ m = <<CAN>>
  /\ \/ rcv.can /\ Returns("remote", rcv, << >>)
     \/ ~ rcv.can /\ Returns("more", [rcv EXCEPT !.can = TRUE, !.to = Timeouts], << >>)
  /\ FileUnchanged

\* The code also allows the length of a long packet, but one that starts with
\* SOH is collected as a short one.
IsHeader(m, seq) == IsShort(m) /\ m[2] = seq

\* An empty name: no more files.  all_done() is called.
NoMoreFiles(m) ==
  /\ IsHeader(m, 0)
  /\ Payload(m)[1] = 0
  /\ Returns("done", [rcv EXCEPT !.can = FALSE, !.to = 0], <<ACK>>)
  /\ FileUnchanged

\* The file is opened; the 'C' that asks for it follows the next time-out.
OpenFile(m) ==
  /\ IsHeader(m, 0)
  /\ Payload(m)[1] # 0
  /\ Returns("more", [rcv EXCEPT !.can = FALSE, !.to = 0, !.old_seq = 0, !.seq = 1,
                                 !.opened = TRUE, !.first = TRUE,
                                 !.size = HeaderSize(Payload(m))], <<ACK>>)
  /\ data' = << >>
  /\ UNCHANGED closed

\* The handler cannot open the file.
OpenFails(m) ==
  /\ (IsHeader(m, 0) /\ Payload(m)[1] # 0) \/ IsHeader(m, 1)
  /\ Returns("open", [rcv EXCEPT !.can = FALSE, !.to = 0], <<CAN, CAN>>)
  /\ FileUnchanged

\* The first block of a file without a header: XMODEM.
OpenAnonymous(m) ==
  /\ IsHeader(m, 1)
  /\ Returns("more", [rcv EXCEPT !.can = FALSE, !.to = 0, !.old_seq = 1,
                                 !.seq = 2 % SeqCount, !.opened = TRUE,
                                 !.xmodem = TRUE, !.first = FALSE,
                                 !.size = SizeLeft(Payload(m), Max32)], <<ACK>>)
  /\ WriteLimited(Payload(m), Max32, << >>)
  /\ UNCHANGED closed

WaitJunk(m) ==
  /\ m # <<CAN>>
  /\ ~ IsHeader(m, 0) /\ ~ IsHeader(m, 1)
  /\ Returns("purge", [rcv EXCEPT !.can = FALSE, !.purge = TRUE, !.to = 0], << >>)
  /\ FileUnchanged

WaitForFile(m) ==
  /\ ~ rcv.purge /\ ~ rcv.opened
  /\ \/ WaitCan(m) \/ NoMoreFiles(m) \/ OpenFile(m) \/ OpenFails(m)
     \/ OpenAnonymous(m) \/ WaitJunk(m)

\* A file is open, and a message comes.  (The handler's cancel() does nothing.)
DataCan(m) ==
  /\ m = <<CAN>>
  /\ Returns(IF rcv.can THEN "remote" ELSE "more",
             [rcv EXCEPT !.got_eot = FALSE, !.can = TRUE], << >>)
  /\ FileUnchanged

IsData(m) == IsShort(m) \/ IsLong(m)
NoEotNoCan == [rcv EXCEPT !.got_eot = FALSE, !.can = FALSE]

\* Mutant: a block that is repeated is written again.
SameBlockWritten(m) ==
  /\ IsData(m)
  /\ m[2] = rcv.old_seq
  /\ WriteLimited(Payload(m), rcv.size, data)
  /\ Returns("more", NoEotNoCan, <<ACK>>)
  /\ UNCHANGED closed

\* The sender missed the ACK.
SameBlock(m) ==
  /\ IsData(m)
  /\ m[2] = rcv.old_seq
  /\ Returns("more", NoEotNoCan, <<ACK>>)
  /\ FileUnchanged

OutOfSync(m) ==
  /\ IsData(m)
  /\ m[2] # rcv.old_seq /\ m[2] # rcv.seq
  /\ Returns("sync", NoEotNoCan, <<CAN, CAN>>)
  /\ FileUnchanged

\* Mutant: the sequence number of the block is not remembered.
NextBlockForgotten(m) ==
  /\ IsData(m)
  /\ m[2] # rcv.old_seq /\ m[2] = rcv.seq
  /\ WriteLimited(Payload(m), rcv.size, data)
  /\ Returns("more", [NoEotNoCan EXCEPT !.size = SizeLeft(Payload(m), rcv.size),
                                        !.first = FALSE,
                                        !.seq = (rcv.seq + 1) % SeqCount], <<ACK>>)
  /\ UNCHANGED closed

NextBlock(m) ==
  /\ IsData(m)
  /\ m[2] # rcv.old_seq /\ m[2] = rcv.seq
  /\ WriteLimited(Payload(m), rcv.size, data)
  /\ Returns("more", [NoEotNoCan EXCEPT !.size = SizeLeft(Payload(m), rcv.size),
                                        !.first = FALSE, !.old_seq = rcv.seq,
                                        !.seq = (rcv.seq + 1) % SeqCount], <<ACK>>)
  /\ UNCHANGED closed

\* The file ends with the second of two EOTs; an XMODEM file, and with it
\* the session, with the first.
EndOfFile(m) ==
  /\ m = <<EOT>>
  /\ \/ /\ rcv.xmodem
        /\ Returns("done", [rcv EXCEPT !.can = FALSE], <<ACK>>)
        /\ closed' = TRUE
     \/ /\ ~ rcv.xmodem /\ rcv.got_eot
        /\ Returns("more", [InitFields(rcv) EXCEPT !.to = 0], <<ACK, REQ>>)
        /\ closed' = TRUE
     \/ /\ ~ rcv.xmodem /\ ~ rcv.got_eot
        /\ Returns("more", [rcv EXCEPT !.can = FALSE, !.got_eot = TRUE], <<NAK>>)
        /\ UNCHANGED closed
  /\ UNCHANGED data

\* Mutant: ymodem_purge is not set.
DataJunkUnset(m) ==
  /\ m \notin {<<CAN>>, <<EOT>>}
  /\ ~ IsData(m)
  /\ Returns("purge", NoEotNoCan, << >>)
  /\ FileUnchanged

DataJunk(m) ==
  /\ m \notin {<<CAN>>, <<EOT>>}
  /\ ~ IsData(m)
  /\ Returns("purge", [NoEotNoCan EXCEPT !.purge = TRUE], << >>)
  /\ FileUnchanged

ReceiveData(m) ==
  /\ ~ rcv.purge /\ rcv.opened
  /\ \/ DataCan(m) \/ SameBlock(m) \/ OutOfSync(m) \/ NextBlock(m)
     \/ EndOfFile(m) \/ DataJunk(m)

\* A message while purging cannot come: see PurgeMode.
ymodem_rcv(m) == WaitForFile(m) \/ ReceiveData(m)

\* ymodem_rcv without a message: the time-out has passed.
PurgeTimeout ==
  /\ rcv.purge
  /\ Returns("more", [rcv EXCEPT !.purge = FALSE], <<REQ>>)

WaitTimeout ==
  /\ ~ rcv.purge /\ ~ rcv.opened
  /\ \/ rcv.to > 0 /\ Returns("more", [rcv EXCEPT !.to = @ - 1], << >>)
     \/ rcv.to = 0 /\ Returns("more", InitFields(rcv), <<REQ>>)

\* Mutant: a block that does not come is not asked for.
DataTimeoutSilent ==
  /\ ~ rcv.purge /\ rcv.opened
  /\ Returns("more", NoEotNoCan, IF rcv.first THEN <<REQ>> ELSE << >>)

DataTimeout ==
  /\ ~ rcv.purge /\ rcv.opened
  /\ Returns("more", NoEotNoCan, IF rcv.first THEN <<REQ>> ELSE <<NAK>>)

\* ymodem_recv_task for one character: collect a message, then process it.
Collect(c) ==
  LET m == Append(rcv.buf, c)
      mode == CASE rcv.mode = 0 /\ c = SOH -> 1
                [] rcv.mode = 0 /\ c = STX -> 2
                [] OTHER -> rcv.mode
      complete == \/ rcv.mode = 0 /\ c \in {CAN, EOT}
                  \/ rcv.mode = 1 /\ Len(m) = ShortPacket
                  \/ rcv.mode = 2 /\ Len(m) = LongPacket
  IN  \/ complete /\ ymodem_rcv(m)
      \/ /\ ~ complete
         /\ rcv' = [rcv EXCEPT !.mode = mode,
                               !.buf = IF mode \in {1, 2} THEN m ELSE << >>]
         /\ FileUnchanged /\ UNCHANGED toS

-----------------------------------------------------------------------------
(***************************************************************************)
(* The line, and the steps of the two ends.                                *)
(***************************************************************************)

\* What a damaged character is read as.
Noise == {SOH, STX, EOT, CAN, 255}

NoFault == UNCHANGED <<faults, harm>>

\* A fault; kinds are those of its effects that the protocol cannot repair.
Fault(kinds) ==
  /\ faults < MaxFaults
  /\ faults' = faults + 1
  /\ harm' = harm \cup kinds

Over(end) == end.sta # "more"

\* One character leaves the line to the receiver.
NextChar ==
  /\ toR # << >>
  /\ IF gone + 1 = Len(toR[1]) THEN toR' = Tail(toR) /\ gone' = 0
     ELSE toR' = toR /\ gone' = gone + 1

\* c is read where a message starts, but none starts with it; or a Ctrl-X of
\* the operator is taken for the start of a packet.
StrayIf(c, really) ==
  IF /\ rcv.mode = 0 /\ ~ really
     /\ c \in {CAN, EOT} \/ (c \in {SOH, STX} /\ toR[1] = <<CAN>>)
    THEN {"stray"} ELSE {}

Receive ==
  /\ NextChar
  /\ ~ Over(rcv)
  /\ LET c == toR[1][gone + 1] IN
     \/ \E d \in {c} \cup Noise :                   \* damaged, unless d = c
          /\ Collect(d)
          /\ IF d = c THEN /\ harm' = harm \cup StrayIf(c, Len(toR[1]) = 1)
                           /\ UNCHANGED faults
                      ELSE Fault(StrayIf(d, FALSE))
     \/ Fault({}) /\ UNCHANGED <<rcv, data, closed, toS>>   \* lost
  /\ UNCHANGED snd

\* Nothing is on its way and a second has passed, or what is on its way is
\* late.
Timeout ==
  /\ ~ Over(rcv)
  /\ IF toR = << >> /\ toS = << >> THEN NoFault ELSE Fault({"late"})
  /\ PurgeTimeout \/ WaitTimeout \/ DataTimeout
  /\ FileUnchanged
  /\ UNCHANGED <<snd, toR, gone>>

\* The line to the sender.
Send ==
  /\ toS # << >>
  /\ toS' = Tail(toS)
  /\ ~ Over(snd)
  /\ LET c == Head(toS)
         ending == IF snd.eot /\ c = ACK THEN {"ending"} ELSE {}
     IN  \/ \E d \in {ACK, NAK, REQ, CAN} :             \* damaged, unless d = c
              /\ nk_ysend_evt(d)
              /\ IF d = c THEN NoFault
                 ELSE Fault(ending \cup IF d \in {ACK, CAN} THEN {"stray"} ELSE {})
         \/ Fault(ending) /\ UNCHANGED <<snd, toR>>        \* lost
  /\ UNCHANGED <<rcv, data, closed, gone>>

\* Ctrl-X, twice, at the sending end.
OperatorCancels ==
  /\ Fault({})
  /\ toR' = toR \o <<<<CAN>>, <<CAN>>>>
  /\ UNCHANGED <<snd, rcv, data, closed, gone, toS>>

\* At an end whose session is over the command line reads what comes.
ConsoleReads ==
  \/ Over(rcv) /\ NextChar /\ UNCHANGED <<snd, rcv, data, closed, toS, faults, harm>>
  \/ /\ Over(snd) /\ toS # << >> /\ toS' = Tail(toS)
     /\ UNCHANGED <<snd, rcv, data, closed, toR, gone, faults, harm>>

Init ==
  /\ snd = SenderInit
  /\ rcv = ReceiverInit
  /\ data = << >>
  /\ closed = FALSE
  /\ toR = << >>
  /\ gone = 0
  /\ toS = <<REQ>>
  /\ faults = 0
  /\ harm = {}

Next == Receive \/ Timeout \/ Send \/ OperatorCancels \/ ConsoleReads

Spec == Init /\ [][Next]_vars

\* Both ends keep running, and the receiver's time-out is a task of a fair
\* work queue.  Nothing is assumed of the operator.
FairSpec ==
  Spec /\ WF_vars(Receive) /\ WF_vars(Timeout) /\ WF_vars(Send)
       /\ WF_vars(ConsoleReads)

-----------------------------------------------------------------------------
Sender ==
  [eot : BOOLEAN, fin : BOOLEAN, hdr : BOOLEAN, seq : 0 .. SeqCount - 1,
   read : Nat, packet : Seq(Char) \ {<< >>}, sta : {"more", "done", "cancel"}]

Receiver ==
  [opened : BOOLEAN, got_eot : BOOLEAN, purge : BOOLEAN,
   seq : 0 .. SeqCount - 1, first : BOOLEAN, can : BOOLEAN,
   to : 0 .. Timeouts, xmodem : BOOLEAN, old_seq : 0 .. SeqCount - 1,
   size : 0 .. Max32, mode : 0 .. 3, buf : Seq(Char),
   sta : {"more", "done", "remote", "open", "sync"}]

\* Both ends' state is well typed; in particular the bytes left of a file
\* never go below 0 (nkymodem.c:635), sequence numbers stay in a byte, and
\* nothing empty is ever sent.
TypeOK ==
  /\ snd \in Sender
  /\ rcv \in Receiver
  /\ data \in Seq(Char)
  /\ closed \in BOOLEAN
  /\ toR \in Seq(Seq(Char) \ {<< >>})
  /\ gone \in Nat /\ gone < IF toR = << >> THEN 1 ELSE Len(toR[1])
  /\ toS \in Seq({ACK, NAK, CAN, REQ})
  /\ faults \in 0 .. MaxFaults
  /\ harm \subseteq {"stray", "late", "ending"}

\* ymodem_purge and yrecv_mode 3 are two records of the same thing, kept by
\* different functions: characters are thrown away exactly until the time-out
\* that asks for a resend.  The buffer never outgrows a packet.
PurgeMode ==
  /\ rcv.purge <=> rcv.mode = 3
  /\ Len(rcv.buf) < CASE rcv.mode = 1 -> ShortPacket
                       [] rcv.mode = 2 -> LongPacket
                       [] OTHER -> 1

\* Neither a late answer nor a stray control character has met the protocol.
Clean == harm \cap {"stray", "late"} = {}

\* What the complemented sequence number and the CRC (nkymodem.c:601) are
\* for: whatever the next character is read as, no message passes but the one
\* that was sent.  No check of 16 bits can promise this of every file and
\* every damage: it is what the theorems about both ends assume.
DamageNoticed ==
  Clean /\ toR # << >> =>
    \A d \in {toR[1][gone + 1]} \cup Noise :
      LET m == Append(rcv.buf, d) IN IsData(m) => m = toR[1]

\* Lost and damaged packets and answers never bring the two ends out of step:
\* what the sender repeats is the block the receiver waits for or the one it
\* had last, also when the sequence number wraps.
NeverOutOfSync == Clean => rcv.sta # "sync"

\* When the sender reports that the transfer is complete the receiver has the
\* whole file, has closed it and has reported the same.
BothComplete ==
  Clean /\ snd.sta = "done" => closed /\ data = File /\ rcv.sta = "done"

\* The receiver does to the program's file handler what NkTransfer says.
Transfer ==
  INSTANCE NkTransfer WITH
    sent <- File,
    phase <- CASE rcv.sta = "done" -> "done"
               [] rcv.sta \in {"remote", "open", "sync"} -> "cancelled"
               [] OTHER -> IF rcv.opened THEN "open" ELSE "waiting",
    clean <- Clean

ImplementsTransfer == Transfer!Spec

\* Lost and damaged packets, lost NAKs, requests and ACKs are all repaired:
\* unless an answer came later than the time-out, a stray control character
\* was taken, or the ACK of the last EOT was lost, the session ends, with
\* the whole file unless it was cancelled or the file could not be opened.
Recovers ==
  [](harm = {}) =>
    <>(\/ rcv.sta = "done" /\ data = File
       \/ rcv.sta \in {"remote", "open"})

\* The comment on ymodem_recv_all_done, "Called after all files successfully
\* transferred" (nkymodem_cmd.c:123), where nothing but delay and loss has
\* met the transfer.
DoneMeansComplete ==
  rcv.sta = "done" /\ "stray" \notin harm => data = File

=============================================================================
