---------------------------- MODULE NkYmodem_proofs ----------------------------
(***************************************************************************)
(* For every file, packet size, time-out and number of faults of the line: *)
(* the receiver's two records of purging agree; sender, receiver and line  *)
(* keep their types; and, where the checks of a packet notice every damage,*)
(* the two ends stay in step, are both complete when the sender is, and    *)
(* the receiver keeps the promise of NkTransfer.                           *)
(***************************************************************************)
EXTENDS NkYmodem, SequenceLemmas

-----------------------------------------------------------------------------
\* The receiver's state is a record with these fields.
Fields ==
  {"opened", "got_eot", "purge", "seq", "first", "can", "to", "xmodem",
   "old_seq", "size", "mode", "buf", "sta"}

IsState(r) == r = [f \in Fields |-> r[f]]

\* What PurgeMode says, of any state, and that buf is a sequence.
Agree(r) ==
  /\ IsState(r)
  /\ r.purge \in BOOLEAN
  /\ \E S : r.buf \in Seq(S)
  /\ r.purge <=> r.mode = 3
  /\ r.mode = 1 => Len(r.buf) < ShortPacket
  /\ r.mode = 2 => Len(r.buf) < LongPacket
  /\ r.mode \notin {1, 2} => r.buf = << >>
  /\ r.sta # "more" => r.mode = 0

LEMMA PacketSizes ==
  ShortPacket \in Nat /\ LongPacket \in Nat /\ ShortPacket > 1 /\ LongPacket > 1
BY YmodemAssumption DEF ShortPacket, LongPacket

LEMMA NoChars == << >> \in Seq({}) /\ Len(<< >>) = 0
OBVIOUS

\* process_full_outer ends a message in agreement if ymodem_rcv has set
\* ymodem_purge exactly when it returns PURGE.
LEMMA ReturnsAgree ==
  ASSUME NEW sta, NEW r, NEW out,
         IsState(r), r.purge \in BOOLEAN, r.purge <=> sta = "purge",
         Returns(sta, r, out)
  PROVE  Agree(rcv')
<1> DEFINE mode == IF sta = "purge" THEN 3 ELSE 0
           end == IF sta = "purge" THEN "more" ELSE sta
<1>1. rcv' = [r EXCEPT !.buf = << >>, !.mode = mode, !.sta = end]
  BY DEF Returns
<1> HIDE DEF mode, end
<1>3. /\ IsState(rcv') /\ rcv'.purge = r.purge /\ rcv'.mode = mode
      /\ rcv'.buf = << >> /\ rcv'.sta = end
  BY <1>1 DEF IsState, Fields
<1>4. (sta = "purge" /\ mode = 3 /\ end = "more") \/ (sta # "purge" /\ mode = 0)
  BY DEF mode, end
<1>5. \E S : rcv'.buf \in Seq(S)
  BY <1>3, NoChars
<1> QED BY <1>3, <1>4, <1>5 DEF Agree

-----------------------------------------------------------------------------
(***************************************************************************)
(* The branches of ymodem_rcv.  None but the two that meet junk sets purge.*)
(***************************************************************************)

LEMMA WaitAgrees ==
  ASSUME NEW m, IsState(rcv), rcv.purge \in BOOLEAN, WaitForFile(m)
  PROVE  Agree(rcv')
<1>0. rcv.purge = FALSE
  BY DEF WaitForFile
<1>1. CASE WaitCan(m)
  <2>1. CASE Returns("remote", rcv, << >>)
    BY <1>0, <2>1, ReturnsAgree
  <2> DEFINE r == [rcv EXCEPT !.can = TRUE, !.to = Timeouts]
  <2>2. IsState(r) /\ r.purge = FALSE
    BY <1>0 DEF IsState, Fields
  <2>3. CASE Returns("more", r, << >>)
    <3> HIDE DEF r
    <3> QED BY <2>2, <2>3, ReturnsAgree
  <2> QED BY <1>1, <2>1, <2>3 DEF WaitCan
<1>2. CASE NoMoreFiles(m)
  <2> DEFINE r == [rcv EXCEPT !.can = FALSE, !.to = 0]
  <2>1. IsState(r) /\ r.purge = FALSE
    BY <1>0 DEF IsState, Fields
  <2>2. Returns("done", r, <<ACK>>)
    BY <1>2 DEF NoMoreFiles
  <2> HIDE DEF r
  <2> QED BY <2>1, <2>2, ReturnsAgree
<1>3. CASE OpenFile(m)
  <2> DEFINE r == [rcv EXCEPT !.can = FALSE, !.to = 0, !.old_seq = 0, !.seq = 1,
                              !.opened = TRUE, !.first = TRUE,
                              !.size = HeaderSize(Payload(m))]
  <2>1. IsState(r) /\ r.purge = FALSE
    BY <1>0 DEF IsState, Fields
  <2>2. Returns("more", r, <<ACK>>)
    BY <1>3 DEF OpenFile
  <2> HIDE DEF r
  <2> QED BY <2>1, <2>2, ReturnsAgree
<1>4. CASE OpenFails(m)
  <2> DEFINE r == [rcv EXCEPT !.can = FALSE, !.to = 0]
  <2>1. IsState(r) /\ r.purge = FALSE
    BY <1>0 DEF IsState, Fields
  <2>2. Returns("open", r, <<CAN, CAN>>)
    BY <1>4 DEF OpenFails
  <2> HIDE DEF r
  <2> QED BY <2>1, <2>2, ReturnsAgree
<1>5. CASE OpenAnonymous(m)
  <2> DEFINE r == [rcv EXCEPT !.can = FALSE, !.to = 0, !.old_seq = 1,
                              !.seq = 2 % SeqCount, !.opened = TRUE,
                              !.xmodem = TRUE, !.first = FALSE,
                              !.size = SizeLeft(Payload(m), Max32)]
  <2>1. IsState(r) /\ r.purge = FALSE
    BY <1>0 DEF IsState, Fields
  <2>2. Returns("more", r, <<ACK>>)
    BY <1>5 DEF OpenAnonymous
  <2> HIDE DEF r
  <2> QED BY <2>1, <2>2, ReturnsAgree
<1>6. CASE WaitJunk(m)
  <2> DEFINE r == [rcv EXCEPT !.can = FALSE, !.purge = TRUE, !.to = 0]
  <2>1. IsState(r) /\ r.purge = TRUE
    BY DEF IsState, Fields
  <2>2. Returns("purge", r, << >>)
    BY <1>6 DEF WaitJunk
  <2> HIDE DEF r
  <2> QED BY <2>1, <2>2, ReturnsAgree
<1> QED BY <1>1, <1>2, <1>3, <1>4, <1>5, <1>6 DEF WaitForFile

\* ymodem_recv_init: every flag is reset, ymodem_purge too.
LEMMA InitFieldsState ==
  ASSUME NEW r, IsState(r)
  PROVE  /\ IsState(InitFields(r)) /\ InitFields(r).purge = FALSE
         /\ InitFields(r).mode = r.mode /\ InitFields(r).buf = r.buf
         /\ InitFields(r).sta = r.sta
BY DEF IsState, Fields, InitFields

LEMMA DataAgrees ==
  ASSUME NEW m, IsState(rcv), rcv.purge \in BOOLEAN, ReceiveData(m)
  PROVE  Agree(rcv')
<1>0. rcv.purge = FALSE
  BY DEF ReceiveData
<1> DEFINE n == NoEotNoCan
<1>00. IsState(n) /\ n.purge = FALSE
  BY <1>0 DEF IsState, Fields, NoEotNoCan
<1> HIDE DEF n
<1>1. CASE DataCan(m)
  <2> DEFINE r == [rcv EXCEPT !.got_eot = FALSE, !.can = TRUE]
             sta == IF rcv.can THEN "remote" ELSE "more"
  <2>1. IsState(r) /\ r.purge = FALSE /\ sta # "purge"
    BY <1>0 DEF IsState, Fields
  <2>2. Returns(sta, r, << >>)
    BY <1>1 DEF DataCan
  <2> HIDE DEF r, sta
  <2> QED BY <2>1, <2>2, ReturnsAgree
<1>2. CASE SameBlock(m)
  <2>1. Returns("more", n, <<ACK>>)
    BY <1>2 DEF SameBlock, n
  <2> QED BY <1>00, <2>1, ReturnsAgree
<1>3. CASE OutOfSync(m)
  <2>1. Returns("sync", n, <<CAN, CAN>>)
    BY <1>3 DEF OutOfSync, n
  <2> QED BY <1>00, <2>1, ReturnsAgree
<1>4. CASE NextBlock(m)
  <2> DEFINE r == [n EXCEPT !.size = SizeLeft(Payload(m), rcv.size),
                            !.first = FALSE, !.old_seq = rcv.seq,
                            !.seq = (rcv.seq + 1) % SeqCount]
  <2>1. IsState(r) /\ r.purge = FALSE
    BY <1>00 DEF IsState, Fields
  <2>2. Returns("more", r, <<ACK>>)
    BY <1>4 DEF NextBlock, n
  <2> HIDE DEF r
  <2> QED BY <2>1, <2>2, ReturnsAgree
<1>5. CASE EndOfFile(m)
  <2> DEFINE r == [rcv EXCEPT !.can = FALSE]
             s == [InitFields(rcv) EXCEPT !.to = 0]
             t == [rcv EXCEPT !.can = FALSE, !.got_eot = TRUE]
  <2>1. IsState(r) /\ r.purge = FALSE
    BY <1>0 DEF IsState, Fields
  <2>2. IsState(s) /\ s.purge = FALSE
    <3> DEFINE f == InitFields(rcv)
    <3>1. IsState(f) /\ f.purge = FALSE
      BY InitFieldsState
    <3> HIDE DEF f
    <3>2. s = [f EXCEPT !.to = 0]
      BY DEF f
    <3> HIDE DEF s
    <3> QED BY <3>1, <3>2 DEF IsState, Fields
  <2>3. IsState(t) /\ t.purge = FALSE
    BY <1>0 DEF IsState, Fields
  <2>4. \/ Returns("done", r, <<ACK>>)
        \/ Returns("more", s, <<ACK, REQ>>)
        \/ Returns("more", t, <<NAK>>)
    BY <1>5 DEF EndOfFile
  <2> HIDE DEF r, s, t
  <2> QED BY <2>1, <2>2, <2>3, <2>4, ReturnsAgree
<1>6. CASE DataJunk(m)
  <2> DEFINE r == [n EXCEPT !.purge = TRUE]
  <2>1. IsState(r) /\ r.purge = TRUE
    BY <1>00 DEF IsState, Fields
  <2>2. Returns("purge", r, << >>)
    BY <1>6 DEF DataJunk, n
  <2> HIDE DEF r
  <2> QED BY <2>1, <2>2, ReturnsAgree
<1> QED BY <1>1, <1>2, <1>3, <1>4, <1>5, <1>6 DEF ReceiveData

-----------------------------------------------------------------------------
(***************************************************************************)
(* The receive task: a character, or the time-out.                         *)
(***************************************************************************)

LEMMA TimeoutAgrees ==
  ASSUME Agree(rcv), PurgeTimeout \/ WaitTimeout \/ DataTimeout
  PROVE  Agree(rcv')
<1>0. IsState(rcv) /\ rcv.purge \in BOOLEAN
  BY DEF Agree
<1>1. CASE PurgeTimeout
  <2> DEFINE r == [rcv EXCEPT !.purge = FALSE]
  <2>1. IsState(r) /\ r.purge = FALSE
    BY <1>0 DEF IsState, Fields
  <2>2. Returns("more", r, <<REQ>>)
    BY <1>1 DEF PurgeTimeout
  <2> HIDE DEF r
  <2> QED BY <2>1, <2>2, ReturnsAgree
<1>2. CASE WaitTimeout
  <2> DEFINE r == [rcv EXCEPT !.to = @ - 1]
             s == InitFields(rcv)
  <2>1. IsState(r) /\ r.purge = FALSE
    BY <1>0, <1>2 DEF IsState, Fields, WaitTimeout
  <2>2. IsState(s) /\ s.purge = FALSE
    BY <1>0, InitFieldsState
  <2>3. Returns("more", r, << >>) \/ Returns("more", s, <<REQ>>)
    BY <1>2 DEF WaitTimeout
  <2> HIDE DEF r, s
  <2> QED BY <2>1, <2>2, <2>3, ReturnsAgree
<1>3. CASE DataTimeout
  <2> DEFINE r == NoEotNoCan
             out == IF rcv.first THEN <<REQ>> ELSE <<NAK>>
  <2>1. IsState(r) /\ r.purge = FALSE
    BY <1>0, <1>3 DEF IsState, Fields, NoEotNoCan, DataTimeout
  <2>2. Returns("more", r, out)
    BY <1>3 DEF DataTimeout
  <2> HIDE DEF r, out
  <2> QED BY <2>1, <2>2, ReturnsAgree
<1> QED BY <1>1, <1>2, <1>3

\* One character more, of a packet that is not complete by it.
LEMMA CollectAgrees ==
  ASSUME NEW c, Agree(rcv), rcv.sta = "more", Collect(c)
  PROVE  Agree(rcv')
<1>0. IsState(rcv) /\ rcv.purge \in BOOLEAN
  BY DEF Agree
<1> DEFINE m == Append(rcv.buf, c)
           mode == CASE rcv.mode = 0 /\ c = SOH -> 1
                     [] rcv.mode = 0 /\ c = STX -> 2
                     [] OTHER -> rcv.mode
           complete == \/ rcv.mode = 0 /\ c \in {CAN, EOT}
                       \/ rcv.mode = 1 /\ Len(m) = ShortPacket
                       \/ rcv.mode = 2 /\ Len(m) = LongPacket
           buf == IF mode \in {1, 2} THEN m ELSE << >>
<1>1. CASE ymodem_rcv(m)
  BY <1>0, <1>1, WaitAgrees, DataAgrees DEF ymodem_rcv
<1>2. CASE ~ complete /\ rcv' = [rcv EXCEPT !.mode = mode, !.buf = buf]
  <2>1. PICK S : rcv.buf \in Seq(S)
    BY DEF Agree
  <2>2. /\ m \in Seq(S \cup {c}) /\ Len(m) = Len(rcv.buf) + 1
        /\ Len(rcv.buf) \in Nat
    BY <2>1
  <2>3. /\ mode = 3 <=> rcv.mode = 3
        /\ mode = 1 => rcv.mode = 1 \/ rcv.mode = 0
        /\ mode = 2 => rcv.mode = 2 \/ rcv.mode = 0
    BY DEF SOH, STX
  <2>4. rcv.mode = 0 => Len(rcv.buf) = 0
    BY NoChars DEF Agree
  <2>5. /\ mode = 1 => Len(m) < ShortPacket
        /\ mode = 2 => Len(m) < LongPacket
    <3> HIDE DEF mode, m
    <3> QED BY <1>2, <2>2, <2>3, <2>4, PacketSizes DEF Agree
  <2>6. \E T : buf \in Seq(T)
    BY <2>2, NoChars
  <2> HIDE DEF mode, complete, m
  <2>7. mode \notin {1, 2} => buf = << >>
    OBVIOUS
  <2>8. mode \in {1, 2} => buf = m
    OBVIOUS
  <2> HIDE DEF buf
  <2>9. /\ IsState(rcv') /\ rcv'.purge = rcv.purge /\ rcv'.mode = mode
        /\ rcv'.buf = buf /\ rcv'.sta = rcv.sta
    BY <1>0, <1>2 DEF IsState, Fields
  <2> QED BY <2>3, <2>5, <2>6, <2>7, <2>8, <2>9 DEF Agree
<1> QED BY <1>1, <1>2 DEF Collect

-----------------------------------------------------------------------------
LEMMA AgreeInit ==
  ASSUME Init PROVE Agree(rcv)
<1> DEFINE r == [opened |-> FALSE, got_eot |-> FALSE, purge |-> FALSE, seq |-> 0,
                 first |-> FALSE, can |-> FALSE, to |-> 0, xmodem |-> FALSE,
                 old_seq |-> 0, size |-> 0, mode |-> 0, buf |-> << >>,
                 sta |-> "more"]
<1>1. IsState(r) /\ r.mode = 0 /\ r.buf = << >> /\ r.sta = "more"
  BY DEF IsState, Fields
<1>2. rcv = InitFields(r)
  BY DEF Init, ReceiverInit
<1> HIDE DEF r
<1>3. /\ IsState(rcv) /\ rcv.purge = FALSE
      /\ rcv.mode = 0 /\ rcv.buf = << >> /\ rcv.sta = "more"
  BY <1>1, <1>2, InitFieldsState
<1>4. \E S : rcv.buf \in Seq(S)
  BY <1>3, NoChars
<1>5. rcv.purge \in BOOLEAN /\ (rcv.purge <=> rcv.mode = 3)
  <2>1. rcv.mode # 3
    BY <1>3
  <2> QED BY <1>3, <2>1, Zenon
<1>6. rcv.mode # 1 /\ rcv.mode # 2
  BY <1>3
<1> QED BY <1>3, <1>4, <1>5, <1>6, Zenon DEF Agree

LEMMA AgreeNext ==
  ASSUME Agree(rcv), [Next]_vars PROVE Agree(rcv')
<1>1. CASE Receive
  <2>1. rcv.sta = "more"
    BY <1>1 DEF Receive, Over
  <2>2. (\E c : Collect(c)) \/ UNCHANGED rcv
    BY <1>1 DEF Receive
  <2> QED BY <2>1, <2>2, CollectAgrees
<1>2. CASE Timeout
  BY <1>2, TimeoutAgrees DEF Timeout
<1>3. CASE UNCHANGED rcv
  BY <1>3
<1> QED BY <1>1, <1>2, <1>3
           DEF Next, Send, OperatorCancels, ConsoleReads, vars

\* Characters are thrown away exactly until the time-out that asks for a
\* resend, and no packet outgrows its buffer: for every file, packet size and
\* number of faults of the line.
THEOREM PurgeAgrees == Spec => []PurgeMode
<1>1. Init => Agree(rcv)
  BY AgreeInit
<1>2. Agree(rcv) /\ [Next]_vars => Agree(rcv)'
  BY AgreeNext
<1>3. Agree(rcv) => PurgeMode
  <2> SUFFICES ASSUME Agree(rcv) PROVE PurgeMode
    OBVIOUS
  <2>1. rcv.mode \notin {1, 2} => Len(rcv.buf) < 1
    BY NoChars DEF Agree
  <2> QED BY <2>1 DEF Agree, PurgeMode
<1> QED BY <1>1, <1>2, <1>3, PTL DEF Spec

-----------------------------------------------------------------------------
(***************************************************************************)
(* Types.  The only hard part is the CRC, a fold: that its recursion has a *)
(* solution, and that the solution is two bytes.                           *)
(***************************************************************************)

LEMMA XorType ==
  ASSUME NEW a \in Byte, NEW b \in Byte
  PROVE  Xor[a][b] \in Byte
<1> DEFINE bit(x, y) == (x + y) % 2
           two(x, y) == 2 * bit(x \div 2, y \div 2) + bit(x, y)
           four(x, y) == 4 * two(x \div 4, y \div 4) + two(x, y)
<1>1. \A x, y \in Nat : bit(x, y) \in 0 .. 1
  OBVIOUS
<1>2. \A x \in Nat : x \div 2 \in Nat /\ x \div 4 \in Nat /\ x \div 16 \in Nat
  OBVIOUS
<1> HIDE DEF bit
<1>3. \A x, y \in Nat : two(x, y) \in 0 .. 3
  <2> SUFFICES ASSUME NEW x \in Nat, NEW y \in Nat PROVE two(x, y) \in 0 .. 3
    OBVIOUS
  <2>1. bit(x \div 2, y \div 2) \in 0 .. 1 /\ bit(x, y) \in 0 .. 1
    BY <1>1, <1>2
  <2> QED BY <2>1
<1> HIDE DEF two
<1>4. \A x, y \in Nat : four(x, y) \in 0 .. 15
  <2> SUFFICES ASSUME NEW x \in Nat, NEW y \in Nat PROVE four(x, y) \in 0 .. 15
    OBVIOUS
  <2>1. two(x \div 4, y \div 4) \in 0 .. 3 /\ two(x, y) \in 0 .. 3
    BY <1>2, <1>3
  <2> QED BY <2>1
<1> HIDE DEF four
<1>5. a \in Nat /\ b \in Nat
  BY DEF Byte
<1>6. four(a \div 16, b \div 16) \in 0 .. 15 /\ four(a, b) \in 0 .. 15
  BY <1>2, <1>4, <1>5
<1>7. Xor[a][b] = 16 * four(a \div 16, b \div 16) + four(a, b)
  BY DEF Xor, four, two, bit
<1> QED BY <1>6, <1>7 DEF Byte

CrcBytes == Byte \X Byte

LEMMA CrcUpdateType ==
  ASSUME NEW crc \in CrcBytes, NEW ch \in Byte
  PROVE  nk_crc16be_update[crc][ch] \in CrcBytes
<1> DEFINE e == Xor[crc[1]][ch]
           x == Xor[e][e \div 16]
<1>1. crc[1] \in Byte /\ crc[2] \in Byte
  BY DEF CrcBytes
<1>2. e \in Byte
  BY <1>1, XorType
<1>3. nk_crc16be_update[crc][ch] =
        <<Xor[Xor[crc[2]][16 * (x % 16)]][x \div 8], Xor[32 * (x % 8)][x]>>
  BY DEF nk_crc16be_update, CrcBytes
<1> HIDE DEF e
<1>4. e \div 16 \in Byte
  BY <1>2 DEF Byte
<1>5. x \in Byte
  BY <1>2, <1>4, XorType
<1> HIDE DEF x
<1>6. 16 * (x % 16) \in Byte /\ x \div 8 \in Byte /\ 32 * (x % 8) \in Byte
  BY <1>5 DEF Byte
<1>7. Xor[crc[2]][16 * (x % 16)] \in Byte
  BY <1>1, <1>6, XorType
<1>8. Xor[Xor[crc[2]][16 * (x % 16)]][x \div 8] \in Byte
  BY <1>6, <1>7, XorType
<1>9. Xor[32 * (x % 8)][x] \in Byte
  BY <1>5, <1>6, XorType
<1> QED BY <1>3, <1>8, <1>9 DEF CrcBytes

\* One step of the CRC: the positions s without the last of them, and it.
CrcStep(payload, g, s) ==
  IF s = {} THEN <<0, 0>>
  ELSE nk_crc16be_update[g[s \ {Max(s)}]][payload[Max(s)] % 256]

\* g computes the CRC on the sets D of positions.
IsCrc(payload, D, g) == g = [s \in D |-> CrcStep(payload, g, s)]

\* The recursion of the CRC has a solution: on the empty set of positions,
\* and, if on the sets of at most k - 1, then on those of at most k.
LEMMA CrcExists ==
  ASSUME NEW payload \in Seq(Nat), NEW n \in Nat
  PROVE  \E g : IsCrc(payload, Small(payload, n), g)
<1> DEFINE T == {k \in Nat : ~ \E g : IsCrc(payload, Small(payload, k), g)}
<1>0. \A s \in Positions(payload) :
        Cardinality(s) \in Nat /\ (Cardinality(s) = 0 <=> s = {})
  <2>1. Len(payload) \in Nat
    OBVIOUS
  <2> QED BY <2>1, PositionsFinite
<1>1. SUFFICES ASSUME T # {} PROVE FALSE
  OBVIOUS
<1>2. PICK k \in T : \A j \in T : k <= j
  BY <1>1, LeastNat
<1>3. CASE k = 0
  <2>1. \A s \in Small(payload, 0) : s = {}
    BY <1>0 DEF Small
  <2> DEFINE g == [s \in Small(payload, 0) |-> <<0, 0>>]
  <2>2. \A s \in Small(payload, 0) : CrcStep(payload, g, s) = <<0, 0>>
    BY <2>1 DEF CrcStep
  <2>3. IsCrc(payload, Small(payload, 0), g)
    BY <2>2 DEF IsCrc
  <2> QED BY <1>2, <1>3, <2>3
<1>4. CASE k # 0
  <2>1. k - 1 \in Nat /\ k - 1 \notin T
    BY <1>2, <1>4
  <2>2. PICK g : IsCrc(payload, Small(payload, k - 1), g)
    BY <2>1
  <2> DEFINE D == Small(payload, k)
             E == Small(payload, k - 1)
             h == [s \in D |-> CrcStep(payload, g, s)]
  <2>3. ASSUME NEW s \in D, s # {} PROVE s \ {Max(s)} \in E
    BY <2>1, <2>3, PositionsFinite DEF Small
  <2>4. E \subseteq D
    BY <1>0, <2>1 DEF Small
  <2> HIDE DEF D, E
  <2>5. \A s \in E : g[s] = CrcStep(payload, g, s)
    BY <2>2 DEF IsCrc, E
  <2>6. \A s \in E : h[s] = g[s]
    BY <2>4, <2>5
  <2>7. \A s \in D : CrcStep(payload, g, s) = CrcStep(payload, h, s)
    <3> HIDE DEF h
    <3> QED BY <2>3, <2>6 DEF CrcStep
  <2>8. IsCrc(payload, D, h)
    BY <2>7 DEF IsCrc
  <2> QED BY <1>2, <2>8 DEF D
<1> QED BY <1>3, <1>4

\* Every solution has pairs of bytes as its values.
LEMMA CrcValues ==
  ASSUME NEW payload \in Seq(Nat), NEW g,
         IsCrc(payload, Positions(payload), g)
  PROVE  \A s \in Positions(payload) : g[s] \in CrcBytes
<1> DEFINE B == {s \in Positions(payload) : g[s] \notin CrcBytes}
           T == {Cardinality(s) : s \in B}
<1>1. SUFFICES ASSUME B # {} PROVE FALSE
  OBVIOUS
<1>0. \A s \in Positions(payload) : Cardinality(s) \in Nat
  <2>1. Len(payload) \in Nat
    OBVIOUS
  <2> QED BY <2>1, PositionsFinite
<1>2. T \subseteq Nat /\ T # {}
  BY <1>0, <1>1
<1>3. PICK k \in T : \A j \in T : k <= j
  BY <1>2, LeastNat
<1>4. PICK s \in B : Cardinality(s) = k
  BY <1>3
<1>5. g[s] = CrcStep(payload, g, s)
  BY DEF IsCrc
<1>6. s # {}
  BY <1>5 DEF CrcStep, CrcBytes, Byte
<1> DEFINE x == Max(s)
           r == s \ {x}
<1>7. /\ r \in Positions(payload) /\ x \in s /\ x \in 1 .. Len(payload)
      /\ Cardinality(r) = k - 1 /\ k \in Nat
  BY <1>2, <1>4, <1>6, PositionsFinite DEF Positions
<1>8. g[s] = nk_crc16be_update[g[r]][payload[x] % 256]
  BY <1>5, <1>6 DEF CrcStep
<1> HIDE DEF x, r
<1>9. g[r] \in CrcBytes
  <2>1. r \in B => Cardinality(r) \in T
    OBVIOUS
  <2>2. ~ (k <= k - 1)
    BY <1>7
  <2> QED BY <1>3, <1>7, <2>1, <2>2
<1>10. payload[x] \in Nat
  BY <1>7
<1>11. payload[x] % 256 \in Byte
  <2>1. \A n \in Nat : n % 256 \in Byte
    BY ONLY DEF Byte
  <2> QED BY <1>10, <2>1, Zenon
<1> DEFINE c == payload[x] % 256
           u == nk_crc16be_update[g[r]][c]
<1>12. u \in CrcBytes
  <2> HIDE DEF c
  <2> QED BY <1>9, <1>11, CrcUpdateType DEF c
<1>13. g[s] = u
  BY <1>8
<1> HIDE DEF u
<1> QED BY <1>12, <1>13

\* The definition of Crc, written out.
CrcBody(payload, f) ==
  [s \in SUBSET DOMAIN payload |->
     IF s = {} THEN <<0, 0>>
     ELSE LET x == Max(s) IN nk_crc16be_update[f[s \ {x}]][payload[x] % 256]]

LEMMA CrcDef ==
  ASSUME NEW payload
  PROVE  Crc(payload) = (CHOOSE f : f = CrcBody(payload, f))[DOMAIN payload]
BY Zenon DEF Crc, FoldLeft, MapThenFoldSet, CrcBody

LEMMA CrcType ==
  ASSUME NEW payload \in Seq(Nat)
  PROVE  Crc(payload) \in Seq(Char) /\ Len(Crc(payload)) = 2
<1> DEFINE N == 1 .. Len(payload)
           P(f) == f = CrcBody(payload, f)
           g == CHOOSE f : P(f)
<1>0. DOMAIN payload = N /\ N \in Positions(payload) /\ Len(payload) \in Nat
  BY DEF Positions
<1>1. Crc(payload) = g[N]
  BY <1>0, CrcDef
<1>2. \A f : P(f) <=> IsCrc(payload, Positions(payload), f)
  BY <1>0 DEF CrcBody, CrcStep, IsCrc, Positions
<1>3. Small(payload, Len(payload)) = Positions(payload)
  BY <1>0, PositionsFinite DEF Small
<1> HIDE DEF P
<1>4. \E f : P(f)
  BY <1>0, <1>2, <1>3, CrcExists
<1>5. P(g)
  BY <1>4
<1> HIDE DEF g
<1>6. g[N] \in CrcBytes
  BY <1>0, <1>2, <1>5, CrcValues
<1>7. Byte \subseteq Char
  BY YmodemAssumption DEF Byte, Char
<1>8. \A p \in CrcBytes : p \in Seq(Char) /\ Len(p) = 2
  <2>1. \A x, y \in Char : <<x, y>> \in Seq(Char) /\ Len(<<x, y>>) = 2
    OBVIOUS
  <2> SUFFICES ASSUME NEW p \in CrcBytes
               PROVE  p \in Seq(Char) /\ Len(p) = 2
    OBVIOUS
  <2>2. PICK x \in Byte, y \in Byte : p = <<x, y>>
    BY DEF CrcBytes
  <2>3. x \in Char /\ y \in Char
    BY <1>7
  <2> QED BY <2>1, <2>2, <2>3
<1>9. Crc(payload) \in CrcBytes
  BY <1>1, <1>6
<1> QED BY <1>8, <1>9

\* The bytes of the file, the padding, the header and the packets are
\* characters.
LEMMA Chars ==
  /\ 0 .. 255 \subseteq Char /\ Char \subseteq Nat
  /\ {SOH, STX, EOT, CAN, 0, 255} \subseteq Char
  /\ \A k \in 0 .. SeqCount - 1 : k \in Char /\ 255 - k \in Char
BY YmodemAssumption DEF Char, SOH, STX, EOT, CAN

LEMMA BlockType ==
  ASSUME NEW at \in Nat
  PROVE  Block(at) \in Seq(Char)
<1>1. \A i \in 1 .. DataLen :
        (IF at + i <= Len(File) THEN File[at + i] ELSE 0) \in Char
  <2>1. File \in Seq(0 .. 255) /\ DataLen \in Nat
    BY YmodemAssumption
  <2>2. File \in Seq(Char)
    <3>1. File \in Seq(0 .. 255)
      BY YmodemAssumption
    <3>2. 0 .. 255 \subseteq Char
      BY Chars
    <3> QED BY ONLY <3>1, <3>2, SeqOfSubset
  <2>4. \A k \in 1 .. Len(File) : File[k] \in Char
    BY <2>2
  <2>3. \A i \in 1 .. DataLen :
          at + i <= Len(File) => at + i \in 1 .. Len(File)
    BY <2>1
  <2> QED BY <2>3, <2>4, Chars
<1>2. DataLen \in Nat
  BY YmodemAssumption
<1> QED BY <1>1, <1>2 DEF Block

LEMMA HeaderType == HeaderPayload \in Seq(Char) /\ Zeros \in Seq(Char)
<1>1. /\ DataLen \in Nat /\ 1 \in 1 .. DataLen /\ 2 \in 1 .. DataLen
      /\ 65 \in Char /\ 48 + Len(File) \in Char /\ 0 \in Char
  <2>1. Len(File) \in Nat /\ Len(File) <= Max32 /\ Max32 \in Nat
    BY YmodemAssumption
  <2>2. 48 + Len(File) \in Char
    BY <2>1 DEF Char
  <2> QED BY <2>2, Chars, YmodemAssumption
<1>2. Zeros \in [1 .. DataLen -> Char]
  BY <1>1 DEF Zeros
<1>3. HeaderPayload \in [1 .. DataLen -> Char]
  BY <1>1, <1>2 DEF HeaderPayload
<1> QED BY <1>1, <1>2, <1>3

LEMMA PacketType ==
  ASSUME NEW seq \in 0 .. SeqCount - 1, NEW payload \in Seq(Char)
  PROVE  Packet(seq, payload) \in Seq(Char) \ {<< >>}
<1>1. payload \in Seq(Nat)
  BY Chars, SeqOfSubset
<1>2. Crc(payload) \in Seq(Char) /\ Len(Crc(payload)) = 2
  BY <1>1, CrcType
<1>3. SOH \in Char /\ seq \in Char /\ 255 - seq \in Char
  BY Chars
<1> DEFINE a == <<SOH, seq, 255 - seq>>
           b == Crc(payload)
<1>4. a \in Seq(Char) /\ b \in Seq(Char) /\ Len(a) = 3 /\ Len(b) = 2
  BY <1>2, <1>3
<1> HIDE DEF a, b
<1>5. /\ (a \o payload) \o b \in Seq(Char)
      /\ Len((a \o payload) \o b) = (3 + Len(payload)) + 2
  <2> DEFINE d == a \o payload
  <2>1. d \in Seq(Char) /\ Len(d) = Len(a) + Len(payload)
    <3>1. a \in Seq(Char) /\ payload \in Seq(Char)
      BY <1>4
    <3> QED BY ONLY <3>1, ConcatType
  <2> HIDE DEF d
  <2>2. d \o b \in Seq(Char) /\ Len(d \o b) = Len(d) + Len(b)
    BY <1>4, <2>1, ConcatType, Zenon
  <2> QED BY <1>4, <2>1, <2>2 DEF d
<1>6. (a \o payload) \o b # << >>
  BY <1>5
<1> QED BY <1>5, <1>6 DEF Packet, a, b

\* What is cut out of a sequence of characters.
LEMMA CutType ==
  ASSUME NEW m \in Seq(Char), NEW a \in Nat \ {0}, NEW b \in 0 .. Len(m)
  PROVE  /\ SubSeq(m, a, b) \in Seq(Char)
         /\ Len(SubSeq(m, a, b)) = IF a <= b THEN (b - a) + 1 ELSE 0
<1>1. \A i \in a .. b : m[i] \in Char
  OBVIOUS
<1> QED BY <1>1, SubSeqProperties

LEMMA PayloadType ==
  ASSUME NEW m \in Seq(Char), Len(m) >= 2
  PROVE  /\ Payload(m) \in Seq(Char)
         /\ Len(m) = ShortPacket => Len(Payload(m)) = DataLen
<1>1. Len(m) - 2 \in 0 .. Len(m)
  OBVIOUS
<1> QED BY <1>1, CutType, YmodemAssumption DEF Payload, ShortPacket

LEMMA SizeLeftType ==
  ASSUME NEW payload \in Seq(Char), NEW size \in 0 .. Max32
  PROVE  SizeLeft(payload, size) \in 0 .. Max32
BY YmodemAssumption DEF SizeLeft

LEMMA HeaderSizeType ==
  ASSUME NEW payload \in Seq(Char), Len(payload) = DataLen
  PROVE  HeaderSize(payload) \in 0 .. Max32
<1>1. 2 \in 1 .. Len(payload)
  BY YmodemAssumption
<1>2. payload[2] \in Char
  BY <1>1
<1> QED BY <1>2, YmodemAssumption DEF HeaderSize, Char

LEMMA WriteType ==
  ASSUME NEW payload \in Seq(Char), NEW size \in 0 .. Max32,
         NEW before \in Seq(Char), WriteLimited(payload, size, before)
  PROVE  data' \in Seq(Char)
<1> DEFINE n == IF Len(payload) > size THEN size ELSE Len(payload)
           w == SubSeq(payload, 1, n)
<1>1. n \in 0 .. Len(payload)
  BY YmodemAssumption
<1> HIDE DEF n
<1>2. w \in Seq(Char)
  BY <1>1, CutType
<1>3. data' = before \o w
  BY DEF WriteLimited, n
<1> HIDE DEF w
<1> QED BY <1>2, <1>3

-----------------------------------------------------------------------------
(***************************************************************************)
(* The receiver.                                                           *)
(***************************************************************************)
Answer == {ACK, NAK, CAN, REQ}

LEMMA Answers ==
  /\ << >> \in Seq(Answer) /\ <<ACK>> \in Seq(Answer) /\ <<NAK>> \in Seq(Answer)
  /\ <<REQ>> \in Seq(Answer) /\ <<ACK, REQ>> \in Seq(Answer)
  /\ <<CAN, CAN>> \in Seq(Answer)
<1>1. ACK \in Answer /\ NAK \in Answer /\ CAN \in Answer /\ REQ \in Answer
  BY DEF Answer
<1> HIDE DEF Answer
<1> QED BY <1>1

\* The part of the state that a message or a time-out changes.
RcvOK ==
  /\ rcv \in Receiver /\ data \in Seq(Char) /\ closed \in BOOLEAN
  /\ toS \in Seq(Answer)

LEMMA ReturnsType ==
  ASSUME NEW sta \in {"more", "done", "remote", "open", "sync", "purge"},
         NEW r \in Receiver, NEW out \in Seq(Answer), toS \in Seq(Answer),
         Returns(sta, r, out)
  PROVE  rcv' \in Receiver /\ toS' \in Seq(Answer)
<1> DEFINE mode == IF sta = "purge" THEN 3 ELSE 0
           end == IF sta = "purge" THEN "more" ELSE sta
<1>1. /\ mode \in 0 .. 3
      /\ end \in {"more", "done", "remote", "open", "sync"}
      /\ << >> \in Seq(Char)
  OBVIOUS
<1>2. rcv' = [r EXCEPT !.buf = << >>, !.mode = mode, !.sta = end]
  BY DEF Returns
<1> HIDE DEF mode, end
<1>3. rcv' \in Receiver
  BY <1>1, <1>2 DEF Receiver
<1>4. toS' \in Seq(Answer)
  <2>1. toS' = toS \o out
    BY DEF Returns
  <2> QED BY ONLY <2>1, toS \in Seq(Answer), out \in Seq(Answer)
<1> QED BY <1>3, <1>4

LEMMA Numbers ==
  /\ 0 \in 0 .. SeqCount - 1 /\ 1 \in 0 .. SeqCount - 1
  /\ \A k \in Int : k % SeqCount \in 0 .. SeqCount - 1
  /\ 0 \in 0 .. Timeouts /\ Timeouts \in 0 .. Timeouts
  /\ Max32 \in 0 .. Max32 /\ 0 \in 0 .. Max32
<1>1. SeqCount \in Nat \ {0} /\ SeqCount > 1 /\ Timeouts \in Nat /\ Max32 \in Nat
  BY YmodemAssumption
<1>2. \A k \in Int : k % SeqCount \in 0 .. SeqCount - 1
  BY <1>1, ModWrap
<1> QED BY <1>1, <1>2

LEMMA InitFieldsType ==
  ASSUME NEW r \in Receiver PROVE InitFields(r) \in Receiver
BY Numbers DEF InitFields, Receiver

LEMMA WaitType ==
  ASSUME NEW m \in Seq(Char) \ {<< >>}, RcvOK, WaitForFile(m)
  PROVE  RcvOK'
<1>0. /\ rcv \in Receiver /\ data \in Seq(Char) /\ closed \in BOOLEAN
      /\ toS \in Seq(Answer)
  BY DEF RcvOK
<1>1. CASE WaitCan(m)
  <2> DEFINE r == [rcv EXCEPT !.can = TRUE, !.to = Timeouts]
  <2>1. r \in Receiver
    BY <1>0, Numbers DEF Receiver
  <2>2. /\ Returns("remote", rcv, << >>) \/ Returns("more", r, << >>)
        /\ UNCHANGED <<data, closed>>
    BY <1>1 DEF WaitCan, FileUnchanged
  <2> HIDE DEF r
  <2>3. rcv' \in Receiver /\ toS' \in Seq(Answer)
    BY <1>0, <2>1, <2>2, Answers, ReturnsType
  <2> QED BY <1>0, <2>2, <2>3 DEF RcvOK
<1>2. CASE NoMoreFiles(m) \/ OpenFails(m)
  <2> DEFINE r == [rcv EXCEPT !.can = FALSE, !.to = 0]
  <2>1. r \in Receiver
    BY <1>0, Numbers DEF Receiver
  <2>2. /\ Returns("done", r, <<ACK>>) \/ Returns("open", r, <<CAN, CAN>>)
        /\ UNCHANGED <<data, closed>>
    BY <1>2 DEF NoMoreFiles, OpenFails, FileUnchanged
  <2> HIDE DEF r
  <2>3. rcv' \in Receiver /\ toS' \in Seq(Answer)
    BY <1>0, <2>1, <2>2, Answers, ReturnsType
  <2> QED BY <1>0, <2>2, <2>3 DEF RcvOK
<1>3. CASE OpenFile(m)
  <2> DEFINE size == HeaderSize(Payload(m))
             r == [rcv EXCEPT !.can = FALSE, !.to = 0, !.old_seq = 0, !.seq = 1,
                              !.opened = TRUE, !.first = TRUE, !.size = size]
  <2>1. size \in 0 .. Max32
    <3>1. Len(m) = ShortPacket
      BY <1>3 DEF OpenFile, IsHeader, IsShort
    <3> QED BY <3>1, PacketSizes, PayloadType, HeaderSizeType
  <2>2. /\ Returns("more", r, <<ACK>>) /\ data' = << >> /\ closed' = closed
    BY <1>3 DEF OpenFile
  <2> HIDE DEF size
  <2>3. r \in Receiver
    BY <1>0, <2>1, Numbers DEF Receiver
  <2> HIDE DEF r
  <2>4. rcv' \in Receiver /\ toS' \in Seq(Answer)
    BY <1>0, <2>2, <2>3, Answers, ReturnsType
  <2>5. data' \in Seq(Char)
    BY <2>2
  <2> QED BY <1>0, <2>2, <2>4, <2>5 DEF RcvOK
<1>4. CASE OpenAnonymous(m)
  <2> DEFINE size == SizeLeft(Payload(m), Max32)
             seq == 2 % SeqCount
             r == [rcv EXCEPT !.can = FALSE, !.to = 0, !.old_seq = 1,
                              !.seq = seq, !.opened = TRUE,
                              !.xmodem = TRUE, !.first = FALSE, !.size = size]
  <2>1. /\ Payload(m) \in Seq(Char) /\ size \in 0 .. Max32
        /\ seq \in 0 .. SeqCount - 1
    <3>0. Len(m) = ShortPacket
      BY <1>4 DEF OpenAnonymous, IsHeader, IsShort
    <3>1. Payload(m) \in Seq(Char)
      BY <3>0, PacketSizes, PayloadType
    <3>2. size \in 0 .. Max32
      BY <3>1, SizeLeftType, Numbers
    <3>3. seq \in 0 .. SeqCount - 1
      <4>1. 2 \in Int
        OBVIOUS
      <4> QED BY <4>1, Numbers, Zenon
    <3> QED BY <3>1, <3>2, <3>3
  <2>2. /\ Returns("more", r, <<ACK>>) /\ closed' = closed
        /\ WriteLimited(Payload(m), Max32, << >>)
    BY <1>4 DEF OpenAnonymous
  <2> HIDE DEF size, seq
  <2>3. r \in Receiver
    BY <1>0, <2>1, Numbers DEF Receiver
  <2> HIDE DEF r
  <2>4. rcv' \in Receiver /\ toS' \in Seq(Answer)
    BY <1>0, <2>2, <2>3, Answers, ReturnsType
  <2>5. << >> \in Seq(Char)
    OBVIOUS
  <2>6. data' \in Seq(Char)
    BY <2>1, <2>2, <2>5, Numbers, WriteType
  <2> QED BY <1>0, <2>2, <2>4, <2>6 DEF RcvOK
<1>5. CASE WaitJunk(m)
  <2> DEFINE r == [rcv EXCEPT !.can = FALSE, !.purge = TRUE, !.to = 0]
  <2>1. r \in Receiver
    BY <1>0, Numbers DEF Receiver
  <2>2. Returns("purge", r, << >>) /\ UNCHANGED <<data, closed>>
    BY <1>5 DEF WaitJunk, FileUnchanged
  <2> HIDE DEF r
  <2>3. rcv' \in Receiver /\ toS' \in Seq(Answer)
    BY <1>0, <2>1, <2>2, Answers, ReturnsType
  <2> QED BY <1>0, <2>2, <2>3 DEF RcvOK
<1> QED BY <1>1, <1>2, <1>3, <1>4, <1>5 DEF WaitForFile

LEMMA DataType ==
  ASSUME NEW m \in Seq(Char) \ {<< >>}, RcvOK, ReceiveData(m)
  PROVE  RcvOK'
<1>0. /\ rcv \in Receiver /\ data \in Seq(Char) /\ closed \in BOOLEAN
      /\ toS \in Seq(Answer)
  BY DEF RcvOK
<1> DEFINE n == NoEotNoCan
<1>00. n \in Receiver
  BY <1>0 DEF Receiver, NoEotNoCan
<1> HIDE DEF n
<1>1. CASE DataCan(m)
  <2> DEFINE r == [rcv EXCEPT !.got_eot = FALSE, !.can = TRUE]
             sta == IF rcv.can THEN "remote" ELSE "more"
  <2>1. r \in Receiver /\ sta \in {"remote", "more"}
    BY <1>0 DEF Receiver
  <2>2. Returns(sta, r, << >>) /\ UNCHANGED <<data, closed>>
    BY <1>1 DEF DataCan, FileUnchanged
  <2> HIDE DEF r, sta
  <2>3. rcv' \in Receiver /\ toS' \in Seq(Answer)
    BY <1>0, <2>1, <2>2, Answers, ReturnsType
  <2> QED BY <1>0, <2>2, <2>3 DEF RcvOK
<1>2. CASE SameBlock(m) \/ OutOfSync(m)
  <2>1. /\ Returns("more", n, <<ACK>>) \/ Returns("sync", n, <<CAN, CAN>>)
        /\ UNCHANGED <<data, closed>>
    BY <1>2 DEF SameBlock, OutOfSync, FileUnchanged, n
  <2>2. rcv' \in Receiver /\ toS' \in Seq(Answer)
    BY <1>0, <1>00, <2>1, Answers, ReturnsType
  <2> QED BY <1>0, <2>1, <2>2 DEF RcvOK
<1>3. CASE NextBlock(m)
  <2> DEFINE size == SizeLeft(Payload(m), rcv.size)
             seq == (rcv.seq + 1) % SeqCount
             r == [n EXCEPT !.size = size, !.first = FALSE,
                            !.old_seq = rcv.seq, !.seq = seq]
  <2>1. /\ Payload(m) \in Seq(Char) /\ rcv.size \in 0 .. Max32
        /\ rcv.seq \in 0 .. SeqCount - 1
    <3>1. Len(m) \in {ShortPacket, LongPacket}
      BY <1>3 DEF NextBlock, IsData, IsShort, IsLong
    <3>2. Payload(m) \in Seq(Char)
      BY <3>1, PacketSizes, PayloadType
    <3> QED BY <1>0, <3>2 DEF Receiver
  <2>2. size \in 0 .. Max32 /\ seq \in 0 .. SeqCount - 1
    <3>1. size \in 0 .. Max32
      BY <2>1, SizeLeftType
    <3>2. rcv.seq + 1 \in Int
      BY <2>1, YmodemAssumption
    <3>3. seq \in 0 .. SeqCount - 1
      BY <3>2, Numbers, Zenon
    <3> QED BY <3>1, <3>3
  <2>3. /\ Returns("more", r, <<ACK>>) /\ closed' = closed
        /\ WriteLimited(Payload(m), rcv.size, data)
    BY <1>3 DEF NextBlock, n
  <2> HIDE DEF size, seq
  <2>4. r \in Receiver
    BY <1>00, <2>1, <2>2 DEF Receiver
  <2> HIDE DEF r
  <2>5. rcv' \in Receiver /\ toS' \in Seq(Answer)
    BY <1>0, <2>3, <2>4, Answers, ReturnsType
  <2>6. data' \in Seq(Char)
    BY <1>0, <2>1, <2>3, WriteType
  <2> QED BY <1>0, <2>3, <2>5, <2>6 DEF RcvOK
<1>4. CASE EndOfFile(m)
  <2> DEFINE r == [rcv EXCEPT !.can = FALSE]
             i == InitFields(rcv)
             s == [i EXCEPT !.to = 0]
             t == [rcv EXCEPT !.can = FALSE, !.got_eot = TRUE]
  <2>1. r \in Receiver /\ t \in Receiver
    BY <1>0 DEF Receiver
  <2>2. /\ \/ Returns("done", r, <<ACK>>)
           \/ Returns("more", s, <<ACK, REQ>>)
           \/ Returns("more", t, <<NAK>>)
        /\ data' = data /\ closed' \in {TRUE, closed}
    BY <1>4 DEF EndOfFile
  <2>3. i \in Receiver
    BY <1>0, InitFieldsType
  <2> HIDE DEF i
  <2>4. s \in Receiver
    BY <2>3, Numbers DEF Receiver
  <2> HIDE DEF r, s, t
  <2>5. rcv' \in Receiver /\ toS' \in Seq(Answer)
    BY <1>0, <2>1, <2>2, <2>4, Answers, ReturnsType
  <2> QED BY <1>0, <2>2, <2>5 DEF RcvOK
<1>5. CASE DataJunk(m)
  <2> DEFINE r == [n EXCEPT !.purge = TRUE]
  <2>1. r \in Receiver
    BY <1>00 DEF Receiver
  <2>2. Returns("purge", r, << >>) /\ UNCHANGED <<data, closed>>
    BY <1>5 DEF DataJunk, FileUnchanged, n
  <2> HIDE DEF r
  <2>3. rcv' \in Receiver /\ toS' \in Seq(Answer)
    BY <1>0, <2>1, <2>2, Answers, ReturnsType
  <2> QED BY <1>0, <2>2, <2>3 DEF RcvOK
<1> QED BY <1>1, <1>2, <1>3, <1>4, <1>5 DEF ReceiveData

LEMMA TimeoutType ==
  ASSUME RcvOK, PurgeTimeout \/ WaitTimeout \/ DataTimeout, FileUnchanged
  PROVE  RcvOK'
<1>0. /\ rcv \in Receiver /\ data \in Seq(Char) /\ closed \in BOOLEAN
      /\ toS \in Seq(Answer) /\ data' = data /\ closed' = closed
  BY DEF RcvOK, FileUnchanged
<1>1. CASE PurgeTimeout
  <2> DEFINE r == [rcv EXCEPT !.purge = FALSE]
  <2>1. r \in Receiver
    BY <1>0 DEF Receiver
  <2>2. Returns("more", r, <<REQ>>)
    BY <1>1 DEF PurgeTimeout
  <2> HIDE DEF r
  <2> QED BY <1>0, <2>1, <2>2, Answers, ReturnsType DEF RcvOK
<1>2. CASE WaitTimeout
  <2> DEFINE r == [rcv EXCEPT !.to = @ - 1]
             s == InitFields(rcv)
  <2>1. rcv.to > 0 => r \in Receiver
    <3> DEFINE y == rcv.to - 1
    <3>1. rcv.to \in 0 .. Timeouts /\ Timeouts \in Nat
      BY <1>0, YmodemAssumption DEF Receiver
    <3>2. rcv.to > 0 => y \in 0 .. Timeouts
      BY <3>1
    <3>3. r = [rcv EXCEPT !.to = y]
      OBVIOUS
    <3> HIDE DEF r, y
    <3> QED BY <1>0, <3>2, <3>3 DEF Receiver
  <2>2. s \in Receiver
    BY <1>0, InitFieldsType
  <2>3. (rcv.to > 0 /\ Returns("more", r, << >>)) \/ Returns("more", s, <<REQ>>)
    BY <1>2 DEF WaitTimeout
  <2> HIDE DEF r, s
  <2> QED BY <1>0, <2>1, <2>2, <2>3, Answers, ReturnsType DEF RcvOK
<1>3. CASE DataTimeout
  <2> DEFINE r == NoEotNoCan
             out == IF rcv.first THEN <<REQ>> ELSE <<NAK>>
  <2>1. r \in Receiver
    BY <1>0 DEF Receiver, NoEotNoCan
  <2>2. Returns("more", r, out)
    BY <1>3 DEF DataTimeout
  <2>3. out \in Seq(Answer)
    BY Answers
  <2> HIDE DEF r, out
  <2> QED BY <1>0, <2>1, <2>2, <2>3, ReturnsType DEF RcvOK
<1> QED BY <1>1, <1>2, <1>3

LEMMA CollectType ==
  ASSUME NEW c \in Char, RcvOK, Collect(c)
  PROVE  RcvOK'
<1>0. /\ rcv \in Receiver /\ data \in Seq(Char) /\ closed \in BOOLEAN
      /\ toS \in Seq(Answer) /\ rcv.buf \in Seq(Char) /\ rcv.mode \in 0 .. 3
  BY DEF RcvOK, Receiver
<1> DEFINE m == Append(rcv.buf, c)
           mode == CASE rcv.mode = 0 /\ c = SOH -> 1
                     [] rcv.mode = 0 /\ c = STX -> 2
                     [] OTHER -> rcv.mode
           buf == IF mode \in {1, 2} THEN m ELSE << >>
<1>1. m \in Seq(Char) /\ m # << >> /\ mode \in 0 .. 3
  BY <1>0
<1>2. CASE ymodem_rcv(m)
  BY <1>1, <1>2, WaitType, DataType DEF ymodem_rcv
<1>3. CASE /\ rcv' = [rcv EXCEPT !.mode = mode, !.buf = buf]
           /\ UNCHANGED <<data, closed, toS>>
  <2>1. buf \in Seq(Char)
    BY <1>1
  <2> HIDE DEF mode, buf, m
  <2>2. rcv' \in Receiver
    BY <1>0, <1>1, <1>3, <2>1 DEF Receiver
  <2> QED BY <1>0, <1>3, <2>2 DEF RcvOK
<1> QED BY <1>2, <1>3 DEF Collect, FileUnchanged

-----------------------------------------------------------------------------
(***************************************************************************)
(* The sender and the line.                                                *)
(***************************************************************************)
Message == Seq(Char) \ {<< >>}

\* A transmission leaves the line with its last character.
GoneOK == gone \in Nat /\ gone < IF toR = << >> THEN 1 ELSE Len(toR[1])

SndOK == snd \in Sender /\ toR \in Seq(Message) /\ GoneOK

LEMMA EotMessage == <<EOT>> \in Message /\ <<CAN>> \in Message
<1>1. EOT \in Char /\ CAN \in Char
  BY Chars
<1> QED BY <1>1 DEF Message

\* What is sent does not disturb the transmission that is being read.
LEMMA LineGrows ==
  ASSUME toR \in Seq(Message), GoneOK, NEW more \in Seq(Message), more # << >>,
         toR' = toR \o more, gone' = gone
  PROVE  toR' \in Seq(Message) /\ GoneOK'
<1>1. /\ toR' \in Seq(Message) /\ Len(toR') = Len(toR) + Len(more)
      /\ Len(toR) \in Nat /\ Len(more) \in Nat \ {0}
  BY ConcatType, EmptySeq
<1>2. toR' # << >>
  BY <1>1, EmptySeq
<1>3. CASE toR = << >>
  <2>1. toR'[1] \in Message
    BY <1>1, <1>3, NoChars
  <2>2. Len(toR'[1]) \in Nat \ {0}
    BY <2>1, EmptySeq DEF Message
  <2> QED BY <1>1, <1>2, <1>3, <2>2 DEF GoneOK
<1>4. CASE toR # << >>
  <2>1. 1 \in 1 .. Len(toR) + Len(more) /\ 1 <= Len(toR)
    BY <1>1, <1>4, EmptySeq
  <2>2. toR'[1] = toR[1]
    BY <2>1, ConcatProperties
  <2> QED BY <1>1, <1>2, <1>4, <2>2 DEF GoneOK
<1> QED BY <1>3, <1>4

LEMMA SendsType ==
  ASSUME toR \in Seq(Message), GoneOK, NEW m \in Message, Sends(m), gone' = gone
  PROVE  toR' \in Seq(Message) /\ GoneOK'
<1> DEFINE more == <<m>>
<1>1. more \in Seq(Message) /\ more # << >>
  OBVIOUS
<1>2. toR' = toR \o more
  BY DEF Sends
<1> HIDE DEF more
<1> QED BY <1>1, <1>2, LineGrows

LEMMA SenderType ==
  ASSUME SndOK, NEW c, nk_ysend_evt(c), gone' = gone
  PROVE  SndOK'
<1>0. snd \in Sender /\ toR \in Seq(Message) /\ snd.packet \in Message /\ GoneOK
  BY DEF SndOK, Sender, Message
<1>00. toR' = toR => GoneOK'
  BY <1>0 DEF GoneOK
<1>1. CASE Resend(c)
  <2> DEFINE m == IF snd.eot THEN <<EOT>> ELSE snd.packet
  <2>1. m \in Message
    BY <1>0, EotMessage
  <2>2. Sends(m) /\ snd' = snd
    BY <1>1 DEF Resend
  <2> HIDE DEF m
  <2>3. toR' \in Seq(Message) /\ GoneOK'
    BY <1>0, <2>1, <2>2, SendsType
  <2> QED BY <1>0, <2>2, <2>3 DEF SndOK
<1>2. CASE AckOfEot(c)
  <2> DEFINE p == Packet(0, Zeros)
  <2>1. p \in Message
    BY HeaderType, PacketType, Numbers DEF Message
  <2>2. /\ snd' = [snd EXCEPT !.eot = FALSE, !.fin = TRUE, !.hdr = TRUE,
                              !.seq = 0, !.packet = p]
        /\ toR' = toR
    BY <1>2 DEF AckOfEot
  <2> HIDE DEF p
  <2>3. snd' \in Sender
    BY <1>0, <2>1, <2>2, Numbers DEF Sender, Message
  <2> QED BY <1>0, <1>00, <2>2, <2>3 DEF SndOK
<1>3. CASE AckOfFin(c) \/ CancelSend(c)
  <2>1. /\ \/ snd' = [snd EXCEPT !.sta = "done"]
           \/ snd' = [snd EXCEPT !.sta = "cancel"]
        /\ toR' = toR
    BY <1>3 DEF AckOfFin, CancelSend
  <2>2. snd' \in Sender
    BY <1>0, <2>1 DEF Sender
  <2> QED BY <1>0, <1>00, <2>1, <2>2 DEF SndOK
<1>4. CASE AckOfBlock(c)
  <2> DEFINE seq == (snd.seq + 1) % SeqCount
             more == snd.read < Len(File)
             packet == Packet(seq, Block(snd.read))
             read == IF more THEN snd.read + DataLen ELSE snd.read
             next == IF more THEN packet ELSE snd.packet
             m == IF more THEN packet ELSE <<EOT>>
  <2>1. /\ snd.seq \in 0 .. SeqCount - 1 /\ snd.read \in Nat
        /\ DataLen \in Nat /\ SeqCount \in Nat
    BY <1>0, YmodemAssumption DEF Sender
  <2>2. seq \in 0 .. SeqCount - 1
    <3>1. snd.seq + 1 \in Int
      BY <2>1
    <3> QED BY <3>1, Numbers, Zenon
  <2>3. Block(snd.read) \in Seq(Char)
    BY <2>1, BlockType
  <2> HIDE DEF seq
  <2>4. packet \in Message
    BY <2>2, <2>3, PacketType DEF Message
  <2>5. /\ snd' = [snd EXCEPT !.seq = seq, !.hdr = FALSE, !.eot = ~ more,
                              !.read = read, !.packet = next]
        /\ toR' = toR \/ Sends(m)
    BY <1>4 DEF AckOfBlock, seq
  <2> HIDE DEF packet
  <2>6. read \in Nat /\ next \in Message /\ m \in Message /\ (~ more) \in BOOLEAN
    BY <1>0, <2>1, <2>4, EotMessage
  <2> DEFINE eot == ~ more
  <2>7. eot \in BOOLEAN
    BY <2>6
  <2> HIDE DEF read, next, m, eot
  <2>8. snd' = [snd EXCEPT !.seq = seq, !.hdr = FALSE, !.eot = eot,
                           !.read = read, !.packet = next]
    BY <2>5 DEF eot
  <2> HIDE DEF more
  <2>9. snd' \in Sender
    BY <1>0, <2>2, <2>6, <2>7, <2>8 DEF Sender, Message
  <2>10. toR' \in Seq(Message) /\ GoneOK'
    BY <1>0, <1>00, <2>5, <2>6, SendsType
  <2> QED BY <2>9, <2>10 DEF SndOK
<1> QED BY <1>1, <1>2, <1>3, <1>4 DEF nk_ysend_evt

\* A character leaves the line; a transmission is never empty.
LEMMA NextCharType ==
  ASSUME toR \in Seq(Message), GoneOK, NextChar
  PROVE  toR' \in Seq(Message) /\ GoneOK' /\ toR[1][gone + 1] \in Char
<1>1. Len(toR) \in Nat \ {0} /\ 1 \in 1 .. Len(toR) /\ toR[1] \in Message
  BY EmptySeq DEF NextChar
<1> DEFINE m == toR[1]
<1>2. m \in Seq(Char) /\ m # << >>
  BY <1>1 DEF Message
<1>3. Len(m) \in Nat \ {0}
  BY <1>2, EmptySeq
<1>4. gone \in Nat /\ gone < Len(m)
  BY DEF GoneOK, NextChar
<1>5. m[gone + 1] \in Char
  <2>1. gone + 1 \in 1 .. Len(m)
    BY <1>3, <1>4
  <2> QED BY <1>2, <2>1
<1>6. CASE gone + 1 = Len(m)
  <2>1. toR' = Tail(toR) /\ gone' = 0 /\ toR # << >>
    BY <1>6 DEF NextChar
  <2>2. toR' \in Seq(Message)
    BY <2>1, HeadTailProperties
  <2>3. toR' # << >> => Len(toR'[1]) \in Nat \ {0}
    <3>1. toR' # << >> => toR'[1] \in Message
      BY <2>2, EmptySeq
    <3> QED BY <3>1, EmptySeq DEF Message
  <2> QED BY <1>5, <2>1, <2>2, <2>3 DEF GoneOK
<1>7. CASE gone + 1 # Len(m)
  <2>1. toR' = toR /\ gone' = gone + 1 /\ toR # << >>
    BY <1>7 DEF NextChar
  <2>2. gone + 1 < Len(m)
    BY <1>3, <1>4, <1>7
  <2> QED BY <1>4, <1>5, <2>1, <2>2 DEF GoneOK
<1> QED BY <1>6, <1>7

LineOK == faults \in 0 .. MaxFaults /\ harm \subseteq {"stray", "late", "ending"}

LEMMA FaultType ==
  ASSUME LineOK, NEW kinds, kinds \subseteq {"stray", "late", "ending"},
         Fault(kinds)
  PROVE  LineOK'
BY YmodemAssumption DEF LineOK, Fault

LEMMA TypeOKParts ==
  TypeOK <=> SndOK /\ RcvOK /\ LineOK
BY DEF TypeOK, SndOK, GoneOK, RcvOK, LineOK, Message, Answer

LEMMA InitType == ASSUME Init PROVE TypeOK
<1>1. SndOK
  <2> DEFINE p == Packet(0, HeaderPayload)
  <2>1. p \in Message
    BY HeaderType, PacketType, Numbers DEF Message
  <2>2. /\ snd = [eot |-> FALSE, fin |-> FALSE, hdr |-> TRUE, seq |-> 0,
                  read |-> 0, packet |-> p, sta |-> "more"]
        /\ toR = << >> /\ gone = 0
    BY DEF Init, SenderInit
  <2> HIDE DEF p
  <2>3. snd \in Sender
    BY <2>1, <2>2, Numbers DEF Sender, Message
  <2> QED BY <2>2, <2>3 DEF SndOK, GoneOK
<1>2. RcvOK
  <2> DEFINE r == [opened |-> FALSE, got_eot |-> FALSE, purge |-> FALSE,
                   seq |-> 0, first |-> FALSE, can |-> FALSE, to |-> 0,
                   xmodem |-> FALSE, old_seq |-> 0, size |-> 0, mode |-> 0,
                   buf |-> << >>, sta |-> "more"]
  <2>1. << >> \in Seq(Char) /\ 0 \in 0 .. 3
    OBVIOUS
  <2>2. r \in Receiver
    BY <2>1, Numbers DEF Receiver
  <2>3. rcv = InitFields(r)
    BY DEF Init, ReceiverInit
  <2> HIDE DEF r
  <2>4. rcv \in Receiver
    BY <2>2, <2>3, InitFieldsType
  <2>5. data \in Seq(Char) /\ closed \in BOOLEAN /\ toS = <<REQ>>
    BY <2>1 DEF Init
  <2> QED BY <2>4, <2>5, Answers DEF RcvOK
<1>3. LineOK
  BY YmodemAssumption DEF Init, LineOK
<1> QED BY <1>1, <1>2, <1>3, TypeOKParts

LEMMA NextType == ASSUME TypeOK, [Next]_vars PROVE TypeOK'
<1>0. /\ SndOK /\ RcvOK /\ LineOK /\ toR \in Seq(Message) /\ GoneOK
      /\ toS \in Seq(Answer)
  BY TypeOKParts DEF SndOK, RcvOK
<1>p. SndOK' /\ RcvOK' /\ LineOK' => TypeOK'
  BY DEF TypeOK, SndOK, GoneOK, RcvOK, LineOK, Message, Answer
<1>1. CASE Receive
  <2> DEFINE c == toR[1][gone + 1]
  <2>1. toR' \in Seq(Message) /\ GoneOK' /\ c \in Char
    BY <1>0, <1>1, NextCharType DEF Receive
  <2>2. SndOK'
    BY <1>0, <1>1, <2>1 DEF Receive, SndOK
  <2>3. \A x, b : StrayIf(x, b) \subseteq {"stray", "late", "ending"}
    BY DEF StrayIf
  <2>4. ASSUME NEW d \in {c} \cup Noise, Collect(d),
               IF d = c THEN /\ harm' = harm \cup StrayIf(c, Len(toR[1]) = 1)
                             /\ UNCHANGED faults
               ELSE Fault(StrayIf(d, FALSE))
        PROVE  RcvOK' /\ LineOK'
    <3>1. d \in Char
      <4>1. Noise \subseteq Char
        BY Chars DEF Noise
      <4> HIDE DEF c
      <4> QED BY <2>1, <2>4, <4>1
    <3>2. RcvOK'
      BY <1>0, <2>4, <3>1, CollectType
    <3>3. LineOK'
      <4>1. CASE d = c
        BY <1>0, <2>3, <2>4, <4>1 DEF LineOK
      <4>2. CASE d # c
        BY <1>0, <2>3, <2>4, <4>2, FaultType
      <4> QED BY <4>1, <4>2
    <3> QED BY <3>2, <3>3
  <2>5. ASSUME Fault({}), UNCHANGED <<rcv, data, closed, toS>>
        PROVE  RcvOK' /\ LineOK'
    BY <1>0, <2>5, FaultType DEF RcvOK
  <2> QED BY <1>1, <1>p, <2>2, <2>4, <2>5 DEF Receive
<1>2. CASE Timeout
  <2>1. RcvOK'
    BY <1>0, <1>2, TimeoutType DEF Timeout
  <2>2. SndOK'
    BY <1>0, <1>2 DEF Timeout, SndOK, GoneOK
  <2>3. LineOK'
    BY <1>0, <1>2, FaultType DEF Timeout, NoFault, LineOK
  <2> QED BY <1>p, <2>1, <2>2, <2>3
<1>3. CASE Send
  <2> DEFINE c == Head(toS)
             ending == IF snd.eot /\ c = ACK THEN {"ending"} ELSE {}
  <2>1. toS' \in Seq(Answer)
    BY <1>0, <1>3, HeadTailProperties DEF Send
  <2>2. RcvOK'
    BY <1>0, <1>3, <2>1 DEF Send, RcvOK
  <2>3. /\ ending \subseteq {"stray", "late", "ending"}
        /\ \A d : ending \cup (IF d \in {ACK, CAN} THEN {"stray"} ELSE {})
                    \subseteq {"stray", "late", "ending"}
    OBVIOUS
  <2> HIDE DEF ending
  <2>4. ASSUME NEW d \in {ACK, NAK, REQ, CAN}, nk_ysend_evt(d),
               IF d = c THEN NoFault
               ELSE Fault(ending \cup IF d \in {ACK, CAN} THEN {"stray"} ELSE {})
        PROVE  SndOK' /\ LineOK'
    <3>1. SndOK'
      BY <1>0, <1>3, <2>4, SenderType DEF Send
    <3>2. CASE d = c
      BY <1>0, <2>4, <3>1, <3>2 DEF NoFault, LineOK
    <3>3. CASE d # c
      BY <1>0, <2>3, <2>4, <3>1, <3>3, FaultType
    <3> QED BY <3>2, <3>3
  <2>5. ASSUME Fault(ending), UNCHANGED <<snd, toR>>
        PROVE  SndOK' /\ LineOK'
    BY <1>0, <1>3, <2>3, <2>5, FaultType DEF Send, SndOK, GoneOK
  <2> QED BY <1>3, <1>p, <2>2, <2>4, <2>5 DEF Send, ending
<1>4. CASE OperatorCancels
  <2> DEFINE two == <<<<CAN>>, <<CAN>>>>
  <2>1. two \in Seq(Message) /\ two # << >>
    BY EotMessage
  <2>2. toR' = toR \o two /\ gone' = gone
    BY <1>4 DEF OperatorCancels
  <2> HIDE DEF two
  <2>3. toR' \in Seq(Message) /\ GoneOK'
    BY <1>0, <2>1, <2>2, LineGrows
  <2>4. SndOK' /\ RcvOK'
    BY <1>0, <1>4, <2>3 DEF OperatorCancels, SndOK, RcvOK
  <2>5. LineOK'
    BY <1>0, <1>4, FaultType DEF OperatorCancels
  <2> QED BY <1>p, <2>4, <2>5
<1>5. CASE ConsoleReads
  <2>1. CASE /\ NextChar
             /\ UNCHANGED <<snd, rcv, data, closed, toS, faults, harm>>
    BY <1>0, <1>p, <2>1, NextCharType DEF SndOK, RcvOK, LineOK
  <2>2. CASE /\ toS # << >> /\ toS' = Tail(toS)
             /\ UNCHANGED <<snd, rcv, data, closed, toR, gone, faults, harm>>
    <3>1. toS' \in Seq(Answer)
      BY <1>0, <2>2, HeadTailProperties
    <3> QED BY <1>0, <1>p, <2>2, <3>1 DEF SndOK, GoneOK, RcvOK, LineOK
  <2> QED BY <1>5, <2>1, <2>2 DEF ConsoleReads
<1>6. CASE UNCHANGED vars
  BY <1>0, <1>p, <1>6 DEF vars, SndOK, GoneOK, RcvOK, LineOK
<1> QED BY <1>1, <1>2, <1>3, <1>4, <1>5, <1>6 DEF Next

\* Both ends' state is well typed, for every file, packet size and number of
\* faults: the bytes left of a file never go below 0 however many blocks are
\* written, sequence numbers stay in a byte and nothing empty is sent.
THEOREM SessionTyped == Spec => []TypeOK
<1>1. Init => TypeOK
  BY InitType
<1>2. TypeOK /\ [Next]_vars => TypeOK'
  BY NextType
<1> QED BY <1>1, <1>2, PTL DEF Spec

-----------------------------------------------------------------------------
(***************************************************************************)
(* Packets.                                                                *)
(***************************************************************************)

\* What is in a packet, and where.
LEMMA PacketParts ==
  ASSUME NEW seq \in 0 .. SeqCount - 1, NEW payload \in Seq(Char),
         Len(payload) = DataLen
  PROVE  /\ Packet(seq, payload) \in Seq(Char)
         /\ Len(Packet(seq, payload)) = ShortPacket
         /\ Packet(seq, payload)[1] = SOH
         /\ Packet(seq, payload)[2] = seq
         /\ Packet(seq, payload)[3] = 255 - seq
         /\ Payload(Packet(seq, payload)) = payload
<1>1. payload \in Seq(Nat)
  BY Chars, SeqOfSubset
<1>2. Crc(payload) \in Seq(Char) /\ Len(Crc(payload)) = 2
  BY <1>1, CrcType
<1>3. SOH \in Char /\ seq \in Char /\ 255 - seq \in Char
  BY Chars
<1> DEFINE a == <<SOH, seq, 255 - seq>>
           b == Crc(payload)
           d == a \o payload
           p == d \o b
<1>4. /\ a \in Seq(Char) /\ b \in Seq(Char) /\ Len(a) = 3 /\ Len(b) = 2
      /\ a[1] = SOH /\ a[2] = seq /\ a[3] = 255 - seq
  BY <1>2, <1>3
<1>5. DataLen \in Nat /\ DataLen >= 2
  BY YmodemAssumption
<1> HIDE DEF a, b
<1>6. /\ d \in Seq(Char) /\ Len(d) = 3 + DataLen
      /\ \A i \in 1 .. 3 + DataLen : d[i] = IF i <= 3 THEN a[i] ELSE payload[i - 3]
  <2>1. d \in Seq(Char) /\ Len(d) = Len(a) + Len(payload)
    <3>1. a \in Seq(Char) /\ payload \in Seq(Char)
      BY <1>4
    <3> QED BY ONLY <3>1, ConcatType
  <2>2. \A i \in 1 .. Len(a) + Len(payload) :
           d[i] = IF i <= Len(a) THEN a[i] ELSE payload[i - Len(a)]
    <3>1. a \in Seq(Char) /\ payload \in Seq(Char)
      BY <1>4
    <3> QED BY ONLY <3>1, ConcatProperties
  <2>3. Len(payload) = DataLen
    OBVIOUS
  <2> QED BY ONLY <1>4, <1>5, <2>1, <2>2, <2>3
<1> HIDE DEF d
<1>7. /\ p \in Seq(Char) /\ Len(p) = ShortPacket
      /\ \A i \in 1 .. 3 + DataLen : p[i] = d[i]
  <2>1. p \in Seq(Char) /\ Len(p) = Len(d) + Len(b)
    <3>1. d \in Seq(Char) /\ b \in Seq(Char)
      BY <1>4, <1>6
    <3> QED BY ONLY <3>1, ConcatType
  <2>2. \A i \in 1 .. Len(d) + Len(b) :
           p[i] = IF i <= Len(d) THEN d[i] ELSE b[i - Len(d)]
    <3>1. d \in Seq(Char) /\ b \in Seq(Char)
      BY <1>4, <1>6
    <3> QED BY ONLY <3>1, ConcatProperties
  <2>3. Len(d) + Len(b) = ShortPacket
    BY <1>4, <1>5, <1>6 DEF ShortPacket
  <2>4. \A i \in 1 .. 3 + DataLen : i \in 1 .. Len(d) + Len(b) /\ i <= Len(d)
    BY <1>4, <1>5, <1>6
  <2> HIDE DEF p
  <2> QED BY <2>1, <2>2, <2>3, <2>4
<1> HIDE DEF p
<1>8. /\ p[1] = SOH /\ p[2] = seq /\ p[3] = 255 - seq
      /\ \A i \in 1 .. DataLen : p[3 + i] = payload[i]
  <2>1. /\ \A i \in 1 .. DataLen :
             ~ (3 + i <= 3) /\ (3 + i) - 3 = i /\ 3 + i \in 1 .. 3 + DataLen
        /\ 1 \in 1 .. 3 + DataLen /\ 2 \in 1 .. 3 + DataLen /\ 3 \in 1 .. 3 + DataLen
    BY <1>5
  <2>2. p[1] = SOH /\ p[2] = seq /\ p[3] = 255 - seq
    BY <1>4, <1>6, <1>7, <2>1
  <2>3. ASSUME NEW i \in 1 .. DataLen PROVE p[3 + i] = payload[i]
    <3>1. p[3 + i] = d[3 + i]
      BY <1>7, <2>1
    <3>2. d[3 + i] = payload[(3 + i) - 3]
      BY <1>6, <2>1
    <3> QED BY <2>1, <3>1, <3>2
  <2> QED BY <2>2, <2>3
<1>9. Payload(p) = payload
  <2> DEFINE q == SubSeq(p, 4, ShortPacket - 2)
  <2>1. ShortPacket - 2 \in 0 .. Len(p) /\ 4 <= ShortPacket - 2
        /\ ((ShortPacket - 2) - 4) + 1 = DataLen
    BY <1>5, <1>7 DEF ShortPacket
  <2>2. q \in Seq(Char) /\ Len(q) = DataLen
    BY <1>7, <2>1, CutType
  <2>3. \A i \in 1 .. DataLen : q[i] = p[(4 + i) - 1]
    <3>1. /\ 4 \in Int /\ ShortPacket - 2 \in Int
          /\ \A i \in 4 .. ShortPacket - 2 : p[i] \in Char
      BY <1>7, <2>1
    <3>2. \A i \in 1 .. ((ShortPacket - 2) - 4) + 1 : q[i] = p[(4 + i) - 1]
      BY ONLY <2>1, <3>1, SubSeqProperties
    <3> QED BY <2>1, <3>2
  <2>4. \A i \in 1 .. DataLen : (4 + i) - 1 = 3 + i
    BY <1>5
  <2>5. ASSUME NEW i \in 1 .. DataLen PROVE q[i] = payload[i]
    <3> HIDE DEF q
    <3> QED BY <1>8, <2>3, <2>4
  <2>6. Payload(p) = q
    BY <1>7 DEF Payload
  <2> HIDE DEF q
  <2> QED BY <2>2, <2>5, <2>6, SeqEqual
<1>10. Packet(seq, payload) = p
  BY DEF Packet, p, d, a, b
<1> QED BY <1>2, <1>7, <1>8, <1>9, <1>10

LEMMA Payloads ==
  /\ HeaderPayload \in Seq(Char) /\ Len(HeaderPayload) = DataLen
  /\ HeaderPayload[1] # 0 /\ HeaderSize(HeaderPayload) = Len(File)
  /\ Zeros \in Seq(Char) /\ Len(Zeros) = DataLen /\ Zeros[1] = 0
  /\ \A at \in Nat : Block(at) \in Seq(Char) /\ Len(Block(at)) = DataLen
<1>1. /\ DataLen \in Nat /\ 1 \in 1 .. DataLen /\ 2 \in 1 .. DataLen
      /\ Len(File) \in Nat
  BY YmodemAssumption
<1>2. DOMAIN Zeros = 1 .. DataLen /\ \A i \in 1 .. DataLen : Zeros[i] = 0
  BY DEF Zeros
<1>3. DOMAIN HeaderPayload = 1 .. DataLen
  BY <1>2 DEF HeaderPayload
<1>4. HeaderPayload[1] = 65 /\ HeaderPayload[2] = 48 + Len(File)
  BY <1>1, <1>2 DEF HeaderPayload
<1>5. HeaderSize(HeaderPayload) = Len(File)
  BY <1>1, <1>4 DEF HeaderSize
<1>6. Len(HeaderPayload) = DataLen /\ Len(Zeros) = DataLen
  BY <1>1, <1>2, <1>3, HeaderType
<1>7. ASSUME NEW at \in Nat PROVE Len(Block(at)) = DataLen
  <2>1. DOMAIN Block(at) = 1 .. DataLen
    BY DEF Block
  <2>2. Block(at) \in Seq(Char)
    BY BlockType
  <2> QED BY <1>1, <2>1, <2>2
<1> QED BY <1>1, <1>2, <1>4, <1>5, <1>6, <1>7, HeaderType, BlockType

-----------------------------------------------------------------------------
(***************************************************************************)
(* What the two ends are doing, while nothing but loss and damage has met  *)
(* the session.  s is the sender, r the receiver, d the data written, cl   *)
(* whether the file is closed.                                             *)
(***************************************************************************)

\* What the sender has to send: the header, a block, the EOT, the empty
\* header.
SendsHeader(s) ==
  /\ s.hdr /\ ~ s.fin /\ ~ s.eot
  /\ s.seq = 0 /\ s.read = 0
  /\ s.packet = Packet(0, HeaderPayload)

SendsBlock(s) ==
  /\ ~ s.hdr /\ ~ s.fin /\ ~ s.eot
  /\ DataLen <= s.read /\ s.read - DataLen < Len(File)
  /\ s.packet = Packet(s.seq, Block(s.read - DataLen))

SendsEot(s) == ~ s.hdr /\ ~ s.fin /\ s.eot /\ Len(File) <= s.read

SendsEnd(s) ==
  /\ s.hdr /\ s.fin /\ ~ s.eot
  /\ s.seq = 0
  /\ s.packet = Packet(0, Zeros)

\* The receiver has the first n bytes of the file.
Holds(r, d, n) == d = SubSeq(File, 1, n) /\ r.size = Len(File) - n

\* The receiver waits for what the sender has to send.
Pending(s, r, d, cl) ==
  \/ SendsHeader(s) /\ ~ r.opened /\ ~ cl
  \/ /\ SendsBlock(s) /\ r.opened /\ ~ cl
     /\ r.seq = s.seq /\ r.old_seq # s.seq
     /\ Holds(r, d, s.read - DataLen)
  \/ SendsEot(s) /\ r.opened /\ ~ cl /\ d = File
  \/ SendsEnd(s) /\ ~ r.opened /\ cl /\ d = File

\* The receiver has it, and the sender does not know.
Taken(s, r, d, cl) ==
  /\ SendsHeader(s) \/ SendsBlock(s)
  /\ r.opened /\ ~ cl
  /\ r.old_seq = s.seq /\ r.seq = (s.seq + 1) % SeqCount
  /\ Holds(r, d, IF s.read <= Len(File) THEN s.read ELSE Len(File))

TakenEot(s, r, d, cl) == SendsEot(s) /\ ~ r.opened /\ cl /\ d = File

\* t is the sender's packet.
IsPacket(t, s) == ~ s.eot /\ t = s.packet

\* On the line are what the sender has to send and the operator's Ctrl-X.
Carries(line, s) ==
  \A i \in DOMAIN line :
    line[i] = <<CAN>> \/ (s.eot /\ line[i] = <<EOT>>) \/ IsPacket(line[i], s)

\* The receiver has collected no more than what has left the line of the
\* packet that is being read, and nothing before a packet starts; g
\* characters of the first transmission have left the line.
Fits(line, g, s, buf) ==
  \A i \in DOMAIN line :
    IsPacket(line[i], s) => Len(buf) <= IF i = 1 THEN g ELSE 0

Lone(line) ==
  \A i, j \in DOMAIN line : line[i] # <<CAN>> /\ line[j] # <<CAN>> => i = j

AllCan(line) == \A i \in DOMAIN line : line[i] = <<CAN>>

\* What the sender has to send is the EOT or a short packet.
Sound(s) ==
  ~ s.eot => s.packet \in Seq(Char) /\ Len(s.packet) = ShortPacket

-----------------------------------------------------------------------------
(***************************************************************************)
(* A character leaves the line to the receiver.                            *)
(***************************************************************************)
LEMMA MessageLen ==
  ASSUME NEW t \in Message
  PROVE  t \in Seq(Char) /\ Len(t) \in Nat \ {0} /\ DOMAIN t = 1 .. Len(t)
BY EmptySeq DEF Message

\* A packet is no single character.
LEMMA PacketFacts ==
  ASSUME NEW s, Sound(s), NEW t, IsPacket(t, s)
  PROVE  t \in Seq(Char) /\ Len(t) = ShortPacket /\ t # <<CAN>> /\ t # <<EOT>>
<1>1. t \in Seq(Char) /\ Len(t) = ShortPacket /\ ShortPacket > 1
  BY PacketSizes DEF IsPacket, Sound
<1>2. Len(<<CAN>>) = 1 /\ Len(<<EOT>>) = 1
  OBVIOUS
<1>3. t # <<CAN>> /\ t # <<EOT>>
  BY <1>1, <1>2, PacketSizes
<1> QED BY <1>1, <1>3

\* What is on the line, and how much of its first transmission is gone, when
\* one more character has left it.
NextLine(line, g) == IF g + 1 = Len(line[1]) THEN Tail(line) ELSE line
NextGone(line, g) == IF g + 1 = Len(line[1]) THEN 0 ELSE g + 1

LEMMA NextLineAt ==
  ASSUME NEW line \in Seq(Message), line # << >>, NEW g \in Nat
  PROVE  /\ 1 \in DOMAIN line /\ line[1] \in Message /\ Len(line[1]) \in Nat \ {0}
         /\ g + 1 = Len(line[1]) =>
              \A i \in DOMAIN NextLine(line, g) :
                /\ i + 1 \in DOMAIN line /\ i + 1 # 1
                /\ NextLine(line, g)[i] = line[i + 1]
                /\ i \in Nat
         /\ g + 1 # Len(line[1]) => NextLine(line, g) = line
<1>1. /\ Len(line) \in Nat \ {0} /\ DOMAIN line = 1 .. Len(line)
      /\ 1 \in DOMAIN line /\ line[1] \in Message
  BY EmptySeq
<1>2. Len(line[1]) \in Nat \ {0}
  BY <1>1, MessageLen
<1>3. ASSUME g + 1 = Len(line[1]), NEW i \in DOMAIN NextLine(line, g)
      PROVE  /\ i + 1 \in DOMAIN line /\ i + 1 # 1
             /\ NextLine(line, g)[i] = line[i + 1] /\ i \in Nat
  <2>1. NextLine(line, g) = Tail(line)
    BY <1>3 DEF NextLine
  <2>2. /\ Len(Tail(line)) = Len(line) - 1 /\ Tail(line) \in Seq(Message)
        /\ \A j \in 1 .. Len(Tail(line)) : Tail(line)[j] = line[j + 1]
    BY HeadTailProperties
  <2>3. i \in 1 .. Len(line) - 1
    BY <1>3, <2>1, <2>2
  <2> QED BY <1>1, <2>1, <2>2, <2>3
<1>4. g + 1 # Len(line[1]) => NextLine(line, g) = line
  BY DEF NextLine
<1> QED BY <1>1, <1>2, <1>3, <1>4

LEMMA CarriesNext ==
  ASSUME NEW s, NEW line \in Seq(Message), line # << >>, NEW g \in Nat,
         Carries(line, s)
  PROVE  Carries(NextLine(line, g), s)
<1>1. CASE g + 1 = Len(line[1])
  BY <1>1, NextLineAt DEF Carries
<1>2. CASE g + 1 # Len(line[1])
  BY <1>2, NextLineAt
<1> QED BY <1>1, <1>2

LEMMA AllCanNext ==
  ASSUME NEW line \in Seq(Message), line # << >>, NEW g \in Nat, AllCan(line)
  PROVE  AllCan(NextLine(line, g)) /\ line[1] = <<CAN>>
<1>1. line[1] = <<CAN>>
  BY NextLineAt DEF AllCan
<1>2. CASE g + 1 = Len(line[1])
  BY <1>1, <1>2, NextLineAt DEF AllCan
<1>3. CASE g + 1 # Len(line[1])
  BY <1>1, <1>3, NextLineAt
<1> QED BY <1>2, <1>3

\* Once the only transmission but the operator's has been read, nothing but
\* the operator's are left.
LEMMA LoneNext ==
  ASSUME NEW line \in Seq(Message), line # << >>, NEW g \in Nat, Lone(line)
  PROVE  /\ Lone(NextLine(line, g))
         /\ g + 1 = Len(line[1]) /\ line[1] # <<CAN>> => AllCan(NextLine(line, g))
<1> DEFINE next == NextLine(line, g)
<1>0. \A i, j \in DOMAIN line : line[i] # <<CAN>> /\ line[j] # <<CAN>> => i = j
  BY DEF Lone
<1> HIDE DEF next
<1>1. CASE g + 1 = Len(line[1])
  <2>1. \A i \in DOMAIN next :
          i + 1 \in DOMAIN line /\ i + 1 # 1 /\ next[i] = line[i + 1] /\ i \in Nat
    BY <1>1, NextLineAt DEF next
  <2>2. ASSUME NEW i \in DOMAIN next, NEW j \in DOMAIN next,
               next[i] # <<CAN>>, next[j] # <<CAN>>
        PROVE  i = j
    <3>1. i + 1 = j + 1 /\ i \in Nat /\ j \in Nat
      BY <1>0, <2>1, <2>2
    <3> QED BY <3>1
  <2>3. ASSUME line[1] # <<CAN>>, NEW i \in DOMAIN next PROVE next[i] = <<CAN>>
    <3>1. /\ i + 1 \in DOMAIN line /\ i + 1 # 1 /\ next[i] = line[i + 1]
          /\ 1 \in DOMAIN line
      BY <2>1, NextLineAt
    <3> QED BY <1>0, <2>3, <3>1
  <2> QED BY <2>2, <2>3 DEF Lone, AllCan, next
<1>2. CASE g + 1 # Len(line[1])
  BY <1>2, NextLineAt
<1> QED BY <1>1, <1>2

\* The character was lost, or what was collected has been thrown away.
LEMMA FitsNext ==
  ASSUME NEW s, NEW line \in Seq(Message), line # << >>, NEW g \in Nat,
         NEW buf \in Seq(Char), Fits(line, g, s, buf)
  PROVE  /\ Fits(NextLine(line, g), NextGone(line, g), s, buf)
         /\ Fits(NextLine(line, g), NextGone(line, g), s, << >>)
<1>0. Len(buf) \in Nat /\ Len(<< >>) = 0
  OBVIOUS
<1>1. Fits(NextLine(line, g), NextGone(line, g), s, buf)
  <2>1. CASE g + 1 = Len(line[1])
    <3>1. ASSUME NEW i \in DOMAIN NextLine(line, g),
                 IsPacket(NextLine(line, g)[i], s)
          PROVE  Len(buf) <= 0
      BY <2>1, <3>1, NextLineAt DEF Fits
    <3>2. NextGone(line, g) = 0
      BY <2>1 DEF NextGone
    <3> QED BY <3>1, <3>2 DEF Fits
  <2>2. CASE g + 1 # Len(line[1])
    <3>1. NextLine(line, g) = line /\ NextGone(line, g) = g + 1
      BY <2>2, NextLineAt DEF NextGone
    <3>2. Len(buf) <= g => Len(buf) <= g + 1
      BY <1>0
    <3> QED BY <3>1, <3>2 DEF Fits
  <2> QED BY <2>1, <2>2
<1>2. NextGone(line, g) \in Nat
  BY DEF NextGone
<1>3. 0 <= NextGone(line, g) /\ 0 <= 0
  BY <1>2
<1> QED BY <1>0, <1>1, <1>3 DEF Fits

\* The character, perhaps damaged, has been collected.
LEMMA FitsCollected ==
  ASSUME NEW s, Sound(s), NEW line \in Seq(Message), line # << >>, NEW g \in Nat,
         NEW buf \in Seq(Char), Fits(line, g, s, buf), NEW d,
         \/ s.eot
         \/ Lone(line) /\ (buf # << >> \/ line[1] # <<CAN>>)
  PROVE  Fits(NextLine(line, g), NextGone(line, g), s, Append(buf, d))
<1> DEFINE next == NextLine(line, g)
           n == Len(buf)
<1>1. n \in Nat /\ Len(Append(buf, d)) = n + 1 /\ (n = 0 => buf = << >>)
  BY EmptySeq
<1>2. \A j \in DOMAIN line :
        IsPacket(line[j], s) => n <= (IF j = 1 THEN g ELSE 0) /\ line[j] # <<CAN>>
  BY PacketFacts DEF Fits
<1> HIDE DEF n
<1> SUFFICES ASSUME NEW i \in DOMAIN next, IsPacket(next[i], s)
             PROVE  n + 1 <= IF i = 1 THEN NextGone(line, g) ELSE 0
  BY <1>1 DEF Fits
<1>3. /\ Lone(line) /\ (buf # << >> \/ line[1] # <<CAN>>)
      /\ \A j, k \in DOMAIN line : line[j] # <<CAN>> /\ line[k] # <<CAN>> => j = k
  BY DEF IsPacket, Lone
<1> HIDE DEF next
<1>4. CASE g + 1 = Len(line[1])
  <2>1. /\ i + 1 \in DOMAIN line /\ i + 1 # 1 /\ next[i] = line[i + 1]
        /\ 1 \in DOMAIN line
    BY <1>4, NextLineAt DEF next
  <2>2. n <= 0 /\ line[i + 1] # <<CAN>>
    BY <1>2, <2>1
  <2>3. line[1] # <<CAN>>
    BY <1>1, <1>3, <2>2
  <2> QED BY <1>3, <2>1, <2>2, <2>3
<1>5. CASE g + 1 # Len(line[1])
  <2>1. next = line /\ 1 \in DOMAIN line /\ NextGone(line, g) = g + 1
    BY <1>5, NextLineAt DEF next, NextGone
  <2>2. n <= (IF i = 1 THEN g ELSE 0) /\ line[i] # <<CAN>>
    BY <1>2, <2>1
  <2>3. i = 1
    <3>1. SUFFICES ASSUME i # 1 PROVE FALSE
      OBVIOUS
    <3>2. n <= 0
      BY <2>2, <3>1
    <3>3. line[1] # <<CAN>>
      BY <1>1, <1>3, <3>2
    <3> QED BY <1>3, <2>1, <2>2, <3>1, <3>3
  <2> QED BY <1>1, <2>1, <2>2, <2>3
<1> QED BY <1>4, <1>5

\* Nothing but the operator's Ctrl-X is on the line.
LEMMA QuietLine ==
  ASSUME NEW s, Sound(s), NEW line \in Seq(Message), AllCan(line), NEW buf, NEW g
  PROVE  Carries(line, s) /\ Fits(line, g, s, buf) /\ Lone(line)
<1>1. \A i \in DOMAIN line : ~ IsPacket(line[i], s)
  BY PacketFacts DEF AllCan
<1> QED BY <1>1 DEF Carries, Fits, Lone, AllCan

\* The sender sends what it has to send.
LEMMA LineSent ==
  ASSUME NEW s, NEW line \in Seq(Message), AllCan(line), NEW m, NEW g \in Nat,
         m = IF s.eot THEN <<EOT>> ELSE s.packet
  PROVE  /\ Carries(Append(line, m), s) /\ Fits(Append(line, m), g, s, << >>)
         /\ Lone(Append(line, m))
<1> DEFINE next == Append(line, m)
           n == Len(line)
<1>1. /\ DOMAIN next = 1 .. n + 1 /\ n \in Nat /\ next[n + 1] = m
      /\ \A i \in 1 .. n : next[i] = <<CAN>>
      /\ \A i \in 1 .. n + 1 : i \notin 1 .. n => i = n + 1
  BY DEF AllCan
<1>2. (m = <<EOT>> /\ s.eot) \/ IsPacket(m, s)
  BY DEF IsPacket
<1> HIDE DEF next, n
<1>3. Carries(next, s)
  BY <1>1, <1>2 DEF Carries
<1>4. Lone(next)
  BY <1>1 DEF Lone
<1>5. Fits(next, g, s, << >>)
  <2>1. Len(<< >>) = 0 /\ 0 <= g /\ 0 <= 0
    OBVIOUS
  <2> QED BY <2>1 DEF Fits
<1> QED BY <1>3, <1>4, <1>5 DEF next

LEMMA EotLine ==
  ASSUME NEW s, s.eot, NEW line \in Seq(Message), Carries(line, s), NEW buf, NEW g
  PROVE  /\ Carries(Append(line, << EOT >>), s)
         /\ Fits(line, g, s, buf) /\ Fits(Append(line, << EOT >>), g, s, buf)
<1>1. \A t : ~ IsPacket(t, s)
  BY DEF IsPacket
<1> DEFINE m == <<EOT>>
           next == Append(line, m)
           n == Len(line)
<1>2. /\ DOMAIN next = 1 .. n + 1 /\ DOMAIN line = 1 .. n /\ next[n + 1] = m
      /\ \A i \in 1 .. n : next[i] = line[i]
      /\ \A i \in 1 .. n + 1 : i \notin 1 .. n => i = n + 1
  <2> HIDE DEF m
  <2> QED OBVIOUS
<1> HIDE DEF next, n
<1>3. Carries(next, s)
  BY <1>2 DEF Carries, m
<1> QED BY <1>1, <1>3 DEF Fits, next

LEMMA LineCancelled ==
  ASSUME NEW s, Sound(s), NEW line \in Seq(Message), NEW g
  PROVE  /\ Carries(line, s) => Carries(line \o << << CAN >>, << CAN >> >>, s)
         /\ \A buf : Fits(line, g, s, buf) =>
                       Fits(line \o << << CAN >>, << CAN >> >>, g, s, buf)
         /\ Lone(line) => Lone(line \o << << CAN >>, << CAN >> >>)
         /\ AllCan(line) => AllCan(line \o << << CAN >>, << CAN >> >>)
<1> DEFINE c == <<CAN>>
           two == <<c, c>>
           next == line \o two
           n == Len(line)
<1>1. /\ DOMAIN next = 1 .. n + 2 /\ DOMAIN line = 1 .. n /\ n \in Nat
      /\ \A i \in 1 .. n : next[i] = line[i] /\ i \in 1 .. n + 2
      /\ \A i \in 1 .. n + 2 : i \notin 1 .. n => next[i] = c
  <2>1. c \in Message
    BY EotMessage
  <2> HIDE DEF c
  <2>2. two \in Seq(Message) /\ Len(two) = 2 /\ two[1] = c /\ two[2] = c
    BY <2>1
  <2> HIDE DEF two
  <2>3. /\ next \in Seq(Message) /\ Len(next) = Len(line) + Len(two)
        /\ \A i \in 1 .. Len(line) + Len(two) :
             next[i] = IF i <= Len(line) THEN line[i] ELSE two[i - Len(line)]
    BY ONLY <2>2, line \in Seq(Message), ConcatProperties
  <2> HIDE DEF next
  <2>4. n \in Nat /\ DOMAIN line = 1 .. n /\ DOMAIN next = 1 .. Len(next)
    BY <2>3
  <2> HIDE DEF n
  <2>5. \A i \in 1 .. n + 2 : i \notin 1 .. n => i - n \in {1, 2} /\ ~ (i <= n)
    BY <2>4
  <2> QED BY <2>2, <2>3, <2>4, <2>5 DEF n
<1>2. ~ IsPacket(c, s)
  BY PacketFacts
<1> HIDE DEF next, n, two, c
<1>3. Carries(line, s) => Carries(next, s)
  BY <1>1 DEF Carries, c
<1>4. \A buf : Fits(line, g, s, buf) => Fits(next, g, s, buf)
  BY <1>1, <1>2 DEF Fits
<1>5. /\ Lone(line) => Lone(next)
      /\ AllCan(line) => AllCan(next)
  BY <1>1 DEF Lone, AllCan, c
<1> QED BY <1>3, <1>4, <1>5 DEF next, two, c

-----------------------------------------------------------------------------
(***************************************************************************)
(* What the receiver makes of a message, as far as the protocol goes.      *)
(***************************************************************************)
LEMMA ReturnsFields ==
  ASSUME NEW sta, NEW r \in Receiver, NEW out, Returns(sta, r, out)
  PROVE  /\ rcv'.opened = r.opened /\ rcv'.seq = r.seq
         /\ rcv'.old_seq = r.old_seq /\ rcv'.size = r.size
         /\ rcv'.xmodem = r.xmodem /\ rcv'.buf = << >>
         /\ rcv'.mode \in {0, 3}
         /\ rcv'.sta = IF sta = "purge" THEN "more" ELSE sta
         /\ toS' = toS \o out
<1> DEFINE mode == IF sta = "purge" THEN 3 ELSE 0
           end == IF sta = "purge" THEN "more" ELSE sta
<1>1. /\ rcv' = [r EXCEPT !.buf = << >>, !.mode = mode, !.sta = end]
      /\ toS' = toS \o out
  BY DEF Returns
<1>2. mode \in {0, 3}
  OBVIOUS
<1> HIDE DEF mode
<1>3. rcv'.sta = end
  <2> HIDE DEF end
  <2> QED BY <1>1 DEF Receiver
<1> QED BY <1>1, <1>2, <1>3 DEF Receiver

\* The progress of the file has not changed.
Unmoved ==
  /\ rcv'.opened = rcv.opened
  /\ rcv.opened => /\ rcv'.seq = rcv.seq /\ rcv'.old_seq = rcv.old_seq
                   /\ rcv'.size = rcv.size
  /\ rcv'.xmodem => rcv.xmodem
  /\ data' = data /\ closed' = closed

Ignored(m) ==
  /\ Unmoved /\ toS' = toS
  /\ m = <<EOT>> => ~ rcv.opened
  /\ IsData(m) => ~ rcv.opened /\ ~ IsHeader(m, 0)
  /\ rcv'.sta \in {"more", "remote"} /\ (rcv'.sta = "remote" => m = <<CAN>>)

Finished(m) ==
  /\ ~ rcv.opened /\ IsHeader(m, 0) /\ Payload(m)[1] = 0
  /\ rcv'.sta = "done" /\ data' = data /\ closed' = closed
  /\ toS' = toS \o <<ACK>>

Opened(m) ==
  /\ ~ rcv.opened /\ IsHeader(m, 0) /\ Payload(m)[1] # 0
  /\ rcv'.opened /\ rcv'.old_seq = 0 /\ rcv'.seq = 1
  /\ rcv'.size = HeaderSize(Payload(m)) /\ rcv'.xmodem = rcv.xmodem
  /\ rcv'.sta = "more" /\ data' = << >> /\ closed' = closed
  /\ toS' = toS \o <<ACK>>

Refused(m) ==
  /\ ~ rcv.opened
  /\ (IsHeader(m, 0) /\ Payload(m)[1] # 0) \/ IsHeader(m, 1)
  /\ rcv'.sta = "open" /\ data' = data /\ closed' = closed
  /\ toS' = toS \o <<CAN, CAN>>

Anonymous(m) ==
  /\ ~ rcv.opened /\ IsHeader(m, 1)
  /\ rcv'.opened /\ rcv'.xmodem /\ rcv'.sta = "more" /\ closed' = closed

Repeated(m) ==
  /\ Unmoved /\ rcv.opened /\ IsData(m) /\ m[2] = rcv.old_seq
  /\ rcv'.sta = "more" /\ toS' = toS \o <<ACK>>

OutOfStep(m) ==
  /\ rcv.opened /\ IsData(m) /\ m[2] # rcv.old_seq /\ m[2] # rcv.seq
  /\ rcv'.sta = "sync" /\ data' = data /\ closed' = closed

Written(m) ==
  /\ rcv.opened /\ IsData(m) /\ m[2] # rcv.old_seq /\ m[2] = rcv.seq
  /\ rcv'.opened /\ rcv'.old_seq = rcv.seq /\ rcv'.seq = (rcv.seq + 1) % SeqCount
  /\ rcv'.size = SizeLeft(Payload(m), rcv.size) /\ rcv'.xmodem = rcv.xmodem
  /\ WriteLimited(Payload(m), rcv.size, data)
  /\ rcv'.sta = "more" /\ closed' = closed /\ toS' = toS \o <<ACK>>

ClosedAnonymous(m) ==
  /\ rcv.opened /\ rcv.xmodem /\ m = <<EOT>>
  /\ rcv'.sta = "done" /\ closed' = TRUE /\ data' = data

ClosedFile(m) ==
  /\ rcv.opened /\ ~ rcv.xmodem /\ m = <<EOT>>
  /\ rcv'.opened = FALSE /\ rcv'.xmodem = FALSE /\ rcv'.sta = "more"
  /\ closed' = TRUE /\ data' = data /\ toS' = toS \o <<ACK, REQ>>

FirstEot(m) ==
  /\ Unmoved /\ rcv.opened /\ ~ rcv.xmodem /\ m = <<EOT>>
  /\ rcv'.sta = "more" /\ toS' = toS \o <<NAK>>

LEMMA ShortMessages ==
  ~ IsData(<< CAN >>) /\ ~ IsData(<< EOT >>) /\ << CAN >> # << EOT >>
<1>1. Len(<<CAN>>) = 1 /\ Len(<<EOT>>) = 1 /\ <<CAN>>[1] = CAN /\ <<EOT>>[1] = EOT
  OBVIOUS
<1>2. ShortPacket # 1 /\ LongPacket # 1 /\ CAN # EOT
  BY PacketSizes DEF CAN, EOT
<1> QED BY <1>1, <1>2 DEF IsData, IsShort, IsLong

LEMMA WaitOutcome ==
  ASSUME NEW m \in Message, RcvOK, WaitForFile(m)
  PROVE  /\ rcv'.buf = << >> /\ rcv'.mode \in {0, 3} /\ ~ rcv.purge
         /\ \/ Ignored(m) \/ Finished(m) \/ Opened(m) \/ Refused(m) \/ Anonymous(m)
<1>0. /\ rcv \in Receiver /\ ~ rcv.opened /\ ~ rcv.purge /\ toS \o << >> = toS
      /\ ~ IsData(<<CAN>>) /\ <<CAN>> # <<EOT>>
  <2>1. toS \in Seq(Answer)
    BY DEF RcvOK
  <2> QED BY <2>1, ConcatEmptySeq, ShortMessages DEF RcvOK, WaitForFile
<1>1. CASE WaitCan(m)
  <2> DEFINE r == [rcv EXCEPT !.can = TRUE, !.to = Timeouts]
  <2>1. /\ r \in Receiver /\ r.opened = rcv.opened /\ r.xmodem = rcv.xmodem
    BY <1>0, Numbers DEF Receiver
  <2>2. /\ Returns("remote", rcv, << >>) \/ Returns("more", r, << >>)
        /\ data' = data /\ closed' = closed /\ m = <<CAN>>
    BY <1>1 DEF WaitCan, FileUnchanged
  <2> HIDE DEF r
  <2>3. CASE Returns("remote", rcv, << >>)
    <3>1. /\ rcv'.opened = rcv.opened /\ rcv'.xmodem = rcv.xmodem
          /\ rcv'.buf = << >> /\ rcv'.mode \in {0, 3}
          /\ rcv'.sta = "remote" /\ toS' = toS
      BY <1>0, <2>3, ReturnsFields
    <3> QED BY <1>0, <2>2, <3>1 DEF Ignored, Unmoved
  <2>4. CASE Returns("more", r, << >>)
    <3>1. /\ rcv'.opened = rcv.opened /\ rcv'.xmodem = rcv.xmodem
          /\ rcv'.buf = << >> /\ rcv'.mode \in {0, 3}
          /\ rcv'.sta = "more" /\ toS' = toS
      BY <1>0, <2>1, <2>4, ReturnsFields
    <3> QED BY <1>0, <2>2, <3>1 DEF Ignored, Unmoved
  <2> QED BY <2>2, <2>3, <2>4
<1>2. CASE NoMoreFiles(m) \/ OpenFails(m)
  <2> DEFINE r == [rcv EXCEPT !.can = FALSE, !.to = 0]
  <2>1. r \in Receiver
    BY <1>0, Numbers DEF Receiver
  <2>2. CASE NoMoreFiles(m)
    <3>1. Returns("done", r, <<ACK>>) /\ data' = data /\ closed' = closed
      BY <2>2 DEF NoMoreFiles, FileUnchanged
    <3> HIDE DEF r
    <3>2. /\ rcv'.buf = << >> /\ rcv'.mode \in {0, 3}
          /\ rcv'.sta = "done" /\ toS' = toS \o <<ACK>>
      BY <2>1, <3>1, ReturnsFields
    <3> QED BY <1>0, <2>2, <3>1, <3>2 DEF Finished, NoMoreFiles
  <2>3. CASE OpenFails(m)
    <3>1. Returns("open", r, <<CAN, CAN>>) /\ data' = data /\ closed' = closed
      BY <2>3 DEF OpenFails, FileUnchanged
    <3> HIDE DEF r
    <3>2. /\ rcv'.buf = << >> /\ rcv'.mode \in {0, 3}
          /\ rcv'.sta = "open" /\ toS' = toS \o <<CAN, CAN>>
      BY <2>1, <3>1, ReturnsFields
    <3> QED BY <1>0, <2>3, <3>1, <3>2 DEF Refused, OpenFails
  <2> QED BY <1>2, <2>2, <2>3
<1>l. IsShort(m) \/ IsLong(m) =>
        m \in Seq(Char) /\ Len(m) >= 2 /\ Payload(m) \in Seq(Char)
  <2>1. ShortPacket >= 2 /\ LongPacket >= 2
    BY PacketSizes
  <2> QED BY <2>1, PayloadType DEF Message, IsShort, IsLong
<1>m. IsShort(m) => Payload(m) \in Seq(Char) /\ Len(Payload(m)) = DataLen
  BY <1>l, PayloadType DEF IsShort
<1>3. CASE OpenFile(m)
  <2> DEFINE size == HeaderSize(Payload(m))
             r == [rcv EXCEPT !.can = FALSE, !.to = 0, !.old_seq = 0, !.seq = 1,
                              !.opened = TRUE, !.first = TRUE, !.size = size]
  <2>1. /\ Returns("more", r, <<ACK>>) /\ data' = << >> /\ closed' = closed
        /\ IsHeader(m, 0) /\ Payload(m)[1] # 0
    BY <1>3 DEF OpenFile
  <2>2. size \in 0 .. Max32
    BY <1>m, <2>1, HeaderSizeType DEF IsHeader
  <2> HIDE DEF size
  <2>3. /\ r \in Receiver /\ r.opened = TRUE /\ r.old_seq = 0 /\ r.seq = 1
        /\ r.size = size /\ r.xmodem = rcv.xmodem
    BY <1>0, <2>2, Numbers DEF Receiver
  <2> HIDE DEF r
  <2>4. /\ rcv'.buf = << >> /\ rcv'.mode \in {0, 3} /\ rcv'.opened = TRUE
        /\ rcv'.old_seq = 0 /\ rcv'.seq = 1 /\ rcv'.size = size
        /\ rcv'.xmodem = rcv.xmodem /\ rcv'.sta = "more" /\ toS' = toS \o <<ACK>>
    BY <2>1, <2>3, ReturnsFields
  <2> QED BY <1>0, <2>1, <2>4 DEF Opened, size
<1>4. CASE OpenAnonymous(m)
  <2> DEFINE size == SizeLeft(Payload(m), Max32)
             next == 2 % SeqCount
             r == [rcv EXCEPT !.can = FALSE, !.to = 0, !.old_seq = 1,
                              !.seq = next, !.opened = TRUE,
                              !.xmodem = TRUE, !.first = FALSE, !.size = size]
  <2>1. /\ Returns("more", r, <<ACK>>) /\ closed' = closed /\ IsHeader(m, 1)
    BY <1>4 DEF OpenAnonymous
  <2>2. size \in 0 .. Max32 /\ next \in 0 .. SeqCount - 1
    <3>1. size \in 0 .. Max32
      BY <1>m, <2>1, SizeLeftType, Numbers DEF IsHeader
    <3>2. 2 \in Int
      OBVIOUS
    <3>3. next \in 0 .. SeqCount - 1
      BY <3>2, Numbers, Zenon
    <3> QED BY <3>1, <3>3
  <2> HIDE DEF size, next
  <2>3. r \in Receiver /\ r.opened = TRUE /\ r.xmodem = TRUE
    BY <1>0, <2>2, Numbers DEF Receiver
  <2> HIDE DEF r
  <2>4. /\ rcv'.buf = << >> /\ rcv'.mode \in {0, 3} /\ rcv'.opened = TRUE
        /\ rcv'.xmodem = TRUE /\ rcv'.sta = "more"
    BY <2>1, <2>3, ReturnsFields
  <2> QED BY <1>0, <2>1, <2>4 DEF Anonymous
<1>5. CASE WaitJunk(m)
  <2> DEFINE r == [rcv EXCEPT !.can = FALSE, !.purge = TRUE, !.to = 0]
  <2>1. r \in Receiver /\ r.opened = rcv.opened /\ r.xmodem = rcv.xmodem
    BY <1>0, Numbers DEF Receiver
  <2>2. /\ Returns("purge", r, << >>) /\ data' = data /\ closed' = closed
        /\ m # <<CAN>> /\ ~ IsHeader(m, 0) /\ ~ IsHeader(m, 1)
    BY <1>5 DEF WaitJunk, FileUnchanged
  <2> HIDE DEF r
  <2>3. /\ rcv'.opened = rcv.opened /\ rcv'.xmodem = rcv.xmodem
        /\ rcv'.buf = << >> /\ rcv'.mode \in {0, 3}
        /\ rcv'.sta = "more" /\ toS' = toS
    BY <1>0, <2>1, <2>2, ReturnsFields
  <2> QED BY <1>0, <2>2, <2>3 DEF Ignored, Unmoved
<1> QED BY <1>1, <1>2, <1>3, <1>4, <1>5 DEF WaitForFile

LEMMA DataOutcome ==
  ASSUME NEW m \in Message, RcvOK, ReceiveData(m)
  PROVE  /\ rcv'.buf = << >> /\ rcv'.mode \in {0, 3} /\ ~ rcv.purge
         /\ \/ Ignored(m) \/ Repeated(m) \/ OutOfStep(m) \/ Written(m)
            \/ ClosedAnonymous(m) \/ ClosedFile(m) \/ FirstEot(m)
<1>0. /\ rcv \in Receiver /\ rcv.opened = TRUE /\ ~ rcv.purge
      /\ toS \o << >> = toS
      /\ ~ IsData(<<CAN>>) /\ ~ IsData(<<EOT>>) /\ <<CAN>> # <<EOT>>
  <2>1. toS \in Seq(Answer)
    BY DEF RcvOK
  <2> QED BY <2>1, ConcatEmptySeq, ShortMessages DEF RcvOK, ReceiveData, Receiver
<1>m. IsData(m) => Payload(m) \in Seq(Char)
  <2>1. ShortPacket >= 2 /\ LongPacket >= 2
    BY PacketSizes
  <2> QED BY <2>1, PayloadType DEF Message, IsData, IsShort, IsLong
<1>n. /\ NoEotNoCan \in Receiver
      /\ NoEotNoCan.opened = rcv.opened /\ NoEotNoCan.seq = rcv.seq
      /\ NoEotNoCan.old_seq = rcv.old_seq /\ NoEotNoCan.size = rcv.size
      /\ NoEotNoCan.xmodem = rcv.xmodem
  BY <1>0 DEF NoEotNoCan, Receiver
<1>1. CASE DataCan(m)
  <2> DEFINE r == [rcv EXCEPT !.got_eot = FALSE, !.can = TRUE]
             sta == IF rcv.can THEN "remote" ELSE "more"
  <2>1. /\ r \in Receiver /\ r.opened = rcv.opened /\ r.seq = rcv.seq
        /\ r.old_seq = rcv.old_seq /\ r.size = rcv.size /\ r.xmodem = rcv.xmodem
    BY <1>0 DEF Receiver
  <2>2. /\ Returns(sta, r, << >>) /\ data' = data /\ closed' = closed
        /\ m = <<CAN>>
    BY <1>1 DEF DataCan, FileUnchanged
  <2>3. sta \in {"more", "remote"}
    OBVIOUS
  <2> HIDE DEF r, sta
  <2>4. /\ rcv'.opened = rcv.opened /\ rcv'.xmodem = rcv.xmodem
        /\ rcv'.seq = rcv.seq /\ rcv'.old_seq = rcv.old_seq
        /\ rcv'.size = rcv.size /\ rcv'.buf = << >> /\ rcv'.mode \in {0, 3}
        /\ rcv'.sta = sta /\ toS' = toS
    BY <1>0, <2>1, <2>2, <2>3, ReturnsFields
  <2> QED BY <1>0, <2>2, <2>3, <2>4 DEF Ignored, Unmoved
<1>2. CASE SameBlock(m)
  <2> DEFINE r == NoEotNoCan
  <2>1. /\ Returns("more", r, <<ACK>>) /\ data' = data /\ closed' = closed
        /\ IsData(m) /\ m[2] = rcv.old_seq
    BY <1>2 DEF SameBlock, FileUnchanged
  <2> HIDE DEF r
  <2>2. /\ rcv'.opened = rcv.opened /\ rcv'.xmodem = rcv.xmodem
        /\ rcv'.seq = rcv.seq /\ rcv'.old_seq = rcv.old_seq
        /\ rcv'.size = rcv.size /\ rcv'.buf = << >> /\ rcv'.mode \in {0, 3}
        /\ rcv'.sta = "more" /\ toS' = toS \o <<ACK>>
    BY <1>n, <2>1, ReturnsFields DEF r
  <2> QED BY <1>0, <2>1, <2>2 DEF Repeated, Unmoved
<1>3. CASE OutOfSync(m)
  <2> DEFINE r == NoEotNoCan
  <2>1. /\ Returns("sync", r, <<CAN, CAN>>) /\ data' = data /\ closed' = closed
        /\ IsData(m) /\ m[2] # rcv.old_seq /\ m[2] # rcv.seq
    BY <1>3 DEF OutOfSync, FileUnchanged
  <2> HIDE DEF r
  <2>2. rcv'.buf = << >> /\ rcv'.mode \in {0, 3} /\ rcv'.sta = "sync"
    BY <1>n, <2>1, ReturnsFields DEF r
  <2> QED BY <1>0, <2>1, <2>2 DEF OutOfStep
<1>4. CASE NextBlock(m)
  <2> DEFINE size == SizeLeft(Payload(m), rcv.size)
             next == (rcv.seq + 1) % SeqCount
             n == NoEotNoCan
             r == [n EXCEPT !.size = size, !.first = FALSE, !.old_seq = rcv.seq,
                            !.seq = next]
  <2>1. /\ Returns("more", r, <<ACK>>) /\ closed' = closed
        /\ IsData(m) /\ m[2] # rcv.old_seq /\ m[2] = rcv.seq
        /\ WriteLimited(Payload(m), rcv.size, data)
    BY <1>4 DEF NextBlock
  <2>2. /\ rcv.seq \in 0 .. SeqCount - 1 /\ rcv.size \in 0 .. Max32
        /\ SeqCount \in Int
    BY <1>0, YmodemAssumption DEF Receiver
  <2>3. size \in 0 .. Max32 /\ next \in 0 .. SeqCount - 1
    <3>1. size \in 0 .. Max32
      BY <1>m, <2>1, <2>2, SizeLeftType
    <3>2. rcv.seq + 1 \in Int
      BY <2>2
    <3>3. next \in 0 .. SeqCount - 1
      BY <3>2, Numbers, Zenon
    <3> QED BY <3>1, <3>3
  <2> HIDE DEF size, next, n
  <2>4. /\ r \in Receiver /\ r.opened = rcv.opened /\ r.xmodem = rcv.xmodem
        /\ r.size = size /\ r.old_seq = rcv.seq /\ r.seq = next
    BY <1>n, <2>2, <2>3 DEF Receiver, n
  <2> HIDE DEF r
  <2>5. /\ rcv'.opened = rcv.opened /\ rcv'.xmodem = rcv.xmodem
        /\ rcv'.seq = next /\ rcv'.old_seq = rcv.seq
        /\ rcv'.size = size /\ rcv'.buf = << >> /\ rcv'.mode \in {0, 3}
        /\ rcv'.sta = "more" /\ toS' = toS \o <<ACK>>
    BY <2>1, <2>4, ReturnsFields
  <2> QED BY <1>0, <2>1, <2>5 DEF Written, size, next
<1>5. CASE EndOfFile(m)
  <2>0. m = <<EOT>> /\ data' = data
    BY <1>5 DEF EndOfFile
  <2>1. CASE /\ rcv.xmodem
             /\ Returns("done", [rcv EXCEPT !.can = FALSE], <<ACK>>)
             /\ closed' = TRUE
    <3> DEFINE r == [rcv EXCEPT !.can = FALSE]
    <3>1. r \in Receiver
      BY <1>0 DEF Receiver
    <3> HIDE DEF r
    <3>2. rcv'.buf = << >> /\ rcv'.mode \in {0, 3} /\ rcv'.sta = "done"
      BY <2>1, <3>1, ReturnsFields DEF r
    <3> QED BY <1>0, <2>0, <2>1, <3>2 DEF ClosedAnonymous
  <2>2. CASE /\ ~ rcv.xmodem /\ rcv.got_eot
             /\ Returns("more", [InitFields(rcv) EXCEPT !.to = 0], <<ACK, REQ>>)
             /\ closed' = TRUE
    <3> DEFINE i == InitFields(rcv)
               r == [i EXCEPT !.to = 0]
    <3>1. i \in Receiver /\ i.opened = FALSE /\ i.xmodem = FALSE
      BY <1>0, InitFieldsType DEF InitFields, Receiver
    <3> HIDE DEF i
    <3>2. r \in Receiver /\ r.opened = FALSE /\ r.xmodem = FALSE
      BY <3>1, Numbers DEF Receiver
    <3>3. Returns("more", r, <<ACK, REQ>>)
      BY <2>2 DEF i
    <3> HIDE DEF r
    <3>4. /\ rcv'.buf = << >> /\ rcv'.mode \in {0, 3} /\ rcv'.sta = "more"
          /\ rcv'.opened = FALSE /\ rcv'.xmodem = FALSE
          /\ toS' = toS \o <<ACK, REQ>>
      BY <3>2, <3>3, ReturnsFields
    <3> QED BY <1>0, <2>0, <2>2, <3>4 DEF ClosedFile
  <2>3. CASE /\ ~ rcv.xmodem /\ ~ rcv.got_eot
             /\ Returns("more", [rcv EXCEPT !.can = FALSE, !.got_eot = TRUE], <<NAK>>)
             /\ UNCHANGED closed
    <3> DEFINE r == [rcv EXCEPT !.can = FALSE, !.got_eot = TRUE]
    <3>1. /\ r \in Receiver /\ r.opened = rcv.opened /\ r.seq = rcv.seq
          /\ r.old_seq = rcv.old_seq /\ r.size = rcv.size /\ r.xmodem = rcv.xmodem
      BY <1>0 DEF Receiver
    <3>2. Returns("more", r, <<NAK>>)
      BY <2>3
    <3> HIDE DEF r
    <3>3. /\ rcv'.opened = rcv.opened /\ rcv'.xmodem = rcv.xmodem
          /\ rcv'.seq = rcv.seq /\ rcv'.old_seq = rcv.old_seq
          /\ rcv'.size = rcv.size /\ rcv'.buf = << >> /\ rcv'.mode \in {0, 3}
          /\ rcv'.sta = "more" /\ toS' = toS \o <<NAK>>
      BY <3>1, <3>2, ReturnsFields
    <3> QED BY <1>0, <2>0, <2>3, <3>3 DEF FirstEot, Unmoved
  <2> QED BY <1>5, <2>1, <2>2, <2>3 DEF EndOfFile
<1>6. CASE DataJunk(m)
  <2> DEFINE n == NoEotNoCan
             r == [n EXCEPT !.purge = TRUE]
  <2>1. /\ Returns("purge", r, << >>) /\ data' = data /\ closed' = closed
        /\ m # <<CAN>> /\ m # <<EOT>> /\ ~ IsData(m)
    BY <1>6 DEF DataJunk, FileUnchanged
  <2> HIDE DEF n
  <2>2. /\ r \in Receiver /\ r.opened = rcv.opened /\ r.seq = rcv.seq
        /\ r.old_seq = rcv.old_seq /\ r.size = rcv.size /\ r.xmodem = rcv.xmodem
    BY <1>n DEF Receiver, n
  <2> HIDE DEF r
  <2>3. /\ rcv'.opened = rcv.opened /\ rcv'.xmodem = rcv.xmodem
        /\ rcv'.seq = rcv.seq /\ rcv'.old_seq = rcv.old_seq
        /\ rcv'.size = rcv.size /\ rcv'.buf = << >> /\ rcv'.mode \in {0, 3}
        /\ rcv'.sta = "more" /\ toS' = toS
    <3>1. /\ rcv'.opened = r.opened /\ rcv'.seq = r.seq
          /\ rcv'.old_seq = r.old_seq /\ rcv'.size = r.size
          /\ rcv'.xmodem = r.xmodem /\ rcv'.buf = << >>
          /\ rcv'.mode \in {0, 3} /\ rcv'.sta = "more" /\ toS' = toS \o << >>
      BY <2>1, <2>2, ReturnsFields
    <3>2. toS \o << >> = toS
      BY <1>0, ConcatEmptySeq
    <3> QED BY ONLY <2>2, <3>1, <3>2
  <2> QED BY <1>0, <2>1, <2>3 DEF Ignored, Unmoved
<1> QED BY <1>1, <1>2, <1>3, <1>4, <1>5, <1>6 DEF ReceiveData

Outcome(m) ==
  \/ Ignored(m) \/ Finished(m) \/ Opened(m) \/ Refused(m) \/ Anonymous(m)
  \/ Repeated(m) \/ OutOfStep(m) \/ Written(m)
  \/ ClosedAnonymous(m) \/ ClosedFile(m) \/ FirstEot(m)

LEMMA Outcomes ==
  ASSUME NEW m \in Message, RcvOK, ymodem_rcv(m)
  PROVE  rcv'.buf = << >> /\ rcv'.mode \in {0, 3} /\ ~ rcv.purge /\ Outcome(m)
BY WaitOutcome, DataOutcome, Zenon DEF ymodem_rcv, Outcome

\* Without a message nothing moves, and something is asked for.
LEMMA TimeoutOutcome ==
  ASSUME RcvOK, PurgeTimeout \/ WaitTimeout \/ DataTimeout, FileUnchanged
  PROVE  /\ Unmoved /\ rcv'.buf = << >> /\ rcv'.mode \in {0, 3}
         /\ rcv'.sta = "more"
         /\ \/ toS' = toS \o << >> \/ toS' = toS \o << REQ >>
            \/ toS' = toS \o << NAK >> /\ rcv.opened
<1>0. rcv \in Receiver /\ data' = data /\ closed' = closed
  BY DEF RcvOK, FileUnchanged
<1>1. CASE PurgeTimeout
  <2> DEFINE r == [rcv EXCEPT !.purge = FALSE]
  <2>1. /\ r \in Receiver /\ r.opened = rcv.opened /\ r.seq = rcv.seq
        /\ r.old_seq = rcv.old_seq /\ r.size = rcv.size /\ r.xmodem = rcv.xmodem
    BY <1>0 DEF Receiver
  <2>2. Returns("more", r, <<REQ>>)
    BY <1>1 DEF PurgeTimeout
  <2> HIDE DEF r
  <2> QED BY <1>0, <2>1, <2>2, ReturnsFields DEF Unmoved
<1>2. CASE WaitTimeout
  <2> DEFINE r == [rcv EXCEPT !.to = @ - 1]
             i == InitFields(rcv)
  <2>0. ~ rcv.opened /\ rcv.opened = FALSE
    BY <1>0, <1>2 DEF WaitTimeout, Receiver
  <2>1. CASE rcv.to > 0 /\ Returns("more", r, << >>)
    <3>1. /\ r \in Receiver /\ r.opened = rcv.opened /\ r.xmodem = rcv.xmodem
      <4>1. rcv.to \in 0 .. Timeouts /\ Timeouts \in Nat
        BY <1>0, YmodemAssumption DEF Receiver
      <4>2. rcv.to - 1 \in 0 .. Timeouts
        BY <2>1, <4>1
      <4> QED BY <1>0, <4>2 DEF Receiver
    <3> HIDE DEF r
    <3> QED BY <1>0, <2>0, <2>1, <3>1, ReturnsFields DEF Unmoved
  <2>2. CASE Returns("more", i, <<REQ>>)
    <3>1. i \in Receiver /\ i.opened = FALSE /\ i.xmodem = FALSE
      BY <1>0, InitFieldsType DEF InitFields, Receiver
    <3> HIDE DEF i
    <3> QED BY <1>0, <2>0, <2>2, <3>1, ReturnsFields DEF Unmoved
  <2> QED BY <1>2, <2>1, <2>2 DEF WaitTimeout
<1>3. CASE DataTimeout
  <2> DEFINE r == NoEotNoCan
             out == IF rcv.first THEN <<REQ>> ELSE <<NAK>>
  <2>1. /\ r \in Receiver /\ r.opened = rcv.opened /\ r.seq = rcv.seq
        /\ r.old_seq = rcv.old_seq /\ r.size = rcv.size /\ r.xmodem = rcv.xmodem
    BY <1>0 DEF Receiver, NoEotNoCan
  <2>2. Returns("more", r, out) /\ rcv.opened
    BY <1>3 DEF DataTimeout
  <2>3. out = <<REQ>> \/ out = <<NAK>>
    OBVIOUS
  <2> HIDE DEF r, out
  <2>4. /\ rcv'.opened = rcv.opened /\ rcv'.xmodem = rcv.xmodem
        /\ rcv'.seq = rcv.seq /\ rcv'.old_seq = rcv.old_seq
        /\ rcv'.size = rcv.size /\ rcv'.buf = << >> /\ rcv'.mode \in {0, 3}
        /\ rcv'.sta = "more" /\ toS' = toS \o out
    BY <2>1, <2>2, ReturnsFields
  <2> QED BY <1>0, <2>2, <2>3, <2>4 DEF Unmoved
<1> QED BY <1>1, <1>2, <1>3

-----------------------------------------------------------------------------
(***************************************************************************)
(* The inductive invariant: how far each end is, what is on its way between*)
(* them, and who has to speak.                                             *)
(***************************************************************************)
Quiet(line, buf) == buf = << >> /\ AllCan(line)

Request(ans) == ans = << >> \/ ans = <<REQ>> \/ ans = <<NAK>>

\* At most one of the two lines is in use; but after the last EOT the
\* receiver may ask for more files while the sender repeats the EOT.
Talk(s, r, d, cl, line, g, ans) ==
  /\ ~ r.xmodem
  /\ Carries(line, s) /\ Fits(line, g, s, r.buf)
  /\ \/ /\ \/ Pending(s, r, d, cl) /\ Request(ans)
           \/ Taken(s, r, d, cl) /\ (Request(ans) \/ ans = <<ACK>>)
        /\ Lone(line)
        /\ ans # << >> => Quiet(line, r.buf)
     \/ /\ TakenEot(s, r, d, cl)
        /\ \/ ans = <<ACK, REQ>> /\ Quiet(line, r.buf)
           \/ \A i \in DOMAIN ans : ans[i] = REQ

\* How a session ends, and what may still be on its way to the sender.
Ends(s, r, d, cl, ans) ==
  /\ r.sta # "sync"
  /\ r.sta = "done" => cl /\ d = File
  /\ s.sta = "done" => r.sta = "done"
  /\ s.sta = "cancel" => r.sta = "open"
  /\ \A i \in DOMAIN ans :
       /\ ans[i] = CAN => r.sta = "open"
       /\ ans[i] = ACK => i = 1 /\ (s.fin => r.sta = "done")

InBuf(r) == r.mode \in {1, 2} => r.buf # << >>

YInv ==
  /\ InBuf(rcv)
  /\ Clean => /\ Ends(snd, rcv, data, closed, toS)
              /\ ~ Over(rcv) => Talk(snd, rcv, data, closed, toR, gone, toS)

LEMMA SendsSound ==
  ASSUME NEW s \in Sender,
         SendsHeader(s) \/ SendsBlock(s) \/ SendsEot(s) \/ SendsEnd(s)
  PROVE  /\ Sound(s)
         /\ ~ SendsEot(s) => s.packet[2] = s.seq
         /\ SendsHeader(s) => Payload(s.packet) = HeaderPayload
         /\ SendsBlock(s) => Payload(s.packet) = Block(s.read - DataLen)
         /\ SendsEnd(s) => Payload(s.packet) = Zeros
<1>1. CASE SendsEot(s)
  BY <1>1 DEF SendsEot, SendsHeader, SendsBlock, SendsEnd, Sound
<1>2. ASSUME NEW payload \in Seq(Char), Len(payload) = DataLen,
             NEW seq \in 0 .. SeqCount - 1, s.packet = Packet(seq, payload)
      PROVE  /\ Sound(s) /\ s.packet[2] = seq /\ Payload(s.packet) = payload
  BY <1>2, PacketParts DEF Sound
<1>3. 0 \in 0 .. SeqCount - 1 /\ s.seq \in 0 .. SeqCount - 1 /\ s.read \in Nat
  BY Numbers DEF Sender
<1>4. CASE SendsHeader(s)
  BY <1>2, <1>3, <1>4, Payloads DEF SendsEot, SendsHeader, SendsBlock, SendsEnd
<1>5. CASE SendsBlock(s)
  <2>1. s.read - DataLen \in Nat
    BY <1>3, <1>5, YmodemAssumption DEF SendsBlock
  <2> DEFINE b == Block(s.read - DataLen)
  <2>2. b \in Seq(Char) /\ Len(b) = DataLen
    BY <2>1, Payloads
  <2>3. s.packet = Packet(s.seq, b)
    BY <1>5 DEF SendsBlock
  <2> HIDE DEF b
  <2>4. Sound(s) /\ s.packet[2] = s.seq /\ Payload(s.packet) = b
    BY <1>2, <1>3, <2>2, <2>3
  <2> QED BY <1>5, <2>4 DEF SendsEot, SendsHeader, SendsBlock, SendsEnd, b
<1>6. CASE SendsEnd(s)
  BY <1>2, <1>3, <1>6, Payloads DEF SendsEot, SendsHeader, SendsBlock, SendsEnd
<1> QED BY <1>1, <1>4, <1>5, <1>6

LEMMA TalkSound ==
  ASSUME NEW s \in Sender, NEW r, NEW d, NEW cl, NEW line, NEW g, NEW ans,
         Talk(s, r, d, cl, line, g, ans)
  PROVE  Sound(s)
<1>1. SendsHeader(s) \/ SendsBlock(s) \/ SendsEot(s) \/ SendsEnd(s)
  BY DEF Talk, Pending, Taken, TakenEot
<1> QED BY <1>1, SendsSound

\* Only the sender's packet, whole and undamaged, passes the checks.
LEMMA MessageRead ==
  ASSUME rcv.buf \in Seq(Char), DamageNoticed, Clean, GoneOK,
         toR \in Seq(Message), toR # << >>, Sound(snd),
         Carries(toR, snd), Fits(toR, gone, snd, rcv.buf),
         NEW d \in {toR[1][gone + 1]} \cup Noise,
         NEW m \in Message, m = Append(rcv.buf, d), IsData(m)
  PROVE  /\ m = snd.packet /\ ~ snd.eot /\ IsShort(m)
         /\ toR[1] # << CAN >> /\ gone + 1 = Len(toR[1])
<1> DEFINE a == Len(rcv.buf)
<1>1. 1 \in DOMAIN toR /\ gone \in Nat /\ gone < Len(toR[1])
  BY NextLineAt DEF GoneOK
<1>2. m = toR[1]
  BY DEF DamageNoticed
<1>3. m # <<CAN>> /\ m # <<EOT>>
  BY ShortMessages
<1>4. IsPacket(m, snd)
  BY <1>1, <1>2, <1>3 DEF Carries
<1>5. Len(m) = ShortPacket /\ m = snd.packet /\ ~ snd.eot
  BY <1>4, PacketFacts DEF IsPacket
<1>6. IsShort(m)
  <2>1. ShortPacket # LongPacket
    BY YmodemAssumption DEF ShortPacket, LongPacket
  <2> QED BY <1>5, <2>1 DEF IsData, IsLong
<1>7. a \in Nat /\ Len(m) = a + 1 /\ a <= gone
  <2>1. a \in Nat /\ Len(Append(rcv.buf, d)) = a + 1
    OBVIOUS
  <2>2. IsPacket(toR[1], snd)
    BY <1>2, <1>4
  <2>3. a <= gone
    BY <1>1, <2>2 DEF Fits
  <2> QED BY <2>1, <2>3
<1> HIDE DEF a
<1>8. gone + 1 = Len(toR[1])
  BY <1>1, <1>2, <1>7
<1> QED BY <1>2, <1>3, <1>5, <1>6, <1>8

-----------------------------------------------------------------------------
(***************************************************************************)
(* A block is written.                                                     *)
(***************************************************************************)
LEMMA FileChars == File \in Seq(Char) /\ Len(File) \in Nat
<1>1. File \in Seq(0 .. 255) /\ Len(File) \in Nat
  BY YmodemAssumption
<1>2. 0 .. 255 \subseteq Char
  BY Chars
<1> QED BY ONLY <1>1, <1>2, SeqOfSubset

\* Of a block only what belongs to the file is written.
LEMMA BlockWritten ==
  ASSUME NEW n \in Nat, n < Len(File), NEW before, NEW size,
         before = SubSeq(File, 1, n), size = Len(File) - n,
         WriteLimited(Block(n), size, before), NEW e,
         e = IF n + DataLen <= Len(File) THEN n + DataLen ELSE Len(File)
  PROVE  /\ data' = SubSeq(File, 1, e)
         /\ SizeLeft(Block(n), size) = Len(File) - e
<1> DEFINE L == Len(File)
           k == IF DataLen > size THEN size ELSE DataLen
           b == Block(n)
           w == SubSeq(b, 1, k)
           f == SubSeq(File, n + 1, e)
<1>1. DataLen \in Nat /\ L \in Nat /\ File \in Seq(Char)
  BY YmodemAssumption, FileChars
<1>2. b \in Seq(Char) /\ Len(b) = DataLen
  BY Payloads
<1>3. \A i \in 1 .. DataLen : b[i] = IF n + i <= L THEN File[n + i] ELSE 0
  BY DEF Block
<1>4. data' = before \o w
  BY <1>2 DEF WriteLimited
<1>5. SizeLeft(b, size) = IF DataLen > size THEN 0 ELSE size - DataLen
  BY <1>2 DEF SizeLeft
<1>e. e = IF n + DataLen <= L THEN n + DataLen ELSE L
  OBVIOUS
<1>s. size = L - n /\ n < L
  OBVIOUS
<1> HIDE DEF L, b
<1>6. /\ k \in 0 .. DataLen /\ e = n + k /\ e \in 0 .. L /\ n \in 0 .. e
      /\ (IF DataLen > size THEN 0 ELSE size - DataLen) = L - e
  <2>1. CASE DataLen > L - n
    <3>1. size = L - n /\ k = L - n /\ e = L
      BY <1>1, <1>e, <1>s, <2>1
    <3> HIDE DEF k
    <3>2. k \in 0 .. DataLen /\ e = n + k /\ e \in 0 .. L /\ n \in 0 .. e
      BY <1>1, <1>s, <2>1, <3>1
    <3>3. (IF DataLen > size THEN 0 ELSE size - DataLen) = L - e
      <4>1. DataLen > size /\ L - e = 0
        BY <1>1, <2>1, <3>1
      <4> QED BY <4>1
    <3> QED BY <3>2, <3>3
  <2>2. CASE ~ (DataLen > L - n)
    <3>1. size = L - n /\ k = DataLen /\ e = n + DataLen
      BY <1>1, <1>e, <1>s, <2>2
    <3> HIDE DEF k
    <3>2. k \in 0 .. DataLen /\ e = n + k /\ e \in 0 .. L /\ n \in 0 .. e
      BY <1>1, <1>s, <2>2, <3>1
    <3>3. (IF DataLen > size THEN 0 ELSE size - DataLen) = L - e
      <4>1. ~ (DataLen > size) /\ size - DataLen = L - e
        <5>1. (L - n) - DataLen = L - (n + DataLen)
          BY <1>1
        <5> QED BY <2>2, <3>1, <5>1
      <4> QED BY <4>1
    <3> QED BY <3>2, <3>3
  <2> QED BY <2>1, <2>2
<1> HIDE DEF k
<1>7. w = f
  <2>1. /\ w \in Seq(Char) /\ Len(w) = k
        /\ \A i \in 1 .. k : w[i] = b[i]
    <3>1. \A i \in 1 .. k : b[i] \in Char
      BY <1>1, <1>2, <1>6
    <3>2. /\ w \in Seq(Char) /\ Len(w) = IF 1 <= k THEN k - 1 + 1 ELSE 0
          /\ \A i \in 1 .. (k - 1) + 1 : w[i] = b[(1 + i) - 1]
      BY <1>6, <3>1, SubSeqProperties
    <3>3. (k - 1) + 1 = k /\ k \in Nat /\ \A i \in 1 .. k : (1 + i) - 1 = i
      BY <1>1, <1>6
    <3> HIDE DEF w
    <3>4. Len(w) = k
      BY <3>2, <3>3
    <3> QED BY <3>2, <3>3, <3>4
  <2>2. /\ f \in Seq(Char) /\ Len(f) = k
        /\ \A i \in 1 .. k : f[i] = File[n + i]
    <3>0. n + 1 \in Nat \ {0} /\ e \in 0 .. Len(File) /\ e \in Int /\ n + 1 \in Int
      BY <1>1, <1>6 DEF L
    <3>1. f \in Seq(Char) /\ Len(f) = IF n + 1 <= e THEN (e - (n + 1)) + 1 ELSE 0
      BY <1>1, <3>0, CutType
    <3>2. \A i \in n + 1 .. e : File[i] \in Char
      BY <1>1, <3>0
    <3>3. \A i \in 1 .. (e - (n + 1)) + 1 : f[i] = File[((n + 1) + i) - 1]
      BY <3>0, <3>2, SubSeqProperties
    <3>4. /\ (e - (n + 1)) + 1 = k /\ (n + 1 <= e => k > 0) /\ (~ (n + 1 <= e) => k = 0)
          /\ \A i \in 1 .. k : ((n + 1) + i) - 1 = n + i
      BY <1>1, <1>6
    <3> HIDE DEF f
    <3>5. Len(f) = k
      BY <3>1, <3>4
    <3> QED BY <3>1, <3>3, <3>4, <3>5
  <2>3. \A i \in 1 .. k : i \in 1 .. DataLen /\ n + i <= L
    BY <1>1, <1>6
  <2> HIDE DEF w, f
  <2>4. \A i \in 1 .. k : w[i] = f[i]
    BY <1>3, <2>1, <2>2, <2>3
  <2> QED BY <2>1, <2>2, <2>4, SeqEqual
<1>8. before \o f = SubSeq(File, 1, e)
  <2>1. 1 \in 1 .. Len(File) + 1 /\ n \in 1 - 1 .. Len(File) /\ e \in n .. Len(File)
    BY <1>1, <1>6 DEF L
  <2> QED BY <1>1, <2>1, ConcatAdjacentSubSeq
<1> HIDE DEF w, f
<1> QED BY <1>4, <1>5, <1>6, <1>7, <1>8 DEF b, L

\* Nothing has moved: both ends are where they were.
LEMMA SameProgress ==
  ASSUME NEW s, NEW r, NEW d, NEW cl, NEW q, q.opened = r.opened,
         r.opened => q.seq = r.seq /\ q.old_seq = r.old_seq /\ q.size = r.size
  PROVE  /\ Pending(s, r, d, cl) => Pending(s, q, d, cl)
         /\ Taken(s, r, d, cl) => Taken(s, q, d, cl)
         /\ TakenEot(s, r, d, cl) => TakenEot(s, q, d, cl)
BY DEF Pending, Taken, TakenEot, Holds

-----------------------------------------------------------------------------
(***************************************************************************)
(* Steps that keep the two ends in step.                                   *)
(***************************************************************************)

\* q is the receiver after a character, lost, collected or thrown away, that
\* did not make it answer.
LEMMA TalkKept ==
  ASSUME NEW s \in Sender, NEW r, NEW d, NEW cl, NEW line \in Seq(Message),
         line # << >>, NEW g \in Nat, NEW ans, Talk(s, r, d, cl, line, g, ans),
         NEW q, q.opened = r.opened, q.xmodem => r.xmodem,
         r.opened => q.seq = r.seq /\ q.old_seq = r.old_seq /\ q.size = r.size,
         Fits(NextLine(line, g), NextGone(line, g), s, q.buf),
         Quiet(line, r.buf) => q.buf = << >>
  PROVE  Talk(s, q, d, cl, NextLine(line, g), NextGone(line, g), ans)
<1>1. Carries(NextLine(line, g), s)
  BY CarriesNext DEF Talk
<1>2. Quiet(line, r.buf) => Quiet(NextLine(line, g), q.buf)
  BY AllCanNext DEF Quiet
<1>3. Lone(line) => Lone(NextLine(line, g))
  BY LoneNext
<1>4. /\ Pending(s, r, d, cl) => Pending(s, q, d, cl)
      /\ Taken(s, r, d, cl) => Taken(s, q, d, cl)
      /\ TakenEot(s, r, d, cl) => TakenEot(s, q, d, cl)
  BY SameProgress
<1> DEFINE next == NextLine(line, g)
           ng == NextGone(line, g)
<1> HIDE DEF next, ng
<1>5. Carries(next, s) /\ Fits(next, ng, s, q.buf)
  BY <1>1 DEF next, ng
<1>6. /\ Quiet(line, r.buf) => Quiet(next, q.buf)
      /\ Lone(line) => Lone(next)
  BY <1>2, <1>3 DEF next
<1>7. ~ q.xmodem
  BY DEF Talk
<1>8. \/ /\ \/ Pending(s, r, d, cl) /\ Request(ans)
            \/ Taken(s, r, d, cl) /\ (Request(ans) \/ ans = <<ACK>>)
         /\ Lone(line)
         /\ ans # << >> => Quiet(line, r.buf)
      \/ /\ TakenEot(s, r, d, cl)
         /\ \/ ans = <<ACK, REQ>> /\ Quiet(line, r.buf)
            \/ \A i \in DOMAIN ans : ans[i] = REQ
  BY DEF Talk
<1>9. Talk(s, q, d, cl, next, ng, ans)
  BY <1>4, <1>5, <1>6, <1>7, <1>8, Zenon DEF Talk
<1> QED BY <1>9 DEF next, ng

LEMMA EndsKept ==
  ASSUME NEW s, NEW r, NEW d, NEW cl, NEW ans, Ends(s, r, d, cl, ans),
         r.sta = "more", NEW q, q.sta \in {"more", "remote"}
  PROVE  Ends(s, q, d, cl, ans)
BY DEF Ends

\* The receiver has answered, and nothing but the operator's Ctrl-X is on
\* its line.
LEMMA TalkAnswered ==
  ASSUME NEW s, Sound(s), NEW q, q.buf = << >>, ~ q.xmodem, NEW d, NEW cl,
         NEW line \in Seq(Message), AllCan(line), NEW g, NEW ans,
         \/ Pending(s, q, d, cl) /\ Request(ans)
         \/ Taken(s, q, d, cl) /\ (Request(ans) \/ ans = << ACK >>)
         \/ TakenEot(s, q, d, cl) /\ ans = << ACK, REQ >>
         \/ TakenEot(s, q, d, cl) /\ \A i \in DOMAIN ans : ans[i] = REQ
  PROVE  Talk(s, q, d, cl, line, g, ans)
<1>1. Carries(line, s) /\ Fits(line, g, s, q.buf) /\ Lone(line)
  BY QuietLine
<1> QED BY <1>1, Zenon DEF Talk, Quiet

\* The answers, character by character.
LEMMA AnswerAt ==
  /\ DOMAIN << ACK >> = {1} /\ DOMAIN << NAK >> = {1} /\ DOMAIN << REQ >> = {1}
  /\ << ACK >>[1] = ACK /\ << NAK >>[1] = NAK /\ << REQ >>[1] = REQ
  /\ DOMAIN << ACK, REQ >> = {1, 2} /\ << ACK, REQ >>[1] = ACK
  /\ << ACK, REQ >>[2] = REQ
  /\ DOMAIN << CAN, CAN >> = {1, 2} /\ << CAN, CAN >>[1] = CAN
  /\ << CAN, CAN >>[2] = CAN
  /\ ACK # CAN /\ NAK # CAN /\ REQ # CAN /\ NAK # ACK /\ REQ # ACK /\ REQ # NAK
  /\ DOMAIN << >> = {}
<1>1. DOMAIN <<ACK>> = {1} /\ DOMAIN <<NAK>> = {1} /\ DOMAIN <<REQ>> = {1}
  OBVIOUS
<1>2. /\ <<ACK>>[1] = ACK /\ <<NAK>>[1] = NAK /\ <<REQ>>[1] = REQ
      /\ <<ACK, REQ>>[1] = ACK /\ <<ACK, REQ>>[2] = REQ
      /\ <<CAN, CAN>>[1] = CAN /\ <<CAN, CAN>>[2] = CAN
  OBVIOUS
<1>3. DOMAIN <<ACK, REQ>> = {1, 2} /\ DOMAIN <<CAN, CAN>> = {1, 2}
  OBVIOUS
<1>4. /\ ACK # CAN /\ NAK # CAN /\ REQ # CAN /\ NAK # ACK /\ REQ # ACK
      /\ REQ # NAK
  BY DEF ACK, CAN, NAK, REQ
<1>5. DOMAIN << >> = {}
  OBVIOUS
<1> QED BY <1>1, <1>2, <1>3, <1>4, <1>5

LEMMA EndsAnswered ==
  ASSUME NEW s, NEW r, NEW d0, NEW cl0, NEW ans0, Ends(s, r, d0, cl0, ans0),
         r.sta = "more", NEW q, NEW d, NEW cl, NEW ans,
         \/ q.sta = "more" /\ ~ s.fin /\ (ans = << ACK >> \/ ans = << ACK, REQ >>)
         \/ q.sta = "more" /\ Request(ans)
         \/ q.sta = "done" /\ cl /\ d = File /\ ans = << ACK >>
         \/ q.sta = "open" /\ ans = << CAN, CAN >>
  PROVE  Ends(s, q, d, cl, ans)
<1>1. s.sta # "done" /\ s.sta # "cancel"
  BY DEF Ends
<1>2. CASE q.sta = "more" /\ ~ s.fin /\ (ans = <<ACK>> \/ ans = <<ACK, REQ>>)
  <2>1. \A i \in DOMAIN ans : ans[i] # CAN /\ (ans[i] = ACK => i = 1)
    BY <1>2, AnswerAt
  <2> QED BY <1>1, <1>2, <2>1 DEF Ends
<1>3. CASE q.sta = "more" /\ Request(ans)
  <2>1. \A i \in DOMAIN ans : ans[i] # CAN /\ ans[i] # ACK
    BY <1>3, AnswerAt DEF Request
  <2> QED BY <1>1, <1>3, <2>1 DEF Ends
<1>4. CASE q.sta = "done" /\ cl /\ d = File /\ ans = <<ACK>>
  <2>1. \A i \in DOMAIN ans : ans[i] # CAN /\ i = 1
    BY <1>4, AnswerAt
  <2> QED BY <1>1, <1>4, <2>1 DEF Ends
<1>5. CASE q.sta = "open" /\ ans = <<CAN, CAN>>
  <2>1. \A i \in DOMAIN ans : ans[i] # ACK
    BY <1>5, AnswerAt
  <2> QED BY <1>1, <1>5, <2>1 DEF Ends
<1> QED BY <1>2, <1>3, <1>4, <1>5

\* The sender's packet is read, whole.
LEMMA PacketRead ==
  ASSUME snd \in Sender, rcv.sta = "more", toR \in Seq(Message), toR # << >>,
         Talk(snd, rcv, data, closed, toR, gone, toS),
         Ends(snd, rcv, data, closed, toS),
         NEW m \in Message, m = snd.packet, ~ snd.eot, IsShort(m),
         toR[1] # << CAN >>, gone \in Nat, gone + 1 = Len(toR[1]),
         toR' = NextLine(toR, gone), gone' = NextGone(toR, gone),
         toR' \in Seq(Message), rcv'.buf = << >>, Outcome(m)
  PROVE  /\ Ends(snd, rcv', data', closed', toS')
         /\ rcv'.sta = "more" => Talk(snd, rcv', data', closed', toR', gone', toS')
<1>1. ~ rcv.xmodem /\ Lone(toR) /\ toS = << >>
  <2>1. ~ TakenEot(snd, rcv, data, closed)
    BY DEF TakenEot, SendsEot
  <2>2. ~ Quiet(toR, rcv.buf)
    BY AllCanNext DEF Quiet
  <2> QED BY <2>1, <2>2 DEF Talk
<1>2. AllCan(toR')
  BY <1>1, LoneNext
<1>3. Sound(snd)
  BY TalkSound
<1>4. \A out \in Seq(Answer) : toS \o out = out
  BY <1>1, ConcatEmptySeq
<1>a. /\ toS \o <<ACK>> = <<ACK>> /\ toS \o <<CAN, CAN>> = <<CAN, CAN>>
  BY <1>4, Answers
<1>5. /\ IsData(m) /\ m # <<EOT>>
      /\ \A k : IsHeader(m, k) <=> m[2] = k
  BY ShortMessages DEF IsData, IsHeader
<1>6. /\ SendsHeader(snd) \/ SendsBlock(snd) \/ SendsEnd(snd)
      /\ \/ Pending(snd, rcv, data, closed)
         \/ Taken(snd, rcv, data, closed)
  BY DEF Talk, TakenEot, SendsEot, Pending, Taken
<1>7. m[2] = snd.seq
  BY <1>6, SendsSound DEF SendsEot
<1>s. snd.seq \in 0 .. SeqCount - 1 /\ snd.read \in Nat
  BY DEF Sender
<1>8. CASE SendsHeader(snd) /\ Pending(snd, rcv, data, closed)
  <2>1. /\ ~ rcv.opened /\ ~ closed /\ m[2] = 0 /\ Payload(m) = HeaderPayload
        /\ snd.seq = 0 /\ snd.read = 0 /\ ~ snd.fin
    <3>1. Payload(m) = HeaderPayload
      BY <1>8, SendsSound
    <3> QED BY <1>7, <1>8, <3>1
            DEF Pending, SendsHeader, SendsBlock, SendsEot, SendsEnd
  <2>2. Opened(m) \/ Refused(m)
    <3>1. Payload(m)[1] # 0 /\ IsHeader(m, 0) /\ ~ IsHeader(m, 1)
      BY <1>5, <2>1, Payloads
    <3>2. ~ Ignored(m) /\ ~ Finished(m) /\ ~ Anonymous(m)
      BY <1>5, <3>1 DEF Ignored, Finished, Anonymous
    <3>3. /\ ~ Repeated(m) /\ ~ OutOfStep(m) /\ ~ Written(m)
          /\ ~ ClosedAnonymous(m) /\ ~ ClosedFile(m) /\ ~ FirstEot(m)
      BY <2>1 DEF Repeated, OutOfStep, Written, ClosedAnonymous, ClosedFile,
                  FirstEot
    <3> QED BY <3>2, <3>3 DEF Outcome
  <2>3. CASE Opened(m)
    <3>1. /\ rcv'.opened /\ rcv'.old_seq = 0 /\ rcv'.seq = 1
          /\ rcv'.size = Len(File) /\ ~ rcv'.xmodem /\ rcv'.sta = "more"
          /\ data' = << >> /\ ~ closed' /\ toS' = <<ACK>>
      BY <1>1, <1>a, <2>1, <2>3, Payloads DEF Opened
    <3>2. /\ 1 = (0 + 1) % SeqCount /\ SubSeq(File, 1, 0) = << >>
          /\ Len(File) - 0 = Len(File) /\ 0 <= Len(File)
      <4>1. SeqCount \in Nat \ {0} /\ 0 + 1 = 1 /\ 1 \in Int /\ 0 <= 1 /\ 1 < SeqCount
        BY YmodemAssumption
      <4>2. 1 % SeqCount = 1
        BY <4>1, ModWrap, Zenon
      <4>3. SubSeq(File, 1, 0) = << >>
        BY SubSeqEmpty
      <4> QED BY <4>1, <4>2, <4>3, FileChars
    <3>3. Taken(snd, rcv', data', closed')
      <4> DEFINE n == IF snd.read <= Len(File) THEN snd.read ELSE Len(File)
      <4>1. n = 0
        BY <2>1, <3>2
      <4> HIDE DEF n
      <4>2. Holds(rcv', data', n)
        BY <3>1, <3>2, <4>1 DEF Holds
      <4> QED BY <1>8, <2>1, <3>1, <3>2, <4>2 DEF Taken, n
    <3>4. Talk(snd, rcv', data', closed', toR', gone', toS')
      BY <1>2, <1>3, <3>1, <3>3, TalkAnswered
    <3>5. Ends(snd, rcv', data', closed', toS')
      BY <2>1, <3>1, EndsAnswered
    <3> QED BY <3>4, <3>5
  <2>4. CASE Refused(m)
    <3>1. rcv'.sta = "open" /\ toS' = <<CAN, CAN>>
      BY <1>a, <2>4 DEF Refused
    <3> QED BY <3>1, EndsAnswered
  <2> QED BY <2>2, <2>3, <2>4
<1>9. CASE SendsEnd(snd) /\ Pending(snd, rcv, data, closed)
  <2>1. /\ ~ rcv.opened /\ closed /\ data = File /\ m[2] = 0
        /\ Payload(m) = Zeros
    <3>1. Payload(m) = Zeros
      BY <1>9, SendsSound
    <3> QED BY <1>7, <1>9, <3>1
            DEF Pending, SendsHeader, SendsBlock, SendsEot, SendsEnd
  <2>2. Finished(m)
    <3>1. Payload(m)[1] = 0 /\ IsHeader(m, 0) /\ ~ IsHeader(m, 1)
      BY <1>5, <2>1, Payloads
    <3>2. ~ Ignored(m) /\ ~ Opened(m) /\ ~ Refused(m) /\ ~ Anonymous(m)
      BY <1>5, <3>1 DEF Ignored, Opened, Refused, Anonymous
    <3>3. /\ ~ Repeated(m) /\ ~ OutOfStep(m) /\ ~ Written(m)
          /\ ~ ClosedAnonymous(m) /\ ~ ClosedFile(m) /\ ~ FirstEot(m)
      BY <2>1 DEF Repeated, OutOfStep, Written, ClosedAnonymous, ClosedFile,
                  FirstEot
    <3> QED BY <3>2, <3>3 DEF Outcome
  <2>3. /\ rcv'.sta = "done" /\ data' = File /\ closed' /\ toS' = <<ACK>>
    BY <1>a, <2>1, <2>2 DEF Finished
  <2> QED BY <2>3, EndsAnswered
<1>10. CASE SendsBlock(snd) /\ Pending(snd, rcv, data, closed)
  <2> DEFINE n == snd.read - DataLen
             e == IF snd.read <= Len(File) THEN snd.read ELSE Len(File)
  <2>1. /\ rcv.opened /\ ~ closed /\ rcv.seq = snd.seq /\ rcv.old_seq # snd.seq
        /\ Holds(rcv, data, n) /\ Payload(m) = Block(n) /\ ~ snd.fin
        /\ DataLen <= snd.read /\ n < Len(File)
    <3>1. Payload(m) = Block(n)
      BY <1>10, SendsSound
    <3> QED BY <1>10, <3>1
            DEF Pending, SendsHeader, SendsBlock, SendsEot, SendsEnd
  <2>2. Written(m)
    <3>1. ~ Ignored(m) /\ ~ Repeated(m) /\ ~ OutOfStep(m)
      BY <1>5, <1>7, <2>1 DEF Ignored, Repeated, OutOfStep
    <3>2. ~ Finished(m) /\ ~ Opened(m) /\ ~ Refused(m) /\ ~ Anonymous(m)
      BY <2>1 DEF Finished, Opened, Refused, Anonymous
    <3>3. ~ ClosedAnonymous(m) /\ ~ ClosedFile(m) /\ ~ FirstEot(m)
      BY <1>5 DEF ClosedAnonymous, ClosedFile, FirstEot
    <3> QED BY <3>1, <3>2, <3>3 DEF Outcome
  <2>3. /\ rcv'.opened /\ rcv'.old_seq = snd.seq
        /\ rcv'.seq = (snd.seq + 1) % SeqCount
        /\ rcv'.size = SizeLeft(Block(n), rcv.size) /\ ~ rcv'.xmodem
        /\ WriteLimited(Block(n), rcv.size, data)
        /\ rcv'.sta = "more" /\ ~ closed' /\ toS' = <<ACK>>
    <3> HIDE DEF n, e
    <3>1. rcv.seq = snd.seq /\ Payload(m) = Block(n) /\ ~ closed
      BY <2>1
    <3> QED BY ONLY <1>1, <1>a, <2>2, <3>1 DEF Written
  <2>4. /\ n \in Nat /\ n + DataLen = snd.read
    BY <1>s, <2>1, YmodemAssumption
  <2>5. data' = SubSeq(File, 1, e) /\ SizeLeft(Block(n), rcv.size) = Len(File) - e
    <3> HIDE DEF n
    <3>1. data = SubSeq(File, 1, n) /\ rcv.size = Len(File) - n
      BY <2>1 DEF Holds
    <3>2. e = IF n + DataLen <= Len(File) THEN n + DataLen ELSE Len(File)
      BY <2>4
    <3> HIDE DEF e
    <3> QED BY <2>1, <2>3, <2>4, <3>1, <3>2, BlockWritten
  <2>6. Holds(rcv', data', e)
    <3> HIDE DEF n, e
    <3> QED BY <2>3, <2>5 DEF Holds
  <2>7. Taken(snd, rcv', data', closed')
    BY <1>10, <2>3, <2>6 DEF Taken
  <2>8. Talk(snd, rcv', data', closed', toR', gone', toS')
    BY <1>2, <1>3, <2>3, <2>7, TalkAnswered
  <2>9. Ends(snd, rcv', data', closed', toS')
    BY <2>1, <2>3, EndsAnswered
  <2> QED BY <2>8, <2>9
<1>11. CASE Taken(snd, rcv, data, closed)
  <2>1. rcv.opened /\ rcv.old_seq = snd.seq /\ ~ snd.fin
    BY <1>11 DEF Taken, SendsHeader, SendsBlock
  <2>2. Repeated(m)
    <3>1. ~ Ignored(m) /\ ~ Written(m) /\ ~ OutOfStep(m)
      BY <1>5, <1>7, <2>1 DEF Ignored, Written, OutOfStep
    <3>2. ~ Finished(m) /\ ~ Opened(m) /\ ~ Refused(m) /\ ~ Anonymous(m)
      BY <2>1 DEF Finished, Opened, Refused, Anonymous
    <3>3. ~ ClosedAnonymous(m) /\ ~ ClosedFile(m) /\ ~ FirstEot(m)
      BY <1>5 DEF ClosedAnonymous, ClosedFile, FirstEot
    <3> QED BY <3>1, <3>2, <3>3 DEF Outcome
  <2>3. /\ Unmoved /\ rcv'.sta = "more" /\ toS' = <<ACK>>
    BY <1>a, <2>2 DEF Repeated
  <2>4. Taken(snd, rcv', data', closed') /\ ~ rcv'.xmodem
    <3>1. Taken(snd, rcv', data, closed)
      BY <1>11, <2>3, SameProgress DEF Unmoved
    <3> QED BY <1>1, <2>3, <3>1 DEF Unmoved
  <2>5. Talk(snd, rcv', data', closed', toR', gone', toS')
    BY <1>2, <1>3, <2>3, <2>4, TalkAnswered
  <2>6. Ends(snd, rcv', data', closed', toS')
    BY <2>1, <2>3, EndsAnswered
  <2> QED BY <2>5, <2>6
<1> QED BY <1>6, <1>8, <1>9, <1>10, <1>11

\* The sender's EOT is read, the first or the second, while a file is open.
LEMMA EotRead ==
  ASSUME snd \in Sender, rcv.sta = "more", toR \in Seq(Message), toR # << >>,
         Talk(snd, rcv, data, closed, toR, gone, toS),
         Ends(snd, rcv, data, closed, toS),
         NEW m, toR[1] = << EOT >>, GoneOK,
         toR' = NextLine(toR, gone), gone' = NextGone(toR, gone),
         toR' \in Seq(Message), rcv'.buf = << >>,
         ClosedAnonymous(m) \/ ClosedFile(m) \/ FirstEot(m)
  PROVE  /\ Ends(snd, rcv', data', closed', toS')
         /\ Talk(snd, rcv', data', closed', toR', gone', toS')
<1>1. Sound(snd)
  BY TalkSound
<1>2. <<EOT>> # <<CAN>> /\ gone \in Nat /\ gone + 1 = Len(toR[1])
  <2>1. Len(toR[1]) = 1
    OBVIOUS
  <2> QED BY <2>1, ShortMessages DEF GoneOK
<1>3. rcv.opened /\ ~ rcv.xmodem /\ (ClosedFile(m) \/ FirstEot(m))
  BY DEF ClosedAnonymous, ClosedFile, FirstEot, Talk
<1>4. snd.eot
  <2>1. 1 \in DOMAIN toR
    BY NextLineAt
  <2>2. ~ IsPacket(<<EOT>>, snd)
    BY <1>1, PacketFacts
  <2> QED BY <1>2, <2>1, <2>2 DEF Talk, Carries
<1>5. /\ SendsEot(snd) /\ ~ closed /\ data = File /\ Lone(toR)
      /\ Pending(snd, rcv, data, closed)
      /\ toS # << >> => Quiet(toR, rcv.buf)
  <2>1. ~ Taken(snd, rcv, data, closed) /\ ~ TakenEot(snd, rcv, data, closed)
    BY <1>3, <1>4 DEF Taken, TakenEot, SendsHeader, SendsBlock
  <2>2. Pending(snd, rcv, data, closed) => SendsEot(snd) /\ ~ closed /\ data = File
    BY <1>3, <1>4 DEF Pending, SendsHeader, SendsBlock, SendsEnd
  <2> QED BY <2>1, <2>2 DEF Talk
<1>6. toS = << >> /\ ~ snd.fin
  <2>1. ~ Quiet(toR, rcv.buf)
    BY <1>2, AllCanNext DEF Quiet
  <2> QED BY <1>5, <2>1 DEF SendsEot
<1>7. AllCan(toR')
  BY <1>2, <1>5, LoneNext
<1>a. toS \o <<NAK>> = <<NAK>> /\ toS \o <<ACK, REQ>> = <<ACK, REQ>>
  <2>1. \A out \in Seq(Answer) : toS \o out = out
    BY <1>6, ConcatEmptySeq
  <2> QED BY <2>1, Answers
<1>8. CASE ClosedFile(m)
  <2>1. /\ rcv'.opened = FALSE /\ rcv'.xmodem = FALSE /\ rcv'.sta = "more"
        /\ closed' = TRUE /\ data' = File /\ toS' = <<ACK, REQ>>
    BY <1>5, <1>8, <1>a DEF ClosedFile
  <2>2. TakenEot(snd, rcv', data', closed')
    BY <1>5, <2>1 DEF TakenEot
  <2>3. Talk(snd, rcv', data', closed', toR', gone', toS')
    BY <1>1, <1>7, <2>1, <2>2, TalkAnswered
  <2>4. Ends(snd, rcv', data', closed', toS')
    BY <1>6, <2>1, EndsAnswered
  <2> QED BY <2>3, <2>4
<1>9. CASE FirstEot(m)
  <2>1. Unmoved /\ rcv'.sta = "more" /\ toS' = <<NAK>>
    BY <1>9, <1>a DEF FirstEot
  <2>2. Pending(snd, rcv', data', closed') /\ ~ rcv'.xmodem
    <3>1. Pending(snd, rcv', data, closed)
      BY <1>5, <2>1, SameProgress DEF Unmoved
    <3> QED BY <1>3, <2>1, <3>1 DEF Unmoved
  <2>3. Request(toS')
    BY <2>1 DEF Request
  <2>4. Talk(snd, rcv', data', closed', toR', gone', toS')
    BY <1>1, <1>7, <2>2, <2>3, TalkAnswered
  <2>5. Ends(snd, rcv', data', closed', toS')
    BY <2>1, <2>3, EndsAnswered
  <2> QED BY <2>4, <2>5
<1> QED BY <1>3, <1>8, <1>9

\* What holds while the receiver runs and only loss and damage were met.
InStep ==
  /\ TypeOK /\ Agree(rcv) /\ InBuf(rcv) /\ DamageNoticed /\ Clean
  /\ rcv.sta = "more"
  /\ Talk(snd, rcv, data, closed, toR, gone, toS)
  /\ Ends(snd, rcv, data, closed, toS)

LEMMA InStepParts ==
  ASSUME InStep
  PROVE  /\ snd \in Sender /\ RcvOK /\ rcv \in Receiver /\ rcv.buf \in Seq(Char)
         /\ toR \in Seq(Message) /\ gone \in Nat /\ GoneOK
         /\ toS \in Seq(Answer) /\ Sound(snd) /\ rcv.sta = "more"
         /\ Talk(snd, rcv, data, closed, toR, gone, toS)
         /\ Ends(snd, rcv, data, closed, toS)
         /\ Carries(toR, snd) /\ Fits(toR, gone, snd, rcv.buf)
<1>1. SndOK /\ RcvOK /\ Talk(snd, rcv, data, closed, toR, gone, toS)
  BY TypeOKParts DEF InStep
<1>2. snd \in Sender /\ toR \in Seq(Message) /\ GoneOK /\ gone \in Nat
  BY <1>1 DEF SndOK, GoneOK
<1>3. rcv.buf \in Seq(Char)
  BY <1>1 DEF RcvOK, Receiver
<1> QED BY <1>1, <1>2, <1>3, TalkSound DEF InStep, RcvOK, Talk

\* A message is complete; characters that stand alone were really sent.
LEMMA MessageTaken ==
  ASSUME InStep, toR # << >>, toR' = NextLine(toR, gone),
         gone' = NextGone(toR, gone), toR' \in Seq(Message),
         NEW d \in {toR[1][gone + 1]} \cup Noise, NEW m \in Message,
         m = Append(rcv.buf, d), m = << EOT >> => toR[1] = << EOT >>,
         ymodem_rcv(m)
  PROVE  /\ Ends(snd, rcv', data', closed', toS')
         /\ rcv'.sta = "more"
              => Talk(snd, rcv', data', closed', toR', gone', toS')
<1>0. /\ snd \in Sender /\ RcvOK /\ rcv \in Receiver /\ rcv.buf \in Seq(Char)
      /\ toR \in Seq(Message) /\ gone \in Nat /\ GoneOK
      /\ Sound(snd) /\ rcv.sta = "more"
      /\ Talk(snd, rcv, data, closed, toR, gone, toS)
      /\ Ends(snd, rcv, data, closed, toS)
      /\ Carries(toR, snd) /\ Fits(toR, gone, snd, rcv.buf)
  BY InStepParts
<1>1. rcv'.buf = << >> /\ Outcome(m)
  BY <1>0, Outcomes
<1>2. CASE IsData(m)
  <2>1. /\ m = snd.packet /\ ~ snd.eot /\ IsShort(m)
        /\ toR[1] # <<CAN>> /\ gone + 1 = Len(toR[1])
    BY <1>0, <1>2, MessageRead DEF InStep
  <2> QED BY <1>0, <1>1, <2>1, PacketRead
<1>3. CASE Ignored(m)
  <2>1. /\ Unmoved /\ toS' = toS /\ rcv'.sta \in {"more", "remote"}
    BY <1>3 DEF Ignored
  <2>2. Fits(NextLine(toR, gone), NextGone(toR, gone), snd, rcv'.buf)
    BY <1>0, <1>1, FitsNext
  <2>3. Talk(snd, rcv', data, closed, NextLine(toR, gone), NextGone(toR, gone), toS)
    <3>1. /\ rcv'.opened = rcv.opened
          /\ rcv'.xmodem => rcv.xmodem
          /\ rcv.opened => rcv'.seq = rcv.seq /\ rcv'.old_seq = rcv.old_seq
                           /\ rcv'.size = rcv.size
      BY <2>1 DEF Unmoved
    <3> QED BY <1>0, <1>1, <2>2, <3>1, TalkKept
  <2>4. Ends(snd, rcv', data, closed, toS)
    BY <1>0, <2>1, EndsKept
  <2> QED BY <2>1, <2>3, <2>4 DEF Unmoved
<1>4. CASE ClosedAnonymous(m) \/ ClosedFile(m) \/ FirstEot(m)
  <2>1. m = <<EOT>>
    BY <1>4 DEF ClosedAnonymous, ClosedFile, FirstEot
  <2> QED BY <1>0, <1>1, <1>4, <2>1, EotRead
<1>5. CASE ~ IsData(m)
  <2>1. /\ ~ Finished(m) /\ ~ Opened(m) /\ ~ Refused(m) /\ ~ Anonymous(m)
        /\ ~ Repeated(m) /\ ~ OutOfStep(m) /\ ~ Written(m)
    BY <1>5 DEF Finished, Opened, Refused, Anonymous, Repeated, OutOfStep,
                Written, IsHeader, IsData
  <2> QED BY <1>1, <1>3, <1>4, <2>1 DEF Outcome
<1> QED BY <1>2, <1>5

\* A character is collected and completes nothing.
LEMMA Collected ==
  ASSUME InStep, toR # << >>, toR' = NextLine(toR, gone),
         gone' = NextGone(toR, gone),
         NEW d \in {toR[1][gone + 1]} \cup Noise, NEW m, m = Append(rcv.buf, d),
         NEW mode,
         \/ mode = rcv.mode
         \/ mode \in {1, 2} /\ rcv.mode = 0 /\ toR[1] # << CAN >>,
         rcv' = [rcv EXCEPT !.mode = mode,
                            !.buf = IF mode \in {1, 2} THEN m ELSE << >>],
         UNCHANGED <<data, closed, toS>>
  PROVE  /\ Ends(snd, rcv', data', closed', toS')
         /\ Talk(snd, rcv', data', closed', toR', gone', toS')
<1>0. /\ snd \in Sender /\ rcv \in Receiver /\ rcv.buf \in Seq(Char)
      /\ toR \in Seq(Message) /\ gone \in Nat /\ Sound(snd)
      /\ rcv.sta = "more" /\ InBuf(rcv)
      /\ Talk(snd, rcv, data, closed, toR, gone, toS)
      /\ Ends(snd, rcv, data, closed, toS)
      /\ Carries(toR, snd) /\ Fits(toR, gone, snd, rcv.buf)
  BY InStepParts DEF InStep
<1> DEFINE buf == IF mode \in {1, 2} THEN m ELSE << >>
<1>1. buf = << >> \/ (mode \in {1, 2} /\ buf = m)
  OBVIOUS
<1> HIDE DEF buf
<1>2. /\ rcv'.opened = rcv.opened /\ rcv'.xmodem = rcv.xmodem
      /\ rcv'.seq = rcv.seq /\ rcv'.old_seq = rcv.old_seq
      /\ rcv'.size = rcv.size /\ rcv'.buf = buf /\ rcv'.sta = "more"
  <2>1. rcv' = [rcv EXCEPT !.mode = mode, !.buf = buf]
    BY DEF buf
  <2> QED BY <1>0, <2>1 DEF Receiver
<1>3. mode \in {1, 2} => rcv.buf # << >> \/ toR[1] # <<CAN>>
  BY <1>0 DEF InBuf
<1>4. Fits(NextLine(toR, gone), NextGone(toR, gone), snd, buf)
  <2>1. CASE buf = << >>
    BY <1>0, <2>1, FitsNext
  <2>2. CASE mode \in {1, 2} /\ buf = m
    <3>1. snd.eot \/ Lone(toR)
      BY <1>0 DEF Talk, TakenEot, SendsEot
    <3> QED BY <1>0, <1>3, <2>2, <3>1, FitsCollected
  <2> QED BY <1>1, <2>1, <2>2
<1>5. Quiet(toR, rcv.buf) => buf = << >>
  <2>1. Quiet(toR, rcv.buf) => rcv.buf = << >> /\ toR[1] = <<CAN>>
    BY <1>0, AllCanNext DEF Quiet
  <2> QED BY <1>1, <1>3, <2>1
<1>6. Talk(snd, rcv', data, closed, NextLine(toR, gone), NextGone(toR, gone), toS)
  <2>1. toR # << >>
    OBVIOUS
  <2> QED BY ONLY <1>0, <1>2, <1>4, <1>5, <2>1, TalkKept
<1>7. Ends(snd, rcv', data, closed, toS)
  <2>1. rcv'.sta \in {"more", "remote"}
    BY <1>2
  <2> QED BY ONLY <1>0, <2>1, EndsKept
<1> QED BY <1>6, <1>7

LEMMA NextCharLine ==
  ASSUME NextChar
  PROVE  /\ toR # << >> /\ toR' = NextLine(toR, gone)
         /\ gone' = NextGone(toR, gone)
BY Zenon DEF NextChar, NextLine, NextGone

\* A step of the receiver after which the line is still clean took no stray
\* character.
NotStray(d) ==
  /\ rcv.mode = 0 /\ d \in {CAN, EOT} => d = toR[1][gone + 1] /\ Len(toR[1]) = 1
  /\ rcv.mode = 0 /\ d \in {SOH, STX} => toR[1] # <<CAN>>

LEMMA CleanCharacter ==
  ASSUME Clean', toR # << >>, GoneOK, NEW d,
         IF d = toR[1][gone + 1]
           THEN harm' = harm \cup StrayIf(d, Len(toR[1]) = 1)
           ELSE Fault(StrayIf(d, FALSE))
  PROVE  NotStray(d)
<1>1. \A x : harm' = harm \cup x => "stray" \notin x
  BY DEF Clean
<1>2. CASE d = toR[1][gone + 1]
  <2>1. "stray" \notin StrayIf(d, Len(toR[1]) = 1)
    BY <1>1, <1>2
  <2>2. /\ rcv.mode = 0 /\ Len(toR[1]) # 1 => d \notin {CAN, EOT}
    BY <2>1 DEF StrayIf
  <2>3. toR[1] = <<CAN>> => d = CAN
    <3>1. SUFFICES ASSUME toR[1] = <<CAN>> PROVE d = CAN
      OBVIOUS
    <3>2. Len(toR[1]) = 1 /\ toR[1][1] = CAN
      BY <3>1
    <3>3. gone + 1 = 1
      BY <3>2 DEF GoneOK
    <3> QED BY <1>2, <3>2, <3>3
  <2>4. d \in {SOH, STX} => d # CAN
    BY DEF SOH, STX, CAN
  <2> QED BY <1>2, <2>2, <2>3, <2>4 DEF NotStray
<1>3. CASE d # toR[1][gone + 1]
  <2>1. "stray" \notin StrayIf(d, FALSE)
    BY <1>1, <1>3 DEF Fault
  <2>2. rcv.mode = 0 => d \notin {CAN, EOT} /\ (d \in {SOH, STX} => toR[1] # <<CAN>>)
    BY <2>1 DEF StrayIf
  <2> QED BY <2>2 DEF NotStray
<1> QED BY <1>2, <1>3

LEMMA CollectClean ==
  ASSUME InStep, toR # << >>, toR' = NextLine(toR, gone),
         gone' = NextGone(toR, gone), toR' \in Seq(Message),
         NEW d \in {toR[1][gone + 1]} \cup Noise, NotStray(d), Collect(d)
  PROVE  /\ Ends(snd, rcv', data', closed', toS')
         /\ rcv'.sta = "more"
              => Talk(snd, rcv', data', closed', toR', gone', toS')
<1>0. /\ rcv.buf \in Seq(Char) /\ rcv \in Receiver /\ Agree(rcv)
      /\ toR \in Seq(Message) /\ GoneOK
  BY InStepParts DEF InStep
<1> DEFINE m == Append(rcv.buf, d)
           mode == CASE rcv.mode = 0 /\ d = SOH -> 1
                     [] rcv.mode = 0 /\ d = STX -> 2
                     [] OTHER -> rcv.mode
           complete == \/ rcv.mode = 0 /\ d \in {CAN, EOT}
                       \/ rcv.mode = 1 /\ Len(m) = ShortPacket
                       \/ rcv.mode = 2 /\ Len(m) = LongPacket
<1>1. d \in Char /\ toR[1] \in Message
  <2>1. toR[1] \in Message /\ Len(toR[1]) \in Nat \ {0}
    <3>1. gone \in Nat
      BY <1>0 DEF GoneOK
    <3> QED BY <1>0, <3>1, NextLineAt
  <2>2. gone + 1 \in 1 .. Len(toR[1])
    BY <1>0, <2>1 DEF GoneOK
  <2>3. toR[1][gone + 1] \in Char
    BY <2>1, <2>2 DEF Message
  <2>4. d \in {toR[1][gone + 1]} \cup Noise
    OBVIOUS
  <2>5. d \in Char
    BY ONLY <2>3, <2>4, Chars DEF Noise
  <2> QED BY <2>1, <2>5
<1>2. m \in Message
  <2>1. rcv.buf \in Seq(Char) /\ d \in Char
    BY <1>0, <1>1
  <2>2. m \in Seq(Char) /\ m # << >>
    BY ONLY <2>1, AppendProperties
  <2> HIDE DEF m
  <2> QED BY <2>2 DEF Message
<1>3. CASE complete /\ ymodem_rcv(m)
  <2>1. m = <<EOT>> => toR[1] = <<EOT>>
    <3>1. SUFFICES ASSUME m = <<EOT>> PROVE toR[1] = <<EOT>>
      OBVIOUS
    <3>2. Len(m) = 1 /\ m[1] = EOT
      BY <3>1
    <3>3. rcv.mode = 0 /\ d \in {CAN, EOT}
      <4> HIDE DEF m
      <4> QED BY <1>3, <3>2, PacketSizes DEF m
    <3>4. d = EOT
      <4>1. rcv.buf = << >>
        BY <1>0, <3>3 DEF Agree
      <4> QED BY <3>2, <4>1
    <3>5. toR[1][gone + 1] = EOT /\ Len(toR[1]) = 1
      BY <3>3, <3>4 DEF NotStray
    <3>9. gone + 1 = 1
      BY <1>0, <3>5 DEF GoneOK
    <3>6. toR[1] \in Seq(Char)
      BY <1>1 DEF Message
    <3> DEFINE t == toR[1]
    <3> HIDE DEF t
    <3>7. t \in Seq(Char) /\ Len(t) = 1 /\ t[1] = EOT
      BY <3>5, <3>6, <3>9 DEF t
    <3>8. t = <<EOT>>
      BY <3>7
    <3> QED BY <3>8 DEF t
  <2> HIDE DEF m
  <2> QED BY <1>2, <1>3, <2>1, MessageTaken DEF m
<1>4. CASE /\ ~ complete
           /\ rcv' = [rcv EXCEPT !.mode = mode,
                                 !.buf = IF mode \in {1, 2} THEN m ELSE << >>]
           /\ FileUnchanged /\ UNCHANGED toS
  <2>1. \/ mode = rcv.mode
        \/ mode \in {1, 2} /\ rcv.mode = 0 /\ toR[1] # <<CAN>>
    BY DEF NotStray, SOH, STX
  <2> HIDE DEF mode
  <2>2. UNCHANGED <<data, closed, toS>>
    BY <1>4 DEF FileUnchanged
  <2> QED BY <1>4, <2>1, <2>2, Collected
<1> QED BY <1>3, <1>4 DEF Collect

LEMMA ReceiveClean ==
  ASSUME InStep, TypeOK', Clean', Receive
  PROVE  /\ Ends(snd', rcv', data', closed', toS')
         /\ rcv'.sta = "more"
              => Talk(snd', rcv', data', closed', toR', gone', toS')
<1>0. /\ toR # << >> /\ toR' = NextLine(toR, gone)
      /\ gone' = NextGone(toR, gone) /\ snd' = snd /\ GoneOK
  BY NextCharLine, InStepParts DEF Receive
<1>1. toR' \in Seq(Message)
  BY DEF TypeOK, Message
<1>2. ASSUME NEW d \in {toR[1][gone + 1]} \cup Noise, Collect(d),
             IF d = toR[1][gone + 1]
               THEN harm' = harm \cup StrayIf(d, Len(toR[1]) = 1)
               ELSE Fault(StrayIf(d, FALSE))
      PROVE  /\ Ends(snd, rcv', data', closed', toS')
             /\ rcv'.sta = "more"
                  => Talk(snd, rcv', data', closed', toR', gone', toS')
  BY <1>0, <1>1, <1>2, CleanCharacter, CollectClean
<1>3. ASSUME UNCHANGED <<rcv, data, closed, toS>>
      PROVE  /\ Ends(snd, rcv', data', closed', toS')
             /\ Talk(snd, rcv', data', closed', toR', gone', toS')
  <2>1. /\ snd \in Sender /\ rcv.buf \in Seq(Char) /\ toR \in Seq(Message)
        /\ gone \in Nat /\ Sound(snd) /\ Talk(snd, rcv, data, closed, toR, gone, toS)
        /\ Ends(snd, rcv, data, closed, toS)
        /\ Carries(toR, snd) /\ Fits(toR, gone, snd, rcv.buf)
    BY InStepParts
  <2>2. Fits(NextLine(toR, gone), NextGone(toR, gone), snd, rcv.buf)
    BY <1>0, <2>1, FitsNext
  <2>3. Quiet(toR, rcv.buf) => rcv.buf = << >>
    BY DEF Quiet
  <2>4. Talk(snd, rcv, data, closed, NextLine(toR, gone), NextGone(toR, gone), toS)
    BY <1>0, <2>1, <2>2, <2>3, TalkKept
  <2> QED BY <1>0, <1>3, <2>1, <2>4
<1>4. \/ \E d \in {toR[1][gone + 1]} \cup Noise :
           /\ Collect(d)
           /\ IF d = toR[1][gone + 1]
                THEN harm' = harm \cup StrayIf(d, Len(toR[1]) = 1)
                ELSE Fault(StrayIf(d, FALSE))
      \/ UNCHANGED <<rcv, data, closed, toS>>
  BY DEF Receive
<1> QED BY <1>0, <1>2, <1>3, <1>4

\* The time-out passes, and nothing is on its way.
LEMMA TimeoutClean ==
  ASSUME InStep, Clean', Timeout
  PROVE  /\ Ends(snd', rcv', data', closed', toS')
         /\ Talk(snd', rcv', data', closed', toR', gone', toS')
<1>0. /\ snd \in Sender /\ RcvOK /\ toR \in Seq(Message) /\ Sound(snd)
      /\ rcv.sta = "more" /\ Talk(snd, rcv, data, closed, toR, gone, toS)
      /\ Ends(snd, rcv, data, closed, toS)
  BY InStepParts
<1>1. toR = << >> /\ toS = << >>
  <2>1. ~ Fault({"late"})
    BY DEF Clean, Fault
  <2> QED BY <2>1 DEF Timeout
<1>2. snd' = snd /\ toR' = toR /\ gone' = gone /\ AllCan(toR)
  BY <1>1, AnswerAt DEF Timeout, AllCan
<1>3. /\ Unmoved /\ rcv'.buf = << >> /\ rcv'.sta = "more"
      /\ \/ toS' = toS \o << >> \/ toS' = toS \o <<REQ>>
         \/ toS' = toS \o <<NAK>> /\ rcv.opened
  BY <1>0, TimeoutOutcome DEF Timeout
<1>4. toS' = << >> \/ toS' = <<REQ>> \/ (toS' = <<NAK>> /\ rcv.opened)
  <2>1. \A out \in Seq(Answer) : toS \o out = out
    BY <1>1, ConcatEmptySeq
  <2> QED BY <1>3, <2>1, Answers
<1>5. Request(toS') /\ (~ rcv.opened => \A i \in DOMAIN toS' : toS'[i] = REQ)
  BY <1>4, AnswerAt DEF Request
<1>6. ~ rcv'.xmodem
  BY <1>0, <1>3 DEF Talk, Unmoved
<1>7. /\ Pending(snd, rcv, data, closed) => Pending(snd, rcv', data', closed')
      /\ Taken(snd, rcv, data, closed) => Taken(snd, rcv', data', closed')
      /\ TakenEot(snd, rcv, data, closed) => TakenEot(snd, rcv', data', closed')
  <2>1. /\ Pending(snd, rcv, data, closed) => Pending(snd, rcv', data, closed)
        /\ Taken(snd, rcv, data, closed) => Taken(snd, rcv', data, closed)
        /\ TakenEot(snd, rcv, data, closed) => TakenEot(snd, rcv', data, closed)
    BY <1>3, SameProgress DEF Unmoved
  <2> QED BY <1>3, <2>1 DEF Unmoved
<1>8. \/ Pending(snd, rcv', data', closed') \/ Taken(snd, rcv', data', closed')
      \/ TakenEot(snd, rcv', data', closed') /\ ~ rcv.opened
  BY <1>0, <1>7 DEF Talk, TakenEot
<1>9. Talk(snd, rcv', data', closed', toR, gone, toS')
  BY <1>0, <1>2, <1>3, <1>5, <1>6, <1>8, TalkAnswered
<1>10. Ends(snd, rcv', data', closed', toS')
  BY <1>0, <1>3, <1>5, EndsAnswered
<1> QED BY <1>2, <1>9, <1>10

-----------------------------------------------------------------------------
(***************************************************************************)
(* Steps of the sender.                                                    *)
(***************************************************************************)
LEMMA AnswerTails ==
  /\ Tail(<< REQ >>) = << >> /\ Tail(<< NAK >>) = << >> /\ Tail(<< ACK >>) = << >>
  /\ Tail(<< ACK, REQ >>) = << REQ >>
  /\ \A ans \in Seq(Answer) : ans # << >> =>
       /\ 1 \in DOMAIN ans /\ Head(ans) = ans[1]
       /\ \A i \in DOMAIN Tail(ans) :
            i + 1 \in DOMAIN ans /\ i + 1 # 1 /\ Tail(ans)[i] = ans[i + 1]
<1>1. Tail(<<REQ>>) = << >> /\ Tail(<<NAK>>) = << >> /\ Tail(<<ACK>>) = << >>
  OBVIOUS
<1>2. Tail(<<ACK, REQ>>) = <<REQ>>
  OBVIOUS
<1>3. ASSUME NEW ans \in Seq(Answer), ans # << >>
      PROVE  /\ 1 \in DOMAIN ans /\ Head(ans) = ans[1]
             /\ \A i \in DOMAIN Tail(ans) :
                  i + 1 \in DOMAIN ans /\ i + 1 # 1 /\ Tail(ans)[i] = ans[i + 1]
  <2>1. Len(ans) \in Nat \ {0} /\ DOMAIN ans = 1 .. Len(ans)
    BY <1>3, EmptySeq
  <2>2. /\ Tail(ans) \in Seq(Answer) /\ Len(Tail(ans)) = Len(ans) - 1
        /\ \A i \in 1 .. Len(Tail(ans)) : Tail(ans)[i] = ans[i + 1]
    BY <1>3, HeadTailProperties
  <2>3. DOMAIN Tail(ans) = 1 .. Len(ans) - 1
    BY <2>2
  <2>4. Head(ans) = ans[1]
    BY <1>3
  <2>5. \A i \in 1 .. Len(ans) - 1 : i + 1 \in 1 .. Len(ans) /\ i + 1 # 1
    BY <2>1
  <2> QED BY <2>1, <2>2, <2>3, <2>4, <2>5
<1> QED BY <1>1, <1>2, <1>3

\* The sender takes an answer off the line; t is the sender afterwards.
LEMMA EndsTail ==
  ASSUME NEW s, NEW r, NEW d, NEW cl, NEW ans \in Seq(Answer), ans # << >>,
         Ends(s, r, d, cl, ans), NEW t,
         \/ t.sta = s.sta
         \/ t.sta = "done" /\ ans[1] = ACK /\ s.fin
         \/ t.sta = "cancel" /\ ans[1] = CAN
  PROVE  Ends(t, r, d, cl, Tail(ans))
<1>1. /\ 1 \in DOMAIN ans
      /\ \A i \in DOMAIN Tail(ans) :
           i + 1 \in DOMAIN ans /\ i + 1 # 1 /\ Tail(ans)[i] = ans[i + 1]
  BY AnswerTails
<1>2. \A i \in DOMAIN Tail(ans) :
        Tail(ans)[i] # ACK /\ (Tail(ans)[i] = CAN => r.sta = "open")
  BY <1>1 DEF Ends
<1>3. /\ t.sta = "done" => r.sta = "done"
      /\ t.sta = "cancel" => r.sta = "open"
  BY <1>1 DEF Ends
<1> QED BY <1>2, <1>3 DEF Ends

LEMMA TalkLost ==
  ASSUME NEW s, NEW r, NEW d, NEW cl, NEW line, NEW g, NEW ans \in Seq(Answer),
         ans # << >>, Talk(s, r, d, cl, line, g, ans)
  PROVE  Talk(s, r, d, cl, line, g, Tail(ans))
<1>1. (Request(ans) \/ ans = <<ACK>>) => Tail(ans) = << >>
  BY AnswerTails DEF Request
<1>2. ans = <<ACK, REQ>> => \A i \in DOMAIN Tail(ans) : Tail(ans)[i] = REQ
  BY AnswerTails, AnswerAt
<1>3. (\A i \in DOMAIN ans : ans[i] = REQ)
        => \A i \in DOMAIN Tail(ans) : Tail(ans)[i] = REQ
  BY AnswerTails
<1>4. Request(<< >>)
  BY DEF Request
<1> QED BY <1>1, <1>2, <1>3, <1>4, Zenon DEF Talk

\* The sender repeats what it sent last.
LEMMA TalkResent ==
  ASSUME NEW s, NEW r, NEW d, NEW cl, NEW line \in Seq(Message), NEW g \in Nat,
         NEW ans \in Seq(Answer), ans # << >>, Talk(s, r, d, cl, line, g, ans),
         NEW m, m = IF s.eot THEN << EOT >> ELSE s.packet
  PROVE  Talk(s, r, d, cl, Append(line, m), g, Tail(ans))
<1>1. ~ r.xmodem /\ Carries(line, s)
  BY DEF Talk
<1>2. CASE TakenEot(s, r, d, cl)
  <2>1. s.eot /\ m = <<EOT>>
    BY <1>2 DEF TakenEot, SendsEot
  <2>2. Carries(Append(line, m), s) /\ Fits(Append(line, m), g, s, r.buf)
    BY <1>1, <2>1, EotLine
  <2>3. /\ ~ Pending(s, r, d, cl) /\ ~ Taken(s, r, d, cl)
    BY <1>2 DEF TakenEot, SendsEot, Pending, Taken, SendsHeader, SendsBlock,
                SendsEnd
  <2>4. ans = <<ACK, REQ>> => \A i \in DOMAIN Tail(ans) : Tail(ans)[i] = REQ
    BY AnswerTails, AnswerAt
  <2>5. (\A i \in DOMAIN ans : ans[i] = REQ)
          => \A i \in DOMAIN Tail(ans) : Tail(ans)[i] = REQ
    BY AnswerTails
  <2>6. \A i \in DOMAIN Tail(ans) : Tail(ans)[i] = REQ
    BY <2>3, <2>4, <2>5, Zenon DEF Talk
  <2> QED BY <1>1, <1>2, <2>2, <2>6, Zenon DEF Talk
<1>3. CASE ~ TakenEot(s, r, d, cl)
  <2>1. /\ Pending(s, r, d, cl) \/ Taken(s, r, d, cl)
        /\ Quiet(line, r.buf) /\ Tail(ans) = << >> /\ r.buf = << >>
    <3>1. (Request(ans) \/ ans = <<ACK>>) => Tail(ans) = << >>
      BY AnswerTails DEF Request
    <3> QED BY <1>3, <3>1 DEF Talk, Quiet
  <2>2. /\ Carries(Append(line, m), s) /\ Fits(Append(line, m), g, s, << >>)
        /\ Lone(Append(line, m))
    BY <2>1, LineSent DEF Quiet
  <2> DEFINE next == Append(line, m)
             rest == Tail(ans)
  <2>3. /\ Carries(next, s) /\ Fits(next, g, s, r.buf) /\ Lone(next)
        /\ rest = << >> /\ Request(rest)
    BY <2>1, <2>2 DEF Request
  <2> HIDE DEF next, rest
  <2>4. Talk(s, r, d, cl, next, g, rest)
    BY <1>1, <2>1, <2>3 DEF Talk
  <2> QED BY <2>4 DEF next, rest
<1> QED BY <1>2, <1>3

\* The receiver has the header or a block, and now the sender knows: t is the
\* sender, with the next block or the EOT to send.
LEMMA BlockAcked ==
  ASSUME NEW s \in Sender, NEW r, NEW d, NEW cl, Taken(s, r, d, cl), NEW t,
         t.seq = (s.seq + 1) % SeqCount, ~ t.hdr, t.fin = s.fin,
         t.eot <=> ~ (s.read < Len(File)),
         s.read < Len(File) =>
           /\ t.read = s.read + DataLen
           /\ t.packet = Packet(t.seq, Block(s.read)),
         ~ (s.read < Len(File)) => t.read = s.read
  PROVE  Pending(t, r, d, cl)
<1> DEFINE L == Len(File)
           e == IF s.read <= L THEN s.read ELSE L
<1>0. /\ s.seq \in 0 .. SeqCount - 1 /\ s.read \in Nat /\ L \in Nat
      /\ SeqCount \in Nat /\ SeqCount > 1 /\ DataLen \in Nat
      /\ File \in Seq(Char)
  BY FileChars, YmodemAssumption DEF Sender
<1>1. /\ ~ s.fin /\ r.opened /\ ~ cl /\ r.old_seq = s.seq
      /\ r.seq = (s.seq + 1) % SeqCount /\ Holds(r, d, e)
  BY DEF Taken, SendsHeader, SendsBlock
<1>2. s.seq # t.seq
  <2>1. SeqCount \in Nat \ {0} /\ s.seq \in Int /\ 1 \in 1 .. SeqCount - 1
        /\ 0 <= s.seq /\ s.seq < SeqCount
    BY <1>0
  <2>2. s.seq % SeqCount = s.seq
    BY <2>1, ModWrap, Zenon
  <2>3. (s.seq + 1) % SeqCount # s.seq % SeqCount
    BY <2>1, ModDistinct, Zenon
  <2> QED BY <2>2, <2>3
<1>3. CASE s.read < L
  <2>1. e = s.read
    BY <1>0, <1>3
  <2>2. /\ t.read = s.read + DataLen /\ ~ t.eot
        /\ t.packet = Packet(t.seq, Block(s.read))
    BY <1>3
  <2>3. DataLen <= t.read /\ t.read - DataLen = s.read /\ t.read - DataLen < L
    <3>1. (s.read + DataLen) - DataLen = s.read /\ DataLen <= s.read + DataLen
      BY <1>0
    <3> QED BY <1>3, <2>2, <3>1
  <2>4. SendsBlock(t)
    BY <1>1, <2>2, <2>3 DEF SendsBlock
  <2> HIDE DEF e
  <2>5. Holds(r, d, t.read - DataLen)
    BY <1>1, <2>1, <2>3
  <2> QED BY <1>1, <1>2, <2>4, <2>5 DEF Pending
<1>4. CASE ~ (s.read < L)
  <2>1. e = L
    BY <1>0, <1>4
  <2>2. SendsEot(t)
    BY <1>0, <1>1, <1>4 DEF SendsEot
  <2>3. d = File
    <3>1. SubSeq(File, 1, Len(File)) = File
      BY <1>0, SubSeqFull
    <3> QED BY <1>1, <2>1, <3>1 DEF Holds
  <2> QED BY <1>1, <2>2, <2>3 DEF Pending
<1> QED BY <1>3, <1>4

\* An ACK of the header or of a block.
LEMMA AckedClean ==
  ASSUME snd \in Sender, rcv.sta = "more", toR \in Seq(Message), gone \in Nat,
         toS \in Seq(Answer), toS # << >>, toS[1] = ACK, toS' = Tail(toS),
         Talk(snd, rcv, data, closed, toR, gone, toS), AckOfBlock(ACK)
  PROVE  Talk(snd', rcv, data, closed, toR', gone, toS')
<1> DEFINE seq == (snd.seq + 1) % SeqCount
           more == snd.read < Len(File)
           packet == Packet(seq, Block(snd.read))
           read == IF more THEN snd.read + DataLen ELSE snd.read
           next == IF more THEN packet ELSE snd.packet
           eot == ~ more
           m == IF more THEN packet ELSE <<EOT>>
<1>1. /\ ~ snd.eot /\ ~ snd.fin
      /\ snd' = [snd EXCEPT !.seq = seq, !.hdr = FALSE, !.eot = eot,
                            !.read = read, !.packet = next]
      /\ toR' = toR \/ toR' = Append(toR, m)
  BY DEF AckOfBlock, Sends
<1>2. /\ more => next = packet /\ m = packet /\ read = snd.read + DataLen
      /\ ~ more => m = <<EOT>> /\ read = snd.read
      /\ eot <=> ~ more
  OBVIOUS
<1> HIDE DEF seq, packet, read, next, eot, m
<1>3. /\ snd'.seq = seq /\ ~ snd'.hdr /\ snd'.eot = eot /\ snd'.read = read
      /\ snd'.packet = next /\ snd'.fin = snd.fin
  <2> HIDE DEF more
  <2> QED BY <1>1 DEF Sender
<1>4. /\ Taken(snd, rcv, data, closed) /\ Quiet(toR, rcv.buf) /\ toS' = << >>
      /\ ~ rcv.xmodem
  <2>1. ~ TakenEot(snd, rcv, data, closed)
    BY <1>1 DEF TakenEot, SendsEot
  <2>2. ~ Request(toS)
    BY AnswerAt DEF Request
  <2>3. toS = <<ACK>> => Tail(toS) = << >>
    BY AnswerTails
  <2> QED BY <2>1, <2>2, <2>3 DEF Talk
<1>5. Pending(snd', rcv, data, closed)
  <2>1. /\ more => snd'.packet = Packet(snd'.seq, Block(snd.read))
                   /\ snd'.read = snd.read + DataLen
        /\ ~ more => snd'.read = snd.read
        /\ snd'.eot <=> ~ more
    BY <1>2, <1>3 DEF packet
  <2>2. snd'.seq = (snd.seq + 1) % SeqCount
    BY <1>3 DEF seq
  <2> QED BY <1>3, <1>4, <2>1, <2>2, BlockAcked
<1>6. Sound(snd')
  <2>1. CASE more
    <3>1. snd.read \in Nat /\ snd.seq \in 0 .. SeqCount - 1 /\ SeqCount \in Int
      BY YmodemAssumption DEF Sender
    <3>2. seq \in 0 .. SeqCount - 1
      <4>1. snd.seq + 1 \in Int
        BY <3>1
      <4> QED BY <4>1, Numbers, Zenon DEF seq
    <3>3. Block(snd.read) \in Seq(Char) /\ Len(Block(snd.read)) = DataLen
      BY <3>1, Payloads
    <3>4. snd'.packet = Packet(seq, Block(snd.read))
      BY <1>2, <1>3, <2>1 DEF packet
    <3> QED BY <3>2, <3>3, <3>4, PacketParts DEF Sound
  <2>2. CASE ~ more
    BY <1>2, <1>3, <2>2 DEF Sound
  <2> QED BY <2>1, <2>2
<1>7. AllCan(toR) /\ rcv.buf = << >> /\ Request(toS')
  BY <1>4 DEF Quiet, Request
<1>8. CASE toR' = toR
  BY <1>4, <1>5, <1>6, <1>7, <1>8, TalkAnswered
<1>9. CASE toR' = Append(toR, m)
  <2>1. m = IF snd'.eot THEN <<EOT>> ELSE snd'.packet
    BY <1>2, <1>3
  <2>2. /\ Carries(toR', snd') /\ Fits(toR', gone, snd', << >>) /\ Lone(toR')
    BY <1>7, <1>9, <2>1, LineSent
  <2> QED BY <1>4, <1>5, <1>7, <2>2 DEF Talk
<1> QED BY <1>1, <1>8, <1>9

\* The ACK of the last EOT.
LEMMA EotAckedClean ==
  ASSUME snd \in Sender, toR \in Seq(Message),
         toS \in Seq(Answer), toS # << >>, toS[1] = ACK, toS' = Tail(toS),
         Talk(snd, rcv, data, closed, toR, gone, toS), AckOfEot(ACK)
  PROVE  Talk(snd', rcv, data, closed, toR', gone, toS')
<1> DEFINE p == Packet(0, Zeros)
<1>1. /\ snd.eot /\ toR' = toR
      /\ snd' = [snd EXCEPT !.eot = FALSE, !.fin = TRUE, !.hdr = TRUE, !.seq = 0,
                            !.packet = p]
  BY DEF AckOfEot
<1> HIDE DEF p
<1>2. /\ ~ snd'.eot /\ snd'.fin /\ snd'.hdr /\ snd'.seq = 0
      /\ snd'.packet = p
  BY <1>1 DEF Sender
<1>3. SendsEnd(snd') /\ Sound(snd')
  <2>1. SendsEnd(snd')
    BY <1>2 DEF SendsEnd, p
  <2>2. p \in Seq(Char) /\ Len(p) = ShortPacket
    <3>1. 0 \in 0 .. SeqCount - 1 /\ Zeros \in Seq(Char) /\ Len(Zeros) = DataLen
      BY Numbers, Payloads
    <3> QED BY <3>1, PacketParts DEF p
  <2>3. Sound(snd')
    BY <1>2, <2>2 DEF Sound
  <2> QED BY <2>1, <2>3
<1>4. 1 \in DOMAIN toS /\ toS[1] # REQ
  BY AnswerTails, AnswerAt
<1>5. /\ TakenEot(snd, rcv, data, closed) /\ toS = <<ACK, REQ>>
      /\ Quiet(toR, rcv.buf) /\ ~ rcv.xmodem
  <2>1. ~ Taken(snd, rcv, data, closed)
    BY <1>1 DEF Taken, SendsHeader, SendsBlock
  <2>2. ~ Request(toS)
    BY AnswerAt DEF Request
  <2> QED BY <1>4, <2>1, <2>2 DEF Talk
<1>6. toS' = <<REQ>> /\ Request(toS')
  BY <1>5, AnswerTails DEF Request
<1>7. Pending(snd', rcv, data, closed)
  BY <1>3, <1>5 DEF Pending, TakenEot
<1>8. AllCan(toR) /\ rcv.buf = << >>
  BY <1>5 DEF Quiet
<1> QED BY <1>1, <1>3, <1>5, <1>6, <1>7, <1>8, TalkAnswered

LEMMA SendClean ==
  ASSUME TypeOK, Clean', Send, Ends(snd, rcv, data, closed, toS),
         rcv.sta = "more" => Talk(snd, rcv, data, closed, toR, gone, toS)
  PROVE  /\ Ends(snd', rcv', data', closed', toS')
         /\ rcv'.sta = "more"
              => Talk(snd', rcv', data', closed', toR', gone', toS')
<1>0. /\ snd \in Sender /\ toR \in Seq(Message) /\ toS \in Seq(Answer)
      /\ gone \in Nat /\ toS # << >> /\ toS' = Tail(toS) /\ 1 \in DOMAIN toS
      /\ Head(toS) = toS[1] /\ UNCHANGED <<rcv, data, closed, gone>>
  BY AnswerTails DEF TypeOK, Send, Message, Answer
<1>1. ASSUME NEW d \in {ACK, NAK, REQ, CAN}, nk_ysend_evt(d),
             d \in {ACK, CAN} => d = toS[1]
      PROVE  /\ Ends(snd', rcv, data, closed, Tail(toS))
             /\ rcv.sta = "more"
                  => Talk(snd', rcv, data, closed, toR', gone, Tail(toS))
  <2>1. CASE Resend(d)
    <3> DEFINE m == IF snd.eot THEN <<EOT>> ELSE snd.packet
    <3>1. snd' = snd /\ toR' = Append(toR, m)
      BY <2>1 DEF Resend, Sends
    <3>2. Ends(snd', rcv, data, closed, Tail(toS))
      BY <1>0, <3>1, EndsTail
    <3> HIDE DEF m
    <3>3. ASSUME rcv.sta = "more"
          PROVE  Talk(snd, rcv, data, closed, Append(toR, m), gone, Tail(toS))
      <4>1. Talk(snd, rcv, data, closed, toR, gone, toS)
        BY <3>3
      <4> QED BY <1>0, <4>1, TalkResent DEF m
    <3> QED BY <3>1, <3>2, <3>3
  <2>2. CASE AckOfEot(d)
    <3>1. d = ACK /\ toS[1] = ACK /\ snd'.sta = snd.sta
      BY <1>0, <1>1, <2>2 DEF AckOfEot, Sender
    <3>2. Ends(snd', rcv, data, closed, Tail(toS))
      BY <1>0, <3>1, EndsTail
    <3>3. rcv.sta = "more" => Talk(snd', rcv, data, closed, toR', gone, toS')
      BY <1>0, <2>2, <3>1, EotAckedClean
    <3> QED BY <1>0, <3>2, <3>3
  <2>3. CASE AckOfFin(d)
    <3>1. /\ toS[1] = ACK /\ snd.fin /\ snd'.sta = "done"
      BY <1>0, <1>1, <2>3 DEF AckOfFin, Sender
    <3>2. Ends(snd', rcv, data, closed, Tail(toS))
      BY <1>0, <3>1, EndsTail
    <3>3. rcv.sta = "done"
      BY <1>0, <3>1 DEF Ends
    <3> QED BY <3>2, <3>3
  <2>4. CASE AckOfBlock(d)
    <3>1. d = ACK /\ toS[1] = ACK /\ snd'.sta = snd.sta
      BY <1>0, <1>1, <2>4 DEF AckOfBlock, Sender
    <3>2. Ends(snd', rcv, data, closed, Tail(toS))
      BY <1>0, <3>1, EndsTail
    <3>3. rcv.sta = "more" => Talk(snd', rcv, data, closed, toR', gone, toS')
      BY <1>0, <2>4, <3>1, AckedClean
    <3> QED BY <1>0, <3>2, <3>3
  <2>5. CASE CancelSend(d)
    <3>1. toS[1] = CAN /\ snd'.sta = "cancel"
      BY <1>0, <1>1, <2>5 DEF CancelSend, Sender
    <3>2. Ends(snd', rcv, data, closed, Tail(toS))
      BY <1>0, <3>1, EndsTail
    <3>3. rcv.sta = "open"
      BY <1>0, <3>1 DEF Ends
    <3> QED BY <3>2, <3>3
  <2> QED BY <1>1, <2>1, <2>2, <2>3, <2>4, <2>5 DEF nk_ysend_evt
<1>2. ASSUME snd' = snd, toR' = toR
      PROVE  /\ Ends(snd', rcv, data, closed, Tail(toS))
             /\ rcv.sta = "more"
                  => Talk(snd', rcv, data, closed, toR', gone, Tail(toS))
  BY <1>0, <1>2, EndsTail, TalkLost
<1>3. ASSUME NEW d, NEW x, Fault(x \cup IF d \in {ACK, CAN} THEN {"stray"} ELSE {})
      PROVE  d \notin {ACK, CAN}
  BY <1>3 DEF Fault, Clean
<1> DEFINE c == Head(toS)
           ending == IF snd.eot /\ c = ACK THEN {"ending"} ELSE {}
<1>4. \/ \E d \in {ACK, NAK, REQ, CAN} :
           /\ nk_ysend_evt(d)
           /\ IF d = c THEN NoFault
              ELSE Fault(ending \cup IF d \in {ACK, CAN} THEN {"stray"} ELSE {})
      \/ snd' = snd /\ toR' = toR
  BY DEF Send
<1> HIDE DEF ending
<1>5. \/ \E d \in {ACK, NAK, REQ, CAN} :
           nk_ysend_evt(d) /\ (d \in {ACK, CAN} => d = toS[1])
      \/ snd' = snd /\ toR' = toR
  BY <1>0, <1>3, <1>4
<1>6. /\ Ends(snd', rcv, data, closed, Tail(toS))
      /\ rcv.sta = "more"
           => Talk(snd', rcv, data, closed, toR', gone, Tail(toS))
  BY <1>1, <1>2, <1>5
<1> QED BY <1>0, <1>6

LEMMA CancelsClean ==
  ASSUME snd \in Sender, toR \in Seq(Message), OperatorCancels,
         Talk(snd, rcv, data, closed, toR, gone, toS)
  PROVE  Talk(snd', rcv', data', closed', toR', gone', toS')
<1>1. /\ toR' = toR \o <<<<CAN>>, <<CAN>>>>
      /\ UNCHANGED <<snd, rcv, data, closed, toS, gone>>
  BY DEF OperatorCancels
<1>2. Sound(snd)
  BY TalkSound
<1>3. /\ Carries(toR, snd) => Carries(toR', snd)
      /\ Fits(toR, gone, snd, rcv.buf) => Fits(toR', gone, snd, rcv.buf)
      /\ Lone(toR) => Lone(toR')
      /\ AllCan(toR) => AllCan(toR')
  BY <1>1, <1>2, LineCancelled
<1>4. Talk(snd, rcv, data, closed, toR', gone, toS)
  BY <1>3, Zenon DEF Talk, Quiet
<1> QED BY <1>1, <1>4

-----------------------------------------------------------------------------
LEMMA InBufNext ==
  ASSUME TypeOK, TypeOK', Agree(rcv), InBuf(rcv), [Next]_vars
  PROVE  InBuf(rcv')
<1>0. RcvOK /\ toR \in Seq(Message) /\ GoneOK
  BY TypeOKParts DEF SndOK
<1>1. CASE Receive
  <2>1. CASE UNCHANGED rcv
    BY <2>1 DEF InBuf
  <2>2. ASSUME NEW d \in {toR[1][gone + 1]} \cup Noise, Collect(d) PROVE InBuf(rcv')
    <3> DEFINE m == Append(rcv.buf, d)
               mode == CASE rcv.mode = 0 /\ d = SOH -> 1
                         [] rcv.mode = 0 /\ d = STX -> 2
                         [] OTHER -> rcv.mode
               buf == IF mode \in {1, 2} THEN m ELSE << >>
    <3>1. m \in Message
      <4>1. toR[1][gone + 1] \in Char
        BY <1>0, <1>1, NextCharType DEF Receive
      <4>2. d \in Char /\ rcv.buf \in Seq(Char)
        <5>1. d \in {toR[1][gone + 1]} \cup Noise
          OBVIOUS
        <5>2. d \in Char
          BY ONLY <4>1, <5>1, Chars DEF Noise
        <5>3. rcv.buf \in Seq(Char)
          BY ONLY <1>0 DEF RcvOK, Receiver
        <5> QED BY <5>2, <5>3
      <4>3. m \in Seq(Char) /\ m # << >>
        BY ONLY <4>2, AppendProperties
      <4> HIDE DEF m
      <4> QED BY <4>3 DEF Message
    <3>2. CASE ymodem_rcv(m)
      <4>1. rcv'.mode \in {0, 3}
        BY <1>0, <3>1, <3>2, Outcomes
      <4> QED BY <4>1 DEF InBuf
    <3>3. CASE rcv' = [rcv EXCEPT !.mode = mode, !.buf = buf]
      <4>1. mode \in {1, 2} => buf # << >>
        BY <3>1 DEF Message
      <4> HIDE DEF mode, buf
      <4>2. rcv'.mode = mode /\ rcv'.buf = buf
        BY <1>0, <3>3 DEF RcvOK, Receiver
      <4> QED BY <4>1, <4>2 DEF InBuf
    <3> QED BY <2>2, <3>2, <3>3 DEF Collect
  <2> QED BY <1>1, <2>1, <2>2 DEF Receive
<1>2. CASE Timeout
  <2>1. rcv'.mode \in {0, 3}
    BY <1>0, <1>2, TimeoutOutcome DEF Timeout
  <2> QED BY <2>1 DEF InBuf
<1>3. CASE UNCHANGED rcv
  BY <1>3 DEF InBuf
<1> QED BY <1>1, <1>2, <1>3
           DEF Next, Send, OperatorCancels, ConsoleReads, vars

LEMMA CleanBefore ==
  ASSUME [Next]_vars, Clean' PROVE Clean
<1>1. harm \subseteq harm'
  BY DEF Next, Receive, Timeout, Send, OperatorCancels, ConsoleReads, vars,
         Fault, NoFault
<1> QED BY <1>1 DEF Clean

\* The invariant, with the types and the two records of purging.
YFull == TypeOK /\ Agree(rcv) /\ YInv

LEMMA YInit == ASSUME Init PROVE YFull
<1>1. TypeOK /\ Agree(rcv)
  BY InitType, AgreeInit
<1>2. /\ snd \in Sender /\ rcv \in Receiver /\ toR \in Seq(Message)
  BY <1>1, TypeOKParts DEF SndOK, RcvOK
<1>3. /\ rcv.opened = FALSE /\ rcv.xmodem = FALSE /\ rcv.mode = 0
      /\ rcv.buf = << >> /\ rcv.sta = "more"
  BY DEF Init, ReceiverInit, InitFields
<1>4. SendsHeader(snd) /\ snd.sta = "more"
  <2> DEFINE p == Packet(0, HeaderPayload)
  <2>1. snd = [eot |-> FALSE, fin |-> FALSE, hdr |-> TRUE, seq |-> 0,
               read |-> 0, packet |-> p, sta |-> "more"]
    BY DEF Init, SenderInit
  <2> HIDE DEF p
  <2>2. /\ ~ snd.eot /\ ~ snd.fin /\ snd.hdr /\ snd.seq = 0 /\ snd.read = 0
        /\ snd.packet = p /\ snd.sta = "more"
    BY <2>1
  <2> QED BY <2>2 DEF SendsHeader, p
<1>5. Sound(snd)
  BY <1>2, <1>4, SendsSound
<1>6. Pending(snd, rcv, data, closed)
  BY <1>3, <1>4 DEF Init, Pending
<1>7. AllCan(toR) /\ Request(toS) /\ toS = <<REQ>>
  BY AnswerAt DEF Init, AllCan, Request
<1>8. Talk(snd, rcv, data, closed, toR, gone, toS)
  BY <1>2, <1>3, <1>5, <1>6, <1>7, TalkAnswered
<1>9. Ends(snd, rcv, data, closed, toS)
  <2>1. \A i \in DOMAIN toS : toS[i] # CAN /\ toS[i] # ACK
    BY <1>7, AnswerAt
  <2> QED BY <1>3, <1>4, <2>1 DEF Ends
<1>10. InBuf(rcv)
  BY <1>3 DEF InBuf
<1> QED BY <1>1, <1>8, <1>9, <1>10 DEF YFull, YInv

LEMMA YNext == ASSUME YFull, DamageNoticed, [Next]_vars PROVE YFull'
<1>0. TypeOK /\ Agree(rcv) /\ InBuf(rcv) /\ YInv
  BY DEF YFull, YInv
<1>1. TypeOK' /\ Agree(rcv')
  BY <1>0, NextType, AgreeNext
<1>2. InBuf(rcv')
  BY <1>0, <1>1, InBufNext
<1>3. ASSUME Clean'
      PROVE  /\ Ends(snd', rcv', data', closed', toS')
             /\ rcv'.sta = "more"
                  => Talk(snd', rcv', data', closed', toR', gone', toS')
  <2>1. /\ Clean /\ Ends(snd, rcv, data, closed, toS)
        /\ rcv.sta = "more" => Talk(snd, rcv, data, closed, toR, gone, toS)
    BY <1>0, <1>3, CleanBefore DEF YInv, Over
  <2>2. rcv.sta = "more" => InStep
    BY <1>0, <2>1 DEF InStep
  <2>3. CASE Receive
    BY <1>1, <1>3, <2>2, <2>3, ReceiveClean DEF Receive, Over
  <2>4. CASE Timeout
    BY <1>3, <2>2, <2>4, TimeoutClean DEF Timeout, Over
  <2>5. CASE Send
    BY <1>0, <1>3, <2>1, <2>5, SendClean
  <2>6. CASE OperatorCancels
    <3>1. snd \in Sender /\ toR \in Seq(Message)
      BY <1>0, TypeOKParts DEF SndOK
    <3>2. UNCHANGED <<snd, rcv, data, closed, toS>>
      BY <2>6 DEF OperatorCancels
    <3>3. rcv.sta = "more" => Talk(snd', rcv', data', closed', toR', gone', toS')
      BY <2>1, <2>6, <3>1, CancelsClean
    <3> QED BY <2>1, <3>2, <3>3
  <2>7. CASE ConsoleReads
    <3>1. CASE /\ Over(rcv)
               /\ UNCHANGED <<snd, rcv, data, closed, toS, faults, harm>>
      BY <2>1, <3>1 DEF Over
    <3>2. CASE /\ Over(snd) /\ toS # << >> /\ toS' = Tail(toS)
               /\ UNCHANGED <<snd, rcv, data, closed, toR, gone, faults, harm>>
      <4>1. toS \in Seq(Answer) /\ snd \in Sender
        BY <1>0, TypeOKParts DEF RcvOK, SndOK
      <4>2. Ends(snd, rcv, data, closed, Tail(toS))
        BY <2>1, <3>2, <4>1, EndsTail
      <4>3. rcv.sta # "more"
        BY <2>1, <3>2, <4>1 DEF Ends, Over, Sender
      <4> QED BY <3>2, <4>2, <4>3
    <3> QED BY <2>7, <3>1, <3>2 DEF ConsoleReads
  <2>8. CASE UNCHANGED vars
    BY <2>1, <2>8 DEF vars
  <2> QED BY <2>3, <2>4, <2>5, <2>6, <2>7, <2>8 DEF Next
<1>4. YInv'
  BY <1>2, <1>3 DEF YInv, Over
<1> QED BY <1>1, <1>4 DEF YFull

\* Where the checks notice every damage, the invariant holds throughout.
LEMMA YAlways == Spec /\ []DamageNoticed => []YFull
<1>1. Init => YFull
  BY YInit
<1>2. YFull /\ DamageNoticed /\ [Next]_vars => YFull'
  BY YNext
<1> QED BY <1>1, <1>2, PTL DEF Spec

\* Lost and damaged packets and answers never bring the two ends out of step,
\* for every file, packet size and number of faults, if the complemented
\* sequence number and the CRC notice what damage does to a packet.
THEOREM InSync == Spec /\ []DamageNoticed => []NeverOutOfSync
<1>1. YFull => NeverOutOfSync
  BY DEF YFull, YInv, Ends, NeverOutOfSync
<1> QED BY <1>1, YAlways, PTL

\* When the sender reports that the transfer is complete the receiver has the
\* whole file, has closed it and has reported the same.
THEOREM CompleteForBoth == Spec /\ []DamageNoticed => []BothComplete
<1>1. YFull => BothComplete
  BY DEF YFull, YInv, Ends, BothComplete
<1> QED BY <1>1, YAlways, PTL

-----------------------------------------------------------------------------
(***************************************************************************)
(* The receiver does to the file handler what NkTransfer says.             *)
(***************************************************************************)
Phase ==
  CASE rcv.sta = "done" -> "done"
    [] rcv.sta \in {"remote", "open", "sync"} -> "cancelled"
    [] OTHER -> IF rcv.opened THEN "open" ELSE "waiting"

LEMMA PhaseIs ==
  /\ rcv.sta = "more" => Phase = IF rcv.opened THEN "open" ELSE "waiting"
  /\ rcv.sta = "done" => Phase = "done"
  /\ rcv.sta \in {"remote", "open", "sync"} => Phase = "cancelled"
  /\ rcv'.sta = "more" => Phase' = IF rcv'.opened THEN "open" ELSE "waiting"
  /\ rcv'.sta = "done" => Phase' = "done"
  /\ rcv'.sta \in {"remote", "open", "sync"} => Phase' = "cancelled"
BY DEF Phase

Still == Phase' = Phase /\ data' = data /\ closed' = closed

\* The steps of NkTransfer.
LEMMA TransferSteps ==
  ASSUME \/ /\ Phase = "waiting" /\ (Clean => ~ closed) /\ Phase' = "open"
            /\ data' = << >> /\ closed' = closed /\ Clean' = Clean
         \/ /\ Phase = "open" /\ Transfer!IsPrefix(data, data')
            /\ Clean => Transfer!IsPrefix(data', File)
            /\ Phase' = Phase /\ closed' = closed /\ Clean' = Clean
         \/ /\ Phase = "open" /\ (Clean => data = File) /\ Phase' = "waiting"
            /\ closed' = TRUE /\ data' = data /\ Clean' = Clean
         \/ /\ Phase \in {"waiting", "open"} /\ Phase' = "cancelled"
            /\ data' = data /\ closed' = closed /\ Clean' = Clean
         \/ /\ Phase = "waiting" /\ (Clean => closed) /\ Phase' = "done"
            /\ data' = data /\ closed' = closed /\ Clean' = Clean
         \/ Clean' = FALSE /\ Still
         \/ /\ Clean' = FALSE /\ Phase = "open" /\ Phase' = "waiting"
            /\ closed' = TRUE /\ data' = data
         \/ /\ Clean' = FALSE /\ Phase \in {"waiting", "open"}
            /\ Phase' = "cancelled" /\ data' = data /\ closed' = closed
         \/ /\ ~ Clean /\ Phase = "waiting" /\ Phase' = "open"
            /\ data' \in Seq(Nat) /\ closed' = closed /\ Clean' = Clean
         \/ /\ ~ Clean /\ Phase = "open" /\ Phase' = "done"
            /\ closed' = TRUE /\ data' = data /\ Clean' = Clean
  PROVE  Transfer!Next
BY Zenon DEF Transfer!Next, Transfer!Open, Transfer!Write, Transfer!Close,
   Transfer!Cancel, Transfer!AllDone, Transfer!Disturbed,
   Transfer!OpenAndWrite, Transfer!CloseAndDone, Phase, Still

LEMMA PrefixOfFile ==
  ASSUME NEW n \in 0 .. Len(File)
  PROVE  Transfer!IsPrefix(SubSeq(File, 1, n), File)
<1> DEFINE d == SubSeq(File, 1, n)
<1>1. File \in Seq(Char) /\ Len(File) \in Nat /\ n \in Nat /\ n <= Len(File)
  BY FileChars
<1>2. d \in Seq(Char) /\ Len(d) = IF 1 <= n THEN (n - 1) + 1 ELSE 0
  BY <1>1, CutType
<1>3. Len(d) = n
  <2> HIDE DEF d
  <2> QED BY <1>1, <1>2
<1>4. SubSeq(d, 1, Len(d)) = d
  <2> HIDE DEF d
  <2> QED BY <1>2, SubSeqFull
<1> HIDE DEF d
<1>5. SubSeq(d, 1, Len(d)) = SubSeq(File, 1, Len(d))
  BY <1>3, <1>4 DEF d
<1> QED BY <1>1, <1>3, <1>5 DEF Transfer!IsPrefix, d

LEMMA PrefixOfConcat ==
  ASSUME NEW d \in Seq(Char), NEW w \in Seq(Char)
  PROVE  Transfer!IsPrefix(d, d \o w)
<1> DEFINE e == d \o w
           n == Len(d)
<1>1. e \in Seq(Char) /\ Len(e) = Len(d) + Len(w) /\ n \in Nat /\ Len(w) \in Nat
  BY ConcatType
<1>2. SubSeq(d, 1, n) = SubSeq(e, 1, n)
  <2>1. CASE n = 0
    <3>1. SubSeq(d, 1, 0) = << >> /\ SubSeq(e, 1, 0) = << >>
      BY SubSeqEmpty
    <3> HIDE DEF n, e
    <3> QED BY <2>1, <3>1
  <2>2. CASE n # 0
    <3>1. 1 \in 1 .. Len(d) /\ Len(d) \in 1 .. Len(d)
      BY <1>1, <2>2
    <3> QED BY <3>1, SubSeqOfConcat1
  <2> QED BY <2>1, <2>2
<1>3. n <= Len(e)
  <2> HIDE DEF e
  <2> QED BY <1>1
<1> HIDE DEF e
<1> QED BY <1>2, <1>3 DEF Transfer!IsPrefix, e

\* What being in step says about the file.
LEMMA TalkFile ==
  ASSUME NEW s \in Sender, NEW r, NEW d, NEW cl, NEW line, NEW g, NEW ans,
         Talk(s, r, d, cl, line, g, ans)
  PROVE  /\ ~ r.xmodem
         /\ r.opened => ~ cl /\ Transfer!IsPrefix(d, File)
         /\ ~ r.opened /\ cl => d = File
<1>0. /\ s.read \in Nat /\ DataLen \in Nat /\ Len(File) \in Nat
      /\ File \in Seq(Char)
  BY FileChars, YmodemAssumption DEF Sender
<1>1. /\ ~ r.xmodem
      /\ Pending(s, r, d, cl) \/ Taken(s, r, d, cl) \/ TakenEot(s, r, d, cl)
  BY DEF Talk
<1>2. ~ r.opened /\ cl => d = File
  BY <1>1 DEF Pending, Taken, TakenEot
<1>3. r.opened => ~ cl
  BY <1>1 DEF Pending, Taken, TakenEot
<1>4. ASSUME r.opened PROVE Transfer!IsPrefix(d, File)
  <2>1. PICK n \in 0 .. Len(File) : d = SubSeq(File, 1, n)
    <3>1. CASE d = File
      <4>1. SubSeq(File, 1, Len(File)) = File
        BY <1>0, SubSeqFull
      <4>2. Len(File) \in 0 .. Len(File)
        BY <1>0
      <4> QED BY <3>1, <4>1, <4>2
    <3>2. CASE SendsBlock(s) /\ Holds(r, d, s.read - DataLen)
      <4> DEFINE n == s.read - DataLen
      <4>1. n \in 0 .. Len(File)
        BY <1>0, <3>2 DEF SendsBlock
      <4>2. d = SubSeq(File, 1, n)
        BY <3>2 DEF Holds
      <4> HIDE DEF n
      <4> QED BY <4>1, <4>2
    <3>3. CASE Taken(s, r, d, cl)
      <4> DEFINE n == IF s.read <= Len(File) THEN s.read ELSE Len(File)
      <4>1. n \in 0 .. Len(File)
        BY <1>0
      <4>2. d = SubSeq(File, 1, n)
        BY <3>3 DEF Taken, Holds
      <4> HIDE DEF n
      <4> QED BY <4>1, <4>2
    <3> QED BY <1>1, <1>4, <3>1, <3>2, <3>3 DEF Pending, TakenEot
  <2> QED BY <2>1, PrefixOfFile
<1> QED BY <1>1, <1>2, <1>3, <1>4

\* What the receiver wrote is added to what it had written.
LEMMA WrittenPrefix ==
  ASSUME data \in Seq(Char), NEW m \in Message, IsData(m),
         NEW size \in 0 .. Max32, WriteLimited(Payload(m), size, data)
  PROVE  Transfer!IsPrefix(data, data')
<1> DEFINE p == Payload(m)
           n == IF Len(p) > size THEN size ELSE Len(p)
           w == SubSeq(p, 1, n)
<1>1. p \in Seq(Char)
  <2>1. ShortPacket >= 2 /\ LongPacket >= 2
    BY PacketSizes
  <2> QED BY <2>1, PayloadType DEF Message, IsData, IsShort, IsLong
<1>2. data' = data \o w
  BY DEF WriteLimited
<1> HIDE DEF p
<1>3. n \in 0 .. Len(p)
  BY <1>1, YmodemAssumption
<1> HIDE DEF n
<1>4. w \in Seq(Char)
  BY <1>1, <1>3, CutType
<1> HIDE DEF w
<1> QED BY <1>2, <1>4, PrefixOfConcat

\* A message, processed: a step of NkTransfer, or nothing it speaks of.
LEMMA OutcomeStep ==
  ASSUME NEW m \in Message, YFull, YFull', rcv.sta = "more", Outcome(m),
         Clean' => Clean, Clean => Clean' \/ ~ IsData(m)
  PROVE  Transfer!Next \/ (Still /\ Clean' = Clean)
<1>1. /\ Clean => ~ rcv.xmodem
      /\ Clean' /\ rcv'.sta = "more" =>
           /\ ~ rcv'.xmodem
           /\ rcv'.opened => ~ closed' /\ Transfer!IsPrefix(data', File)
           /\ ~ rcv'.opened /\ closed' => data' = File
      /\ Clean' /\ rcv'.sta = "done" => closed'
  <2>1. snd' \in Sender
    BY DEF YFull, TypeOK
  <2>2. /\ Clean => Talk(snd, rcv, data, closed, toR, gone, toS)
        /\ Clean' /\ rcv'.sta = "more"
             => Talk(snd', rcv', data', closed', toR', gone', toS')
        /\ Clean' /\ rcv'.sta = "done" => closed'
    BY DEF YFull, YInv, Over, Ends
  <2>3. Clean => ~ rcv.xmodem
    BY <2>2 DEF Talk
  <2> QED BY <2>1, <2>2, <2>3, TalkFile
<1>2. Clean \in BOOLEAN /\ Clean' \in BOOLEAN
  BY DEF Clean
<1>3. Clean' = Clean \/ (Clean' = FALSE /\ Clean /\ ~ IsData(m))
  BY <1>2
<1>4. IsHeader(m, 0) \/ IsHeader(m, 1) => IsData(m)
  BY DEF IsHeader, IsData
<1>5. /\ rcv.opened => Phase = "open"
      /\ ~ rcv.opened => Phase = "waiting"
      /\ rcv'.sta = "more" /\ rcv'.opened => Phase' = "open"
      /\ rcv'.sta = "more" /\ ~ rcv'.opened => Phase' = "waiting"
      /\ rcv'.sta = "done" => Phase' = "done"
      /\ rcv'.sta \in {"remote", "open", "sync"} => Phase' = "cancelled"
  BY PhaseIs
<1>6. data \in Seq(Char) /\ rcv.size \in 0 .. Max32 /\ data' \in Seq(Nat)
  <2>1. rcv \in Receiver /\ data \in Seq(Char)
    BY TypeOKParts DEF YFull, RcvOK
  <2>2. data' \in Seq(Char)
    BY DEF YFull, TypeOK
  <2> QED BY <2>1, <2>2, Chars, SeqOfSubset DEF Receiver
<1>7. CASE Ignored(m)
  BY <1>2, <1>3, <1>5, <1>7, TransferSteps DEF Ignored, Unmoved, Still
<1>8. CASE Finished(m)
  BY <1>1, <1>3, <1>4, <1>5, <1>8, TransferSteps DEF Finished
<1>9. CASE Opened(m)
  BY <1>1, <1>3, <1>4, <1>5, <1>9, TransferSteps DEF Opened
<1>10. CASE Refused(m)
  BY <1>1, <1>3, <1>4, <1>5, <1>10, TransferSteps DEF Refused
<1>11. CASE Anonymous(m)
  BY <1>1, <1>3, <1>4, <1>5, <1>6, <1>11, TransferSteps DEF Anonymous
<1>12. CASE Repeated(m)
  BY <1>3, <1>5, <1>12 DEF Repeated, Unmoved, Still
<1>13. CASE OutOfStep(m)
  BY <1>3, <1>5, <1>13, TransferSteps DEF OutOfStep
<1>14. CASE Written(m)
  <2>1. Transfer!IsPrefix(data, data')
    BY <1>6, <1>14, WrittenPrefix DEF Written
  <2> QED BY <1>1, <1>3, <1>5, <1>14, <2>1, TransferSteps DEF Written
<1>15. CASE ClosedAnonymous(m)
  BY <1>1, <1>3, <1>5, <1>15, TransferSteps DEF ClosedAnonymous
<1>16. CASE ClosedFile(m)
  <2>1. /\ Phase = "open" /\ Phase' = "waiting" /\ data' = data
        /\ closed' = TRUE
    BY <1>5, <1>16 DEF ClosedFile
  <2>2. Clean' => data = File
    BY <1>1, <1>16, <2>1 DEF ClosedFile
  <2> QED BY <1>3, <2>1, <2>2, TransferSteps
<1>17. CASE FirstEot(m)
  BY <1>2, <1>3, <1>5, <1>17, TransferSteps DEF FirstEot, Unmoved, Still
<1> QED BY <1>7, <1>8, <1>9, <1>10, <1>11, <1>12, <1>13, <1>14, <1>15, <1>16,
           <1>17 DEF Outcome

\* Nothing that NkTransfer speaks of happens; or a fault that it allows.
LEMMA StillStep ==
  ASSUME Clean' => Clean, Still
  PROVE  Transfer!Next \/ (Still /\ Clean' = Clean)
<1>1. Clean' = Clean \/ Clean' = FALSE
  BY DEF Clean
<1> QED BY <1>1, TransferSteps

LEMMA SamePhase ==
  ASSUME rcv'.opened = rcv.opened, rcv.sta = "more", rcv'.sta = "more"
  PROVE  Phase' = Phase
BY PhaseIs

\* A character for the receiver.
LEMMA CharacterStep ==
  ASSUME YFull, YFull', rcv.sta = "more", Clean' => Clean,
         NEW d \in Char, Collect(d),
         NEW stray \in BOOLEAN, harm' = harm \cup StrayIf(d, stray)
  PROVE  Transfer!Next \/ (Still /\ Clean' = Clean)
<1>0. RcvOK /\ Agree(rcv) /\ rcv \in Receiver /\ rcv.buf \in Seq(Char)
  <2>1. TypeOK /\ Agree(rcv)
    BY DEF YFull
  <2> QED BY <2>1, TypeOKParts DEF RcvOK, Receiver
<1> DEFINE m == Append(rcv.buf, d)
           mode == CASE rcv.mode = 0 /\ d = SOH -> 1
                     [] rcv.mode = 0 /\ d = STX -> 2
                     [] OTHER -> rcv.mode
           buf == IF mode \in {1, 2} THEN m ELSE << >>
<1>1. m \in Seq(Char) /\ m # << >> /\ Len(m) = Len(rcv.buf) + 1
  BY <1>0, AppendProperties
<1>2. m \in Message
  <2> HIDE DEF m
  <2> QED BY <1>1 DEF Message
<1>3. Clean => Clean' \/ ~ IsData(m)
  <2>1. SUFFICES ASSUME Clean, ~ Clean' PROVE ~ IsData(m)
    OBVIOUS
  <2>2. StrayIf(d, stray) # {}
    BY <2>1 DEF Clean
  <2>3. rcv.mode = 0
    BY <2>2 DEF StrayIf
  <2>4. Len(rcv.buf) = 0
    BY <1>0, <2>3 DEF Agree
  <2>5. Len(m) = 1
    <3> HIDE DEF m
    <3> QED BY <1>1, <2>4
  <2> HIDE DEF m
  <2> QED BY <2>5, PacketSizes DEF IsData, IsShort, IsLong
<1>4. CASE ymodem_rcv(m)
  <2>1. Outcome(m)
    BY <1>0, <1>2, <1>4, Outcomes
  <2> HIDE DEF m
  <2> QED BY <1>2, <1>3, <2>1, OutcomeStep
<1>5. CASE /\ rcv' = [rcv EXCEPT !.mode = mode, !.buf = buf]
           /\ FileUnchanged
  <2> HIDE DEF mode, buf
  <2>1. rcv'.opened = rcv.opened /\ rcv'.sta = rcv.sta
    BY <1>0, <1>5 DEF Receiver
  <2>2. Still
    BY <1>5, <2>1, SamePhase DEF Still, FileUnchanged
  <2> QED BY <2>2, StillStep
<1> QED BY <1>4, <1>5 DEF Collect

LEMMA TransferNext ==
  ASSUME YFull, YFull', [Next]_vars
  PROVE  Transfer!Next \/ (Still /\ Clean' = Clean)
<1>0. RcvOK /\ toR \in Seq(Message) /\ GoneOK
  <2>1. TypeOK
    BY DEF YFull
  <2> QED BY <2>1, TypeOKParts DEF SndOK
<1>1. Clean' => Clean
  BY CleanBefore
<1>2. CASE Receive
  <2>1. rcv.sta = "more" /\ NextChar
    BY <1>2 DEF Receive, Over
  <2>2. ASSUME NEW d \in {toR[1][gone + 1]} \cup Noise, Collect(d),
               IF d = toR[1][gone + 1]
                 THEN harm' = harm \cup StrayIf(d, Len(toR[1]) = 1)
                 ELSE Fault(StrayIf(d, FALSE))
        PROVE  Transfer!Next \/ (Still /\ Clean' = Clean)
    <3>1. d \in Char
      <4>1. toR[1][gone + 1] \in Char
        BY <1>0, <2>1, NextCharType
      <4> QED BY <2>2, <4>1, Chars DEF Noise
    <3>2. \E stray \in BOOLEAN : harm' = harm \cup StrayIf(d, stray)
      <4>1. CASE d = toR[1][gone + 1]
        BY <2>2, <4>1
      <4>2. CASE d # toR[1][gone + 1]
        BY <2>2, <4>2 DEF Fault
      <4> QED BY <4>1, <4>2
    <3> QED BY <1>1, <2>1, <2>2, <3>1, <3>2, CharacterStep
  <2>3. ASSUME UNCHANGED <<rcv, data, closed, toS>>
        PROVE  Transfer!Next \/ (Still /\ Clean' = Clean)
    BY <1>1, <2>1, <2>3, SamePhase, StillStep DEF Still
  <2>4. \/ \E d \in {toR[1][gone + 1]} \cup Noise :
             /\ Collect(d)
             /\ IF d = toR[1][gone + 1]
                  THEN harm' = harm \cup StrayIf(d, Len(toR[1]) = 1)
                  ELSE Fault(StrayIf(d, FALSE))
        \/ UNCHANGED <<rcv, data, closed, toS>>
    BY <1>2 DEF Receive
  <2> QED BY <2>2, <2>3, <2>4
<1>3. CASE Timeout
  <2>1. Unmoved /\ rcv.sta = "more" /\ rcv'.sta = "more"
    BY <1>0, <1>3, TimeoutOutcome DEF Timeout, Over
  <2> QED BY <1>1, <2>1, SamePhase, StillStep DEF Still, Unmoved
<1>4. CASE UNCHANGED <<rcv, data, closed>>
  BY <1>1, <1>4, StillStep DEF Still, Phase
<1> QED BY <1>2, <1>3, <1>4
           DEF Next, Send, OperatorCancels, ConsoleReads, vars

\* The receiver calls the program's file handler as NkTransfer says: the file
\* is opened once and closed once, what is written is what was sent, in its
\* order, and the session is done only after the file was complete, up to the
\* first disturbance that the protocol has no answer to; and even after one,
\* no write and no close comes without an open.
THEOREM ReceiverKeepsPromise == Spec /\ []DamageNoticed => ImplementsTransfer
<1>1. Init => Transfer!Init
  <2>1. File \in Seq(Nat)
    BY FileChars, Chars, SeqOfSubset
  <2>2. Init => Clean = TRUE /\ rcv.sta = "more" /\ rcv.opened = FALSE
    BY DEF Init, Clean, ReceiverInit, InitFields
  <2>3. Init => Phase = "waiting" /\ data = << >> /\ closed = FALSE
    BY <2>2, PhaseIs DEF Init
  <2> QED BY <2>1, <2>2, <2>3 DEF Transfer!Init, Phase
<1>2. YFull /\ YFull' /\ [Next]_vars
        => [Transfer!Next /\ UNCHANGED File]_(Transfer!vars)
  <2>1. ASSUME YFull, YFull', [Next]_vars
        PROVE  Transfer!Next \/ (Still /\ Clean' = Clean)
    BY <2>1, TransferNext
  <2>2. Still /\ Clean' = Clean => UNCHANGED Transfer!vars
    BY DEF Still, Phase, Transfer!vars
  <2> QED BY <2>1, <2>2
<1> QED BY <1>1, <1>2, YAlways, PTL DEF Spec, ImplementsTransfer, Transfer!Spec

\* So, where nothing stray or late has met the protocol, a receiver that
\* reports that all is done (nkymodem_cmd.c:123) has closed the whole file.
THEOREM ReceiverComplete ==
  Spec /\ []DamageNoticed => []Transfer!DoneMeansComplete
<1>1. YFull => Transfer!DoneMeansComplete
  <2>1. YFull /\ Clean /\ rcv.sta = "done" => closed /\ data = File
    BY DEF YFull, YInv, Ends
  <2>2. Phase = "done" => rcv.sta = "done"
    BY DEF Phase
  <2> QED BY <2>1, <2>2 DEF Transfer!DoneMeansComplete, Phase
<1> QED BY <1>1, YAlways, PTL

=============================================================================
