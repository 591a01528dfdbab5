--------------------------- MODULE NkUpdate_proofs ---------------------------
(***************************************************************************)
(* Proofs about the download of an image into flash.                       *)
(*                                                                         *)
(* UTypes holds whatever is sent.  The rest of the invariant is for images *)
(* that fit their area (Fits), which nothing in nkdirect.c checks: what    *)
(* the receiver has written is in the flash and the rest of the erase      *)
(* block is blank, so the next page can be programmed; and from the moment *)
(* an image for bank 0 is opened until the flag is written for it no image *)
(* counts as installed.                                                    *)
(***************************************************************************)
EXTENDS NkUpdate, SequenceLemmas, TLAPS

\* Every file, and what noise may add to one, fits in an area.
Fits ==
  /\ \A f \in Files : Len(f) <= AreaSize
  /\ MaxSize <= AreaSize
  /\ \A n \in ChunkLen : n <= AreaSize

Writing == {"page", "program"}
Flagging == {"flag_erase", "flag_write"}

UTypes ==
  /\ sent \in Files /\ data \in Seq(Nat)
  /\ phase \in {"waiting", "open", "done", "cancelled"}
  /\ closed \in BOOLEAN /\ clean \in BOOLEAN
  /\ mem = [a \in Flash!Address |-> mem[a]]
  /\ file \in [kind : Kind, size : Nat]
  /\ todo \in Seq(Nat) /\ Len(todo) <= file.size
  /\ pc \in {"idle"} \cup Writing \cup Flagging
  /\ faults \in 0 .. MaxFaults
  /\ failed \in BOOLEAN
  /\ image \subseteq Seq(Nat)
  /\ pc \notin Writing => todo = << >>
  /\ pc \in Writing => phase = "open"
  /\ pc = "program" => todo # << >>

\* The order of the receiver's calls.
OrderInv ==
  /\ clean => /\ closed => phase # "open" /\ data = sent
              /\ phase = "done" => closed
  /\ pc \in Flagging => phase = "done" /\ file.kind = "fw0"

\* What is still to be written is the end of what was received.
SizeInv ==
  /\ Len(data) <= AreaSize
  /\ phase = "open" \/ data # << >> => file.size = Len(data)
  /\ \A i \in 1 .. Len(todo) : todo[i] = data[(Len(data) - Len(todo)) + i]

\* Nothing is programmed from an address to the end of its erase block.
BlankFrom(area, p) ==
  \A a \in Flash!Address : p <= a /\ a < p + (EraseSize - (p % EraseSize))
                             => area[a] = Flash!Erased

StoreInv ==
  ~ failed =>
    /\ \A i \in 1 .. Len(data) - Len(todo) :
         mem[Base[file.kind] + (i - 1)] = Flash!Data(data[i])
    /\ phase = "open" /\ (PageAddr % EraseSize # 0 \/ pc = "program")
         => BlankFrom(mem, PageAddr)

\* An image for bank 0 is on its way.
Installing ==
  /\ file.kind = "fw0"
  /\ phase = "open" \/ (phase = "waiting" /\ closed) \/ pc \in Flagging

FlagInv ==
  /\ \A bytes \in image :
       /\ Len(bytes) <= AreaSize
       /\ \A i \in 1 .. Len(bytes) : mem[Base["fw0"] + (i - 1)] = Flash!Data(bytes[i])
       /\ mem[Flag] = Flash!Data(0)
  /\ Installing => image = {}
  /\ pc = "flag_write" /\ ~ failed => mem[Flag] = Flash!Erased

UInv == OrderInv /\ SizeInv /\ StoreInv /\ FlagInv

-----------------------------------------------------------------------------
(***************************************************************************)
(* The constants and the flash.                                            *)
(***************************************************************************)

LEMMA ConstFacts ==
  /\ EraseSize \in Nat \ {0} /\ MemSize \in Nat /\ AreaSize \in Nat /\ Flag \in Nat
  /\ MaxSize \in Nat /\ MaxFaults \in Nat /\ ChunkLen \subseteq Nat \ {0}
  /\ Files \subseteq Seq(Nat)
  /\ AreaSize % EraseSize = 0 /\ Flag % EraseSize = 0
  /\ Kind = {"fpga", "fw0"}
  /\ \A k \in Kind : Base[k] \in Nat /\ Base[k] % EraseSize = 0
BY UpdateAssumption DEF Kind

\* Where things are: in the flash, apart from each other.
LEMMA Layout ==
  /\ Flag \in Flash!Address
  /\ \A k \in Kind : \A a \in Int :
       Base[k] <= a /\ a < Base[k] + AreaSize =>
         a \in Flash!Address /\ (a < Flag \/ Flag + EraseSize <= a)
  /\ \A j, k \in Kind : \A a \in Int :
       (j # k /\ Base[j] <= a /\ a < Base[j] + AreaSize)
         => (a < Base[k] \/ Base[k] + AreaSize <= a)
<1>1. /\ FlagBlock \subseteq 0 .. MemSize - 1
      /\ \A k \in Kind : Area(k) \subseteq 0 .. MemSize - 1 /\ Area(k) \cap FlagBlock = {}
      /\ Area("fpga") \cap Area("fw0") = {}
  BY UpdateAssumption
<1>2. Flash!Address = 0 .. MemSize - 1
  BY DEF Flash!Address
<1>3. \A k \in Kind : \A a \in Int :
        a \in Area(k) <=> Base[k] <= a /\ a < Base[k] + AreaSize
  BY ConstFacts DEF Area
<1>4. \A a \in Int : a \in FlagBlock <=> Flag <= a /\ a < Flag + EraseSize
  BY ConstFacts DEF FlagBlock
<1>5. Flag \in Flash!Address
  <2>1. Flag \in Int /\ Flag <= Flag /\ Flag < Flag + EraseSize
    BY ConstFacts
  <2> QED BY <1>1, <1>2, <1>4, <2>1
<1>6. ASSUME NEW k \in Kind, NEW a \in Int, Base[k] <= a, a < Base[k] + AreaSize
      PROVE  a \in Flash!Address /\ (a < Flag \/ Flag + EraseSize <= a)
  <2>1. a \in Area(k)
    BY <1>3, <1>6
  <2>2. a \notin FlagBlock /\ a \in Flash!Address
    BY <1>1, <1>2, <2>1
  <2>3. ~ (Flag <= a /\ a < Flag + EraseSize)
    BY <1>4, <2>2
  <2> QED BY <2>2, <2>3, ConstFacts
<1>7. ASSUME NEW j \in Kind, NEW k \in Kind, NEW a \in Int, j # k,
             Base[j] <= a, a < Base[j] + AreaSize
      PROVE  a < Base[k] \/ Base[k] + AreaSize <= a
  <2>1. a \in Area(j)
    BY <1>3, <1>7
  <2>2. (j = "fpga" /\ k = "fw0") \/ (j = "fw0" /\ k = "fpga")
    BY <1>7, ConstFacts
  <2>3. a \notin Area(k)
    BY <1>1, <2>1, <2>2
  <2>4. ~ (Base[k] <= a /\ a < Base[k] + AreaSize)
    BY <1>3, <2>3
  <2>5. Base[k] \in Nat /\ AreaSize \in Nat
    BY ConstFacts
  <2> QED BY <2>4, <2>5
<1> QED BY <1>5, <1>6, <1>7

IsMem(m) == m = [a \in Flash!Address |-> m[a]]

LEMMA CellFacts ==
  /\ \A c : Flash!Data(c) # Flash!Erased
  /\ \A c, old : Flash!Programmed(Flash!Erased, Flash!Data(c)) = Flash!Data(c)
BY DEF Flash!Data, Flash!Erased, Flash!Programmed

LEMMA EraseFacts ==
  ASSUME NEW m, NEW addr \in Nat
  PROVE  /\ IsMem(Flash!Erase(m, addr))
         /\ \A a \in Flash!Address :
              Flash!Erase(m, addr)[a] = IF addr <= a /\ a < addr + EraseSize
                                          THEN Flash!Erased ELSE m[a]
<1>1. \A a \in Flash!Address : a \in addr .. addr + EraseSize - 1
                                 <=> addr <= a /\ a < addr + EraseSize
  BY ConstFacts DEF Flash!Address
<1> QED BY <1>1 DEF Flash!Erase, IsMem

LEMMA WriteFacts ==
  ASSUME NEW m, NEW addr \in Nat, NEW cells, Len(cells) \in Nat
  PROVE  /\ IsMem(Flash!Write(m, addr, cells))
         /\ \A a \in Flash!Address :
              Flash!Write(m, addr, cells)[a] =
                IF addr <= a /\ a < addr + Len(cells)
                  THEN Flash!Programmed(m[a], cells[(a - addr) + 1]) ELSE m[a]
<1>1. \A a \in Flash!Address : /\ a \in addr .. addr + Len(cells) - 1
                                    <=> addr <= a /\ a < addr + Len(cells)
                               /\ a - addr + 1 = (a - addr) + 1
  BY ConstFacts DEF Flash!Address
<1> QED BY <1>1 DEF Flash!Write, IsMem

LEMMA PartialFacts ==
  ASSUME NEW old, NEW new, NEW m \in Flash!Partial(old, new)
  PROVE  /\ IsMem(m)
         /\ \A a \in Flash!Address : old[a] = new[a] => m[a] = old[a]
<1> DEFINE touched == {a \in Flash!Address : old[a] # new[a]}
<1>1. PICK how \in [touched -> {"old", "new", "between"}] :
        m = [a \in Flash!Address |->
               IF a \notin touched \/ how[a] = "old" THEN old[a]
               ELSE IF how[a] = "new" THEN new[a] ELSE Flash!Garbage]
  BY DEF Flash!Partial
<1> QED BY <1>1 DEF IsMem

-----------------------------------------------------------------------------
(***************************************************************************)
(* Pages and packets.                                                      *)
(***************************************************************************)

LEMMA PageFacts ==
  ASSUME UTypes
  PROVE  /\ Base[file.kind] \in Nat /\ file.size \in Nat /\ Len(todo) \in Nat
         /\ PageAddr \in Nat /\ PageAddr = Base[file.kind] + (file.size - Len(todo))
         /\ PageAddr % EraseSize \in 0 .. EraseSize - 1
         /\ PageLen \in Nat /\ PageLen <= Len(todo)
         /\ PageLen <= EraseSize - (PageAddr % EraseSize)
         /\ Len(Page) = PageLen
         /\ \A i \in 1 .. PageLen : Page[i] = Flash!Data(todo[i])
<1>1. file.kind \in Kind /\ file.size \in Nat /\ todo \in Seq(Nat) /\ Len(todo) <= file.size
  BY DEF UTypes
<1>2. Base[file.kind] \in Nat /\ file.size \in Nat /\ Len(todo) \in Nat
  BY <1>1, ConstFacts
<1>3. PageAddr \in Nat /\ PageAddr = Base[file.kind] + (file.size - Len(todo))
  BY <1>1, <1>2 DEF PageAddr
<1> DEFINE r == PageAddr % EraseSize
<1>4. r \in 0 .. EraseSize - 1
  <2>1. PageAddr \in Int /\ EraseSize \in Nat \ {0}
    BY <1>3, ConstFacts
  <2> QED BY <2>1
<1>5. PageLen = IF Len(todo) < EraseSize - r THEN Len(todo) ELSE EraseSize - r
  BY DEF PageLen
<1> HIDE DEF r
<1>6. PageLen \in Nat /\ PageLen <= Len(todo) /\ PageLen <= EraseSize - r
  BY <1>2, <1>4, <1>5, ConstFacts
<1>7. Len(Page) = PageLen /\ \A i \in 1 .. PageLen : Page[i] = Flash!Data(todo[i])
  BY <1>6 DEF Page
<1> QED BY <1>2, <1>3, <1>4, <1>6, <1>7 DEF r

LEMMA MinOfTwo ==
  ASSUME NEW x \in Int, NEW y \in Int
  PROVE  Min({x, y}) = IF x <= y THEN x ELSE y
BY DEF Min

\* A packet that is not empty is limited to the size of the file.
LEMMA ChunkFacts ==
  ASSUME UTypes, NEW n \in ChunkLen, Len(Chunk(n)) > 0
  PROVE  /\ Chunk(n) \in Seq(Nat) /\ Len(Chunk(n)) \in Nat \ {0}
         /\ Fits => Len(data) + Len(Chunk(n)) <= AreaSize
<1>1. /\ sent \in Seq(Nat) /\ sent \in Files /\ data \in Seq(Nat) /\ n \in Nat \ {0}
      /\ Len(data) \in Nat /\ Len(sent) \in Nat /\ MaxSize \in Nat
  <2>1. sent \in Files /\ data \in Seq(Nat)
    BY DEF UTypes
  <2>2. sent \in Seq(Nat) /\ n \in Nat \ {0} /\ MaxSize \in Nat
    BY <2>1, ConstFacts
  <2> QED BY <2>1, <2>2
<1>2. CASE clean
  <2> DEFINE k == Min({Len(data) + n, Len(sent)})
             c == SubSeq(sent, Len(data) + 1, k)
  <2>1. Chunk(n) = c
    BY <1>2 DEF Chunk
  <2>2. k \in Int /\ k <= Len(sent)
    <3>1. Len(data) + n \in Int /\ Len(sent) \in Int
      BY <1>1
    <3>2. k = IF Len(data) + n <= Len(sent) THEN Len(data) + n ELSE Len(sent)
      BY <3>1, MinOfTwo
    <3> HIDE DEF k
    <3> QED BY <3>1, <3>2
  <2> HIDE DEF k
  <2>3. \A i \in Len(data) + 1 .. k : sent[i] \in Nat
    BY <1>1, <2>2
  <2>4. c \in Seq(Nat) /\ Len(c) = IF Len(data) + 1 <= k THEN k - (Len(data) + 1) + 1 ELSE 0
    BY <1>1, <2>2, <2>3, SubSeqProperties
  <2>5. Len(data) + Len(c) <= Len(sent) /\ Len(c) \in Nat \ {0}
    BY <1>1, <2>1, <2>2, <2>4
  <2>6. Fits => Len(sent) <= AreaSize
    BY <1>1 DEF Fits
  <2> HIDE DEF c
  <2>7. Fits => Len(data) + Len(c) <= AreaSize
    BY <1>1, <2>5, <2>6, ConstFacts
  <2> QED BY <2>1, <2>4, <2>5, <2>7
<1>3. CASE ~ clean
  <2> DEFINE k == Min({n, MaxSize - Len(data)})
             c == [i \in 1 .. k |-> 0]
  <2>1. Chunk(n) = c
    BY <1>3 DEF Chunk, Noise
  <2>2. k \in Int /\ k <= MaxSize - Len(data)
    BY <1>1, MinOfTwo
  <2> HIDE DEF k
  <2>3. k >= 1
    <3>1. k <= 0 => c = << >>
      BY <2>2
    <3>2. Len(c) > 0
      BY <2>1
    <3>3. Len(<< >>) = 0
      OBVIOUS
    <3> HIDE DEF c
    <3>4. ~ (k <= 0)
      BY <3>1, <3>2, <3>3
    <3> QED BY <2>2, <3>4
  <2>4. c \in Seq(Nat) /\ Len(c) = k
    BY <2>2, <2>3
  <2>5. Fits => MaxSize <= AreaSize
    BY DEF Fits
  <2>6. Len(data) + k <= MaxSize
    BY <1>1, <2>2
  <2> HIDE DEF c
  <2>7. Fits => Len(data) + Len(c) <= AreaSize
    BY <1>1, <2>2, <2>4, <2>5, <2>6, ConstFacts
  <2> QED BY <2>1, <2>2, <2>3, <2>4, <2>7
<1> QED BY <1>2, <1>3

LEMMA NoiseFacts ==
  ASSUME NEW n \in ChunkLen
  PROVE  Noise(n) \in Seq(Nat) /\ Len(Noise(n)) = n /\ n \in Nat \ {0}
<1>1. n \in Nat \ {0}
  BY ConstFacts
<1> QED BY <1>1 DEF Noise

-----------------------------------------------------------------------------
(***************************************************************************)
(* Types.                                                                  *)
(***************************************************************************)

\* What the operation under way may leave when it is cut short: a flash that
\* differs only where the operation writes.
LEMMA InterruptedFacts ==
  ASSUME UTypes, NEW m \in Interrupted
  PROVE  /\ IsMem(m)
         /\ \A a \in Flash!Address :
              \/ m[a] = mem[a]
              \/ /\ (pc = "page" /\ todo # << >>) \/ pc = "program"
                 /\ PageAddr <= a /\ a < PageAddr + (EraseSize - (PageAddr % EraseSize))
              \/ pc \in Flagging /\ Flag <= a /\ a < Flag + EraseSize
<1> DEFINE r == PageAddr % EraseSize
<1>1. /\ PageAddr \in Nat /\ r \in 0 .. EraseSize - 1
      /\ PageLen \in Nat /\ PageLen <= EraseSize - r /\ Len(Page) = PageLen
  BY PageFacts
<1>2. EraseSize \in Nat \ {0} /\ Flag \in Nat
  BY ConstFacts
<1>3. CASE pc = "page" /\ todo # << >> /\ r = 0
  <2> DEFINE new == Flash!Erase(mem, PageAddr)
  <2>1. m \in Flash!Partial(mem, new)
    BY <1>3 DEF Interrupted
  <2>2. \A a \in Flash!Address :
          ~ (PageAddr <= a /\ a < PageAddr + EraseSize) => new[a] = mem[a]
    BY <1>1, EraseFacts
  <2> HIDE DEF new
  <2>3. IsMem(m) /\ \A a \in Flash!Address : mem[a] = new[a] => m[a] = mem[a]
    BY <2>1, PartialFacts
  <2>4. EraseSize - r = EraseSize
    BY <1>2, <1>3
  <2> HIDE DEF r
  <2>5. \A a \in Flash!Address :
          m[a] = mem[a] \/ (PageAddr <= a /\ a < PageAddr + (EraseSize - r))
    BY <2>2, <2>3, <2>4
  <2> QED BY <1>3, <2>3, <2>5 DEF r, Writing
<1>4. CASE pc = "program"
  <2> DEFINE new == Flash!Write(mem, PageAddr, Page)
  <2>1. m \in Flash!Partial(mem, new)
    BY <1>4 DEF Interrupted
  <2>2. \A a \in Flash!Address :
          ~ (PageAddr <= a /\ a < PageAddr + PageLen) => new[a] = mem[a]
    BY <1>1, WriteFacts
  <2> HIDE DEF new
  <2>3. IsMem(m) /\ \A a \in Flash!Address : mem[a] = new[a] => m[a] = mem[a]
    BY <2>1, PartialFacts
  <2> HIDE DEF r
  <2>4. \A a \in Flash!Address : a < PageAddr + PageLen => a < PageAddr + (EraseSize - r)
    BY <1>1, <1>2, ConstFacts DEF Flash!Address
  <2>5. \A a \in Flash!Address :
          m[a] = mem[a] \/ (PageAddr <= a /\ a < PageAddr + (EraseSize - r))
    BY <2>2, <2>3, <2>4
  <2> QED BY <1>4, <2>3, <2>5 DEF r, Writing
<1>5. CASE pc = "flag_erase"
  <2> DEFINE new == Flash!Erase(mem, Flag)
  <2>1. m \in Flash!Partial(mem, new)
    BY <1>5 DEF Interrupted
  <2>2. \A a \in Flash!Address :
          ~ (Flag <= a /\ a < Flag + EraseSize) => new[a] = mem[a]
    BY <1>2, EraseFacts
  <2> HIDE DEF new
  <2>3. IsMem(m) /\ \A a \in Flash!Address : mem[a] = new[a] => m[a] = mem[a]
    BY <2>1, PartialFacts
  <2> QED BY <1>5, <2>2, <2>3 DEF Flagging
<1>6. CASE pc = "flag_write"
  <2> DEFINE cells == <<Flash!Data(0)>>
             new == Flash!Write(mem, Flag, cells)
  <2>1. m \in Flash!Partial(mem, new)
    BY <1>6 DEF Interrupted
  <2>2. Len(cells) = 1
    OBVIOUS
  <2> HIDE DEF cells
  <2>3. \A a \in Flash!Address :
          ~ (Flag <= a /\ a < Flag + Len(cells)) => new[a] = mem[a]
    <3>1. Len(cells) \in Nat
      BY <2>2
    <3>2. \A a \in Flash!Address :
            Flash!Write(mem, Flag, cells)[a] =
              IF Flag <= a /\ a < Flag + Len(cells)
                THEN Flash!Programmed(mem[a], cells[(a - Flag) + 1]) ELSE mem[a]
      BY <1>2, <3>1, WriteFacts
    <3> QED BY <3>2
  <2> HIDE DEF new
  <2>4. IsMem(m) /\ \A a \in Flash!Address : mem[a] = new[a] => m[a] = mem[a]
    BY <2>1, PartialFacts
  <2>5. \A a \in Flash!Address : a < Flag + Len(cells) => a < Flag + EraseSize
    BY <1>2, <2>2, ConstFacts DEF Flash!Address
  <2> QED BY <1>6, <2>3, <2>4, <2>5 DEF Flagging
<1>7. CASE /\ ~ (pc = "page" /\ todo # << >> /\ r = 0)
           /\ pc \notin {"program", "flag_erase", "flag_write"}
  <2>1. m = mem
    BY <1>7 DEF Interrupted
  <2> QED BY <2>1 DEF UTypes, IsMem
<1> QED BY <1>3, <1>4, <1>5, <1>6, <1>7

LEMMA UTypesInit ==
  ASSUME Init
  PROVE  UTypes
<1>1. /\ sent \in Files /\ data = << >> /\ phase = "waiting"
      /\ file = [kind |-> "fpga", size |-> 0] /\ todo = << >> /\ pc = "idle"
      /\ faults \in 0 .. MaxFaults /\ image = {}
  BY ConstFacts DEF Init, Transfer!Init, NoFile
<1>2. closed \in BOOLEAN /\ clean \in BOOLEAN /\ failed \in BOOLEAN
  BY DEF Init, Transfer!Init
<1>3. mem = [a \in Flash!Address |-> mem[a]]
  BY DEF Init, Flash!ErasedArea
<1>4. file \in [kind : Kind, size : Nat] /\ file.size = 0
  BY <1>1, ConstFacts
<1> QED BY <1>1, <1>2, <1>3, <1>4 DEF UTypes, Writing

\* The calls that leave the flash alone.
LEMMA CallTypes ==
  ASSUME UTypes,
         \/ cmd_ymodem \/ ymodem_recv_file_open \/ ymodem_recv_file_close
         \/ ymodem_recv_file_cancel \/ ymodem_recv_all_done \/ LineDisturbed
  PROVE  UTypes'
<1>0. todo = << >> /\ pc = "idle"
  BY DEF UTypes, Writing, cmd_ymodem, ymodem_recv_file_open, ymodem_recv_file_close,
     ymodem_recv_file_cancel, ymodem_recv_all_done, LineDisturbed
<1>00. << >> \in Seq(Nat) /\ Len(<< >>) = 0
  OBVIOUS
<1>1. CASE cmd_ymodem
  BY <1>0, <1>00, <1>1 DEF cmd_ymodem, UTypes, Writing
<1>2. CASE ymodem_recv_file_open
  <2>1. /\ data' = << >> /\ phase' = "open" /\ failed' \in BOOLEAN
        /\ UNCHANGED <<closed, clean, faults, sent, mem, todo, pc>>
    BY <1>2 DEF ymodem_recv_file_open, Transfer!Open
  <2>2. PICK kind \in Kind : /\ file' = [kind |-> kind, size |-> 0]
                             /\ image' = IF kind = "fw0" THEN {} ELSE image
    BY <1>2 DEF ymodem_recv_file_open
  <2>3. file' \in [kind : Kind, size : Nat] /\ file'.size = 0
        /\ (image' = {} \/ image' = image)
    BY <2>2
  <2> QED BY <1>0, <1>00, <2>1, <2>3 DEF UTypes, Writing
<1>3. CASE ymodem_recv_file_close
  <2>1. closed' \in BOOLEAN /\ phase' = "waiting"
        /\ UNCHANGED <<data, clean, faults, sent, mem, file, todo, pc, failed, image>>
    BY <1>3 DEF ymodem_recv_file_close, Transfer!Close
  <2> QED BY <1>0, <2>1 DEF UTypes, Writing
<1>4. CASE ymodem_recv_file_cancel
  <2>1. phase' = "cancelled"
        /\ UNCHANGED <<data, closed, clean, faults, sent, mem, file, todo, pc, failed, image>>
    BY <1>4 DEF ymodem_recv_file_cancel, Transfer!Cancel
  <2> QED BY <1>0, <2>1 DEF UTypes, Writing
<1>5. CASE ymodem_recv_all_done
  <2>1. /\ phase' = "done" /\ UNCHANGED <<data, clean, faults, sent, mem, file, todo, failed, image>>
        /\ closed' = closed \/ closed' = TRUE
    BY <1>5 DEF ymodem_recv_all_done, Transfer!AllDone, Transfer!CloseAndDone
  <2>2. pc' \in {"idle", "flag_erase"}
    BY <1>5 DEF ymodem_recv_all_done
  <2>3. closed' \in BOOLEAN
    BY <2>1 DEF UTypes
  <2> QED BY <1>0, <2>1, <2>2, <2>3 DEF UTypes, Writing, Flagging
<1>6. CASE LineDisturbed
  <2>1. /\ UNCHANGED <<data, faults, sent, mem, file, todo, pc, failed, image>>
        /\ phase' \in {phase, "waiting", "cancelled"}
        /\ closed' = closed \/ closed' = TRUE
        /\ clean' \in BOOLEAN
    BY <1>6 DEF LineDisturbed, Transfer!Disturbed
  <2>2. closed' \in BOOLEAN
    BY <2>1 DEF UTypes
  <2> QED BY <1>0, <2>1, <2>2 DEF UTypes, Writing
<1> QED BY <1>1, <1>2, <1>3, <1>4, <1>5, <1>6

LEMMA WriteTypes ==
  ASSUME UTypes, ymodem_recv_file_write
  PROVE  UTypes'
<1>1. PICK n \in ChunkLen :
        /\ Len(Chunk(n)) > 0
        /\ data' = data \o Chunk(n)
        /\ todo' = Chunk(n)
        /\ file' = [file EXCEPT !.size = @ + Len(Chunk(n))]
  BY DEF ymodem_recv_file_write
<1> DEFINE c == Chunk(n)
<1>2. c \in Seq(Nat) /\ Len(c) \in Nat \ {0}
  BY <1>1, ChunkFacts
<1>3. /\ phase = "open" /\ pc' = "page"
      /\ UNCHANGED <<phase, closed, clean, faults, sent, mem, failed, image>>
  BY DEF ymodem_recv_file_write, Transfer!Write
<1>4. data' = data \o c /\ todo' = c /\ file' = [file EXCEPT !.size = @ + Len(c)]
  BY <1>1
<1> HIDE DEF c
<1>5. file \in [kind : Kind, size : Nat] /\ data \in Seq(Nat)
  BY DEF UTypes
<1>6. file' \in [kind : Kind, size : Nat] /\ file'.size = file.size + Len(c)
  <2>1. file'.size = file.size + Len(c) /\ file'.kind = file.kind
    BY <1>4, <1>5
  <2>2. file'.size \in Nat
    BY <1>2, <1>5, <2>1
  <2> QED BY <1>4, <1>5, <2>1, <2>2
<1>7. data' \in Seq(Nat) /\ todo' \in Seq(Nat) /\ Len(todo') <= file'.size
  BY <1>2, <1>4, <1>5, <1>6
<1> QED BY <1>3, <1>6, <1>7 DEF UTypes, Writing

LEMMA XmodemTypes ==
  ASSUME UTypes, xmodem_open
  PROVE  UTypes'
<1>1. PICK n \in ChunkLen :
        data' = Noise(n) /\ todo' = Noise(n) /\ file' = [kind |-> "fw0", size |-> n]
  BY DEF xmodem_open
<1>2. Noise(n) \in Seq(Nat) /\ Len(Noise(n)) = n /\ n \in Nat
  BY NoiseFacts
<1>3. /\ phase' = "open" /\ pc' = "page" /\ image' = {} /\ failed' \in BOOLEAN
      /\ UNCHANGED <<closed, clean, faults, sent, mem>>
  BY DEF xmodem_open, Transfer!OpenAndWrite
<1>4. file' \in [kind : Kind, size : Nat] /\ file'.size = n
  BY <1>1, <1>2, ConstFacts
<1>5. data' \in Seq(Nat) /\ todo' \in Seq(Nat) /\ Len(todo') <= file'.size
  BY <1>1, <1>2, <1>4
<1> QED BY <1>3, <1>4, <1>5 DEF UTypes, Writing

\* The flash operations that end well.
LEMMA OperationTypes ==
  ASSUME UTypes,
         \/ PageErase \/ SamePage \/ PageProgram \/ WriteReturns
         \/ FlagErase \/ FlagWrite
  PROVE  UTypes'
<1>0. << >> \in Seq(Nat) /\ Len(<< >>) = 0
  OBVIOUS
<1>1. CASE PageErase
  <2>1. /\ pc = "page" /\ pc' = "program" /\ mem' = Flash!Erase(mem, PageAddr)
        /\ todo # << >> /\ UNCHANGED <<faults, transfer, file, failed, todo, image>>
    BY <1>1 DEF PageErase, Operation
  <2>2. PageAddr \in Nat
    BY PageFacts
  <2>3. mem' = [a \in Flash!Address |-> mem'[a]]
    BY <2>1, <2>2, EraseFacts DEF IsMem
  <2> QED BY <2>1, <2>3 DEF UTypes, Writing, transfer
<1>2. CASE SamePage
  BY <1>2 DEF SamePage, UTypes, Writing, transfer
<1>3. CASE PageProgram
  <2>1. /\ pc = "program" /\ pc' = "page" /\ mem' = Flash!Write(mem, PageAddr, Page)
        /\ todo' = SubSeq(todo, PageLen + 1, Len(todo))
        /\ UNCHANGED <<faults, transfer, file, failed, image>>
    BY <1>3 DEF PageProgram, Operation
  <2>2. PageAddr \in Nat /\ PageLen \in Nat /\ PageLen <= Len(todo) /\ Len(Page) \in Nat
        /\ Len(todo) \in Nat
    BY PageFacts
  <2>3. mem' = [a \in Flash!Address |-> mem'[a]]
    <3>1. IsMem(Flash!Write(mem, PageAddr, Page))
      BY <2>2, WriteFacts
    <3> QED BY <2>1, <3>1 DEF IsMem
  <2>4. todo \in Seq(Nat) /\ PageLen \in 0 .. Len(todo) /\ Len(todo) <= file.size /\ file.size \in Nat
    BY <2>2 DEF UTypes
  <2>5. todo' \in Seq(Nat) /\ Len(todo') = Len(todo) - PageLen
    BY <2>1, <2>4, SplitFacts
  <2>6. Len(todo') <= file.size
    BY <2>2, <2>4, <2>5
  <2> QED BY <2>1, <2>3, <2>5, <2>6 DEF UTypes, Writing, transfer
<1>4. CASE WriteReturns
  BY <1>4 DEF WriteReturns, UTypes, Writing, transfer
<1>5. CASE FlagErase
  <2>1. /\ pc = "flag_erase" /\ pc' = "flag_write" /\ mem' = Flash!Erase(mem, Flag)
        /\ UNCHANGED <<faults, transfer, file, failed, todo, image>>
    BY <1>5 DEF FlagErase, Operation
  <2>2. mem' = [a \in Flash!Address |-> mem'[a]]
    BY <2>1, ConstFacts, EraseFacts DEF IsMem
  <2> QED BY <2>1, <2>2 DEF UTypes, Writing, Flagging, transfer
<1>6. CASE FlagWrite
  <2> DEFINE cells == <<Flash!Data(0)>>
  <2>1. /\ pc = "flag_write" /\ pc' = "idle" /\ mem' = Flash!Write(mem, Flag, cells)
        /\ image' = IF failed THEN {} ELSE {data}
        /\ UNCHANGED <<faults, transfer, file, failed, todo>>
    BY <1>6 DEF FlagWrite, Operation
  <2>2. Len(cells) \in Nat
    OBVIOUS
  <2> HIDE DEF cells
  <2>3. mem' = [a \in Flash!Address |-> mem'[a]]
    <3>1. IsMem(Flash!Write(mem, Flag, cells))
      BY <2>2, ConstFacts, WriteFacts
    <3> QED BY <2>1, <3>1 DEF IsMem
  <2>4. image' \subseteq Seq(Nat)
    BY <2>1 DEF UTypes
  <2> QED BY <2>1, <2>3, <2>4 DEF UTypes, Writing, Flagging, transfer
<1> QED BY <1>1, <1>2, <1>3, <1>4, <1>5, <1>6

LEMMA FaultTypes ==
  ASSUME UTypes, FlashError \/ PowerFailure
  PROVE  UTypes'
<1>0. << >> \in Seq(Nat) /\ Len(<< >>) = 0
  OBVIOUS
<1>1. faults' \in 0 .. MaxFaults
  <2>1. faults < MaxFaults /\ faults' = faults + 1
    BY DEF FlashError, PowerFailure, Fault
  <2>2. faults \in 0 .. MaxFaults /\ MaxFaults \in Nat
    BY ConstFacts DEF UTypes
  <2> QED BY ONLY <2>1, <2>2
<1>2. mem' = [a \in Flash!Address |-> mem'[a]]
  <2>1. mem' \in Interrupted
    BY DEF FlashError, PowerFailure
  <2> QED BY <2>1, InterruptedFacts DEF IsMem
<1>3. image' = {} \/ image' = image
  BY DEF FlashError, PowerFailure
<1>4. CASE FlashError
  <2>1. /\ pc' \in {"flag_write", "idle"} /\ todo' = << >> /\ failed' = TRUE
        /\ UNCHANGED <<transfer, file>>
    BY <1>4 DEF FlashError
  <2>2. file.size \in Nat
    BY DEF UTypes
  <2> QED BY <1>0, <1>1, <1>2, <1>3, <2>1, <2>2 DEF UTypes, Writing, Flagging, transfer
<1>5. CASE PowerFailure
  <2>1. /\ sent' \in Files /\ phase' = "waiting" /\ data' = << >>
        /\ closed' \in BOOLEAN /\ clean' \in BOOLEAN /\ failed' \in BOOLEAN
        /\ file' = [kind |-> "fpga", size |-> 0] /\ todo' = << >> /\ pc' = "idle"
    BY <1>5 DEF PowerFailure, NoFile
  <2>2. file' \in [kind : Kind, size : Nat] /\ file'.size = 0
    BY <2>1, ConstFacts
  <2> QED BY <1>0, <1>1, <1>2, <1>3, <2>1, <2>2 DEF UTypes, Writing, Flagging
<1> QED BY <1>4, <1>5

LEMMA TypesStep ==
  ASSUME UTypes, [Next]_vars
  PROVE  UTypes'
<1>1. CASE UNCHANGED vars
  BY <1>1 DEF vars, transfer, UTypes
<1>2. CASE Next
  BY <1>2, CallTypes, WriteTypes, XmodemTypes, OperationTypes, FaultTypes DEF Next
<1> QED BY <1>1, <1>2

LEMMA TypesImply ==
  ASSUME UTypes
  PROVE  TypeOK
<1>1. DOMAIN mem = 0 .. MemSize - 1
  <2>1. mem = [a \in Flash!Address |-> mem[a]]
    BY DEF UTypes
  <2>2. DOMAIN [a \in Flash!Address |-> mem[a]] = Flash!Address
    OBVIOUS
  <2> QED BY <2>1, <2>2 DEF Flash!Address
<1> QED BY <1>1 DEF UTypes, TypeOK, Writing, Flagging

LEMMA UTypesAlways == Spec => []UTypes
BY UTypesInit, TypesStep, PTL DEF Spec

\* The state of a download is well typed whatever is sent, however large: what
\* nk_direct_write (nkdirect.c) has still to write is part of the size it has
\* already advanced, so the address it computes is never below the file.
THEOREM UpdateTypes == Spec => []TypeOK
BY UTypesAlways, TypesImply, PTL

-----------------------------------------------------------------------------
(***************************************************************************)
(* The order of the calls, and what is still to be written.                *)
(***************************************************************************)

LEMMA UInvInit ==
  ASSUME Init
  PROVE  UInv
<1>1. /\ data = << >> /\ phase = "waiting" /\ closed = FALSE /\ clean = TRUE
      /\ file = [kind |-> "fpga", size |-> 0] /\ todo = << >> /\ pc = "idle" /\ image = {}
  BY DEF Init, Transfer!Init, NoFile
<1>2. Len(<< >>) = 0 /\ 1 .. 0 = {}
  OBVIOUS
<1>3. OrderInv
  BY <1>1 DEF OrderInv, Flagging
<1>4. SizeInv
  BY <1>1, <1>2, ConstFacts DEF SizeInv
<1>5. StoreInv
  BY <1>1, <1>2 DEF StoreInv
<1>6. FlagInv
  BY <1>1 DEF FlagInv, Installing, Flagging
<1> QED BY <1>3, <1>4, <1>5, <1>6 DEF UInv

LEMMA OrderStep ==
  ASSUME UTypes, OrderInv, [Next]_vars
  PROVE  OrderInv'
<1> USE DEF OrderInv, Flagging
<1>1. CASE cmd_ymodem
  BY <1>1 DEF cmd_ymodem
<1>2. CASE ymodem_recv_file_open
  BY <1>2 DEF ymodem_recv_file_open, Transfer!Open
<1>3. CASE ymodem_recv_file_write
  BY <1>3 DEF ymodem_recv_file_write, Transfer!Write
<1>4. CASE ymodem_recv_file_close
  BY <1>4 DEF ymodem_recv_file_close, Transfer!Close
<1>5. CASE ymodem_recv_file_cancel
  BY <1>5 DEF ymodem_recv_file_cancel, Transfer!Cancel
<1>6. CASE ymodem_recv_all_done
  <2>1. pc' \in {"flag_erase", "flag_write"} => file'.kind # "fpga" /\ file' = file
    BY <1>6 DEF ymodem_recv_all_done
  <2>2. file.kind \in {"fpga", "fw0"}
    BY ConstFacts DEF UTypes
  <2>3. phase' = "done" /\ UNCHANGED <<sent, data, clean>>
    BY <1>6 DEF ymodem_recv_all_done, Transfer!AllDone, Transfer!CloseAndDone
  <2>4. clean => closed /\ closed' = closed /\ phase = "waiting"
    BY <1>6 DEF ymodem_recv_all_done, Transfer!AllDone, Transfer!CloseAndDone
  <2> QED BY <2>1, <2>2, <2>3, <2>4
<1>7. CASE xmodem_open
  BY <1>7 DEF xmodem_open, Transfer!OpenAndWrite
<1>8. CASE LineDisturbed
  BY <1>8 DEF LineDisturbed, Transfer!Disturbed
<1>9. CASE PageErase
  BY <1>9 DEF PageErase, Operation, transfer
<1>10. CASE SamePage
  BY <1>10 DEF SamePage, transfer
<1>11. CASE PageProgram
  BY <1>11 DEF PageProgram, Operation, transfer
<1>12. CASE WriteReturns
  BY <1>12 DEF WriteReturns, transfer
<1>13. CASE FlagErase
  BY <1>13 DEF FlagErase, Operation, transfer
<1>14. CASE FlagWrite
  BY <1>14 DEF FlagWrite, Operation, transfer
<1>15. CASE FlashError
  BY <1>15 DEF FlashError, transfer
<1>16. CASE PowerFailure
  BY <1>16 DEF PowerFailure
<1>17. CASE UNCHANGED vars
  BY <1>17 DEF vars, transfer
<1> QED
  BY <1>1, <1>2, <1>3, <1>4, <1>5, <1>6, <1>7, <1>8, <1>9, <1>10, <1>11, <1>12,
     <1>13, <1>14, <1>15, <1>16, <1>17 DEF Next

\* Steps that leave the file, the data and what is to be written alone.
LEMMA SizeKept ==
  ASSUME UTypes, SizeInv, UNCHANGED <<data, file, todo>>,
         phase' = "open" => phase = "open"
  PROVE  SizeInv'
BY DEF SizeInv

\* Steps after which nothing is left to be written.
LEMMA SizeEnded ==
  ASSUME UTypes, SizeInv, todo' = << >>,
         \/ data' = << >> /\ phase' # "open"
         \/ data' = << >> /\ file'.size = 0
         \/ UNCHANGED <<data, file, phase>>
  PROVE  SizeInv'
<1>1. Len(<< >>) = 0 /\ 1 .. 0 = {}
  OBVIOUS
<1> QED BY <1>1, ConstFacts DEF SizeInv

LEMMA SizeStep ==
  ASSUME Fits, UTypes, OrderInv, SizeInv, [Next]_vars
  PROVE  SizeInv'
<1>0. pc = "idle" \/ pc \in Flagging => todo = << >>
  BY DEF UTypes, Writing, Flagging
<1>1. CASE cmd_ymodem
  BY <1>0, <1>1, SizeEnded DEF cmd_ymodem
<1>2. CASE ymodem_recv_file_open
  <2>1. data' = << >> /\ todo' = << >>
    BY <1>0, <1>2 DEF ymodem_recv_file_open, Transfer!Open
  <2>2. file'.size = 0
    BY <1>2 DEF ymodem_recv_file_open
  <2> QED BY <2>1, <2>2, SizeEnded
<1>3. CASE ymodem_recv_file_write
  <2>1. PICK n \in ChunkLen :
          /\ Len(Chunk(n)) > 0
          /\ data' = data \o Chunk(n)
          /\ todo' = Chunk(n)
          /\ file' = [file EXCEPT !.size = @ + Len(Chunk(n))]
    BY <1>3 DEF ymodem_recv_file_write
  <2> DEFINE c == Chunk(n)
  <2>2. c \in Seq(Nat) /\ Len(c) \in Nat \ {0} /\ Len(data) + Len(c) <= AreaSize
    BY <2>1, ChunkFacts
  <2>3. data' = data \o c /\ todo' = c /\ file' = [file EXCEPT !.size = @ + Len(c)]
    BY <2>1
  <2> HIDE DEF c
  <2>4. phase = "open"
    BY <1>3 DEF ymodem_recv_file_write, Transfer!Write
  <2>5. file \in [kind : Kind, size : Nat] /\ data \in Seq(Nat) /\ Len(data) \in Nat
    BY DEF UTypes
  <2>6. file'.size = Len(data) + Len(c)
    BY <2>2, <2>3, <2>4, <2>5 DEF SizeInv
  <2>7. Len(data') = Len(data) + Len(c)
    BY <2>2, <2>3, <2>5
  <2>8. \A i \in 1 .. Len(c) : c[i] = (data \o c)[Len(data) + i]
    BY <2>2, <2>5
  <2>9. \A i \in 1 .. Len(todo') : todo'[i] = data'[(Len(data') - Len(todo')) + i]
    <3>1. Len(data') - Len(todo') = Len(data)
      BY <2>2, <2>3, <2>5, <2>7
    <3> QED BY <2>3, <2>8, <3>1
  <2> QED BY <2>2, <2>6, <2>7, <2>9 DEF SizeInv
<1>4. CASE ymodem_recv_file_close
  BY <1>4, SizeKept DEF ymodem_recv_file_close, Transfer!Close
<1>5. CASE ymodem_recv_file_cancel
  BY <1>5, SizeKept DEF ymodem_recv_file_cancel, Transfer!Cancel
<1>6. CASE ymodem_recv_all_done
  BY <1>6, SizeKept DEF ymodem_recv_all_done, Transfer!AllDone, Transfer!CloseAndDone
<1>7. CASE xmodem_open
  <2>1. PICK n \in ChunkLen :
          data' = Noise(n) /\ todo' = Noise(n) /\ file' = [kind |-> "fw0", size |-> n]
    BY <1>7 DEF xmodem_open
  <2>2. Noise(n) \in Seq(Nat) /\ Len(Noise(n)) = n /\ n \in Nat /\ n <= AreaSize
    BY NoiseFacts DEF Fits
  <2> DEFINE c == Noise(n)
  <2>3. data' = c /\ todo' = c /\ file'.size = n /\ Len(c) = n
    BY <2>1, <2>2
  <2> HIDE DEF c
  <2>4. \A i \in 1 .. n : (n - n) + i = i
    BY <2>2
  <2> QED BY <2>2, <2>3, <2>4 DEF SizeInv
<1>8. CASE LineDisturbed
  BY <1>8, SizeKept DEF LineDisturbed, Transfer!Disturbed
<1>9. CASE PageErase \/ SamePage \/ WriteReturns \/ FlagErase \/ FlagWrite \/ UNCHANGED vars
  BY <1>9, SizeKept DEF PageErase, SamePage, WriteReturns, FlagErase, FlagWrite,
     Operation, transfer, vars
<1>10. CASE PageProgram
  <2>1. /\ todo' = SubSeq(todo, PageLen + 1, Len(todo))
        /\ UNCHANGED <<data, file, phase>>
    BY <1>10 DEF PageProgram, Operation, transfer
  <2>2. PageLen \in Nat /\ PageLen <= Len(todo) /\ Len(todo) \in Nat
    BY PageFacts
  <2>3. PageLen \in 0 .. Len(todo) /\ todo \in Seq(Nat) /\ Len(data) \in Nat
    BY <2>2 DEF UTypes
  <2>4. /\ Len(todo') = Len(todo) - PageLen
        /\ \A i \in 1 .. Len(todo) - PageLen : todo'[i] = todo[PageLen + i]
    BY <2>1, <2>3, SplitFacts
  <2>5. ASSUME NEW i \in 1 .. Len(todo')
        PROVE  todo'[i] = data'[(Len(data') - Len(todo')) + i]
    <3>1. i \in 1 .. Len(todo) - PageLen /\ PageLen + i \in 1 .. Len(todo) /\ i \in Nat
      BY <2>2, <2>4
    <3>2. todo'[i] = data[(Len(data) - Len(todo)) + (PageLen + i)]
      BY <2>4, <3>1 DEF SizeInv
    <3>3. (Len(data) - Len(todo')) + i = (Len(data) - Len(todo)) + (PageLen + i)
      BY <2>2, <2>3, <2>4, <3>1
    <3> QED BY <2>1, <3>2, <3>3
  <2> QED BY <2>1, <2>5 DEF SizeInv
<1>11. CASE FlashError
  BY <1>11, SizeEnded DEF FlashError, transfer
<1>12. CASE PowerFailure
  BY <1>12, SizeEnded DEF PowerFailure
<1> QED
  BY <1>1, <1>2, <1>3, <1>4, <1>5, <1>6, <1>7, <1>8, <1>9, <1>10, <1>11, <1>12 DEF Next

-----------------------------------------------------------------------------
(***************************************************************************)
(* What is stored.                                                         *)
(***************************************************************************)

\* Where what was received goes is inside the area, and what is stored of it
\* is below the next page.
LEMMA StoredBelow ==
  ASSUME UTypes, SizeInv, NEW i \in 1 .. Len(data)
  PROVE  /\ file.size = Len(data) /\ Len(data) \in Nat
         /\ i \in Nat \ {0} /\ Base[file.kind] \in Nat
         /\ Base[file.kind] + (i - 1) \in Flash!Address
         /\ Base[file.kind] <= Base[file.kind] + (i - 1)
         /\ Base[file.kind] + (i - 1) < Base[file.kind] + AreaSize
         /\ i <= Len(data) - Len(todo) => Base[file.kind] + (i - 1) < PageAddr
<1>1. data \in Seq(Nat) /\ Len(data) \in Nat /\ file.kind \in Kind /\ Len(data) <= AreaSize
  BY DEF UTypes, SizeInv
<1>2. data # << >>
  BY <1>1
<1>3. file.size = Len(data)
  BY <1>2 DEF SizeInv
<1>4. /\ Base[file.kind] \in Nat /\ Len(todo) \in Nat
      /\ PageAddr = Base[file.kind] + (file.size - Len(todo))
  BY PageFacts
<1> DEFINE b == Base[file.kind]
           a == b + (i - 1)
<1>5. i \in Nat \ {0} /\ i <= Len(data) /\ AreaSize \in Nat
  BY <1>1, ConstFacts
<1> HIDE DEF b
<1>6. a \in Int /\ b <= a /\ a < b + AreaSize
  BY <1>1, <1>4, <1>5 DEF b
<1>7. i <= Len(data) - Len(todo) => a < PageAddr
  BY <1>1, <1>3, <1>4, <1>5 DEF b
<1>8. a \in Flash!Address
  <2> HIDE DEF a
  <2> QED BY <1>1, <1>6, Layout DEF b
<1> QED BY <1>1, <1>3, <1>4, <1>5, <1>6, <1>7, <1>8 DEF b

\* The block that the next page is part of is inside the area.
LEMMA PageInside ==
  ASSUME UTypes, SizeInv, pc \in Writing, todo # << >>
  PROVE  /\ Base[file.kind] <= PageAddr
         /\ PageAddr + (EraseSize - (PageAddr % EraseSize)) <= Base[file.kind] + AreaSize
<1>1. file.size = Len(data) /\ Len(data) <= AreaSize
  BY DEF SizeInv, UTypes
<1>2. /\ Base[file.kind] \in Nat /\ file.size \in Nat /\ Len(todo) \in Nat /\ PageAddr \in Nat
      /\ PageAddr = Base[file.kind] + (file.size - Len(todo)) /\ Len(todo) <= file.size
  BY PageFacts DEF UTypes
<1>3. Len(todo) > 0
  BY <1>2 DEF UTypes
<1> DEFINE b == Base[file.kind]
           p == PageAddr
<1>4. b \in Nat /\ p \in Nat /\ p = b + (file.size - Len(todo)) /\ b % EraseSize = 0
  BY <1>2, ConstFacts DEF UTypes
<1>5. EraseSize \in Nat \ {0} /\ AreaSize \in Nat /\ AreaSize % EraseSize = 0
  BY ConstFacts
<1> HIDE DEF b, p
<1>6. b <= p /\ p < b + AreaSize
  BY <1>1, <1>2, <1>3, <1>4, <1>5
<1>7. p + (EraseSize - (p % EraseSize)) <= b + AreaSize
  BY <1>4, <1>5, <1>6, BlockInside
<1> QED BY <1>6, <1>7 DEF b, p

\* A step that writes nothing, ends no page and keeps what is to be written.
LEMMA StoreKept ==
  ASSUME UTypes, StoreInv, UNCHANGED <<mem, data, file, todo, failed>>,
         \/ phase' # "open"
         \/ phase' = phase /\ (pc' = "program" => PageAddr % EraseSize # 0)
  PROVE  StoreInv'
<1>1. PageAddr' = PageAddr
  BY DEF PageAddr
<1>2. CASE failed
  BY <1>2 DEF StoreInv
<1>3. CASE ~ failed
  <2>1. \A i \in 1 .. Len(data) - Len(todo) :
          mem[Base[file.kind] + (i - 1)] = Flash!Data(data[i])
    BY <1>3 DEF StoreInv
  <2>2. (phase' = "open" /\ (PageAddr' % EraseSize # 0 \/ pc' = "program"))
           => BlankFrom(mem, PageAddr)
    BY <1>1, <1>3 DEF StoreInv
  <2> QED BY <1>1, <2>1, <2>2 DEF StoreInv, BlankFrom
<1> QED BY <1>2, <1>3

\* Nothing is received yet of a file that is opened.
LEMMA StoreOpened ==
  ASSUME UTypes', Len(data') = Len(todo'), file'.size = Len(todo'), pc' # "program"
  PROVE  StoreInv'
<1>1. file'.kind \in Kind /\ Len(todo') \in Nat
  BY DEF UTypes
<1>2. Base[file'.kind] \in Nat /\ Base[file'.kind] % EraseSize = 0
  BY <1>1, ConstFacts
<1>3. PageAddr' = Base[file'.kind]
  BY <1>1, <1>2 DEF PageAddr
<1>4. PageAddr' % EraseSize = 0
  BY <1>2, <1>3
<1>5. 1 .. Len(data') - Len(todo') = {}
  BY <1>1
<1> QED BY <1>4, <1>5 DEF StoreInv

LEMMA StoreWrite ==
  ASSUME UTypes, SizeInv, StoreInv, ymodem_recv_file_write
  PROVE  StoreInv'
<1>1. PICK n \in ChunkLen :
        /\ Len(Chunk(n)) > 0
        /\ data' = data \o Chunk(n)
        /\ todo' = Chunk(n)
        /\ file' = [file EXCEPT !.size = @ + Len(Chunk(n))]
  BY DEF ymodem_recv_file_write
<1> DEFINE c == Chunk(n)
<1>2. c \in Seq(Nat) /\ Len(c) \in Nat
  BY <1>1, ChunkFacts
<1>3. data' = data \o c /\ todo' = c /\ file' = [file EXCEPT !.size = @ + Len(c)]
  BY <1>1
<1> HIDE DEF c
<1>4. /\ phase = "open" /\ pc = "idle" /\ pc' = "page"
      /\ UNCHANGED <<phase, mem, failed>>
  BY DEF ymodem_recv_file_write, Transfer!Write
<1>5. /\ todo = << >> /\ file \in [kind : Kind, size : Nat]
      /\ data \in Seq(Nat) /\ Len(data) \in Nat
  BY <1>4 DEF UTypes, Writing
<1>6. Len(todo) = 0 /\ Base[file.kind] \in Nat /\ file.size \in Nat
  BY <1>5, ConstFacts
<1>7. file'.size = file.size + Len(c) /\ file'.kind = file.kind
  BY <1>3, <1>5
<1>8. PageAddr' = PageAddr
  <2>1. PageAddr = Base[file.kind] + file.size
    BY <1>6 DEF PageAddr
  <2>2. PageAddr' = Base[file.kind] + (file.size + Len(c)) - Len(c)
    BY <1>3, <1>7 DEF PageAddr
  <2> QED BY <1>2, <1>6, <2>1, <2>2
<1>9. Len(data') - Len(todo') = Len(data) - Len(todo) /\ Len(data) - Len(todo) = Len(data)
  BY <1>2, <1>3, <1>5, <1>6
<1>10. \A i \in 1 .. Len(data) : data'[i] = data[i]
  BY <1>2, <1>3, <1>5
<1>11. CASE failed
  BY <1>4, <1>11 DEF StoreInv
<1>12. CASE ~ failed
  <2>1. \A i \in 1 .. Len(data) : mem[Base[file.kind] + (i - 1)] = Flash!Data(data[i])
    BY <1>9, <1>12 DEF StoreInv
  <2>2. PageAddr % EraseSize # 0 => BlankFrom(mem, PageAddr)
    BY <1>4, <1>12 DEF StoreInv
  <2>3. \A i \in 1 .. Len(data') - Len(todo') :
          mem'[Base[file'.kind] + (i - 1)] = Flash!Data(data'[i])
    BY <1>4, <1>7, <1>9, <1>10, <2>1
  <2>4. PageAddr' % EraseSize # 0 => BlankFrom(mem', PageAddr')
    BY <1>4, <1>8, <2>2
  <2> QED BY <1>4, <2>3, <2>4 DEF StoreInv, BlankFrom
<1> QED BY <1>11, <1>12

\* The block that is erased starts at the page, above all that is stored.
LEMMA StoreErase ==
  ASSUME UTypes, SizeInv, StoreInv, PageErase
  PROVE  StoreInv'
<1>1. /\ mem' = Flash!Erase(mem, PageAddr) /\ PageAddr % EraseSize = 0
      /\ UNCHANGED <<data, file, todo, failed>>
  BY DEF PageErase, Operation, transfer
<1>2. PageAddr \in Nat /\ EraseSize \in Nat /\ Len(todo) \in Nat
  BY PageFacts, ConstFacts
<1>3. PageAddr' = PageAddr
  BY <1>1 DEF PageAddr
<1>4. \A a \in Flash!Address :
        mem'[a] = IF PageAddr <= a /\ a < PageAddr + EraseSize THEN Flash!Erased ELSE mem[a]
  BY <1>1, <1>2, EraseFacts
<1>5. BlankFrom(mem', PageAddr)
  <2>1. EraseSize - (PageAddr % EraseSize) = EraseSize
    BY <1>1, <1>2
  <2> QED BY <1>4, <2>1 DEF BlankFrom
<1>6. ASSUME ~ failed, NEW i \in 1 .. Len(data) - Len(todo)
      PROVE  mem'[Base[file.kind] + (i - 1)] = Flash!Data(data[i])
  <2> DEFINE a == Base[file.kind] + (i - 1)
  <2>1. i \in 1 .. Len(data) /\ i <= Len(data) - Len(todo)
    BY <1>2 DEF UTypes
  <2>2. a \in Flash!Address /\ a < PageAddr
    BY <2>1, StoredBelow
  <2>3. mem[a] = Flash!Data(data[i])
    BY <1>6 DEF StoreInv
  <2> HIDE DEF a
  <2>4. ~ (PageAddr <= a)
    BY <1>2, <2>2, ConstFacts DEF Flash!Address
  <2>5. mem'[a] = mem[a]
    BY <1>4, <2>2, <2>4
  <2> QED BY <2>3, <2>5 DEF a
<1> QED BY <1>1, <1>3, <1>5, <1>6 DEF StoreInv, BlankFrom

\* The page is programmed over blank cells, and the rest of its block stays so.
LEMMA StoreProgram ==
  ASSUME UTypes, SizeInv, StoreInv, PageProgram
  PROVE  StoreInv'
<1> DEFINE p == PageAddr
           n == PageLen
           e == EraseSize
           l == Len(todo)
           s == Len(data) - l
           b == Base[file.kind]
<1>1. /\ mem' = Flash!Write(mem, PageAddr, Page) /\ pc = "program" /\ pc' = "page"
      /\ todo' = SubSeq(todo, PageLen + 1, Len(todo))
      /\ UNCHANGED <<data, file, phase, failed>>
  BY DEF PageProgram, Operation, transfer
<1>2. /\ p \in Nat /\ n \in Nat /\ l \in Nat /\ n <= l /\ n <= e - (p % e)
      /\ Len(Page) = n /\ b \in Nat
      /\ \A i \in 1 .. n : Page[i] = Flash!Data(todo[i])
  BY PageFacts
<1>3. e \in Nat \ {0} /\ p % e \in 0 .. e - 1
  BY PageFacts, ConstFacts
<1>4. phase = "open" /\ file.size = Len(data) /\ Len(data) \in Nat
  BY <1>1 DEF UTypes, SizeInv, Writing
<1>5. l <= Len(data) /\ s \in Nat /\ p = b + s
  <2>1. l <= Len(data)
    BY <1>4 DEF UTypes
  <2>2. p = b + (file.size - l)
    BY PageFacts
  <2> QED BY <1>2, <1>4, <2>1, <2>2
<1>6. Len(todo') = l - n
  <2>1. todo \in Seq(Nat) /\ n \in 0 .. Len(todo)
    BY <1>2 DEF UTypes
  <2> QED BY <1>1, <2>1, SplitFacts
<1>7. Len(data') - Len(todo') = s + n
  <2>1. Len(data') = Len(data)
    BY <1>1
  <2> HIDE DEF l, n
  <2> QED BY <1>2, <1>4, <1>6, <2>1
<1>8. PageAddr' = p + n
  <2>1. PageAddr' = b + file.size - Len(todo')
    BY <1>1 DEF PageAddr
  <2> QED BY <1>2, <1>4, <1>5, <1>6, <2>1
<1>9. \A a \in Flash!Address :
        mem'[a] = IF p <= a /\ a < p + n
                    THEN Flash!Programmed(mem[a], Page[(a - p) + 1]) ELSE mem[a]
  <2>1. \A a \in Flash!Address :
          Flash!Write(mem, PageAddr, Page)[a] =
            IF PageAddr <= a /\ a < PageAddr + Len(Page)
              THEN Flash!Programmed(mem[a], Page[(a - PageAddr) + 1]) ELSE mem[a]
    <3>1. PageAddr \in Nat /\ Len(Page) \in Nat
      BY <1>2
    <3> QED BY ONLY <3>1, WriteFacts
  <2>2. Len(Page) = n /\ PageAddr = p /\ mem' = Flash!Write(mem, p, Page)
    BY <1>1, <1>2
  <2> QED BY ONLY <2>1, <2>2
<1>10. CASE failed
  BY <1>1, <1>10 DEF StoreInv
<1>11. CASE ~ failed
  <2>1. \A i \in 1 .. s : mem[b + (i - 1)] = Flash!Data(data[i])
    BY <1>11 DEF StoreInv
  <2>2. BlankFrom(mem, p)
    BY <1>1, <1>4, <1>11 DEF StoreInv
  <2>3. \A a \in Flash!Address : p <= a /\ a < p + (e - (p % e)) => mem[a] = Flash!Erased
    BY <2>2 DEF BlankFrom
  <2>4. ASSUME NEW i \in 1 .. s + n
        PROVE  mem'[b + (i - 1)] = Flash!Data(data[i])
    <3> DEFINE a == b + (i - 1)
    <3>1. i \in 1 .. Len(data)
      BY <1>2, <1>4, <1>5
    <3>2. a \in Flash!Address /\ i \in Nat
      BY <3>1, StoredBelow
    <3>3. CASE i <= s
      <4>1. ~ (p <= a)
        BY <1>2, <1>5, <3>2, <3>3
      <4>2. i \in 1 .. s
        BY <1>5, <3>3, <3>1
      <4> HIDE DEF p, a
      <4>3. mem'[a] = mem[a]
        BY <1>9, <3>2, <4>1
      <4> QED BY <2>1, <4>2, <4>3 DEF a
    <3>4. CASE i > s
      <4> DEFINE j == i - s
      <4>1. j \in 1 .. n /\ a = p + (j - 1) /\ i = s + j
        BY <1>2, <1>5, <3>2, <3>4
      <4>2. Page[j] = Flash!Data(data[i])
        <5>1. Page[j] = Flash!Data(todo[j])
          BY <1>2, <4>1
        <5>2. j \in 1 .. l
          BY <1>2, <4>1
        <5>3. todo[j] = data[s + j]
          BY <5>2 DEF SizeInv
        <5> QED BY <4>1, <5>1, <5>3
      <4> HIDE DEF j, p, n, a, s
      <4>3. p <= a /\ a < p + n /\ a < p + (e - (p % e)) /\ (a - p) + 1 = j
        <5> DEFINE r == p % e
        <5>1. r \in 0 .. e - 1 /\ n <= e - r
          BY <1>2, <1>3
        <5> HIDE DEF r
        <5>2. p <= a /\ a < p + n /\ a < p + (e - r) /\ (a - p) + 1 = j
          BY <1>2, <1>3, <4>1, <5>1
        <5> QED BY <5>2 DEF r
      <4>4. mem[a] = Flash!Erased
        BY <2>3, <3>2, <4>3
      <4>5. mem'[a] = Flash!Programmed(mem[a], Page[j])
        BY <1>9, <3>2, <4>3
      <4>6. mem'[a] = Flash!Data(data[i])
        BY <4>2, <4>4, <4>5, CellFacts
      <4> QED BY <4>6 DEF a
    <3> QED BY <1>5, <3>2, <3>3, <3>4
  <2>5. ASSUME (p + n) % e # 0
        PROVE  BlankFrom(mem', p + n)
    <3> DEFINE r == p % e
               q == (p + n) % e
    <3>1. n < e - r /\ q = r + n
      <4>1. \/ n = e - r /\ q = 0
            \/ n < e - r /\ q = r + n
        BY <1>2, <1>3, NextPage
      <4> QED BY <2>5, <4>1
    <3>2. r \in 0 .. e - 1
      BY <1>3
    <3>3. \A a \in Flash!Address : p <= a /\ a < p + (e - r) => mem[a] = Flash!Erased
      BY <2>3
    <3> HIDE DEF r, q, p, n, e
    <3>4. (p + n) + (e - q) = p + (e - r)
      BY <1>2, <1>3, <3>1, <3>2
    <3>5. ASSUME NEW a \in Flash!Address, p + n <= a, a < (p + n) + (e - q)
          PROVE  mem'[a] = Flash!Erased
      <4>1. a \in Int /\ p <= a /\ ~ (a < p + n) /\ a < p + (e - r)
        BY <1>2, <3>4, <3>5, ConstFacts DEF Flash!Address
      <4>2. mem'[a] = mem[a]
        BY <1>9, <4>1
      <4> QED BY <3>3, <4>1, <4>2
    <3> QED BY <3>5 DEF BlankFrom, q, e
  <2>6. \A i \in 1 .. Len(data') - Len(todo') :
          mem'[Base[file'.kind] + (i - 1)] = Flash!Data(data'[i])
    BY <1>1, <1>7, <2>4
  <2>7. PageAddr' % EraseSize # 0 => BlankFrom(mem', PageAddr')
    BY <1>8, <2>5
  <2> QED BY <1>1, <2>6, <2>7 DEF StoreInv, BlankFrom
<1> QED BY <1>10, <1>11

\* The flag is in a block of its own.
LEMMA StoreFlag ==
  ASSUME UTypes, OrderInv, SizeInv, StoreInv, FlagErase \/ FlagWrite
  PROVE  StoreInv'
<1>1. pc \in Flagging /\ UNCHANGED <<data, file, todo, phase, failed>>
  BY DEF FlagErase, FlagWrite, Operation, transfer, Flagging
<1>2. phase' # "open" /\ Flag \in Nat /\ EraseSize \in Nat \ {0}
  BY <1>1, ConstFacts DEF OrderInv
<1>3. \A a \in Flash!Address : ~ (Flag <= a /\ a < Flag + EraseSize) => mem'[a] = mem[a]
  <2>1. CASE FlagErase
    <3>1. mem' = Flash!Erase(mem, Flag)
      BY <2>1 DEF FlagErase, Operation
    <3> QED BY <1>2, <3>1, EraseFacts
  <2>2. CASE FlagWrite
    <3> DEFINE cells == <<Flash!Data(0)>>
    <3>1. mem' = Flash!Write(mem, Flag, cells)
      BY <2>2 DEF FlagWrite, Operation
    <3>2. Len(cells) = 1
      OBVIOUS
    <3> HIDE DEF cells
    <3>3. \A a \in Flash!Address :
            Flash!Write(mem, Flag, cells)[a] =
              IF Flag <= a /\ a < Flag + Len(cells)
                THEN Flash!Programmed(mem[a], cells[(a - Flag) + 1]) ELSE mem[a]
      <4>1. Len(cells) \in Nat
        BY <3>2
      <4> QED BY <1>2, <4>1, WriteFacts
    <3>4. \A a \in Flash!Address : a < Flag + Len(cells) => a < Flag + EraseSize
      BY <1>2, <3>2, ConstFacts DEF Flash!Address
    <3> QED BY <3>1, <3>3, <3>4
  <2> QED BY <2>1, <2>2
<1>4. ASSUME ~ failed, NEW i \in 1 .. Len(data) - Len(todo)
      PROVE  mem'[Base[file.kind] + (i - 1)] = Flash!Data(data[i])
  <2> DEFINE a == Base[file.kind] + (i - 1)
  <2>1. i \in 1 .. Len(data)
    <3>1. Len(data) \in Nat /\ Len(todo) \in Nat
      BY DEF UTypes
    <3> QED BY <3>1
  <2>2. a \in Flash!Address /\ Base[file.kind] <= a /\ a < Base[file.kind] + AreaSize
    BY <2>1, StoredBelow
  <2>3. mem[a] = Flash!Data(data[i])
    BY <1>4 DEF StoreInv
  <2> HIDE DEF a
  <2>4. ~ (Flag <= a /\ a < Flag + EraseSize)
    <3>1. file.kind \in Kind /\ a \in Int
      BY <2>2, ConstFacts DEF UTypes, Flash!Address
    <3>2. a < Flag \/ Flag + EraseSize <= a
      BY <2>2, <3>1, Layout
    <3> QED BY <1>2, <3>1, <3>2
  <2>5. mem'[a] = mem[a]
    BY <1>3, <2>2, <2>4
  <2> QED BY <2>3, <2>5 DEF a
<1> QED BY <1>1, <1>2, <1>4 DEF StoreInv

LEMMA StoreStep ==
  ASSUME Fits, UTypes, UTypes', OrderInv, SizeInv, StoreInv, [Next]_vars
  PROVE  StoreInv'
<1>0. Len(<< >>) = 0 /\ (pc = "idle" => todo = << >>)
  BY DEF UTypes, Writing
<1>1. CASE cmd_ymodem
  <2>1. data' = << >> /\ todo' = << >> /\ phase' # "open"
    BY <1>0, <1>1 DEF cmd_ymodem
  <2> QED BY <1>0, <2>1 DEF StoreInv
<1>2. CASE ymodem_recv_file_open
  <2>1. data' = << >> /\ todo' = << >> /\ pc' # "program"
    BY <1>0, <1>2 DEF ymodem_recv_file_open, Transfer!Open
  <2>2. file'.size = 0
    BY <1>2 DEF ymodem_recv_file_open
  <2> QED BY <1>0, <2>1, <2>2, StoreOpened
<1>3. CASE ymodem_recv_file_close
  BY <1>3, StoreKept DEF ymodem_recv_file_close, Transfer!Close
<1>4. CASE ymodem_recv_file_cancel
  BY <1>4, StoreKept DEF ymodem_recv_file_cancel, Transfer!Cancel
<1>5. CASE ymodem_recv_all_done
  BY <1>5, StoreKept DEF ymodem_recv_all_done, Transfer!AllDone, Transfer!CloseAndDone
<1>6. CASE xmodem_open
  <2>1. PICK n \in ChunkLen :
          data' = Noise(n) /\ todo' = Noise(n) /\ file' = [kind |-> "fw0", size |-> n]
    BY <1>6 DEF xmodem_open
  <2>2. pc' # "program"
    BY <1>6 DEF xmodem_open
  <2> QED BY <2>1, <2>2, NoiseFacts, StoreOpened
<1>7. CASE LineDisturbed
  BY <1>7, StoreKept DEF LineDisturbed, Transfer!Disturbed
<1>8. CASE SamePage \/ WriteReturns
  BY <1>8, StoreKept DEF SamePage, WriteReturns, transfer
<1>9. CASE FlashError
  BY <1>9 DEF FlashError, StoreInv
<1>10. CASE PowerFailure
  <2>1. data' = << >> /\ todo' = << >> /\ phase' # "open"
    BY <1>10 DEF PowerFailure
  <2> QED BY <1>0, <2>1 DEF StoreInv
<1>11. CASE UNCHANGED vars
  BY <1>11 DEF vars, transfer, StoreInv, BlankFrom, PageAddr
<1> QED
  BY <1>1, <1>2, <1>3, <1>4, <1>5, <1>6, <1>7, <1>8, <1>9, <1>10, <1>11,
     StoreWrite, StoreErase, StoreProgram, StoreFlag DEF Next

-----------------------------------------------------------------------------
(***************************************************************************)
(* The flag and the image it stands for.                                   *)
(***************************************************************************)

\* A flash that holds the installed image and its flag.
Installed(m) ==
  \A bytes \in image :
    /\ Len(bytes) <= AreaSize
    /\ \A i \in 1 .. Len(bytes) : m[Base["fw0"] + (i - 1)] = Flash!Data(bytes[i])
    /\ m[Flag] = Flash!Data(0)

\* While a page is written, whether it ends, fails or is cut short, only the
\* block of the page changes: an image that is installed is in the other area.
LEMMA OtherArea ==
  ASSUME UTypes, SizeInv, FlagInv, pc \in Writing, todo # << >>, NEW m,
         \A a \in Flash!Address :
           \/ m[a] = mem[a]
           \/ PageAddr <= a /\ a < PageAddr + (EraseSize - (PageAddr % EraseSize))
  PROVE  Installed(m)
<1>1. CASE file.kind = "fw0"
  <2>1. image = {}
    BY <1>1 DEF UTypes, FlagInv, Installing
  <2> QED BY <2>1 DEF Installed
<1>2. CASE file.kind # "fw0"
  <2> DEFINE k == file.kind
             p == PageAddr
             q == PageAddr + (EraseSize - (PageAddr % EraseSize))
  <2>1. k \in Kind /\ "fw0" \in Kind /\ k # "fw0"
    BY <1>2, ConstFacts DEF UTypes
  <2>2. Base[k] \in Nat /\ Base["fw0"] \in Nat /\ AreaSize \in Nat /\ Flag \in Nat
        /\ EraseSize \in Nat \ {0}
    BY <2>1, ConstFacts
  <2>3. p \in Nat /\ q \in Int
    <3>1. p \in Nat /\ p % EraseSize \in 0 .. EraseSize - 1
      BY PageFacts
    <3> QED BY <2>2, <3>1
  <2>4. Base[k] <= p /\ q <= Base[k] + AreaSize
    BY PageInside
  <2>5. \A a \in Flash!Address : m[a] = mem[a] \/ (p <= a /\ a < q)
    OBVIOUS
  <2> HIDE DEF p, q, k
  <2>6. Flag \in Flash!Address /\ m[Flag] = mem[Flag]
    <3>1. Flag \in Flash!Address
      BY Layout
    <3>2. ~ (p <= Flag /\ Flag < q)
      <4>1. SUFFICES ASSUME p <= Flag, Flag < q PROVE FALSE
        OBVIOUS
      <4>2. Base[k] <= Flag /\ Flag < Base[k] + AreaSize
        BY <2>2, <2>3, <2>4, <4>1
      <4>3. Flag < Flag \/ Flag + EraseSize <= Flag
        BY <2>1, <2>2, <4>2, Layout
      <4> QED BY <2>2, <4>3
    <3> QED BY <2>5, <3>1, <3>2
  <2>7. ASSUME NEW a \in Int, Base["fw0"] <= a, a < Base["fw0"] + AreaSize
        PROVE  m[a] = mem[a]
    <3>1. a \in Flash!Address
      BY <2>1, <2>7, Layout
    <3>2. ~ (p <= a /\ a < q)
      <4>1. SUFFICES ASSUME p <= a, a < q PROVE FALSE
        OBVIOUS
      <4>2. Base[k] <= a /\ a < Base[k] + AreaSize
        BY <2>2, <2>3, <2>4, <4>1
      <4>3. a < Base["fw0"] \/ Base["fw0"] + AreaSize <= a
        BY <2>1, <4>2, Layout
      <4> QED BY <2>2, <2>7, <4>3
    <3> QED BY <2>5, <3>1, <3>2
  <2>8. ASSUME NEW bytes \in image
        PROVE  /\ Len(bytes) <= AreaSize
               /\ \A i \in 1 .. Len(bytes) : m[Base["fw0"] + (i - 1)] = Flash!Data(bytes[i])
               /\ m[Flag] = Flash!Data(0)
    <3>1. /\ Len(bytes) <= AreaSize
          /\ \A i \in 1 .. Len(bytes) : mem[Base["fw0"] + (i - 1)] = Flash!Data(bytes[i])
          /\ mem[Flag] = Flash!Data(0)
      BY DEF FlagInv
    <3>2. bytes \in Seq(Nat) /\ Len(bytes) \in Nat
      BY DEF UTypes
    <3>3. ASSUME NEW i \in 1 .. Len(bytes)
          PROVE  m[Base["fw0"] + (i - 1)] = Flash!Data(bytes[i])
      <4> DEFINE a == Base["fw0"] + (i - 1)
      <4>1. a \in Int /\ Base["fw0"] <= a /\ a < Base["fw0"] + AreaSize
        BY <2>2, <3>1, <3>2
      <4>2. mem[a] = Flash!Data(bytes[i])
        BY <3>1
      <4> HIDE DEF a
      <4>3. m[a] = mem[a]
        BY <2>7, <4>1
      <4> QED BY <4>2, <4>3 DEF a
    <3> QED BY <2>6, <3>1, <3>3
  <2> QED BY <2>8 DEF Installed
<1> QED BY <1>1, <1>2

LEMMA InstalledNow ==
  ASSUME FlagInv
  PROVE  Installed(mem)
BY DEF FlagInv, Installed

\* Steps that leave the flash alone and install nothing.
LEMMA FlagKept ==
  ASSUME FlagInv, mem' = mem, image' \subseteq image, pc' # "flag_write",
         Installing' => Installing \/ image' = {}
  PROVE  FlagInv'
<1>1. Installing' => image' = {}
  BY DEF FlagInv
<1>2. \A bytes \in image' :
         /\ Len(bytes) <= AreaSize
         /\ \A i \in 1 .. Len(bytes) : mem'[Base["fw0"] + (i - 1)] = Flash!Data(bytes[i])
         /\ mem'[Flag] = Flash!Data(0)
  BY DEF FlagInv
<1> QED BY <1>1, <1>2 DEF FlagInv

\* Steps that may change the flash under an image that stays installed.
LEMMA FlagMoved ==
  ASSUME FlagInv, Installed(mem'), image' \subseteq image, pc' = "flag_write" => failed',
         Installing' => Installing \/ image' = {}
  PROVE  FlagInv'
<1>1. Installing' => image' = {}
  BY DEF FlagInv
<1>2. \A bytes \in image' :
         /\ Len(bytes) <= AreaSize
         /\ \A i \in 1 .. Len(bytes) : mem'[Base["fw0"] + (i - 1)] = Flash!Data(bytes[i])
         /\ mem'[Flag] = Flash!Data(0)
  BY DEF Installed
<1> QED BY <1>1, <1>2 DEF FlagInv

\* The calls: what is on its way was opened, and the flag is written last.
LEMMA FlagCalls ==
  ASSUME UTypes, FlagInv,
         \/ cmd_ymodem \/ ymodem_recv_file_open \/ ymodem_recv_file_write
         \/ ymodem_recv_file_close \/ ymodem_recv_file_cancel \/ ymodem_recv_all_done
         \/ xmodem_open \/ LineDisturbed
  PROVE  FlagInv'
<1> USE DEF Installing, Flagging
<1>1. CASE cmd_ymodem
  BY <1>1, FlagKept DEF cmd_ymodem
<1>2. CASE ymodem_recv_file_open
  <2>1. PICK kind \in Kind : /\ file' = [kind |-> kind, size |-> 0]
                             /\ image' = IF kind = "fw0" THEN {} ELSE image
    BY <1>2 DEF ymodem_recv_file_open
  <2>2. file'.kind = "fw0" => image' = {}
    BY <2>1
  <2>3. image' \subseteq image
    BY <2>1
  <2>4. mem' = mem /\ pc' # "flag_write"
    BY <1>2 DEF ymodem_recv_file_open
  <2> QED BY <2>2, <2>3, <2>4, FlagKept
<1>3. CASE ymodem_recv_file_write
  <2>1. file'.kind = file.kind
    BY <1>3 DEF ymodem_recv_file_write, UTypes
  <2>2. phase = "open" /\ UNCHANGED <<mem, image>> /\ pc' # "flag_write"
    BY <1>3 DEF ymodem_recv_file_write, Transfer!Write
  <2> QED BY <2>1, <2>2, FlagKept
<1>4. CASE ymodem_recv_file_close
  BY <1>4, FlagKept DEF ymodem_recv_file_close, Transfer!Close
<1>5. CASE ymodem_recv_file_cancel
  BY <1>5, FlagKept DEF ymodem_recv_file_cancel, Transfer!Cancel
<1>6. CASE ymodem_recv_all_done
  <2>1. UNCHANGED <<mem, file, image>> /\ pc' # "flag_write" /\ phase' = "done"
    BY <1>6 DEF ymodem_recv_all_done, Transfer!AllDone, Transfer!CloseAndDone
  <2>2. pc' \in Flagging => closed'
    BY <1>6 DEF ymodem_recv_all_done
  <2>3. closed' => phase = "open" \/ (phase = "waiting" /\ closed)
    BY <1>6 DEF ymodem_recv_all_done, Transfer!AllDone, Transfer!CloseAndDone
  <2> QED BY <2>1, <2>2, <2>3, FlagKept
<1>7. CASE xmodem_open
  BY <1>7, FlagKept DEF xmodem_open
<1>8. CASE LineDisturbed
  BY <1>8, FlagKept DEF LineDisturbed, Transfer!Disturbed
<1> QED BY <1>1, <1>2, <1>3, <1>4, <1>5, <1>6, <1>7, <1>8

LEMMA FlagPages ==
  ASSUME UTypes, SizeInv, FlagInv,
         PageErase \/ SamePage \/ PageProgram \/ WriteReturns
  PROVE  FlagInv'
<1>1. /\ UNCHANGED <<phase, closed, file, failed, image>>
      /\ pc \in Writing /\ pc' \in {"idle", "page", "program"}
  BY DEF PageErase, SamePage, PageProgram, WriteReturns, Operation, transfer, Writing
<1>2. Installing' => Installing
  BY <1>1 DEF Installing, Flagging
<1>3. CASE SamePage \/ WriteReturns
  BY <1>1, <1>2, <1>3, FlagKept DEF SamePage, WriteReturns
<1>4. CASE PageErase
  <2>1. todo # << >> /\ PageAddr % EraseSize = 0 /\ mem' = Flash!Erase(mem, PageAddr)
    BY <1>4 DEF PageErase, Operation
  <2>2. PageAddr \in Nat /\ EraseSize - 0 = EraseSize
    BY PageFacts, ConstFacts
  <2>3. \A a \in Flash!Address :
          mem'[a] = mem[a] \/ (PageAddr <= a /\ a < PageAddr + EraseSize)
    BY <2>1, <2>2, EraseFacts
  <2>4. Installed(mem')
    BY <1>1, <2>1, <2>2, <2>3, OtherArea
  <2> QED BY <1>1, <1>2, <2>4, FlagMoved
<1>5. CASE PageProgram
  <2>1. todo # << >> /\ mem' = Flash!Write(mem, PageAddr, Page)
    BY <1>5 DEF PageProgram, Operation, UTypes
  <2> DEFINE r == PageAddr % EraseSize
  <2>2. /\ PageAddr \in Nat /\ PageLen \in Nat /\ Len(Page) = PageLen
        /\ PageLen <= EraseSize - r /\ r \in 0 .. EraseSize - 1 /\ EraseSize \in Nat
    BY PageFacts, ConstFacts
  <2>3. \A a \in Flash!Address :
          mem'[a] = mem[a] \/ (PageAddr <= a /\ a < PageAddr + PageLen)
    <3>1. \A a \in Flash!Address :
            Flash!Write(mem, PageAddr, Page)[a] =
              IF PageAddr <= a /\ a < PageAddr + Len(Page)
                THEN Flash!Programmed(mem[a], Page[(a - PageAddr) + 1]) ELSE mem[a]
      BY <2>2, WriteFacts
    <3> QED BY ONLY <2>1, <2>2, <3>1
  <2>4. \A a \in Flash!Address :
          mem'[a] = mem[a] \/ (PageAddr <= a /\ a < PageAddr + (EraseSize - r))
    <3> HIDE DEF r
    <3>1. \A a \in Flash!Address : a < PageAddr + PageLen => a < PageAddr + (EraseSize - r)
      BY <2>2, ConstFacts DEF Flash!Address
    <3> QED BY <2>3, <3>1
  <2>5. Installed(mem')
    BY <1>1, <2>1, <2>4, OtherArea
  <2> QED BY <1>1, <1>2, <2>5, FlagMoved
<1> QED BY <1>3, <1>4, <1>5

\* The flag is erased while nothing is installed; when it has been written
\* the image it stands for is what was received, whole.
LEMMA FlagFlags ==
  ASSUME UTypes, OrderInv, SizeInv, StoreInv, FlagInv, FlagErase \/ FlagWrite,
         StoreInv', UTypes'
  PROVE  FlagInv'
<1>1. Flag \in Nat /\ Flag \in Flash!Address /\ EraseSize \in Nat \ {0}
  BY ConstFacts, Layout
<1>2. CASE FlagErase
  <2>1. /\ pc = "flag_erase" /\ mem' = Flash!Erase(mem, Flag) /\ image' = image
    BY <1>2 DEF FlagErase, Operation
  <2>2. image' = {}
    BY <2>1 DEF OrderInv, FlagInv, Installing, Flagging
  <2>3. mem'[Flag] = Flash!Erased
    <3>1. Flag <= Flag /\ Flag < Flag + EraseSize
      BY <1>1
    <3> QED BY <1>1, <2>1, <3>1, EraseFacts
  <2> QED BY <2>2, <2>3 DEF FlagInv
<1>3. CASE FlagWrite
  <2> DEFINE cells == <<Flash!Data(0)>>
  <2>1. /\ pc = "flag_write" /\ pc' = "idle" /\ mem' = Flash!Write(mem, Flag, cells)
        /\ image' = IF failed THEN {} ELSE {data}
        /\ UNCHANGED <<data, todo, file, phase, failed>>
    BY <1>3 DEF FlagWrite, Operation, transfer
  <2>2. ~ Installing'
    BY <2>1 DEF OrderInv, Installing, Flagging
  <2>3. CASE failed
    <3>1. image' = {}
      BY <2>1, <2>3
    <3> QED BY <2>1, <3>1 DEF FlagInv
  <2>4. CASE ~ failed
    <3>1. image' = {data} /\ file.kind = "fw0" /\ todo = << >> /\ mem[Flag] = Flash!Erased
      BY <2>1, <2>4 DEF OrderInv, UTypes, FlagInv, Writing, Flagging
    <3>2. Len(data) <= AreaSize /\ Len(data) - 0 = Len(data) /\ Len(<< >>) = 0
      BY DEF SizeInv, UTypes
    <3>3. \A i \in 1 .. Len(data) : mem'[Base["fw0"] + (i - 1)] = Flash!Data(data[i])
      BY <2>1, <2>4, <3>1, <3>2 DEF StoreInv
    <3>4. mem'[Flag] = Flash!Data(0)
      <4>1. Len(cells) = 1 /\ cells[1] = Flash!Data(0)
        OBVIOUS
      <4> HIDE DEF cells
      <4>2. Len(cells) \in Nat /\ Flag <= Flag /\ Flag < Flag + Len(cells) /\ (Flag - Flag) + 1 = 1
        BY <1>1, <4>1
      <4>3. \A a \in Flash!Address :
              Flash!Write(mem, Flag, cells)[a] =
                IF Flag <= a /\ a < Flag + Len(cells)
                  THEN Flash!Programmed(mem[a], cells[(a - Flag) + 1]) ELSE mem[a]
        BY <1>1, <4>2, WriteFacts
      <4>4. mem'[Flag] = Flash!Programmed(mem[Flag], cells[1])
        BY <1>1, <2>1, <4>2, <4>3
      <4> QED BY <3>1, <4>1, <4>4, CellFacts
    <3> QED BY <2>1, <2>2, <3>1, <3>2, <3>3, <3>4 DEF FlagInv
  <2> QED BY <2>3, <2>4
<1> QED BY <1>2, <1>3

LEMMA FlagFaults ==
  ASSUME UTypes, OrderInv, SizeInv, FlagInv, FlashError \/ PowerFailure
  PROVE  FlagInv'
<1>1. mem' \in Interrupted
  BY DEF FlashError, PowerFailure
<1>2. image' = IF pc \in Flagging THEN {} ELSE image
  BY DEF FlashError, PowerFailure, Flagging
<1>3. pc' = "flag_write" => failed'
  BY DEF FlashError, PowerFailure
<1>4. CASE pc \in Flagging
  <2>1. image' = {}
    BY <1>2, <1>4
  <2>2. pc' = "flag_write" => failed'
    BY <1>3
  <2> QED BY <2>1, <2>2 DEF FlagInv
<1>5. CASE pc \notin Flagging
  <2>1. image' = image
    BY <1>2, <1>5
  <2>2. Installing' => Installing
    <3>1. CASE FlashError
      <4>1. UNCHANGED <<file, phase, closed>> /\ pc' = "idle"
        BY <1>5, <3>1 DEF FlashError, transfer, Flagging
      <4> QED BY <4>1 DEF Installing, Flagging
    <3>2. CASE PowerFailure
      <4>1. file'.kind = "fpga"
        BY <3>2 DEF PowerFailure, NoFile
      <4> QED BY <4>1 DEF Installing
    <3> QED BY <3>1, <3>2
  <2>3. \A a \in Flash!Address :
          \/ mem'[a] = mem[a]
          \/ /\ (pc = "page" /\ todo # << >>) \/ pc = "program"
             /\ PageAddr <= a /\ a < PageAddr + (EraseSize - (PageAddr % EraseSize))
    BY <1>1, <1>5, InterruptedFacts
  <2>4. CASE (pc = "page" /\ todo # << >>) \/ pc = "program"
    <3>1. pc \in Writing /\ todo # << >>
      BY <2>4 DEF UTypes, Writing
    <3>2. Installed(mem')
      BY <2>3, <3>1, OtherArea
    <3> QED BY <1>3, <2>1, <2>2, <3>2, FlagMoved
  <2>5. CASE ~ ((pc = "page" /\ todo # << >>) \/ pc = "program")
    <3>1. \A a \in Flash!Address : mem'[a] = mem[a]
      BY <2>3, <2>5
    <3>2. mem' = mem
      <4>1. mem' = [a \in Flash!Address |-> mem'[a]]
        BY <1>1, InterruptedFacts DEF IsMem
      <4>2. mem = [a \in Flash!Address |-> mem[a]]
        BY DEF UTypes
      <4>3. [a \in Flash!Address |-> mem'[a]] = [a \in Flash!Address |-> mem[a]]
        BY <3>1
      <4> QED BY <4>1, <4>2, <4>3
    <3>3. Installed(mem')
      BY <3>2, InstalledNow
    <3> QED BY <1>3, <2>1, <2>2, <3>3, FlagMoved
  <2> QED BY <2>4, <2>5
<1> QED BY <1>4, <1>5

LEMMA FlagStep ==
  ASSUME UTypes, UTypes', OrderInv, SizeInv, StoreInv, StoreInv', FlagInv, [Next]_vars
  PROVE  FlagInv'
<1>1. CASE UNCHANGED vars
  BY <1>1 DEF vars, transfer, FlagInv, Installing
<1>2. CASE Next
  BY <1>2, FlagCalls, FlagPages, FlagFlags, FlagFaults DEF Next
<1> QED BY <1>1, <1>2

LEMMA UInvStep ==
  ASSUME Fits, UTypes, UInv, [Next]_vars
  PROVE  UInv'
<1>1. UTypes'
  BY TypesStep
<1>2. OrderInv'
  BY OrderStep DEF UInv
<1>3. SizeInv'
  BY SizeStep DEF UInv
<1>4. StoreInv'
  BY <1>1, StoreStep DEF UInv
<1>5. FlagInv'
  BY <1>1, <1>4, FlagStep DEF UInv
<1> QED BY <1>2, <1>3, <1>4, <1>5 DEF UInv

LEMMA UInvAlways ==
  ASSUME Fits
  PROVE  Spec => []UInv
<1>1. UTypes /\ UInv /\ [Next]_vars => UInv'
  BY UInvStep
<1>2. Init => UInv
  BY UInvInit
<1> QED BY <1>1, <1>2, UTypesAlways, PTL DEF Spec

-----------------------------------------------------------------------------
(***************************************************************************)
(* The properties.                                                         *)
(***************************************************************************)

\* The cells that an image takes, whole or in part.
LEMMA HoldsWhen ==
  ASSUME NEW bytes \in Seq(Nat), NEW k \in Kind,
         \A i \in 1 .. Len(bytes) : mem[Base[k] + (i - 1)] = Flash!Data(bytes[i])
  PROVE  Holds(bytes, k)
<1>1. Base[k] \in Nat /\ DOMAIN bytes = 1 .. Len(bytes)
  BY ConstFacts
<1>2. \A i \in 1 .. Len(bytes) : Base[k] + i - 1 = Base[k] + (i - 1)
  BY <1>1
<1> QED BY <1>1, <1>2 DEF Holds

LEMMA StoredWhenNotFailed ==
  ASSUME UTypes, UInv
  PROVE  WrittenIsStored
<1> DEFINE n == Len(data) - Len(todo)
           s == SubSeq(data, 1, n)
<1>1. CASE failed
  BY <1>1 DEF WrittenIsStored
<1>2. CASE ~ failed
  <2>1. data \in Seq(Nat) /\ Len(data) \in Nat /\ Len(todo) \in Nat /\ file.kind \in Kind
    BY DEF UTypes
  <2>2. n \in Int /\ n <= Len(data)
    BY <2>1
  <2>3. \A i \in 1 .. n : mem[Base[file.kind] + (i - 1)] = Flash!Data(data[i])
    BY <1>2 DEF UInv, StoreInv
  <2> HIDE DEF n
  <2>4. \A i \in 1 .. n : data[i] \in Nat
    BY <2>1, <2>2
  <2>5. /\ s \in Seq(Nat) /\ Len(s) = IF 1 <= n THEN n - 1 + 1 ELSE 0
        /\ \A i \in 1 .. n - 1 + 1 : s[i] = data[1 + i - 1]
    BY <2>1, <2>2, <2>4, SubSeqProperties
  <2>6. \A i \in 1 .. Len(s) : i \in 1 .. n /\ s[i] = data[i]
    BY <2>2, <2>5
  <2> HIDE DEF s
  <2>7. Holds(s, file.kind)
    BY <2>1, <2>3, <2>5, <2>6, HoldsWhen
  <2> QED BY <1>2, <2>7 DEF WrittenIsStored, s, n
<1> QED BY <1>1, <1>2

\* Whatever the packets, wherever they fall on the erase blocks and whatever
\* was in the area before: what ymodem_recv_file_write has been given is in the
\* flash in order and whole, but for what nk_direct_write has still to write,
\* as long as no flash operation of the session has failed.
THEOREM ReceivedIsStored ==
  ASSUME Fits
  PROVE  Spec => []WrittenIsStored
BY UTypesAlways, UInvAlways, StoredWhenNotFailed, PTL

LEMMA InstalledIsWhole ==
  ASSUME UTypes, UInv
  PROVE  InstalledSurvives
<1>1. ASSUME NEW bytes \in image
      PROVE  Holds(bytes, "fw0") /\ mem[Flag] = Flash!Data(0)
  <2>1. /\ \A i \in 1 .. Len(bytes) : mem[Base["fw0"] + (i - 1)] = Flash!Data(bytes[i])
        /\ mem[Flag] = Flash!Data(0)
    BY DEF UInv, FlagInv
  <2>2. bytes \in Seq(Nat) /\ "fw0" \in Kind
    BY ConstFacts DEF UTypes
  <2> QED BY <2>1, <2>2, HoldsWhen
<1> QED BY <1>1 DEF InstalledSurvives

\* Once ymodem_recv_all_done has set the flag, and until the next image for
\* bank 0 is opened, the flag and the image survive any number of downloads to
\* the other area, cancelled sessions, flash errors and power failures, at
\* whatever point of an erase or a program.
THEOREM ImageSurvives ==
  ASSUME Fits
  PROVE  Spec => []InstalledSurvives
BY UTypesAlways, UInvAlways, InstalledIsWhole, PTL

LEMMA FlagAfterWhole ==
  ASSUME UTypes, UInv, pc = "flag_write", clean, ~ failed
  PROVE  Holds(sent, "fw0")
<1>1. data = sent /\ file.kind = "fw0" /\ todo = << >> /\ Len(<< >>) = 0
  BY DEF UInv, OrderInv, UTypes, Writing, Flagging
<1>2. data \in Seq(Nat) /\ Len(data) - 0 = Len(data) /\ "fw0" \in Kind
  BY ConstFacts DEF UTypes
<1>3. \A i \in 1 .. Len(data) : mem[Base["fw0"] + (i - 1)] = Flash!Data(data[i])
  BY <1>1, <1>2 DEF UInv, StoreInv
<1> QED BY <1>1, <1>2, <1>3, HoldsWhen

\* ymodem_recv_all_done sets the bootloader flag for nothing but the whole
\* image the other end sent, in the bank that the flag names.
THEOREM FlagIsLast ==
  ASSUME Fits
  PROVE  Spec => FlagMeansComplete
<1>1. UTypes /\ UInv => [mem'[Flag] # mem[Flag] /\ pc = "flag_write" /\ clean /\ ~ failed
                           => Holds(sent, "fw0")]_vars
  BY FlagAfterWhole
<1> QED BY <1>1, UTypesAlways, UInvAlways, PTL DEF FlagMeansComplete

=============================================================================
