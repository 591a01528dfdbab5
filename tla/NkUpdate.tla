------------------------------- MODULE NkUpdate -------------------------------
(***************************************************************************)
(* Downloading an image into flash: the file handler of the "ymodem"       *)
(* command (src/nkymodem_cmd.c), the file without a header it writes       *)
(* (src/libnklabs/src/nkdirect.c) and the bootloader flag.                 *)
(*                                                                         *)
(* The receiver that calls the handler is NkTransfer, which NkYmodem       *)
(* implements.  Flash operations are steps of their own: power may fail    *)
(* during and between them, and they may report an error.                  *)
(***************************************************************************)
EXTENDS Integers, Sequences, SequencesExt, FiniteSetsExt

CONSTANTS
  Files,      \* the images, sequences of bytes, that are sent
  Base,       \* area_base of each area
  AreaSize,   \* area_size
  EraseSize,  \* erase_size; the flag has a block of its own
  Flag,       \* FLASH_FIRMWARE_FLAG
  MemSize,    \* the size of the flash
  ChunkLen,   \* bytes of data in a packet (128 and 1024)
  MaxSize,    \* bound: bytes in one file
  MaxFaults   \* bound: power failures and flash errors

\* The areas that a file name selects (bank 1 is never selected).
Kind == {"fpga", "fw0"}

Area(k) == Base[k] .. Base[k] + AreaSize - 1
FlagBlock == Flag .. Flag + EraseSize - 1

ASSUME UpdateAssumption ==
  /\ Files \subseteq Seq(Nat)
  /\ AreaSize \in Nat /\ EraseSize \in Nat \ {0} /\ MemSize \in Nat
  /\ Flag \in Nat /\ ChunkLen \subseteq Nat \ {0} /\ MaxSize \in Nat
  /\ MaxFaults \in Nat
  /\ Base \in [Kind -> Nat]
  /\ AreaSize % EraseSize = 0 /\ Flag % EraseSize = 0
  /\ \A k \in Kind : Base[k] % EraseSize = 0
  /\ FlagBlock \subseteq 0 .. MemSize - 1
  /\ \A k \in Kind : Area(k) \subseteq 0 .. MemSize - 1 /\ Area(k) \cap FlagBlock = {}
  /\ Area("fpga") \cap Area("fw0") = {}

VARIABLES
  sent, phase, data, closed, clean, \* the receiver, see NkTransfer
  mem,                        \* the flash
  file,                       \* ymodem_file: its area and size
  todo,                       \* bytes that nk_direct_write has still to write
  pc,                         \* where the handler is
  faults,                     \* number of power failures and flash errors
  failed,                     \* ghost: has a flash operation of this session failed?
  image                       \* ghost: the image the flag stands for, if any

transfer == <<sent, phase, data, closed, clean>>
vars == <<transfer, mem, file, todo, pc, faults, failed, image>>

Transfer == INSTANCE NkTransfer
Flash == INSTANCE NkChecked WITH AreaSize <- MemSize

NoFile == [kind |-> "fpga", size |-> 0]

\* Until a file is opened ymodem_file points to none; no path reads it before.
Init ==
  /\ sent \in Files
  /\ Transfer!Init
  /\ mem = Flash!ErasedArea
  /\ file = NoFile
  /\ todo = << >>
  /\ pc = "idle"
  /\ faults = 0
  /\ failed = FALSE
  /\ image = {}

-----------------------------------------------------------------------------
(***************************************************************************)
(* The calls of the receiver.                                              *)
(***************************************************************************)

\* The "ymodem" command starts a session; the other end chooses the file.
cmd_ymodem ==
  /\ pc = "idle"
  /\ phase \in {"done", "cancelled"}
  /\ sent' \in Files
  /\ phase' = "waiting" /\ data' = << >> /\ closed' = FALSE /\ clean' = TRUE
  /\ failed' = FALSE
  /\ UNCHANGED <<faults, mem, file, todo, pc, image>>

\* The name selects the area; nk_direct_write_open starts at its base.
ymodem_recv_file_open ==
  /\ pc = "idle"
  /\ Transfer!Open
  /\ \E kind \in Kind :
       /\ file' = [kind |-> kind, size |-> 0]
       /\ image' = IF kind = "fw0" THEN {} ELSE image
  /\ failed' = FALSE
  /\ UNCHANGED <<faults, sent, mem, todo, pc>>

\* The bytes of a packet, limited to the size of the file.  What comes over a
\* disturbed line is not the file that is sent, and of any size.
Noise(n) == [i \in 1 .. n |-> 0]

Chunk(n) ==
  IF clean THEN SubSeq(sent, Len(data) + 1, Min({Len(data) + n, Len(sent)}))
  ELSE Noise(Min({n, MaxSize - Len(data)}))

\* Mutant: the size is not advanced.
ymodem_recv_file_write_stays ==
  /\ pc = "idle"
  /\ \E n \in ChunkLen :
       /\ Len(Chunk(n)) > 0
       /\ data' = data \o Chunk(n)
       /\ todo' = Chunk(n)
  /\ Transfer!Write
  /\ pc' = "page"
  /\ UNCHANGED <<faults, sent, mem, file, failed, image>>

\* nk_direct_write begins: the size is advanced first.
ymodem_recv_file_write ==
  /\ pc = "idle"
  /\ \E n \in ChunkLen :
       /\ Len(Chunk(n)) > 0
       /\ data' = data \o Chunk(n)
       /\ todo' = Chunk(n)
       /\ file' = [file EXCEPT !.size = @ + Len(Chunk(n))]
  /\ Transfer!Write
  /\ pc' = "page"
  /\ UNCHANGED <<faults, sent, mem, failed, image>>

\* The first block of an XMODEM file opens "anonymous", which is no name of
\* an FPGA image, and is written to it.
xmodem_open ==
  /\ pc = "idle"
  /\ \E n \in ChunkLen :
       /\ data' = Noise(n)
       /\ todo' = Noise(n)
       /\ file' = [kind |-> "fw0", size |-> n]
  /\ Transfer!OpenAndWrite
  /\ image' = {}
  /\ pc' = "page"
  /\ failed' = FALSE
  /\ UNCHANGED <<faults, sent, mem>>

ymodem_recv_file_close ==
  /\ pc = "idle"
  /\ Transfer!Close
  /\ UNCHANGED <<faults, sent, mem, file, todo, pc, failed, image>>

\* Mutant: a session that is cancelled counts as a download.
ymodem_recv_file_cancel_flags ==
  /\ pc = "idle"
  /\ Transfer!Cancel
  /\ pc' = IF file.kind # "fpga" THEN "flag_erase" ELSE "idle"
  /\ UNCHANGED <<faults, sent, mem, file, todo, failed, image>>

ymodem_recv_file_cancel ==
  /\ pc = "idle"
  /\ Transfer!Cancel
  /\ UNCHANGED <<faults, sent, mem, file, todo, pc, failed, image>>

\* A software image: the flag is set.  (An XMODEM file is closed by the same
\* character that ends the session.)
ymodem_recv_all_done ==
  /\ pc = "idle"
  /\ Transfer!AllDone \/ Transfer!CloseAndDone
  /\ pc' = IF closed' /\ file.kind # "fpga" THEN "flag_erase" ELSE "idle"
  /\ UNCHANGED <<faults, sent, mem, file, todo, failed, image>>

\* The line is disturbed: a file may end early, or the session.
LineDisturbed ==
  /\ pc = "idle"
  /\ Transfer!Disturbed
  /\ UNCHANGED <<faults, sent, mem, file, todo, pc, failed, image>>

-----------------------------------------------------------------------------
(***************************************************************************)
(* The flash operations.                                                   *)
(***************************************************************************)

\* Address and length of the next page of nk_direct_write: up to the end of
\* the erase block.  Nothing compares it with area_size.
PageAddr == Base[file.kind] + file.size - Len(todo)

PageLen ==
  LET room == EraseSize - (PageAddr % EraseSize)
  IN  IF Len(todo) < room THEN Len(todo) ELSE room

Page == [i \in 1 .. PageLen |-> Flash!Data(todo[i])]

Operation(ready, new, next) ==
  /\ pc = ready
  /\ mem' = new
  /\ pc' = next
  /\ UNCHANGED <<faults, transfer, file, failed>>

\* Mutants: the block is not erased; the next one is erased with it.
PageEraseSkipped ==
  /\ todo # << >> /\ PageAddr % EraseSize = 0
  /\ Operation("page", mem, "program")
  /\ UNCHANGED <<todo, image>>

PageEraseAhead ==
  /\ todo # << >> /\ PageAddr % EraseSize = 0
  /\ Operation("page", Flash!Erase(Flash!Erase(mem, PageAddr), PageAddr + EraseSize), "program")
  /\ UNCHANGED <<todo, image>>

\* The first page of a block: the block is erased before the page is written.
PageErase ==
  /\ todo # << >> /\ PageAddr % EraseSize = 0
  /\ Operation("page", Flash!Erase(mem, PageAddr), "program")
  /\ UNCHANGED <<todo, image>>

SamePage ==
  /\ todo # << >> /\ PageAddr % EraseSize # 0
  /\ pc = "page" /\ pc' = "program"
  /\ UNCHANGED <<faults, transfer, mem, file, todo, failed, image>>

PageProgram ==
  /\ Operation("program", Flash!Write(mem, PageAddr, Page), "page")
  /\ todo' = SubSeq(todo, PageLen + 1, Len(todo))
  /\ UNCHANGED image

WriteReturns ==
  /\ pc = "page" /\ todo = << >>
  /\ pc' = "idle"
  /\ UNCHANGED <<faults, transfer, mem, file, todo, failed, image>>

FlagErase ==
  /\ Operation("flag_erase", Flash!Erase(mem, Flag), "flag_write")
  /\ UNCHANGED <<todo, image>>

\* The flag names bank 0, always.
FlagWrite ==
  /\ Operation("flag_write", Flash!Write(mem, Flag, <<Flash!Data(0)>>), "idle")
  /\ image' = IF failed THEN {} ELSE {data}
  /\ UNCHANGED todo

\* What the operation that is under way may have done when it is cut short.
Interrupted ==
  CASE pc = "page" /\ todo # << >> /\ PageAddr % EraseSize = 0 ->
         Flash!Partial(mem, Flash!Erase(mem, PageAddr))
    [] pc = "program" -> Flash!Partial(mem, Flash!Write(mem, PageAddr, Page))
    [] pc = "flag_erase" -> Flash!Partial(mem, Flash!Erase(mem, Flag))
    [] pc = "flag_write" -> Flash!Partial(mem, Flash!Write(mem, Flag, <<Flash!Data(0)>>))
    [] OTHER -> {mem}

Fault == faults < MaxFaults /\ faults' = faults + 1

\* The operation reports an error: nk_direct_write gives up, and neither
\* ymodem_recv_file_write nor ymodem_recv_all_done looks at the result.
FlashError ==
  /\ Fault
  /\ pc \in {"page", "program", "flag_erase", "flag_write"}
  /\ mem' \in Interrupted
  /\ pc' = IF pc = "flag_erase" THEN "flag_write" ELSE "idle"
  /\ todo' = << >>
  /\ failed' = TRUE
  /\ image' = IF pc \in {"flag_erase", "flag_write"} THEN {} ELSE image
  /\ UNCHANGED <<transfer, file>>

\* Power fails, and a new session is started after it.
PowerFailure ==
  /\ Fault
  /\ mem' \in Interrupted
  /\ sent' \in Files
  /\ phase' = "waiting" /\ data' = << >> /\ closed' = FALSE /\ clean' = TRUE
  /\ file' = NoFile
  /\ todo' = << >>
  /\ pc' = "idle"
  /\ failed' = FALSE
  /\ image' = IF pc \in {"flag_erase", "flag_write"} THEN {} ELSE image

Next ==
  \/ cmd_ymodem
  \/ ymodem_recv_file_open \/ ymodem_recv_file_write \/ ymodem_recv_file_close
  \/ ymodem_recv_file_cancel \/ ymodem_recv_all_done
  \/ xmodem_open \/ LineDisturbed
  \/ PageErase \/ SamePage \/ PageProgram \/ WriteReturns
  \/ FlagErase \/ FlagWrite
  \/ FlashError \/ PowerFailure

Spec == Init /\ [][Next]_vars

-----------------------------------------------------------------------------
\* The bytes are in the flash, one after the other from the base of an area.
Holds(bytes, k) ==
  \A i \in DOMAIN bytes : mem[Base[k] + i - 1] = Flash!Data(bytes[i])

\* The state is well typed; what nk_direct_write has still to write is part
\* of the size it has already advanced, so its address is in the file.
TypeOK ==
  /\ sent \in Files
  /\ phase \in {"waiting", "open", "done", "cancelled"}
  /\ data \in Seq(Nat)
  /\ closed \in BOOLEAN /\ clean \in BOOLEAN
  /\ DOMAIN mem = 0 .. MemSize - 1
  /\ file \in [kind : Kind, size : Nat]
  /\ todo \in Seq(Nat) /\ Len(todo) <= file.size
  /\ pc \in {"idle", "page", "program", "flag_erase", "flag_write"}
  /\ faults \in 0 .. MaxFaults
  /\ failed \in BOOLEAN
  /\ image \subseteq Seq(Nat)

\* What the receiver has written is in the flash, in order and whole, but for
\* the part that the call of nk_direct_write under way has still to write,
\* however the calls fall on the erase blocks.
WrittenIsStored ==
  ~ failed => Holds(SubSeq(data, 1, Len(data) - Len(todo)), file.kind)

\* The flag is set for nothing but the whole image, in the bank it names.
FlagMeansComplete ==
  [][mem'[Flag] # mem[Flag] /\ pc = "flag_write" /\ clean /\ ~ failed
       => Holds(sent, "fw0")]_vars

\* Once the flag is set, and until the next image for bank 0 is opened, the
\* flag and the image it stands for outlive everything: power failures,
\* downloads to the other area, cancelled sessions.
InstalledSurvives ==
  \A bytes \in image : Holds(bytes, "fw0") /\ mem[Flag] = Flash!Data(0)

=============================================================================
