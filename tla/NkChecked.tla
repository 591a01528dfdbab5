------------------------------ MODULE NkChecked ------------------------------
(***************************************************************************)
(* A file in an area of flash memory, behind a header with its size and    *)
(* its CRC (src/libnklabs/src/nkchecked.c), on NOR flash as nkarch_pico.c  *)
(* drives it.                                                              *)
(*                                                                         *)
(* An area is a function from addresses to cells.  The header takes one    *)
(* cell, the first; a data cell holds one character.  The CRC of a file is *)
(* the sequence of its characters: it is taken to tell all files apart.    *)
(***************************************************************************)
EXTENDS Integers, Sequences, SequencesExt

CONSTANTS
  AreaSize,    \* area_size, in cells
  EraseSize    \* erase_size, in cells

ASSUME CheckedAssumption ==
  /\ AreaSize \in Nat \ {0}
  /\ EraseSize \in Nat \ {0}
  /\ AreaSize % EraseSize = 0

HeaderSize == 1
Address == 0 .. AreaSize - 1

Erased == [kind |-> "erased"]
Garbage == [kind |-> "garbage"]   \* half programmed or half erased
Data(ch) == [kind |-> "data", ch |-> ch]
Header(crc, size) == [kind |-> "header", crc |-> crc, size |-> size]

ErasedArea == [a \in Address |-> Erased]
GarbageArea == [a \in Address |-> Garbage]

-----------------------------------------------------------------------------
(***************************************************************************)
(* The flash.  An operation that ends sets each cell of its range; one     *)
(* that fails, or that a power failure interrupts, leaves each of them as  *)
(* it was, as it should be, or in between.                                 *)
(***************************************************************************)

\* What programming makes of a cell: bits can only be cleared, so a cell
\* that is not erased is spoilt unless it holds the value already.
Programmed(old, new) == IF old \in {Erased, new} THEN new ELSE Garbage

\* Outcome of flash_write of the cells at an address.
Write(area, addr, cells) ==
  [a \in Address |->
     IF a \in addr .. addr + Len(cells) - 1
       THEN Programmed(area[a], cells[a - addr + 1]) ELSE area[a]]

\* Outcome of flash_erase of the block at an address.
Erase(area, addr) ==
  [a \in Address |-> IF a \in addr .. addr + EraseSize - 1 THEN Erased ELSE area[a]]

\* What may be left of an operation that should turn one area into another.
Partial(old, new) ==
  LET touched == {a \in Address : old[a] # new[a]}
  IN  {[a \in Address |->
          IF a \notin touched \/ how[a] = "old" THEN old[a]
          ELSE IF how[a] = "new" THEN new[a] ELSE Garbage] :
         how \in [touched -> {"old", "new", "between"}]}

-----------------------------------------------------------------------------
(***************************************************************************)
(* The checked file.                                                       *)
(***************************************************************************)

Contents(area, size) == [i \in 1 .. size |-> area[HeaderSize + i - 1]]

\* nk_checked_read_open returns 0.  (An erased header reads as size -1, a
\* spoilt one as anything; its CRC does not match.)
Good(area) ==
  LET header == area[0]
  IN  /\ header.kind = "header"
      /\ header.size <= AreaSize - HeaderSize
      /\ Contents(area, header.size) = [i \in DOMAIN header.crc |-> Data(header.crc[i])]

\* nk_checked_read of the whole file, once opened.
File(area) == [i \in 1 .. area[0].size |-> area[HeaderSize + i - 1].ch]

\* nk_checked_write_open starts a file; nk_checked_write appends a block to
\* it, in RAM first, and then writes it out page by page; nk_checked_write_close
\* writes the header.
NewFile == [crc |-> << >>, size |-> 0]

AppendBlock(file, block) ==
  [crc |-> file.crc \o block, size |-> file.size + Len(block)]

\* Address of the page when only the tail `left' of the file is still to be
\* written, and its length: up to the end of the erase block.
PageAddr(file, left) == HeaderSize + file.size - Len(left)

PageLen(file, left) ==
  LET room == EraseSize - (PageAddr(file, left) % EraseSize)
  IN  IF Len(left) < room THEN Len(left) ELSE room

\* Mutant: the blocks after the first are never erased.
FirstOfBlockNever(file, left) == FALSE

\* The page is the first of a block, which is erased before it is written.
FirstOfBlock(file, left) == PageAddr(file, left) % EraseSize = 0

=============================================================================
