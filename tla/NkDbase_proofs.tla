--------------------------- MODULE NkDbase_proofs ---------------------------
(***************************************************************************)
(* Proofs about the database.                                              *)
(*                                                                         *)
(* DInv holds whether or not flash operations report errors.  It says that *)
(* the revision in a header has the parity of its bank, so the bank that   *)
(* is being saved is never the one the revision in RAM was loaded from or  *)
(* saved to; and how far a save has come: while no step has failed, what   *)
(* was given to nk_checked_write is in the flash and the rest of the erase *)
(* block is blank.                                                         *)
(*                                                                         *)
(* RInv is for a flash that reports no errors, where a bank that holds a   *)
(* header was saved completely: the revisions of two good banks then are   *)
(* one apart.  SInv, for such a flash too, is what the abstract store      *)
(* keeps: a load always finds a text that parses.                          *)
(***************************************************************************)
EXTENDS NkDbase, SequenceLemmas, TLAPS

NextRev == (cal_rev + 1) % RevMod
OtherBank == cal_rev % 2

\* A header that was written for this bank; an area may hold none.
HeaderOK(area, b) ==
  area[0].kind = "header" =>
    /\ area[0].crc \in Seq(Chars)
    /\ area[0].crc # << >>
    /\ area[0].size = Len(area[0].crc)
    /\ area[0].crc[1] \in 0 .. RevMod - 1
    /\ area[0].crc[1] % 2 = b

IsArea(area) == area = [a \in Address |-> area[a]]

FlashTypes ==
  /\ flash = [b \in Bank |-> flash[b]]
  /\ \A b \in Bank : IsArea(flash[b]) /\ HeaderOK(flash[b], b)

RamTypes ==
  /\ cal \in Seq(Chars) /\ Len(cal) + 2 <= AreaSize
  /\ cal_rev \in 0 .. RevMod - 1
  /\ pc \in {"off", "ready"} \cup SavePc
  /\ file.crc \in Seq(Chars) /\ file.size = Len(file.crc)
  /\ text \in Seq(Chars)
  /\ left \in Seq(Chars) /\ Len(left) <= Len(file.crc)
  /\ sta \in BOOLEAN /\ again \in BOOLEAN
  /\ acked \in Seq(Chars)

TypeInv == FlashTypes /\ RamTypes

\* The places between the first erase of a save and its end.
Writing == {"flush", "page", "program", "close"}

\* The address at which the save goes on.
Frontier == PageAddr(file, left)

\* Nothing is programmed from an address to the end of its erase block.
BlankFrom(area, p) ==
  \A a \in Address : p <= a /\ a < p + (EraseSize - (p % EraseSize))
                       => area[a] = Erased

\* No step of this save has failed.
Intact ==
  /\ file.crc \o text = <<NextRev>> \o cal
  /\ \A i \in 1 .. Len(left) :
       left[i] = file.crc[(Len(file.crc) - Len(left)) + i]
  /\ \A i \in 1 .. Len(file.crc) - Len(left) :
       flash[SaveBank][i] = Data(file.crc[i])
  /\ Frontier % EraseSize # 0 \/ pc = "program"
       => BlankFrom(flash[SaveBank], Frontier)

SaveInv ==
  /\ pc \notin {"page", "program"} => left = << >>
  /\ pc \notin Writing => ~ sta
  /\ pc \in Writing =>
       /\ flash[SaveBank][0] = Erased
       /\ pc = "close" => text = << >>
       /\ IF file.crc = << >> THEN pc = "flush" /\ text # << >> /\ text[1] = NextRev
          ELSE file.crc[1] = NextRev
       /\ ~ sta => Intact

\* The database last loaded or saved, and where it is.
AckInv ==
  acked # None =>
    IF pc = "off" THEN \E b \in GoodBanks : Tail(File(flash[b])) = acked
    ELSE Good(flash[OtherBank]) /\ Tail(File(flash[OtherBank])) = acked

DInv == TypeInv /\ SaveInv /\ AckInv

\* Without errors.
RInv ==
  /\ ~ sta
  /\ cal # << >>
  /\ \A b \in Bank : flash[b][0].kind = "header" => Len(flash[b][0].crc) >= 2
  /\ RevisionsAdjacent
  /\ pc # "off" /\ GoodBanks # {} =>
       /\ OtherBank \in GoodBanks /\ Rev(OtherBank) = cal_rev
       /\ \A b \in GoodBanks : b # OtherBank => Rev(b) = (cal_rev - 1) % RevMod

SInv == cal \in Db /\ Stored \in Db \cup {None}

-----------------------------------------------------------------------------
(***************************************************************************)
(* The constants, and the arithmetic of revisions and banks.               *)
(***************************************************************************)

LEMMA ConstFacts ==
  /\ AreaSize \in Nat \ {0} /\ EraseSize \in Nat \ {0} /\ 0 \in Address
  /\ RevMod \in Nat \ {0} /\ RevMod >= 4 /\ RevMod % 2 = 0 /\ 0 \in 0 .. RevMod - 1
  /\ BufSize \in Nat \ {0} /\ FlashErrors \in BOOLEAN
<1>1. AreaSize \in Nat \ {0} /\ EraseSize \in Nat \ {0}
  BY CheckedAssumption
<1>2. /\ RevMod \in Nat \ {0} /\ RevMod % 4 = 0
      /\ BufSize \in Nat \ {0} /\ FlashErrors \in BOOLEAN
  BY DbaseAssumption
<1>3. RevMod >= 4 /\ RevMod % 2 = 0
  BY <1>2
<1> QED BY <1>1, <1>2, <1>3 DEF Address

LEMMA DbFacts ==
  ASSUME NEW d \in Db
  PROVE  d \in Seq(Chars) /\ d # << >> /\ Len(d) + 2 <= AreaSize
<1>1. d \in Seq(Nat) /\ d # << >> /\ 1 + Len(d) <= AreaSize - HeaderSize
  BY DbaseAssumption
<1>2. \A i \in 1 .. Len(d) : d[i] \in Chars
  BY <1>1 DEF Chars
<1>3. d \in Seq(Chars)
  BY <1>1, <1>2
<1>4. Len(d) \in Nat
  BY <1>1
<1> QED BY <1>1, <1>3, <1>4, ConstFacts DEF HeaderSize

LEMMA RevChars == 0 .. RevMod - 1 \subseteq Chars
BY DEF Chars

\* The bank to be saved and the other one; the next revision has the parity
\* of the bank it is written to, also where the revisions wrap.
LEMMA BankFacts ==
  ASSUME cal_rev \in 0 .. RevMod - 1
  PROVE  /\ SaveBank \in Bank /\ OtherBank \in Bank /\ SaveBank # OtherBank
         /\ \A b \in Bank : b = SaveBank \/ b = OtherBank
         /\ NextRev \in 0 .. RevMod - 1 /\ NextRev % 2 = SaveBank
         /\ NextRev = cal_rev + 1 \/ (NextRev = 0 /\ cal_rev = RevMod - 1)
<1>1. cal_rev \in Nat /\ RevMod \in Nat \ {0} /\ RevMod % 2 = 0
  BY ConstFacts
<1>2. /\ NextRev \in 0 .. RevMod - 1
      /\ NextRev = cal_rev + 1 \/ NextRev = (cal_rev + 1) - RevMod
  BY <1>1, ModIncrement DEF NextRev
<1>3. NextRev = cal_rev + 1 \/ (NextRev = 0 /\ cal_rev = RevMod - 1)
  BY <1>1, <1>2
<1>4. NextRev % 2 = (cal_rev + 1) % 2
  BY <1>1, <1>2
<1>5. (cal_rev + 1) % 2 \in {0, 1} /\ cal_rev % 2 \in {0, 1}
      /\ (cal_rev + 1) % 2 # cal_rev % 2
  BY <1>1
<1> QED BY <1>2, <1>3, <1>4, <1>5 DEF SaveBank, OtherBank, Bank

-----------------------------------------------------------------------------
(***************************************************************************)
(* The flash.                                                              *)
(***************************************************************************)

LEMMA CellFacts ==
  /\ Erased.kind = "erased" /\ Garbage.kind = "garbage"
  /\ \A c : Data(c).kind = "data" /\ Data(c).ch = c
  /\ \A c, n : /\ Header(c, n).kind = "header"
               /\ Header(c, n).crc = c /\ Header(c, n).size = n
BY DEF Erased, Garbage, Data, Header

LEMMA EraseFacts ==
  ASSUME NEW area, NEW addr \in Nat
  PROVE  /\ IsArea(Erase(area, addr))
         /\ \A a \in Address :
              Erase(area, addr)[a] = IF addr <= a /\ a < addr + EraseSize
                                       THEN Erased ELSE area[a]
<1>1. \A a \in Address : a \in addr .. addr + EraseSize - 1
                           <=> addr <= a /\ a < addr + EraseSize
  BY ConstFacts DEF Address
<1> QED BY <1>1 DEF Erase, IsArea

LEMMA WriteFacts ==
  ASSUME NEW area, NEW addr \in Nat, NEW cells, Len(cells) \in Nat
  PROVE  /\ IsArea(Write(area, addr, cells))
         /\ \A a \in Address :
              Write(area, addr, cells)[a] =
                IF addr <= a /\ a < addr + Len(cells)
                  THEN Programmed(area[a], cells[(a - addr) + 1]) ELSE area[a]
<1>1. \A a \in Address : /\ a \in addr .. addr + Len(cells) - 1
                              <=> addr <= a /\ a < addr + Len(cells)
                         /\ a - addr + 1 = (a - addr) + 1
  BY ConstFacts DEF Address
<1> QED BY <1>1 DEF Write, IsArea

\* An operation cut short leaves each cell old, new or spoilt, and does not
\* touch what it would not have changed.
LEMMA PartialFacts ==
  ASSUME NEW old, NEW new, NEW area \in Partial(old, new)
  PROVE  /\ IsArea(area)
         /\ \A a \in Address : /\ area[a] \in {old[a], new[a], Garbage}
                               /\ old[a] = new[a] => area[a] = old[a]
<1> DEFINE touched == {a \in Address : old[a] # new[a]}
<1>1. PICK how \in [touched -> {"old", "new", "between"}] :
        area = [a \in Address |->
                  IF a \notin touched \/ how[a] = "old" THEN old[a]
                  ELSE IF how[a] = "new" THEN new[a] ELSE Garbage]
  BY DEF Partial
<1> QED BY <1>1 DEF IsArea

\* A good file is what its header says.
LEMMA GoodFacts ==
  ASSUME NEW area, NEW b, HeaderOK(area, b), Good(area)
  PROVE  /\ area[0].kind = "header"
         /\ File(area) = area[0].crc
         /\ area[0].crc \in Seq(Chars) /\ area[0].crc # << >>
         /\ Len(area[0].crc) + 1 <= AreaSize
         /\ area[0].crc[1] \in 0 .. RevMod - 1 /\ area[0].crc[1] % 2 = b
<1> DEFINE crc == area[0].crc
           n == Len(crc)
<1>1. /\ area[0].kind = "header" /\ area[0].size <= AreaSize - HeaderSize
      /\ Contents(area, area[0].size) = [i \in DOMAIN crc |-> Data(crc[i])]
  BY DEF Good
<1>2. /\ crc \in Seq(Chars) /\ crc # << >> /\ area[0].size = n
      /\ crc[1] \in 0 .. RevMod - 1 /\ crc[1] % 2 = b
  BY <1>1 DEF HeaderOK
<1>3. n \in Nat /\ DOMAIN crc = 1 .. n /\ n + 1 <= AreaSize
  BY <1>1, <1>2, ConstFacts DEF HeaderSize
<1> HIDE DEF n, crc
<1>4. [i \in 1 .. n |-> area[HeaderSize + i - 1]] = [i \in 1 .. n |-> Data(crc[i])]
  BY <1>1, <1>2, <1>3 DEF Contents
<1>5. \A i \in 1 .. n : area[HeaderSize + i - 1] = Data(crc[i])
  BY <1>4
<1>6. File(area) = [i \in 1 .. n |-> crc[i]]
  BY <1>2, <1>5, CellFacts DEF File
<1>7. [i \in 1 .. n |-> crc[i]] = crc
  BY <1>2, <1>3
<1> QED BY <1>1, <1>2, <1>3, <1>6, <1>7 DEF n, crc

LEMMA GoodWhen ==
  ASSUME NEW area, NEW crc \in Seq(Chars), area[0] = Header(crc, Len(crc)),
         Len(crc) + 1 <= AreaSize,
         \A i \in 1 .. Len(crc) : area[i] = Data(crc[i])
  PROVE  Good(area)
<1>1. /\ area[0].kind = "header" /\ area[0].crc = crc /\ area[0].size = Len(crc)
  BY CellFacts
<1>2. Len(crc) \in Nat /\ DOMAIN crc = 1 .. Len(crc)
  OBVIOUS
<1>3. Len(crc) <= AreaSize - HeaderSize
  BY <1>2, ConstFacts DEF HeaderSize
<1>4. \A i \in 1 .. Len(crc) : HeaderSize + i - 1 = i
  BY <1>2 DEF HeaderSize
<1>5. Contents(area, Len(crc)) = [i \in 1 .. Len(crc) |-> Data(crc[i])]
  BY <1>4 DEF Contents
<1> QED BY <1>1, <1>2, <1>3, <1>5 DEF Good

LEMMA UseBankFacts ==
  ASSUME GoodBanks # {}
  PROVE  UseBank \in GoodBanks /\ UseBank \in Bank
BY DEF UseBank, GoodBanks, Bank

\* A step that changes the bank to be saved and no other.
LEMMA FlashSet ==
  ASSUME TypeInv, NEW area, flash' = [flash EXCEPT ![SaveBank] = area]
  PROVE  /\ flash' = [b \in Bank |-> flash'[b]]
         /\ flash'[SaveBank] = area
         /\ flash'[OtherBank] = flash[OtherBank]
<1>1. SaveBank \in Bank /\ OtherBank \in Bank /\ SaveBank # OtherBank
      /\ flash = [b \in Bank |-> flash[b]]
  BY BankFacts DEF TypeInv, FlashTypes, RamTypes
<1> QED BY <1>1

LEMMA FlashKeeps ==
  ASSUME TypeInv, NEW area, flash' = [flash EXCEPT ![SaveBank] = area],
         IsArea(area), HeaderOK(area, SaveBank)
  PROVE  FlashTypes'
<1>1. \A b \in Bank : b = SaveBank \/ b = OtherBank
  BY BankFacts DEF TypeInv, FlashTypes, RamTypes
<1>2. \A b \in Bank : IsArea(flash[b]) /\ HeaderOK(flash[b], b)
  BY DEF TypeInv, FlashTypes
<1> QED BY <1>1, <1>2, FlashSet DEF FlashTypes

\* The database last loaded or saved stays in the bank that is not saved to.
LEMMA AckKept ==
  ASSUME AckInv, pc # "off", UNCHANGED acked,
         flash'[OtherBank] = flash[OtherBank], OtherBank \in Bank,
         pc' = "off" \/ UNCHANGED cal_rev
  PROVE  AckInv'
<1> SUFFICES ASSUME acked # None PROVE AckInv'
  BY DEF AckInv, None
<1>1. Good(flash[OtherBank]) /\ Tail(File(flash[OtherBank])) = acked
  BY DEF AckInv
<1>2. CASE pc' = "off"
  BY <1>1, <1>2 DEF AckInv, GoodBanks
<1>3. CASE pc' # "off" /\ UNCHANGED cal_rev
  BY <1>1, <1>3 DEF AckInv, OtherBank
<1> QED BY <1>2, <1>3

-----------------------------------------------------------------------------
(***************************************************************************)
(* The ways a save ends early: power fails, the operation that opens or    *)
(* closes the file fails, the write of a page fails.                       *)
(***************************************************************************)

LEMMA NoSaveTypes ==
  ASSUME NoSave
  PROVE  /\ file'.crc \in Seq(Chars) /\ file'.size = Len(file'.crc)
         /\ text' \in Seq(Chars)
         /\ left' \in Seq(Chars) /\ Len(left') <= Len(file'.crc)
         /\ sta' \in BOOLEAN /\ again' \in BOOLEAN
<1>1. file'.crc = << >> /\ file'.size = 0 /\ text' = << >> /\ left' = << >>
  BY DEF NoSave, NewFile
<1>2. sta' \in BOOLEAN /\ again' \in BOOLEAN
  BY DEF NoSave
<1> QED BY <1>1, <1>2

LEMMA OffStep ==
  ASSUME DInv, pc # "off", PowerOff,
         NEW area, flash' = [flash EXCEPT ![SaveBank] = area],
         IsArea(area), HeaderOK(area, SaveBank)
  PROVE  DInv'
<1>1. TypeInv /\ AckInv
  BY DEF DInv
<1>2. TypeInv'
  <2>1. Defaults \in Db
    BY DbaseAssumption
  <2>2. /\ cal' \in Seq(Chars) /\ Len(cal') + 2 <= AreaSize
        /\ cal_rev' \in 0 .. RevMod - 1
    BY <2>1, DbFacts, ConstFacts DEF PowerOff
  <2>3. pc' = "off" /\ acked' = acked /\ NoSave
    BY DEF PowerOff
  <2>4. RamTypes'
    BY <1>1, <2>2, <2>3, NoSaveTypes DEF TypeInv, RamTypes
  <2> QED BY <1>1, <2>4, FlashKeeps DEF TypeInv
<1>3. SaveInv'
  BY DEF SaveInv, PowerOff, NoSave, Writing
<1>4. AckInv'
  <2>1. OtherBank \in Bank
    BY <1>1, BankFacts DEF TypeInv, RamTypes
  <2> QED BY <1>1, <2>1, FlashSet, AckKept DEF PowerOff
<1> QED BY <1>2, <1>3, <1>4 DEF DInv

LEMMA ReturnStep ==
  ASSUME DInv, pc # "off", SaveReturns, UNCHANGED <<cal, cal_rev, acked>>,
         NEW area, flash' = [flash EXCEPT ![SaveBank] = area],
         IsArea(area), HeaderOK(area, SaveBank)
  PROVE  DInv'
<1>1. TypeInv /\ AckInv
  BY DEF DInv
<1>2. NoSave /\ left' = << >> /\ ~ sta' /\ pc' \in {"open", "ready"}
  BY DEF SaveReturns, NoSave
<1>3. TypeInv'
  <2>1. RamTypes'
    BY <1>1, <1>2, NoSaveTypes DEF TypeInv, RamTypes, SavePc
  <2> QED BY <1>1, <2>1, FlashKeeps DEF TypeInv
<1>4. SaveInv'
  BY <1>2 DEF SaveInv, Writing
<1>5. AckInv'
  <2>1. OtherBank \in Bank
    BY <1>1, BankFacts DEF TypeInv, RamTypes
  <2> QED BY <1>1, <2>1, FlashSet, AckKept
<1> QED BY <1>3, <1>4, <1>5 DEF DInv

LEMMA FailStep ==
  ASSUME DInv, pc \in {"page", "program"}, WriteFails,
         NEW area, flash' = [flash EXCEPT ![SaveBank] = area],
         IsArea(area), area[0] = Erased
  PROVE  DInv'
<1>1. TypeInv /\ SaveInv /\ AckInv
  BY DEF DInv
<1>2. HeaderOK(area, SaveBank)
  BY CellFacts DEF HeaderOK
<1>3. /\ pc' = "flush" /\ sta' = TRUE /\ left' = << >>
      /\ UNCHANGED <<cal, cal_rev, file, again, acked>>
  BY DEF WriteFails
<1>4. text' \in Seq(Chars)
  <2>1. text \in Seq(Chars)
    BY <1>1 DEF TypeInv, RamTypes
  <2> QED BY <2>1 DEF WriteFails
<1>5. TypeInv'
  <2>1. RamTypes'
    BY <1>1, <1>3, <1>4 DEF TypeInv, RamTypes, SavePc
  <2> QED BY <1>1, <1>2, <2>1, FlashKeeps DEF TypeInv
<1>6. SaveInv'
  <2>1. file.crc # << >> /\ file.crc[1] = NextRev
    BY <1>1 DEF SaveInv, Writing
  <2>2. flash'[SaveBank][0] = Erased
    BY <1>1, FlashSet
  <2> QED BY <1>3, <2>1, <2>2 DEF SaveInv, SaveBank, NextRev, Writing
<1>7. AckInv'
  <2>1. OtherBank \in Bank
    BY <1>1, BankFacts DEF TypeInv, RamTypes
  <2> QED BY <1>1, <1>3, <2>1, FlashSet, AckKept
<1> QED BY <1>5, <1>6, <1>7 DEF DInv

-----------------------------------------------------------------------------
(***************************************************************************)
(* The steps of a save.                                                    *)
(***************************************************************************)

LEMMA PowerFailureKeeps ==
  ASSUME DInv, PowerFailure
  PROVE  DInv'
<1> DEFINE area == flash[SaveBank]
<1>1. SaveBank \in Bank /\ FlashTypes
  BY BankFacts DEF DInv, TypeInv, RamTypes
<1>2. flash' = [flash EXCEPT ![SaveBank] = area] /\ IsArea(area) /\ HeaderOK(area, SaveBank)
  BY <1>1 DEF PowerFailure, FlashTypes
<1>3. pc # "off" /\ PowerOff
  BY DEF PowerFailure
<1> HIDE DEF area
<1> QED BY <1>2, <1>3, OffStep

LEMMA SaveOpenKeeps ==
  ASSUME DInv, SaveOpen
  PROVE  DInv'
<1> DEFINE old == flash[SaveBank]
           new == Erase(old, 0)
<1>1. pc = "open" /\ TypeInv /\ FlashTypes /\ RamTypes /\ SaveInv /\ AckInv
  BY DEF SaveOpen, DInv, TypeInv
<1>2. SaveBank \in Bank /\ OtherBank \in Bank /\ HeaderOK(old, SaveBank)
  BY <1>1, BankFacts DEF FlashTypes, RamTypes
<1>3. /\ IsArea(new)
      /\ \A a \in Address : a < EraseSize => new[a] = Erased
  <2>1. \A a \in Address : a < EraseSize => 0 <= a /\ a < 0 + EraseSize
    BY ConstFacts DEF Address
  <2> QED BY <2>1, EraseFacts
<1>4. new[0] = Erased
  BY <1>3, ConstFacts
<1>5. ASSUME NEW area \in Partial(old, new)
      PROVE  IsArea(area) /\ HeaderOK(area, SaveBank)
  <2>1. IsArea(area) /\ area[0] \in {old[0], Erased, Garbage}
    BY <1>4, PartialFacts, ConstFacts
  <2> QED BY <1>2, <2>1, CellFacts DEF HeaderOK
<1> HIDE DEF old, new
<1>6. CASE /\ flash' = [flash EXCEPT ![SaveBank] = new]
           /\ pc' = "flush"
           /\ file' = NewFile
           /\ text' = <<(cal_rev + 1) % RevMod>> \o cal
           /\ UNCHANGED <<cal, cal_rev, left, sta, again, acked>>
  <2>1. HeaderOK(new, SaveBank)
    BY <1>4, CellFacts DEF HeaderOK
  <2>2. NextRev \in Chars /\ cal \in Seq(Chars)
    BY <1>1, BankFacts, RevChars DEF RamTypes
  <2>3. file'.crc = << >> /\ file'.size = 0 /\ left = << >> /\ ~ sta
    BY <1>1, <1>6 DEF NewFile, SaveInv, Writing
  <2>4. /\ text' = <<NextRev>> \o cal /\ text' \in Seq(Chars)
        /\ text' # << >> /\ text'[1] = NextRev
    BY <1>6, <2>2 DEF NextRev
  <2>5. TypeInv'
    <3>1. RamTypes'
      BY <1>1, <1>6, <2>3, <2>4 DEF RamTypes, SavePc
    <3> QED BY <1>1, <1>3, <1>6, <2>1, <3>1, FlashKeeps DEF TypeInv
  <2>6. flash'[SaveBank] = new /\ SaveBank' = SaveBank /\ NextRev' = NextRev
    BY <1>1, <1>6, FlashSet DEF SaveBank, NextRev
  <2>7. Intact'
    <3>1. Frontier' = 1
      BY <1>6, <2>3 DEF Frontier, PageAddr, HeaderSize
    <3>2. file'.crc \o text' = <<NextRev>> \o cal
      BY <2>2, <2>3, <2>4
    <3>3. 1 .. Len(left') = {} /\ 1 .. Len(file'.crc) - Len(left') = {}
      BY <1>6, <2>3
    <3>4. ASSUME 1 % EraseSize # 0 PROVE BlankFrom(new, 1)
      <4>1. EraseSize > 1 /\ 1 % EraseSize = 1
        BY <3>4, ConstFacts
      <4>2. 1 + (EraseSize - 1) = EraseSize
        BY ConstFacts
      <4> QED BY <1>3, <4>1, <4>2 DEF BlankFrom
    <3>5. pc' # "program"
      BY <1>6
    <3>6. UNCHANGED cal
      BY <1>6
    <3>7. (Frontier % EraseSize # 0 \/ pc = "program")'
             => BlankFrom(flash[SaveBank], Frontier)'
      BY <2>6, <3>1, <3>4, <3>5 DEF BlankFrom
    <3> QED BY <2>6, <3>2, <3>3, <3>6, <3>7 DEF Intact
  <2>8. SaveInv'
    BY <1>4, <1>6, <2>3, <2>4, <2>6, <2>7 DEF SaveInv, Writing
  <2>9. AckInv'
    BY <1>1, <1>2, <1>6, FlashSet, AckKept
  <2> QED BY <2>5, <2>8, <2>9 DEF DInv
<1>7. CASE /\ \E area \in Partial(old, new) :
                 flash' = [flash EXCEPT ![SaveBank] = area]
           /\ \/ PowerOff
              \/ SaveReturns /\ UNCHANGED <<cal, cal_rev, acked>>
  <2>1. PICK area \in Partial(old, new) : flash' = [flash EXCEPT ![SaveBank] = area]
    BY <1>7
  <2>2. pc # "off"
    BY <1>1
  <2> QED BY <1>5, <1>7, <2>1, <2>2, OffStep, ReturnStep
<1> QED BY <1>6, <1>7 DEF SaveOpen, FlashOp, old, new

LEMMA FrontierFacts ==
  ASSUME RamTypes
  PROVE  /\ Frontier \in Nat \ {0}
         /\ Frontier = 1 + (Len(file.crc) - Len(left))
         /\ Frontier % EraseSize \in 0 .. EraseSize - 1
<1>1. /\ Len(file.crc) \in Nat /\ Len(left) \in Nat /\ Len(left) <= Len(file.crc)
      /\ file.size = Len(file.crc)
  BY DEF RamTypes
<1>2. Frontier \in Nat \ {0} /\ Frontier = 1 + (Len(file.crc) - Len(left))
  BY <1>1 DEF Frontier, PageAddr, HeaderSize
<1>3. Frontier \in Int /\ EraseSize \in Nat \ {0}
  BY <1>2, ConstFacts
<1>4. Frontier % EraseSize \in 0 .. EraseSize - 1
  BY <1>3
<1> QED BY <1>2, <1>4

LEMMA SaveFlushKeeps ==
  ASSUME DInv, SaveFlush
  PROVE  DInv'
<1> DEFINE n == IF Len(text) < BufSize THEN Len(text) ELSE BufSize
           block == SubSeq(text, 1, n)
           rest == SubSeq(text, n + 1, Len(text))
           crc == file.crc
<1>1. /\ pc = "flush" /\ text # << >> /\ TypeInv /\ FlashTypes /\ RamTypes
      /\ SaveInv /\ AckInv
  BY DEF SaveFlush, DInv, TypeInv
<1>2. /\ file' = AppendBlock(file, block) /\ left' = block /\ text' = rest
      /\ pc' = "page" /\ UNCHANGED <<flash, cal, cal_rev, sta, again, acked>>
  BY DEF SaveFlush
<1>3. text \in Seq(Chars) /\ crc \in Seq(Chars) /\ file.size = Len(crc) /\ left = << >>
  BY <1>1 DEF RamTypes, SaveInv
<1>4. n \in 1 .. Len(text)
  BY <1>1, <1>3, ConstFacts
<1> HIDE DEF n
<1>5. /\ block \in Seq(Chars) /\ rest \in Seq(Chars) /\ Len(block) = n
      /\ \A i \in 1 .. n : block[i] = text[i]
      /\ block \o rest = text
  BY <1>3, <1>4, SplitFacts
<1> HIDE DEF block, rest
<1>6. file'.crc = crc \o block /\ file'.size = Len(crc) + Len(block)
  BY <1>2, <1>3 DEF AppendBlock
<1> HIDE DEF crc
<1>7. /\ file'.crc \in Seq(Chars) /\ Len(file'.crc) = Len(crc) + n
      /\ \A i \in 1 .. Len(crc) : file'.crc[i] = crc[i]
      /\ \A i \in 1 .. n : file'.crc[Len(crc) + i] = block[i]
      /\ Len(crc) \in Nat /\ n \in Nat /\ Len(left') = n
      /\ Len(file'.crc) - Len(left') = Len(crc)
  <2>1. Len(crc) \in Nat /\ n \in Nat /\ Len(left') = n
    BY <1>2, <1>3, <1>4, <1>5
  <2>2. /\ crc \o block \in Seq(Chars) /\ Len(crc \o block) = Len(crc) + n
        /\ \A i \in 1 .. Len(crc) : (crc \o block)[i] = crc[i]
        /\ \A i \in 1 .. n : (crc \o block)[Len(crc) + i] = block[i]
    <3>1. crc \in Seq(Chars) /\ block \in Seq(Chars)
      BY <1>3, <1>5
    <3>2. /\ crc \o block \in Seq(Chars) /\ Len(crc \o block) = Len(crc) + Len(block)
          /\ \A i \in 1 .. Len(crc) + Len(block) :
               (crc \o block)[i] = IF i <= Len(crc) THEN crc[i] ELSE block[i - Len(crc)]
      BY <3>1, ConcatProperties, Zenon
    <3>3. \A i \in 1 .. n : /\ Len(crc) + i \in 1 .. Len(crc) + Len(block)
                            /\ ~ (Len(crc) + i <= Len(crc))
                            /\ (Len(crc) + i) - Len(crc) = i
      BY <1>5, <2>1
    <3>4. \A i \in 1 .. Len(crc) : i \in 1 .. Len(crc) + Len(block) /\ i <= Len(crc)
      BY <1>5, <2>1
    <3> QED BY <1>5, <3>2, <3>3, <3>4
  <2> QED BY <1>6, <2>1, <2>2
<1>8. TypeInv'
  <2>1. RamTypes'
    <3>1. Len(left') <= Len(file'.crc) /\ file'.size = Len(file'.crc)
          /\ left' \in Seq(Chars) /\ text' \in Seq(Chars)
      BY <1>2, <1>5, <1>6, <1>7
    <3> QED BY <1>1, <1>2, <1>7, <3>1 DEF RamTypes, SavePc
  <2> QED BY <1>1, <1>2, <2>1 DEF TypeInv, FlashTypes
<1>9. SaveBank' = SaveBank /\ NextRev' = NextRev /\ flash' = flash /\ cal' = cal
  BY <1>2 DEF SaveBank, NextRev
<1>10. file'.crc # << >> /\ file'.crc[1] = NextRev
  <2>1. IF crc = << >> THEN text[1] = NextRev ELSE crc[1] = NextRev
    BY <1>1 DEF SaveInv, Writing, crc
  <2>2. CASE crc = << >>
    BY <1>4, <1>5, <1>7, <2>1, <2>2
  <2>3. CASE crc # << >>
    BY <1>3, <1>7, <2>1, <2>3
  <2> QED BY <2>2, <2>3
<1>11. ASSUME ~ sta PROVE Intact'
  <2>1. Intact
    BY <1>1, <1>11 DEF SaveInv, Writing
  <2>2. file'.crc \o text' = <<NextRev>> \o cal
    <3>1. crc \o text = <<NextRev>> \o cal
      BY <2>1 DEF Intact, crc
    <3>2. (crc \o block) \o rest = crc \o (block \o rest)
      <4>1. crc \in Seq(Chars) /\ block \in Seq(Chars) /\ rest \in Seq(Chars)
        BY <1>3, <1>5
      <4> HIDE DEF crc, block, rest
      <4> QED BY <4>1
    <3> QED BY <1>2, <1>5, <1>6, <3>1, <3>2
  <2>3. \A i \in 1 .. Len(left') :
          left'[i] = file'.crc[(Len(file'.crc) - Len(left')) + i]
    BY <1>2, <1>7
  <2>4. \A i \in 1 .. Len(file'.crc) - Len(left') :
          flash[SaveBank][i] = Data(file'.crc[i])
    <3>1. Len(crc) - Len(left) = Len(crc)
      BY <1>3, <1>7
    <3>2. \A i \in 1 .. Len(crc) : flash[SaveBank][i] = Data(crc[i])
      BY <2>1, <3>1 DEF Intact, crc
    <3> QED BY <1>7, <3>2
  <2>5. Frontier' = Frontier
    <3>1. Frontier = 1 + (Len(crc) - Len(left))
      BY <1>1, FrontierFacts DEF crc
    <3>2. Frontier' = 1 + (file'.size - Len(left'))
      BY DEF Frontier, PageAddr, HeaderSize
    <3>3. file'.size - Len(left') = Len(crc) /\ Len(crc) - Len(left) = Len(crc)
      BY <1>3, <1>5, <1>6, <1>7
    <3> QED BY <3>1, <3>2, <3>3
  <2>6. (Frontier % EraseSize # 0 \/ pc = "program")'
           => BlankFrom(flash[SaveBank], Frontier)'
    BY <1>2, <1>9, <2>1, <2>5 DEF Intact, BlankFrom
  <2> QED BY <1>9, <2>2, <2>3, <2>4, <2>6 DEF Intact
<1>12. SaveInv'
  <2>1. flash[SaveBank][0] = Erased
    BY <1>1 DEF SaveInv, Writing
  <2> QED BY <1>2, <1>9, <1>10, <1>11, <2>1 DEF SaveInv, Writing
<1>13. AckInv'
  <2>1. OtherBank \in Bank
    BY <1>1, BankFacts DEF RamTypes
  <2> QED BY <1>1, <1>2, <2>1, AckKept
<1> QED BY <1>8, <1>12, <1>13 DEF DInv

LEMMA SaveFlushedKeeps ==
  ASSUME DInv, SaveFlushed
  PROVE  DInv'
<1>1. /\ pc = "flush" /\ text = << >> /\ pc' = "close"
      /\ FlashTypes /\ RamTypes /\ SaveInv /\ AckInv
  BY DEF SaveFlushed, DInv, TypeInv
<1>2. UNCHANGED <<flash, cal, cal_rev, file, text, left, sta, again, acked>>
  BY DEF SaveFlushed, save
<1>3. TypeInv'
  <2>1. RamTypes'
    BY <1>1, <1>2 DEF RamTypes, SavePc
  <2> QED BY <1>1, <1>2, <2>1 DEF TypeInv, FlashTypes
<1>4. SaveInv'
  <2>1. ASSUME ~ sta PROVE Intact'
    <3>1. Intact
      BY <1>1, <2>1 DEF SaveInv, Writing
    <3>2. Frontier' = Frontier /\ SaveBank' = SaveBank /\ NextRev' = NextRev
      BY <1>2 DEF Frontier, SaveBank, NextRev
    <3> QED BY <1>1, <1>2, <3>1, <3>2 DEF Intact, BlankFrom
  <2>2. SaveBank' = SaveBank /\ NextRev' = NextRev
    BY <1>2 DEF SaveBank, NextRev
  <2> QED BY <1>1, <1>2, <2>1, <2>2 DEF SaveInv, Writing
<1>5. AckInv'
  <2>1. OtherBank \in Bank
    BY <1>1, BankFacts DEF RamTypes
  <2> QED BY <1>1, <1>2, <2>1, AckKept
<1> QED BY <1>3, <1>4, <1>5 DEF DInv

\* The write of a page does not reach the header, so a page cut short
\* leaves a bank that is not good.
LEMMA PageCutShort ==
  ASSUME DInv, pc \in {"page", "program"},
         NEW new, new[0] = flash[SaveBank][0],
         NEW area \in Partial(flash[SaveBank], new),
         flash' = [flash EXCEPT ![SaveBank] = area],
         PowerOff \/ WriteFails
  PROVE  DInv'
<1>1. flash[SaveBank][0] = Erased /\ pc # "off"
  BY DEF DInv, SaveInv, Writing
<1>2. IsArea(area) /\ area[0] = Erased
  BY <1>1, PartialFacts, ConstFacts
<1>3. HeaderOK(area, SaveBank)
  BY <1>2, CellFacts DEF HeaderOK
<1> QED BY <1>1, <1>2, <1>3, OffStep, FailStep

LEMMA PageDone ==
  ASSUME DInv, pc \in {"page", "program"}, NEW new, IsArea(new),
         new[0] = flash[SaveBank][0],
         flash' = [flash EXCEPT ![SaveBank] = new],
         UNCHANGED <<cal, cal_rev, file, text, sta, again, acked>>,
         left' \in Seq(Chars), Len(left') <= Len(left),
         pc' \in {"flush", "page", "program"}, pc' = "flush" => left' = << >>,
         ~ sta => Intact'
  PROVE  DInv'
<1>1. /\ TypeInv /\ RamTypes /\ SaveInv /\ AckInv
      /\ pc \in Writing
  BY DEF DInv, TypeInv, Writing
<1>2. new[0] = Erased /\ file.crc # << >> /\ file.crc[1] = NextRev
  BY <1>1 DEF SaveInv
<1>3. TypeInv'
  <2>1. Len(left') <= Len(file.crc)
    <3>1. Len(left) \in Nat /\ Len(left') \in Nat /\ Len(file.crc) \in Nat
      BY <1>1 DEF RamTypes
    <3> QED BY <1>1, <3>1 DEF RamTypes
  <2>2. RamTypes'
    BY <1>1, <2>1 DEF RamTypes, SavePc
  <2>3. HeaderOK(new, SaveBank)
    BY <1>2, CellFacts DEF HeaderOK
  <2> QED BY <1>1, <2>2, <2>3, FlashKeeps DEF TypeInv
<1>4. SaveInv'
  <2>1. /\ flash'[SaveBank] = new /\ SaveBank' = SaveBank /\ NextRev' = NextRev
    BY <1>1, FlashSet DEF SaveBank, NextRev
  <2>2. pc' \notin {"page", "program"} => left' = << >>
    OBVIOUS
  <2>3. pc' \in Writing /\ pc' # "close"
    BY DEF Writing
  <2> QED BY <1>2, <2>1, <2>2, <2>3 DEF SaveInv
<1>5. AckInv'
  <2>1. OtherBank \in Bank /\ pc # "off"
    BY <1>1, BankFacts DEF RamTypes
  <2> QED BY <1>1, <2>1, FlashSet, AckKept
<1> QED BY <1>3, <1>4, <1>5 DEF DInv

\* While no step has failed the file fits in the bank behind its header.
LEMMA FileFits ==
  ASSUME RamTypes, Intact
  PROVE  Len(file.crc) + 1 <= AreaSize
<1>1. /\ file.crc \in Seq(Chars) /\ text \in Seq(Chars) /\ cal \in Seq(Chars)
      /\ NextRev \in Chars /\ Len(cal) + 2 <= AreaSize
  BY BankFacts, RevChars DEF RamTypes
<1>2. file.crc \o text = <<NextRev>> \o cal
  BY DEF Intact
<1>3. /\ Len(file.crc \o text) = Len(file.crc) + Len(text)
      /\ Len(<<NextRev>> \o cal) = 1 + Len(cal)
  BY <1>1
<1>4. /\ Len(file.crc) \in Nat /\ Len(text) \in Nat /\ Len(cal) \in Nat
      /\ Len(file.crc) + Len(text) = 1 + Len(cal)
  BY <1>1, <1>2, <1>3
<1> QED BY <1>1, <1>4, ConstFacts

LEMMA PageEraseKeeps ==
  ASSUME DInv, PageErase
  PROVE  DInv'
<1> DEFINE old == flash[SaveBank]
           p == Frontier
           new == Erase(old, p)
<1>1. pc = "page" /\ TypeInv /\ RamTypes /\ SaveInv /\ p % EraseSize = 0
  BY DEF DInv, TypeInv, PageErase, FirstOfBlock, Frontier
<1>2. p \in Nat \ {0} /\ p = 1 + (Len(file.crc) - Len(left)) /\ EraseSize \in Nat \ {0}
  BY <1>1, FrontierFacts, ConstFacts
<1> HIDE DEF p
<1>3. /\ IsArea(new)
      /\ \A a \in Address : new[a] = IF p <= a /\ a < p + EraseSize
                                       THEN Erased ELSE old[a]
  BY <1>2, EraseFacts
<1>4. new[0] = old[0]
  BY <1>2, <1>3, ConstFacts
<1> HIDE DEF old, new
<1>5. CASE /\ flash' = [flash EXCEPT ![SaveBank] = new]
           /\ pc' = "program"
           /\ UNCHANGED <<cal, cal_rev, save, acked>>
  <2>1. UNCHANGED <<cal, cal_rev, file, text, left, sta, again, acked>>
    BY <1>5 DEF save
  <2>2. ASSUME ~ sta PROVE Intact'
    <3>1. Intact
      BY <1>1, <2>2 DEF SaveInv, Writing
    <3>2. flash'[SaveBank] = new /\ SaveBank' = SaveBank /\ NextRev' = NextRev
          /\ Frontier' = p
      BY <1>1, <1>5, <2>1, FlashSet DEF SaveBank, NextRev, Frontier, p
    <3>3. \A i \in 1 .. Len(file.crc) - Len(left) : new[i] = Data(file.crc[i])
      <4> SUFFICES ASSUME NEW i \in 1 .. Len(file.crc) - Len(left)
                   PROVE  new[i] = Data(file.crc[i])
        OBVIOUS
      <4>1. old[i] = Data(file.crc[i])
        BY <3>1 DEF Intact, old
      <4>2. i \in Address /\ ~ (p <= i)
        <5>1. Len(file.crc) \in Nat /\ Len(left) \in Nat
          BY <1>1 DEF RamTypes
        <5>2. Len(file.crc) + 1 <= AreaSize
          BY <1>1, <3>1, FileFits
        <5> QED BY <1>2, <5>1, <5>2, ConstFacts DEF Address
      <4> QED BY <1>3, <4>1, <4>2
    <3>4. BlankFrom(new, p)
      <4>1. p + (EraseSize - (p % EraseSize)) = p + EraseSize
        <5>1. p % EraseSize = 0
          BY <1>1
        <5>2. EraseSize - 0 = EraseSize
          BY <1>2
        <5> QED BY <5>1, <5>2, Zenon
      <4> QED BY <1>3, <4>1 DEF BlankFrom
    <3>5. BlankFrom(flash[SaveBank], Frontier)'
      BY <3>2, <3>4 DEF BlankFrom
    <3>6. /\ file.crc \o text = <<NextRev>> \o cal
          /\ \A i \in 1 .. Len(left) :
               left[i] = file.crc[(Len(file.crc) - Len(left)) + i]
      BY <3>1 DEF Intact
    <3> QED BY <2>1, <3>2, <3>3, <3>5, <3>6 DEF Intact
  <2>3. left' \in Seq(Chars) /\ Len(left') <= Len(left)
    <3>1. left \in Seq(Chars) /\ Len(left) \in Nat
      BY <1>1 DEF RamTypes
    <3> QED BY <2>1, <3>1
  <2> QED BY <1>1, <1>3, <1>4, <1>5, <2>1, <2>2, <2>3, PageDone DEF old
<1>6. CASE /\ \E area \in Partial(old, new) :
                 flash' = [flash EXCEPT ![SaveBank] = area]
           /\ PowerOff \/ WriteFails
  <2>1. PICK area \in Partial(old, new) : flash' = [flash EXCEPT ![SaveBank] = area]
    BY <1>6
  <2> QED BY <1>1, <1>4, <1>6, <2>1, PageCutShort DEF old
<1> QED BY <1>5, <1>6 DEF PageErase, FlashOp, old, new, p, Frontier

LEMMA PageWriteKeeps ==
  ASSUME DInv, PageWrite
  PROVE  DInv'
<1> DEFINE old == flash[SaveBank]
           p == Frontier
           n == PageLen(file, left)
           rest == SubSeq(left, n + 1, Len(left))
           cells == [i \in 1 .. n |-> Data(left[i])]
           new == Write(old, p, cells)
           crc == file.crc
<1>1. /\ pc \in {"page", "program"} /\ (pc = "program" \/ p % EraseSize # 0)
      /\ TypeInv /\ RamTypes /\ SaveInv
  BY DEF DInv, TypeInv, PageWrite, FirstOfBlock, Frontier
<1>2. /\ p \in Nat \ {0} /\ p = 1 + (Len(crc) - Len(left)) /\ EraseSize \in Nat \ {0}
      /\ p % EraseSize \in 0 .. EraseSize - 1
  BY <1>1, FrontierFacts, ConstFacts
<1>3. /\ crc \in Seq(Chars) /\ left \in Seq(Chars) /\ Len(crc) \in Nat /\ Len(left) \in Nat
      /\ Len(left) <= Len(crc)
  BY <1>1 DEF RamTypes
<1>4. n \in Nat /\ n <= Len(left) /\ n <= EraseSize - (p % EraseSize)
  <2>1. n = IF Len(left) < EraseSize - (p % EraseSize) THEN Len(left)
            ELSE EraseSize - (p % EraseSize)
    BY DEF PageLen, Frontier
  <2> DEFINE r == p % EraseSize
  <2> HIDE DEF n, p, r
  <2>2. n = IF Len(left) < EraseSize - r THEN Len(left) ELSE EraseSize - r
    BY <2>1 DEF r
  <2>3. r \in 0 .. EraseSize - 1
    BY <1>2 DEF r
  <2>4. n \in Nat /\ n <= Len(left) /\ n <= EraseSize - r
    BY <1>2, <1>3, <2>2, <2>3
  <2> QED BY <2>4 DEF r
<1> HIDE DEF p, n
<1>5. /\ rest \in Seq(Chars) /\ Len(rest) = Len(left) - n
      /\ \A i \in 1 .. Len(left) - n : rest[i] = left[n + i]
  <2>1. n \in 0 .. Len(left)
    BY <1>3, <1>4
  <2> QED BY <1>3, <2>1, SplitFacts
<1>6. Len(cells) = n /\ \A i \in 1 .. n : cells[i] = Data(left[i])
  BY <1>4
<1> HIDE DEF cells, rest
<1>7. /\ IsArea(new)
      /\ \A a \in Address : new[a] = IF p <= a /\ a < p + n
             THEN Programmed(old[a], cells[(a - p) + 1]) ELSE old[a]
  <2>1. p \in Nat /\ Len(cells) \in Nat /\ Len(cells) = n
    BY <1>2, <1>4, <1>6
  <2>2. /\ IsArea(new)
        /\ \A a \in Address : new[a] = IF p <= a /\ a < p + Len(cells)
               THEN Programmed(old[a], cells[(a - p) + 1]) ELSE old[a]
    BY <2>1, WriteFacts, ZenonT(40)
  <2> QED BY ONLY <2>1, <2>2
<1>8. new[0] = old[0]
  BY <1>2, <1>7, ConstFacts
<1> HIDE DEF old, new, crc
<1>9. CASE /\ flash' = [flash EXCEPT ![SaveBank] = new]
           /\ left' = rest
           /\ pc' = IF rest = << >> THEN "flush" ELSE "page"
           /\ UNCHANGED <<cal, cal_rev, file, text, sta, again, acked>>
  <2>1. left' \in Seq(Chars) /\ Len(left') <= Len(left) /\ Len(left') = Len(left) - n
    BY <1>3, <1>4, <1>5, <1>9
  <2>2. pc' \in {"flush", "page"} /\ (pc' = "flush" => left' = << >>)
    BY <1>9
  <2>3. ASSUME ~ sta PROVE Intact'
    <3>1. /\ crc \o text = <<NextRev>> \o cal
          /\ \A i \in 1 .. Len(left) : left[i] = crc[(Len(crc) - Len(left)) + i]
          /\ \A i \in 1 .. Len(crc) - Len(left) : old[i] = Data(crc[i])
          /\ BlankFrom(old, p)
          /\ Intact
      BY <1>1, <2>3 DEF SaveInv, Writing, Intact, old, crc, p
    <3>2. Len(crc) + 1 <= AreaSize
      BY <1>1, <3>1, FileFits DEF crc
    <3>3. flash'[SaveBank] = new /\ SaveBank' = SaveBank /\ NextRev' = NextRev
          /\ file'.crc = crc /\ text' = text /\ cal' = cal
      BY <1>1, <1>9, FlashSet DEF SaveBank, NextRev, crc
    <3>4. Frontier' = p + n
      <4>1. Frontier' = 1 + (file'.size - Len(left'))
        BY DEF Frontier, PageAddr, HeaderSize
      <4>2. file'.size = Len(crc)
        BY <1>1, <1>9 DEF RamTypes, crc
      <4> QED BY <1>2, <1>3, <1>4, <2>1, <4>1, <4>2
    <3>5. \A i \in 1 .. Len(left') : left'[i] = crc[(Len(crc) - Len(left')) + i]
      <4> SUFFICES ASSUME NEW i \in 1 .. Len(left')
                   PROVE  left'[i] = crc[(Len(crc) - Len(left')) + i]
        OBVIOUS
      <4>1. i \in 1 .. Len(left) - n /\ n + i \in 1 .. Len(left)
            /\ (Len(crc) - Len(left)) + (n + i) = (Len(crc) - Len(left')) + i
        BY <1>3, <1>4, <2>1
      <4>2. left'[i] = left[n + i]
        BY <1>5, <1>9, <4>1
      <4>3. left[n + i] = crc[(Len(crc) - Len(left)) + (n + i)]
        BY <3>1, <4>1
      <4> QED BY <4>1, <4>2, <4>3
    <3>6. \A i \in 1 .. Len(crc) - Len(left') : new[i] = Data(crc[i])
      <4> SUFFICES ASSUME NEW i \in 1 .. Len(crc) - Len(left')
                   PROVE  new[i] = Data(crc[i])
        OBVIOUS
      <4>1. i \in Address /\ i < p + n
        BY <1>2, <1>3, <1>4, <2>1, <3>2, ConstFacts DEF Address
      <4>2. CASE i < p
        <5>1. i \in 1 .. Len(crc) - Len(left) /\ ~ (p <= i)
          BY <1>2, <1>3, <4>2
        <5> QED BY <1>7, <3>1, <4>1, <5>1
      <4>3. CASE p <= i
        <5> DEFINE j == (i - p) + 1
        <5>1. /\ j \in 1 .. n /\ j \in 1 .. Len(left)
              /\ (Len(crc) - Len(left)) + j = i
          BY <1>2, <1>3, <1>4, <4>1, <4>3
        <5>2. new[i] = Programmed(old[i], cells[j])
          BY <1>7, <4>1, <4>3
        <5> HIDE DEF j
        <5>3. cells[j] = Data(crc[i])
          BY <1>6, <3>1, <5>1
        <5>4. i < p + (EraseSize - (p % EraseSize))
          <6> DEFINE m == EraseSize - (p % EraseSize)
          <6>1. n <= m /\ m \in Int
            BY <1>2, <1>4
          <6> HIDE DEF m
          <6>2. i < p + m
            BY <1>2, <1>4, <4>1, <6>1
          <6> QED BY <6>2 DEF m
        <5>5. old[i] = Erased
          BY <3>1, <4>1, <4>3, <5>4 DEF BlankFrom
        <5> QED BY <5>2, <5>3, <5>5 DEF Programmed
      <4>4. i < p \/ p <= i
        BY <1>2
      <4> QED BY <4>2, <4>3, <4>4
    <3>7. ASSUME (p + n) % EraseSize # 0
          PROVE  BlankFrom(new, p + n)
      <4>1. (p + n) % EraseSize = (p % EraseSize) + n
        BY <1>2, <1>4, <3>7, NextPage
      <4>2. (p + n) + (EraseSize - ((p + n) % EraseSize))
              = p + (EraseSize - (p % EraseSize))
        <5> DEFINE r == p % EraseSize
                   s == (p + n) % EraseSize
        <5>1. s = r + n /\ r \in Int
          BY <1>2, <4>1
        <5> HIDE DEF r, s
        <5>2. (p + n) + (EraseSize - s) = p + (EraseSize - r)
          BY <1>2, <1>4, <5>1
        <5> QED BY <5>2 DEF r, s
      <4> SUFFICES ASSUME NEW a \in Address, p + n <= a,
                          a < (p + n) + (EraseSize - ((p + n) % EraseSize))
                   PROVE  new[a] = Erased
        BY DEF BlankFrom
      <4>3. p <= a /\ ~ (a < p + n)
        <5>1. p \in Nat /\ n \in Nat /\ a \in Nat /\ p + n <= a
          BY <1>2, <1>4, ConstFacts DEF Address
        <5> QED BY ONLY <5>1
      <4>4. old[a] = Erased
        BY <3>1, <4>2, <4>3 DEF BlankFrom
      <4> QED BY <1>7, <4>3, <4>4
    <3>8. (Frontier % EraseSize # 0 \/ pc = "program")'
            => BlankFrom(flash[SaveBank], Frontier)'
      BY <2>2, <3>3, <3>4, <3>7 DEF BlankFrom
    <3> QED BY <3>1, <3>3, <3>5, <3>6, <3>8 DEF Intact
  <2> QED BY <1>1, <1>7, <1>8, <1>9, <2>1, <2>2, <2>3, PageDone DEF old
<1>10. CASE /\ \E area \in Partial(old, new) :
                  flash' = [flash EXCEPT ![SaveBank] = area]
            /\ PowerOff \/ WriteFails
  <2>1. PICK area \in Partial(old, new) : flash' = [flash EXCEPT ![SaveBank] = area]
    BY <1>10
  <2> QED BY <1>1, <1>8, <1>10, <2>1, PageCutShort DEF old
<1> QED BY <1>9, <1>10 DEF PageWrite, FlashOp, old, new, cells, rest, n, p, Frontier

\* What the header finds when the file is closed with no step failed.
LEMMA CloseFacts ==
  ASSUME TypeInv, SaveInv, pc = "close"
  PROVE  /\ flash[SaveBank][0] = Erased /\ left = << >> /\ text = << >>
         /\ file.crc \in Seq(Chars) /\ file.crc # << >> /\ file.crc[1] = NextRev
         /\ file.size = Len(file.crc)
         /\ ~ sta => /\ file.crc = <<NextRev>> \o cal
                     /\ Len(file.crc) + 1 <= AreaSize
                     /\ \A i \in 1 .. Len(file.crc) :
                          flash[SaveBank][i] = Data(file.crc[i])
<1>1. /\ flash[SaveBank][0] = Erased /\ left = << >> /\ text = << >>
      /\ file.crc \in Seq(Chars) /\ file.crc # << >> /\ file.crc[1] = NextRev
      /\ file.size = Len(file.crc)
  BY DEF TypeInv, RamTypes, SaveInv, Writing
<1>2. ASSUME ~ sta
      PROVE  /\ file.crc = <<NextRev>> \o cal
             /\ Len(file.crc) + 1 <= AreaSize
             /\ \A i \in 1 .. Len(file.crc) : flash[SaveBank][i] = Data(file.crc[i])
  <2>1. Intact
    BY <1>2 DEF SaveInv, Writing
  <2>2. file.crc \o << >> = file.crc
    BY <1>1
  <2>3. Len(file.crc) - Len(left) = Len(file.crc)
    BY <1>1
  <2> QED BY <1>1, <2>1, <2>2, <2>3, FileFits DEF TypeInv, Intact
<1> QED BY <1>1, <1>2

\* The header in place: it belongs to its bank, and the other cells are as
\* they were.
LEMMA CloseWrites ==
  ASSUME TypeInv, SaveInv, pc = "close",
         NEW new, new = Write(flash[SaveBank], 0, <<Header(file.crc, file.size)>>)
  PROVE  /\ IsArea(new) /\ new[0] = Header(file.crc, Len(file.crc))
         /\ HeaderOK(new, SaveBank)
         /\ \A a \in Address : a # 0 => new[a] = flash[SaveBank][a]
         /\ ~ sta => /\ Good(new)
                     /\ File(new) = <<NextRev>> \o cal
<1> DEFINE old == flash[SaveBank]
           h == Header(file.crc, file.size)
           cells == <<h>>
<1>1. Len(cells) = 1 /\ cells[1] = h
  OBVIOUS
<1> HIDE DEF cells
<1>2. /\ IsArea(new)
      /\ \A a \in Address : new[a] = IF 0 <= a /\ a < 0 + Len(cells)
             THEN Programmed(old[a], cells[(a - 0) + 1]) ELSE old[a]
  <2>1. 0 \in Nat /\ Len(cells) \in Nat /\ new = Write(old, 0, cells)
    BY <1>1 DEF cells
  <2>2. /\ IsArea(Write(old, 0, cells))
        /\ \A a \in Address :
             Write(old, 0, cells)[a] =
               IF 0 <= a /\ a < 0 + Len(cells)
                 THEN Programmed(old[a], cells[(a - 0) + 1]) ELSE old[a]
    BY <2>1, WriteFacts, ZenonT(40)
  <2> QED BY <2>1, <2>2
<1>3. \A a \in Address : a # 0 => new[a] = old[a]
  <2>1. \A a \in Address : a # 0 => ~ (a < 0 + Len(cells))
    BY <1>1, ConstFacts DEF Address
  <2> QED BY <1>2, <2>1
<1>4. new[0] = Programmed(old[0], h)
  <2>1. 0 \in Address /\ 0 <= 0 /\ 0 < 0 + Len(cells) /\ (0 - 0) + 1 = 1
    BY <1>1, ConstFacts
  <2> QED BY <1>1, <1>2, <2>1
<1>5. new[0] = h
  BY <1>4, CloseFacts DEF Programmed
<1>6. new[0] = Header(file.crc, Len(file.crc))
  BY <1>5, CloseFacts
<1>7. HeaderOK(new, SaveBank)
  <2>1. NextRev \in 0 .. RevMod - 1 /\ NextRev % 2 = SaveBank
    BY BankFacts DEF TypeInv, RamTypes
  <2>2. new[0].crc = file.crc /\ new[0].size = Len(file.crc)
    BY <1>6, CellFacts
  <2> QED BY <2>1, <2>2, CloseFacts DEF HeaderOK
<1>8. ASSUME ~ sta PROVE Good(new) /\ File(new) = <<NextRev>> \o cal
  <2>1. /\ file.crc \in Seq(Chars) /\ Len(file.crc) + 1 <= AreaSize
        /\ file.crc = <<NextRev>> \o cal
        /\ \A i \in 1 .. Len(file.crc) : old[i] = Data(file.crc[i])
    BY <1>8, CloseFacts
  <2>2. \A i \in 1 .. Len(file.crc) : i \in Address /\ i # 0
    <3>1. Len(file.crc) \in Nat
      BY <2>1
    <3> QED BY <2>1, <3>1, ConstFacts DEF Address
  <2>3. \A i \in 1 .. Len(file.crc) : new[i] = Data(file.crc[i])
    BY <1>3, <2>1, <2>2
  <2>4. Good(new)
    BY <1>6, <2>1, <2>3, GoodWhen
  <2>5. File(new) = new[0].crc
    BY <1>7, <2>4, GoodFacts
  <2>6. new[0].crc = file.crc
    BY <1>6, CellFacts
  <2>7. File(new) = <<NextRev>> \o cal
    BY <2>1, <2>5, <2>6, Zenon
  <2> QED BY <2>4, <2>7
<1> QED BY <1>2, <1>3, <1>6, <1>7, <1>8

LEMMA TailOfFile ==
  ASSUME NEW c \in Seq(Chars), NEW x \in Chars
  PROVE  /\ Tail(<<x>> \o c) = c /\ Head(<<x>> \o c) = x /\ (<<x>> \o c)[1] = x
         /\ Len(<<x>> \o c) = Len(c) + 1
<1> DEFINE s == <<x>> \o c
<1>1. s \in Seq(Chars) /\ Len(s) = Len(c) + 1 /\ s # << >> /\ s[1] = x
  OBVIOUS
<1>2. \A i \in 1 .. Len(c) : s[i + 1] = c[i]
  OBVIOUS
<1>3. Tail(s) \in Seq(Chars) /\ Len(Tail(s)) = Len(c)
      /\ \A i \in 1 .. Len(c) : Tail(s)[i] = s[i + 1]
  <2> HIDE DEF s
  <2>1. /\ Tail(s) \in Seq(Chars) /\ Len(Tail(s)) = Len(s) - 1
        /\ \A i \in 1 .. Len(Tail(s)) : Tail(s)[i] = s[i + 1]
    BY <1>1, HeadTailProperties
  <2>2. Len(c) \in Nat
    OBVIOUS
  <2> QED BY <1>1, <2>1, <2>2
<1> HIDE DEF s
<1>4. Tail(s) = c
  BY <1>2, <1>3, SeqEqual
<1>5. Head(s) = x
  BY <1>1
<1> QED BY <1>1, <1>4, <1>5 DEF s

LEMMA SaveCloseKeeps ==
  ASSUME DInv, SaveClose
  PROVE  DInv'
<1> DEFINE old == flash[SaveBank]
           new == Write(old, 0, <<Header(file.crc, file.size)>>)
<1>1. pc = "close" /\ pc # "off" /\ TypeInv /\ RamTypes /\ SaveInv /\ AckInv
  BY DEF DInv, TypeInv, SaveClose
<1>2. /\ IsArea(new) /\ HeaderOK(new, SaveBank)
      /\ ~ sta => Good(new) /\ File(new) = <<NextRev>> \o cal
  BY <1>1, CloseWrites
<1>3. ASSUME NEW area \in Partial(old, new)
      PROVE  IsArea(area) /\ HeaderOK(area, SaveBank)
  <2>1. IsArea(area) /\ area[0] \in {old[0], new[0], Garbage}
    BY PartialFacts, ConstFacts
  <2>2. old[0] = Erased
    BY <1>1, CloseFacts
  <2> QED BY <1>2, <2>1, <2>2, CellFacts DEF HeaderOK
<1> HIDE DEF old, new
<1>4. CASE flash' = [flash EXCEPT ![SaveBank] = new] /\ Closed
  <2>1. CASE sta
    <3>1. SaveReturns /\ UNCHANGED <<cal, cal_rev, acked>>
      BY <1>4, <2>1 DEF Closed
    <3> QED BY <1>1, <1>2, <1>4, <3>1, ReturnStep
  <2>2. CASE ~ sta
    <3>1. cal_rev' = NextRev /\ acked' = cal /\ cal' = cal /\ SaveReturns
      BY <1>4, <2>2 DEF Closed, NextRev
    <3>2. NoSave /\ left' = << >> /\ ~ sta' /\ pc' \in {"open", "ready"}
      BY <3>1 DEF SaveReturns, NoSave
    <3>3. NextRev \in 0 .. RevMod - 1 /\ NextRev % 2 = SaveBank /\ NextRev \in Chars
      BY <1>1, BankFacts, RevChars DEF RamTypes
    <3>4. TypeInv'
      <4>1. RamTypes'
        BY <1>1, <3>1, <3>2, <3>3, NoSaveTypes DEF RamTypes, SavePc
      <4> QED BY <1>1, <1>2, <1>4, <4>1, FlashKeeps DEF TypeInv
    <3>5. SaveInv'
      BY <3>2 DEF SaveInv, Writing
    <3>6. AckInv'
      <4>1. OtherBank' = SaveBank /\ flash'[SaveBank] = new
        BY <1>1, <1>4, <3>1, <3>3, FlashSet DEF OtherBank
      <4>2. Good(new) /\ Tail(File(new)) = cal
        <5>1. cal \in Seq(Chars)
          BY <1>1 DEF RamTypes
        <5>2. Tail(<<NextRev>> \o cal) = cal
          BY <3>3, <5>1, TailOfFile
        <5> QED BY <1>2, <2>2, <5>2
      <4> QED BY <3>1, <3>2, <4>1, <4>2 DEF AckInv
    <3> QED BY <3>4, <3>5, <3>6 DEF DInv
  <2> QED BY <2>1, <2>2
<1>5. CASE /\ \E area \in Partial(old, new) :
                 flash' = [flash EXCEPT ![SaveBank] = area]
           /\ \/ PowerOff
              \/ SaveReturns /\ UNCHANGED <<cal, cal_rev, acked>>
  <2>1. PICK area \in Partial(old, new) : flash' = [flash EXCEPT ![SaveBank] = area]
    BY <1>5
  <2> QED BY <1>1, <1>3, <1>5, <2>1, OffStep, ReturnStep
<1> QED BY <1>4, <1>5 DEF SaveClose, FlashOp, old, new

-----------------------------------------------------------------------------
(***************************************************************************)
(* The loads and the commands.                                             *)
(***************************************************************************)

\* What a load finds in the bank it uses: a database that fits, and a
\* revision of the parity of the bank.
LEMMA LoadFacts ==
  ASSUME TypeInv, NEW b \in GoodBanks
  PROVE  /\ b \in Bank /\ Good(flash[b])
         /\ File(flash[b]) = flash[b][0].crc /\ flash[b][0].kind = "header"
         /\ File(flash[b]) \in Seq(Chars) /\ File(flash[b]) # << >>
         /\ Tail(File(flash[b])) \in Seq(Chars)
         /\ Len(Tail(File(flash[b]))) = Len(File(flash[b])) - 1
         /\ Len(Tail(File(flash[b]))) + 2 <= AreaSize
         /\ Rev(b) \in 0 .. RevMod - 1 /\ Rev(b) % 2 = b
<1>1. b \in Bank /\ Good(flash[b]) /\ HeaderOK(flash[b], b)
  BY DEF GoodBanks, TypeInv, FlashTypes
<1> DEFINE area == flash[b]
           s == File(area)
<1>2. /\ area[0].kind = "header" /\ s = area[0].crc
      /\ s \in Seq(Chars) /\ s # << >>
      /\ Len(s) + 1 <= AreaSize
      /\ s[1] \in 0 .. RevMod - 1 /\ s[1] % 2 = b
  <2> HIDE DEF area
  <2>1. Good(area) /\ HeaderOK(area, b)
    BY <1>1 DEF area
  <2> QED BY <2>1, GoodFacts
<1>3. Rev(b) = s[1]
  BY DEF Rev
<1> HIDE DEF s
<1>4. Tail(s) \in Seq(Chars) /\ Len(Tail(s)) = Len(s) - 1
  BY <1>2, HeadTailProperties
<1>5. Len(Tail(s)) + 2 <= AreaSize
  <2>1. Len(s) \in Nat
    BY <1>2
  <2> QED BY <1>2, <1>4, <2>1, ConstFacts
<1> QED BY <1>1, <1>2, <1>3, <1>4, <1>5 DEF s

LEMMA LoadKeeps ==
  ASSUME DInv, pc \in {"off", "ready"}, pc' = "ready", nk_dbase_load,
         UNCHANGED <<flash, save>>
  PROVE  DInv'
<1>1. TypeInv /\ FlashTypes /\ RamTypes /\ SaveInv /\ AckInv
  BY DEF DInv, TypeInv
<1>2. UNCHANGED <<flash, file, text, left, sta, again>>
  BY DEF save
<1>3. SaveInv'
  BY <1>1, <1>2 DEF SaveInv, Writing
<1>4. FlashTypes'
  BY <1>1, <1>2 DEF FlashTypes
<1>5. CASE GoodBanks = {}
  <2>1. UNCHANGED <<cal, cal_rev, acked>>
    BY <1>5 DEF nk_dbase_load
  <2>2. RamTypes'
    BY <1>1, <1>2, <2>1 DEF RamTypes
  <2>3. acked = None
    <3>1. CASE pc = "off"
      BY <1>1, <1>5, <3>1 DEF AckInv
    <3>2. CASE pc # "off"
      <4>1. OtherBank \in Bank
        BY <1>1, BankFacts DEF RamTypes
      <4> QED BY <1>1, <1>5, <3>2, <4>1 DEF AckInv, GoodBanks
    <3> QED BY <3>1, <3>2
  <2>4. AckInv'
    BY <2>1, <2>3 DEF AckInv, None
  <2> QED BY <1>3, <1>4, <2>2, <2>4 DEF DInv, TypeInv
<1>6. CASE GoodBanks # {}
  <2> DEFINE b == UseBank
  <2>1. b \in GoodBanks
    BY <1>6, UseBankFacts
  <2>2. /\ cal_rev' = Rev(b)
        /\ \/ cal' = Tail(File(flash[b])) /\ acked' = Tail(File(flash[b]))
           \/ cal' \in Db /\ acked' = None
    BY <1>6 DEF nk_dbase_load, Parse, Stored
  <2> HIDE DEF b
  <2>3. /\ b \in Bank /\ Good(flash[b])
        /\ Tail(File(flash[b])) \in Seq(Chars)
        /\ Len(Tail(File(flash[b]))) + 2 <= AreaSize
        /\ cal_rev' \in 0 .. RevMod - 1 /\ cal_rev' % 2 = b
    BY <1>1, <2>1, <2>2, LoadFacts
  <2>4. /\ cal' \in Seq(Chars) /\ Len(cal') + 2 <= AreaSize
        /\ acked' \in Seq(Chars)
    BY <2>2, <2>3, DbFacts, EmptySeq DEF None
  <2>5. RamTypes'
    BY <1>1, <1>2, <2>3, <2>4 DEF RamTypes
  <2>6. AckInv'
    <3>1. OtherBank' = b
      BY <2>3 DEF OtherBank
    <3> QED BY <1>2, <2>2, <2>3, <3>1 DEF AckInv, None
  <2> QED BY <1>3, <1>4, <2>5, <2>6 DEF DInv, TypeInv
<1> QED BY <1>5, <1>6

\* A command that changes neither the flash nor the revision.
LEMMA CommandKeeps ==
  ASSUME DInv, pc = "ready", pc' \in {"ready", "open"},
         cal' = cal \/ cal' \in Db, again' \in BOOLEAN,
         UNCHANGED <<flash, cal_rev, file, text, left, sta, acked>>
  PROVE  DInv'
<1>1. TypeInv /\ FlashTypes /\ RamTypes /\ SaveInv /\ AckInv
  BY DEF DInv, TypeInv
<1>2. cal' \in Seq(Chars) /\ Len(cal') + 2 <= AreaSize
  BY <1>1, DbFacts DEF RamTypes
<1>3. RamTypes'
  BY <1>1, <1>2 DEF RamTypes, SavePc
<1>4. FlashTypes'
  BY <1>1 DEF FlashTypes
<1>5. SaveInv'
  BY <1>1 DEF SaveInv, Writing
<1>6. AckInv'
  <2>1. OtherBank \in Bank
    BY <1>1, BankFacts DEF RamTypes
  <2> QED BY <1>1, <2>1, AckKept
<1> QED BY <1>3, <1>4, <1>5, <1>6 DEF DInv, TypeInv

LEMMA CommandsKeep ==
  ASSUME DInv, database_init \/ DbaseLoad \/ DbaseSet \/ DbaseSave \/ DbaseClear
  PROVE  DInv'
<1>0. again \in BOOLEAN
  BY DEF DInv, TypeInv, RamTypes
<1>1. CASE database_init
  BY <1>1, LoadKeeps DEF database_init
<1>2. CASE DbaseLoad
  BY <1>2, LoadKeeps DEF DbaseLoad
<1>3. CASE DbaseSet
  <2>1. UNCHANGED <<file, text, left, sta, again>>
    BY <1>3 DEF DbaseSet, save
  <2> QED BY <1>0, <1>3, <2>1, CommandKeeps DEF DbaseSet
<1>4. CASE DbaseSave
  <2>1. UNCHANGED <<file, text, left, sta, again>>
    BY <1>4 DEF DbaseSave, save
  <2> QED BY <1>0, <1>4, <2>1, CommandKeeps DEF DbaseSave
<1>5. CASE DbaseClear
  <2>1. Defaults \in Db
    BY DbaseAssumption
  <2>2. again' \in BOOLEAN
    BY <1>5 DEF DbaseClear
  <2> QED BY <1>5, <2>1, <2>2, CommandKeeps DEF DbaseClear
<1> QED BY <1>1, <1>2, <1>3, <1>4, <1>5

LEMMA DInit ==
  ASSUME Init
  PROVE  DInv
<1>1. FlashTypes
  <2>1. \A b \in Bank : flash[b] \in {ErasedArea, GarbageArea}
    BY DEF Init
  <2>2. flash = [b \in Bank |-> flash[b]]
    BY DEF Init
  <2>3. ASSUME NEW area \in {ErasedArea, GarbageArea}, NEW b
        PROVE  IsArea(area) /\ HeaderOK(area, b)
    <3>1. area[0] = Erased \/ area[0] = Garbage
      BY ConstFacts DEF ErasedArea, GarbageArea
    <3>2. area[0].kind # "header"
      BY <3>1, CellFacts
    <3>3. IsArea(area)
      BY DEF IsArea, ErasedArea, GarbageArea
    <3> QED BY <3>2, <3>3 DEF HeaderOK
  <2> QED BY <2>1, <2>2, <2>3 DEF FlashTypes
<1>2. RamTypes
  <2>1. cal \in Seq(Chars) /\ Len(cal) + 2 <= AreaSize
    BY DbaseAssumption, DbFacts DEF Init
  <2>2. sta \in BOOLEAN /\ again \in BOOLEAN
    BY DEF Init
  <2>3. /\ file.crc = << >> /\ file.size = 0 /\ text = << >> /\ left = << >>
        /\ acked = << >> /\ pc = "off" /\ cal_rev \in 0 .. RevMod - 1
    BY ConstFacts DEF Init, NewFile, None
  <2> QED BY <2>1, <2>2, <2>3 DEF RamTypes
<1>3. SaveInv /\ AckInv
  BY DEF Init, SaveInv, AckInv, Writing
<1> QED BY <1>1, <1>2, <1>3 DEF DInv, TypeInv

LEMMA DStutter ==
  ASSUME DInv, UNCHANGED vars
  PROVE  DInv'
<1>1. UNCHANGED <<flash, cal, cal_rev, pc, file, text, left, sta, again, acked>>
  BY DEF vars, save
<1>2. TypeInv'
  BY <1>1 DEF DInv, TypeInv, FlashTypes, RamTypes
<1>3. AckInv'
  BY <1>1 DEF DInv, AckInv, GoodBanks, OtherBank
<1>4. SaveInv'
  <2>1. Intact => Intact'
    BY <1>1 DEF Intact, NextRev, SaveBank, Frontier, BlankFrom
  <2> QED BY <1>1, <2>1 DEF DInv, SaveInv, NextRev, SaveBank
<1> QED BY <1>2, <1>3, <1>4 DEF DInv

\* Every step, whether or not the flash reports errors, keeps the invariant.
LEMMA DNext ==
  ASSUME DInv, [Next]_vars
  PROVE  DInv'
<1>1. ASSUME Next PROVE DInv'
  BY <1>1, PowerFailureKeeps, CommandsKeep, SaveOpenKeeps, SaveFlushKeeps,
     SaveFlushedKeeps, PageEraseKeeps, PageWriteKeeps, SaveCloseKeeps DEF Next
<1> QED BY <1>1, DStutter

LEMMA DAlways == Spec => []DInv
BY DInit, DNext, PTL DEF Spec

-----------------------------------------------------------------------------
(***************************************************************************)
(* What holds whether or not the flash reports errors.                     *)
(***************************************************************************)

\* The variables keep their types: the revision in RAM stays a byte, the size
\* of the file is the length of what the CRC was taken of, and every character
\* is one of a database or a revision.
THEOREM DbaseTypes == Spec => []TypeOK
<1>1. ASSUME DInv PROVE TypeOK
  <2>1. TypeInv
    BY <1>1 DEF DInv
  <2>2. DOMAIN flash = Bank /\ \A b \in Bank : DOMAIN flash[b] = Address
    BY <2>1 DEF TypeInv, FlashTypes, IsArea
  <2>3. /\ cal \in Seq(Chars) /\ acked \in Seq(Chars) /\ file.crc \in Seq(Chars)
        /\ text \in Seq(Chars) /\ left \in Seq(Chars)
    BY <2>1 DEF TypeInv, RamTypes
  <2>4. \A s \in {cal, acked, file.crc, text, left} :
          \A i \in DOMAIN s : s[i] \in Chars
    BY <2>3
  <2> QED BY <2>1, <2>2, <2>4 DEF TypeOK, TypeInv, RamTypes
<1> QED BY <1>1, DAlways, PTL

\* Whatever power failures and flash errors do to nk_dbase_save, the database
\* last loaded or reported as saved is in a good bank, a save writing to the
\* bank of the other parity; until nk_dbase_load takes the revision of a text
\* that then does not parse, after which nothing is claimed.
THEOREM OlderAlwaysPreserved == Spec => []OlderPreserved
<1>1. ASSUME DInv PROVE OlderPreserved
  <2>1. OtherBank \in Bank
    BY <1>1, BankFacts DEF DInv, TypeInv, RamTypes
  <2> QED BY <1>1, <2>1 DEF DInv, AckInv, OlderPreserved, GoodBanks
<1> QED BY <1>1, DAlways, PTL

-----------------------------------------------------------------------------
(***************************************************************************)
(* Revisions one apart.                                                    *)
(***************************************************************************)

LEMMA RevWrap ==
  ASSUME NEW m \in Nat \ {0}, NEW d \in Int, - m <= d, d < m
  PROVE  d % m = IF 0 <= d THEN d ELSE d + m
<1>1. CASE 0 <= d
  BY <1>1
<1>2. CASE d < 0
  BY <1>2, ModWrap
<1> QED BY <1>1, <1>2

LEMMA RevArithmetic ==
  ASSUME NEW x \in 0 .. RevMod - 1, NEW y \in 0 .. RevMod - 1
  PROVE  /\ (x - y) % RevMod = 1 <=> y = (x - 1) % RevMod
         /\ (x - y) % RevMod = RevMod - 1 <=> x = (y - 1) % RevMod
         /\ x = (y + 1) % RevMod => y = (x - 1) % RevMod
<1> DEFINE m == RevMod
<1>1. m \in Nat \ {0} /\ m >= 4
  BY ConstFacts
<1>2. x \in 0 .. m - 1 /\ y \in 0 .. m - 1
  OBVIOUS
<1> HIDE DEF m
<1>3. (x - y) % m = IF x >= y THEN x - y ELSE (x - y) + m
  <2> DEFINE d == x - y
  <2>1. d \in Int /\ - m <= d /\ d < m /\ (x >= y <=> 0 <= d)
    BY <1>1, <1>2
  <2> HIDE DEF d
  <2>2. d % m = IF 0 <= d THEN d ELSE d + m
    BY <1>1, <2>1, RevWrap
  <2> QED BY <2>1, <2>2 DEF d
<1>4. ASSUME NEW z \in 0 .. m - 1
      PROVE  /\ (z - 1) % m = IF z >= 1 THEN z - 1 ELSE m - 1
             /\ (z + 1) % m = IF z + 1 < m THEN z + 1 ELSE 0
  <2> DEFINE d == z - 1
             e == z + 1
  <2>1. /\ d \in Int /\ - m <= d /\ d < m /\ (z >= 1 <=> 0 <= d)
        /\ e \in Int /\ 0 <= e /\ e <= m /\ d + m = (z - 1) + m
    BY <1>1
  <2> HIDE DEF d, e
  <2>2. d % m = IF 0 <= d THEN d ELSE d + m
    BY <1>1, <2>1, RevWrap
  <2>3. e % m = IF e < m THEN e ELSE e - m
    <3>1. m <= e => e < m + m
      BY <1>1, <2>1
    <3>2. e < m \/ m <= e
      BY <1>1, <2>1
    <3> QED BY <1>1, <2>1, <3>1, <3>2, ModWrap
  <2> QED BY <1>1, <2>1, <2>2, <2>3 DEF d, e
<1>5. /\ (x - 1) % m = IF x >= 1 THEN x - 1 ELSE m - 1
      /\ (y - 1) % m = IF y >= 1 THEN y - 1 ELSE m - 1
      /\ (y + 1) % m = IF y + 1 < m THEN y + 1 ELSE 0
  BY <1>2, <1>4
<1>6. /\ (x - y) % m = 1 <=> y = (x - 1) % m
      /\ (x - y) % m = m - 1 <=> x = (y - 1) % m
      /\ x = (y + 1) % m => y = (x - 1) % m
  <2> DEFINE a == (x - y) % m
             b == (x - 1) % m
             c == (y - 1) % m
             d == (y + 1) % m
  <2>1. /\ a = IF x >= y THEN x - y ELSE (x - y) + m
        /\ b = IF x >= 1 THEN x - 1 ELSE m - 1
        /\ c = IF y >= 1 THEN y - 1 ELSE m - 1
        /\ d = IF y + 1 < m THEN y + 1 ELSE 0
    BY <1>3, <1>5
  <2> HIDE DEF a, b, c, d
  <2>2. (a = 1 <=> y = b) /\ (a = m - 1 <=> x = c) /\ (x = d => y = b)
    BY <1>1, <1>2, <2>1
  <2> QED BY <2>2 DEF a, b, c, d
<1> QED BY <1>6 DEF m

\* Of two good banks one revision apart, a load uses the one whose revision
\* follows the other's.
LEMMA NewestUsed ==
  ASSUME TypeInv, GoodBanks = Bank, NEW b \in Bank, NEW c \in Bank, b # c
  PROVE  /\ Rev(c) = (Rev(b) - 1) % RevMod => UseBank = b
         /\ RevisionsAdjacent /\ UseBank = b => Rev(c) = (Rev(b) - 1) % RevMod
         /\ Rev(c) = (Rev(b) - 1) % RevMod => RevisionsAdjacent
<1> DEFINE x == Rev(0)
           y == Rev(1)
           d == (x - y) % RevMod
           h == RevMod \div 2
<1>1. x \in 0 .. RevMod - 1 /\ y \in 0 .. RevMod - 1
  BY LoadFacts DEF Bank
<1>2. UseBank = IF d < h THEN 0 ELSE 1
  BY DEF UseBank, ZeroNewer
<1>3. RevisionsAdjacent <=> d \in {1, RevMod - 1}
  BY DEF RevisionsAdjacent
<1>4. RevMod \in Nat /\ RevMod >= 4
  BY ConstFacts
<1>5. 1 < h /\ ~ (RevMod - 1 < h) /\ RevMod - 1 # 1
  BY <1>4
<1>6. (d = 1 <=> y = (x - 1) % RevMod) /\ (d = RevMod - 1 <=> x = (y - 1) % RevMod)
  BY <1>1, RevArithmetic
<1>7. (b = 0 /\ c = 1) \/ (b = 1 /\ c = 0)
  BY DEF Bank
<1>8. CASE b = 0 /\ c = 1
  <2>1. Rev(b) = x /\ Rev(c) = y
    BY <1>8
  <2> HIDE DEF x, y, d, h
  <2>2. y = (x - 1) % RevMod => d = 1 /\ UseBank = b /\ RevisionsAdjacent
    BY <1>2, <1>3, <1>5, <1>6, <1>8
  <2>3. RevisionsAdjacent /\ UseBank = b => d = 1
    BY <1>2, <1>3, <1>5, <1>8
  <2> QED BY <1>6, <2>1, <2>2, <2>3
<1>9. CASE b = 1 /\ c = 0
  <2>1. Rev(b) = y /\ Rev(c) = x
    BY <1>9
  <2> HIDE DEF x, y, d, h
  <2>2. x = (y - 1) % RevMod => d = RevMod - 1 /\ UseBank = b /\ RevisionsAdjacent
    BY <1>2, <1>3, <1>5, <1>6, <1>9
  <2>3. RevisionsAdjacent /\ UseBank = b => d = RevMod - 1
    BY <1>2, <1>3, <1>5, <1>9
  <2> QED BY <1>6, <2>1, <2>2, <2>3
<1> QED BY <1>7, <1>8, <1>9

\* While the board is on, a load would use the bank that is not saved to.
LEMMA UseOther ==
  DInv /\ RInv /\ pc # "off" /\ GoodBanks # {} => UseBank = OtherBank
<1> SUFFICES ASSUME DInv, RInv, pc # "off", GoodBanks # {}
             PROVE  UseBank = OtherBank
  OBVIOUS
<1>1. TypeInv
  BY DEF DInv
<1>2. SaveBank \in Bank /\ OtherBank \in Bank /\ SaveBank # OtherBank
      /\ \A b \in Bank : b = SaveBank \/ b = OtherBank
  BY <1>1, BankFacts DEF TypeInv, RamTypes
<1>3. OtherBank \in GoodBanks /\ Rev(OtherBank) = cal_rev
      /\ \A b \in GoodBanks : b # OtherBank => Rev(b) = (cal_rev - 1) % RevMod
  BY DEF RInv
<1>4. CASE GoodBanks = Bank
  <2>1. Rev(SaveBank) = (Rev(OtherBank) - 1) % RevMod
    BY <1>2, <1>3, <1>4
  <2> QED BY <1>1, <1>2, <1>4, <2>1, NewestUsed
<1>5. CASE GoodBanks # Bank
  <2>1. GoodBanks \subseteq Bank
    BY DEF GoodBanks
  <2>2. GoodBanks = {OtherBank}
    BY <1>2, <1>3, <1>5, <2>1
  <2> QED BY <2>2, UseBankFacts
<1> QED BY <1>4, <1>5

LEMMA UseOtherNext ==
  (DInv /\ RInv /\ pc # "off" /\ GoodBanks # {} => UseBank = OtherBank)'
BY UseOther, PTL

LEMMA NewestUsedNext ==
  (TypeInv /\ GoodBanks = Bank =>
     \A b, c \in Bank : b # c =>
       (Rev(c) = (Rev(b) - 1) % RevMod => UseBank = b /\ RevisionsAdjacent))'
<1>1. TypeInv /\ GoodBanks = Bank =>
        \A b, c \in Bank : b # c =>
          (Rev(c) = (Rev(b) - 1) % RevMod => UseBank = b /\ RevisionsAdjacent)
  BY NewestUsed
<1> QED BY <1>1, PTL

LEMMA UseBankFactsNext == (GoodBanks # {} => UseBank \in GoodBanks)'
<1>1. GoodBanks # {} => UseBank \in GoodBanks
  BY UseBankFacts
<1> QED BY <1>1, PTL

\* What a step of a save may leave in its bank: no good file, the good file
\* that was there, or the new one.
Outcome(area) ==
  /\ area[0].kind = "header" => Len(area[0].crc) >= 2
  /\ Good(area) =>
       \/ Good(flash[SaveBank]) /\ area[0] = flash[SaveBank][0]
       \/ File(area) = <<NextRev>> \o cal

LEMMA HeadersKept ==
  ASSUME TypeInv, RInv, NEW area, flash' = [flash EXCEPT ![SaveBank] = area],
         area[0].kind = "header" => Len(area[0].crc) >= 2
  PROVE  \A b \in Bank : flash'[b][0].kind = "header" => Len(flash'[b][0].crc) >= 2
<1>1. \A b \in Bank : b = SaveBank \/ b = OtherBank
  BY BankFacts DEF TypeInv, RamTypes
<1>2. flash'[SaveBank] = area /\ flash'[OtherBank] = flash[OtherBank]
  BY FlashSet
<1> QED BY <1>1, <1>2 DEF RInv

\* Power fails in a save: revisions stay adjacent, and a load will find the
\* old database or the new one.
LEMMA ROff ==
  ASSUME DInv, DInv', RInv, pc # "off", PowerOff,
         NEW area, flash' = [flash EXCEPT ![SaveBank] = area],
         HeaderOK(area, SaveBank), Outcome(area)
  PROVE  RInv' /\ Stored' \in {Stored, cal}
<1>1. TypeInv /\ RamTypes /\ TypeInv'
  BY DEF DInv, TypeInv
<1>2. PICK s \in Bank, o \in Bank : s = SaveBank /\ o = OtherBank
  BY <1>1, BankFacts DEF RamTypes
<1>3. /\ s # o /\ Bank = {s, o}
      /\ NextRev \in 0 .. RevMod - 1 /\ NextRev % 2 = s
  <2>1. /\ SaveBank # OtherBank /\ \A b \in Bank : b = SaveBank \/ b = OtherBank
        /\ NextRev \in 0 .. RevMod - 1 /\ NextRev % 2 = SaveBank
    BY <1>1, BankFacts DEF RamTypes
  <2> QED BY <1>2, <2>1
<1>4. flash'[s] = area /\ flash'[o] = flash[o]
  BY <1>1, <1>2, FlashSet
<1>5. GoodBanks' = {b \in Bank : Good(flash'[b])} /\ GoodBanks = {b \in Bank : Good(flash[b])}
  BY DEF GoodBanks
<1>6. RInv' <=> RevisionsAdjacent'
  <2>1. pc' = "off" /\ ~ sta' /\ cal' # << >>
    <3>1. Defaults \in Db
      BY DbaseAssumption
    <3> QED BY <3>1, DbFacts DEF PowerOff, NoSave
  <2> QED BY <1>1, <2>1, HeadersKept DEF RInv, Outcome
<1>7. Stored = IF o \in GoodBanks THEN Tail(File(flash[o])) ELSE None
  <2>1. GoodBanks # {} => o \in GoodBanks /\ UseBank = o
    BY <1>2, UseOther DEF RInv
  <2> QED BY <2>1 DEF Stored
<1>8. CASE ~ Good(area)
  <2>1. GoodBanks' = IF o \in GoodBanks THEN {o} ELSE {}
    BY <1>3, <1>4, <1>5, <1>8
  <2>2. RevisionsAdjacent'
    BY <1>3, <2>1 DEF RevisionsAdjacent
  <2>3. o \in GoodBanks => UseBank' = o
    BY <2>1, UseBankFactsNext
  <2>4. Stored' = Stored
    BY <1>4, <1>7, <2>1, <2>3 DEF Stored
  <2> QED BY <1>6, <2>2, <2>4
<1>9. CASE Good(area) /\ Good(flash[s]) /\ area[0] = flash[s][0]
  <2>1. GoodBanks' = GoodBanks
    BY <1>3, <1>4, <1>5, <1>9
  <2>2. File(area) = File(flash[s])
    <3>1. HeaderOK(flash[s], s)
      BY <1>1 DEF TypeInv, FlashTypes
    <3>2. File(flash[s]) = flash[s][0].crc
      BY <1>9, <3>1, GoodFacts
    <3>3. File(area) = area[0].crc
      BY <1>2, <1>9, GoodFacts
    <3> QED BY <1>9, <3>2, <3>3
  <2>3. \A b \in Bank : File(flash'[b]) = File(flash[b])
    BY <1>3, <1>4, <2>2
  <2>4. ZeroNewer' = ZeroNewer /\ RevisionsAdjacent' = RevisionsAdjacent
    BY <2>1, <2>3 DEF ZeroNewer, RevisionsAdjacent, Rev, Bank
  <2>5. UseBank' = UseBank
    BY <2>1, <2>4 DEF UseBank
  <2>6. Stored' = Stored
    <3>1. CASE GoodBanks = {}
      BY <2>1, <3>1 DEF Stored
    <3>2. CASE GoodBanks # {}
      <4>1. UseBank \in Bank
        BY <3>2, UseBankFacts
      <4> QED BY <2>1, <2>3, <2>5, <3>2, <4>1 DEF Stored
    <3> QED BY <3>1, <3>2
  <2>7. RevisionsAdjacent'
    BY <2>4 DEF RInv
  <2> QED BY <1>6, <2>6, <2>7
<1>10. CASE Good(area) /\ File(area) = <<NextRev>> \o cal
  <2>1. cal \in Seq(Chars) /\ NextRev \in Chars
    BY <1>1, <1>3, RevChars DEF RamTypes
  <2>2. Tail(File(area)) = cal /\ File(area)[1] = NextRev
    BY <1>10, <2>1, TailOfFile
  <2>3. s \in GoodBanks'
    BY <1>4, <1>5, <1>10
  <2>4. UseBank' = s /\ RevisionsAdjacent'
    <3>1. CASE o \in GoodBanks
      <4>1. GoodBanks' = Bank
        BY <1>3, <1>4, <1>5, <2>3, <3>1
      <4>2. File(flash'[o])[1] = cal_rev
        BY <1>2, <1>4, <3>1 DEF RInv, Rev
      <4>3. cal_rev = (NextRev - 1) % RevMod
        <5>1. cal_rev \in 0 .. RevMod - 1 /\ NextRev = (cal_rev + 1) % RevMod
          BY <1>1 DEF RamTypes, NextRev
        <5> QED BY <1>3, <5>1, RevArithmetic
      <4>4. Rev(o)' = (Rev(s)' - 1) % RevMod
        BY <1>4, <2>2, <4>2, <4>3 DEF Rev
      <4> QED BY <1>1, <1>3, <4>1, <4>4, NewestUsedNext
    <3>2. CASE o \notin GoodBanks
      <4>1. GoodBanks' = {s}
        BY <1>3, <1>4, <1>5, <2>3, <3>2
      <4>2. UseBank' = s
        BY <4>1, UseBankFactsNext
      <4>3. RevisionsAdjacent'
        BY <1>3, <4>1 DEF RevisionsAdjacent
      <4> QED BY <4>2, <4>3
    <3> QED BY <3>1, <3>2
  <2>5. Stored' = cal
    BY <1>4, <2>2, <2>3, <2>4 DEF Stored
  <2> QED BY <1>6, <2>4, <2>5
<1> QED BY <1>2, <1>8, <1>9, <1>10 DEF Outcome

\* A step of a save that leaves no good file in its bank.
LEMMA ROn ==
  ASSUME DInv, DInv', RInv, pc # "off", pc' # "off",
         UNCHANGED <<cal, cal_rev, sta>>,
         NEW area, flash' = [flash EXCEPT ![SaveBank] = area],
         area[0] = Erased
  PROVE  RInv' /\ Stored' = Stored
<1>1. TypeInv /\ RamTypes
  BY DEF DInv, TypeInv
<1>2. PICK s \in Bank, o \in Bank : s = SaveBank /\ o = OtherBank
  BY <1>1, BankFacts DEF RamTypes
<1>3. s # o /\ Bank = {s, o}
  <2>1. SaveBank # OtherBank /\ \A b \in Bank : b = SaveBank \/ b = OtherBank
    BY <1>1, BankFacts DEF RamTypes
  <2> QED BY <1>2, <2>1
<1>4. flash'[s] = area /\ flash'[o] = flash[o] /\ OtherBank' = o
  BY <1>1, <1>2, FlashSet DEF OtherBank
<1>5. area[0].kind # "header" /\ ~ Good(area)
  BY CellFacts DEF Good
<1>6. GoodBanks' = IF o \in GoodBanks THEN {o} ELSE {}
  <2>1. GoodBanks' = {b \in Bank : Good(flash'[b])}
        /\ GoodBanks = {b \in Bank : Good(flash[b])}
    BY DEF GoodBanks
  <2> QED BY <1>3, <1>4, <1>5, <2>1
<1>7. RInv'
  <2>1. RevisionsAdjacent'
    BY <1>3, <1>6 DEF RevisionsAdjacent
  <2>2. \A b \in Bank : flash'[b][0].kind = "header" => Len(flash'[b][0].crc) >= 2
    BY <1>1, <1>5, HeadersKept
  <2>3. GoodBanks' # {} => OtherBank' \in GoodBanks' /\ Rev(OtherBank)' = cal_rev'
    BY <1>2, <1>4, <1>6 DEF RInv, Rev
  <2>4. \A b \in GoodBanks' : b = OtherBank'
    BY <1>4, <1>6
  <2> QED BY <2>1, <2>2, <2>3, <2>4 DEF RInv
<1>8. Stored' = Stored
  <2>1. GoodBanks # {} => o \in GoodBanks /\ UseBank = o
    BY <1>2, UseOther DEF RInv
  <2>2. GoodBanks' # {} => UseBank' = o
    BY <1>4, <1>7, UseOtherNext
  <2> QED BY <1>4, <1>6, <2>1, <2>2 DEF Stored
<1> QED BY <1>7, <1>8

\* A step that leaves the flash and the revision alone.
LEMMA RSame ==
  ASSUME RInv, pc # "off", UNCHANGED <<flash, cal_rev, sta>>, cal' # << >>
  PROVE  RInv' /\ Stored' = Stored
<1>1. /\ GoodBanks' = GoodBanks /\ OtherBank' = OtherBank
      /\ \A b : Rev(b)' = Rev(b)
  BY DEF GoodBanks, OtherBank, Rev
<1>2. RevisionsAdjacent' = RevisionsAdjacent /\ UseBank' = UseBank /\ Stored' = Stored
  BY DEF RevisionsAdjacent, UseBank, ZeroNewer, Stored, GoodBanks, Rev
<1>3. /\ GoodBanks' # {} => OtherBank' \in GoodBanks' /\ Rev(OtherBank)' = cal_rev'
      /\ GoodBanks' # {} =>
           \A b \in GoodBanks' : b # OtherBank' => Rev(b)' = (cal_rev' - 1) % RevMod
  BY DEF RInv, GoodBanks, OtherBank, Rev
<1> QED BY <1>2, <1>3 DEF RInv

\* The new database is in its bank and the one before it in the other.
LEMMA RClosed ==
  ASSUME DInv, DInv', RInv, pc # "off", SaveReturns,
         cal_rev' = NextRev, cal' = cal,
         NEW area, flash' = [flash EXCEPT ![SaveBank] = area],
         area[0].kind = "header" => Len(area[0].crc) >= 2,
         Good(area), File(area) = <<NextRev>> \o cal
  PROVE  RInv' /\ Stored' = cal
<1>1. TypeInv /\ RamTypes /\ TypeInv'
  BY DEF DInv, TypeInv
<1>2. PICK s \in Bank, o \in Bank : s = SaveBank /\ o = OtherBank
  BY <1>1, BankFacts DEF RamTypes
<1>3. /\ s # o /\ Bank = {s, o}
      /\ NextRev \in 0 .. RevMod - 1 /\ NextRev % 2 = s
  <2>1. /\ SaveBank # OtherBank /\ \A b \in Bank : b = SaveBank \/ b = OtherBank
        /\ NextRev \in 0 .. RevMod - 1 /\ NextRev % 2 = SaveBank
    BY <1>1, BankFacts DEF RamTypes
  <2> QED BY <1>2, <2>1
<1>4. flash'[s] = area /\ flash'[o] = flash[o] /\ OtherBank' = s
  BY <1>1, <1>2, <1>3, FlashSet DEF OtherBank
<1>5. Tail(File(area)) = cal /\ File(area)[1] = NextRev
  <2>1. cal \in Seq(Chars) /\ NextRev \in Chars
    BY <1>1, <1>3, RevChars DEF RamTypes
  <2> QED BY <2>1, TailOfFile
<1>6. s \in GoodBanks' /\ Rev(s)' = NextRev
  BY <1>4, <1>5 DEF GoodBanks, Rev
<1>7. ASSUME o \in GoodBanks' PROVE Rev(o)' = (NextRev - 1) % RevMod
  <2>1. o \in GoodBanks
    BY <1>4, <1>7 DEF GoodBanks
  <2>2. Rev(o) = cal_rev /\ Rev(o)' = Rev(o)
    BY <1>2, <1>4, <2>1 DEF RInv, Rev
  <2>3. cal_rev \in 0 .. RevMod - 1 /\ NextRev = (cal_rev + 1) % RevMod
    BY <1>1 DEF RamTypes, NextRev
  <2> QED BY <1>3, <2>2, <2>3, RevArithmetic
<1>8. pc' # "off" /\ ~ sta'
  BY DEF SaveReturns, NoSave
<1>9. RevisionsAdjacent'
  <2>1. CASE GoodBanks' = Bank
    <3>1. Rev(o)' = (Rev(s)' - 1) % RevMod
      BY <1>6, <1>7, <2>1
    <3> QED BY <1>1, <1>3, <2>1, <3>1, NewestUsedNext
  <2>2. CASE GoodBanks' # Bank
    BY <2>2 DEF RevisionsAdjacent
  <2> QED BY <2>1, <2>2
<1>10. RInv'
  <2>1. \A b \in Bank : flash'[b][0].kind = "header" => Len(flash'[b][0].crc) >= 2
    BY <1>1, HeadersKept
  <2>2. OtherBank' \in GoodBanks' /\ Rev(OtherBank)' = cal_rev'
    BY <1>4, <1>6 DEF Rev
  <2>3. \A b \in GoodBanks' : b # OtherBank' => Rev(b)' = (cal_rev' - 1) % RevMod
    <3>1. GoodBanks' \subseteq Bank
      BY DEF GoodBanks
    <3> QED BY <1>3, <1>4, <1>7, <3>1
  <2> QED BY <1>8, <1>9, <2>1, <2>2, <2>3 DEF RInv
<1>11. Stored' = cal
  <2>1. UseBank' = s
    BY <1>4, <1>6, <1>8, <1>10, UseOtherNext
  <2> QED BY <1>4, <1>5, <1>6, <2>1 DEF Stored
<1> QED BY <1>10, <1>11

LEMMA RLoad ==
  ASSUME DInv, RInv, SInv, pc \in {"off", "ready"}, pc' = "ready", nk_dbase_load,
         UNCHANGED <<flash, save>>
  PROVE  /\ RInv' /\ Stored' = Stored
         /\ cal' = IF Stored = None THEN cal ELSE Stored
<1>1. TypeInv
  BY DEF DInv
<1>2. /\ GoodBanks' = GoodBanks /\ UNCHANGED <<flash, sta>>
      /\ RevisionsAdjacent' = RevisionsAdjacent /\ Stored' = Stored
  BY DEF GoodBanks, RevisionsAdjacent, UseBank, ZeroNewer, Stored, Rev, save
<1>3. CASE GoodBanks = {}
  <2>1. UNCHANGED <<cal, cal_rev, acked>> /\ Stored = None
    BY <1>3 DEF nk_dbase_load, Stored
  <2> QED BY <1>2, <1>3, <2>1 DEF RInv
<1>4. CASE GoodBanks # {}
  <2>1. PICK u \in GoodBanks : u = UseBank
    BY <1>4, UseBankFacts
  <2>2. Stored = Tail(File(flash[u]))
    BY <1>4, <2>1 DEF Stored
  <2>3. /\ u \in Bank /\ Rev(u) \in 0 .. RevMod - 1 /\ Rev(u) % 2 = u
        /\ flash[u][0].kind = "header" /\ File(flash[u]) = flash[u][0].crc
        /\ Tail(File(flash[u])) \in Seq(Chars)
        /\ Len(Tail(File(flash[u]))) = Len(File(flash[u])) - 1
        /\ File(flash[u]) \in Seq(Chars)
    BY <1>1, LoadFacts
  <2>4. Stored # << >>
    <3>1. Len(File(flash[u])) >= 2 /\ Len(File(flash[u])) \in Nat
      BY <2>3 DEF RInv
    <3>2. Len(Stored) >= 1
      BY <2>2, <2>3, <3>1
    <3>3. Len(<< >>) = 0 /\ ~ (0 >= 1)
      OBVIOUS
    <3> QED BY <3>2, <3>3
  <2>5. cal' = Stored /\ cal_rev' = Rev(u)
    <3>1. Stored \in Db
      BY <2>4 DEF SInv, None
    <3> QED BY <1>4, <2>1, <3>1 DEF nk_dbase_load, Parse
  <2>6. OtherBank' = u /\ Rev(u)' = Rev(u)
    BY <1>2, <2>3, <2>5 DEF OtherBank, Rev
  <2>7. ASSUME NEW b \in GoodBanks, b # u PROVE Rev(b)' = (cal_rev' - 1) % RevMod
    <3>1. b \in Bank /\ GoodBanks = Bank
      BY <2>1, <2>3, <2>7 DEF GoodBanks, Bank
    <3>2. Rev(b) = (Rev(u) - 1) % RevMod
      BY <1>1, <2>1, <2>3, <2>7, <3>1, NewestUsed DEF RInv
    <3>3. Rev(b)' = Rev(b)
      BY <1>2 DEF Rev
    <3> QED BY <2>5, <3>2, <3>3
  <2>8. Rev(OtherBank)' = cal_rev'
    BY <1>2, <2>5, <2>6 DEF Rev
  <2>9. RInv'
    BY <1>2, <2>1, <2>4, <2>5, <2>6, <2>7, <2>8 DEF RInv
  <2> QED BY <1>2, <2>4, <2>5, <2>9 DEF None
<1> QED BY <1>3, <1>4

\* A good file is the work of the cells that hold it: an area that agrees
\* with it on the header and on every data cell is good too.
LEMMA GoodBefore ==
  ASSUME NEW old, NEW area, NEW b, HeaderOK(area, b), Good(area), area[0] = old[0],
         \A a \in Address : area[a].kind = "data" => old[a] = area[a]
  PROVE  Good(old)
<1> DEFINE crc == area[0].crc
           n == Len(crc)
<1>1. /\ area[0].kind = "header" /\ area[0].size <= AreaSize - HeaderSize
      /\ Contents(area, area[0].size) = [i \in DOMAIN crc |-> Data(crc[i])]
  BY DEF Good
<1>2. crc \in Seq(Chars) /\ area[0].size = n
  BY <1>1 DEF HeaderOK
<1>3. n \in Nat /\ DOMAIN crc = 1 .. n /\ n + 1 <= AreaSize
  BY <1>1, <1>2, ConstFacts DEF HeaderSize
<1> HIDE DEF n, crc
<1>4. [i \in 1 .. n |-> area[HeaderSize + i - 1]] = [i \in 1 .. n |-> Data(crc[i])]
  BY <1>1, <1>2, <1>3 DEF Contents
<1>5. \A i \in 1 .. n : area[HeaderSize + i - 1] = Data(crc[i])
  BY <1>4
<1>6. \A i \in 1 .. n : HeaderSize + i - 1 \in Address
  BY <1>3, ConstFacts DEF Address, HeaderSize
<1>7. \A i \in 1 .. n : old[HeaderSize + i - 1] = Data(crc[i])
  BY <1>5, <1>6, CellFacts
<1>8. Contents(old, n) = [i \in DOMAIN crc |-> Data(crc[i])]
  BY <1>3, <1>7 DEF Contents
<1> QED BY <1>1, <1>2, <1>8 DEF Good, crc

LEMMA OpenOutcome ==
  ASSUME TypeInv, RInv, NEW area \in Partial(flash[SaveBank], Erase(flash[SaveBank], 0)),
         HeaderOK(area, SaveBank)
  PROVE  Outcome(area)
<1> DEFINE old == flash[SaveBank]
           new == Erase(old, 0)
<1>1. SaveBank \in Bank
  BY BankFacts DEF TypeInv, RamTypes
<1>2. \A a \in Address : new[a] \in {Erased, old[a]}
  BY EraseFacts
<1>3. new[0] = Erased
  <2>1. 0 \in Nat /\ 0 \in Address /\ 0 <= 0 /\ 0 < 0 + EraseSize
    BY ConstFacts
  <2> QED BY <2>1, EraseFacts
<1>4. \A a \in Address : area[a] \in {old[a], new[a], Garbage}
  BY PartialFacts
<1> HIDE DEF old, new
<1>5. ASSUME area[0].kind = "header" PROVE area[0] = old[0]
  BY <1>3, <1>4, <1>5, CellFacts, ConstFacts
<1>6. area[0].kind = "header" => Len(area[0].crc) >= 2
  BY <1>1, <1>5 DEF RInv, old
<1>7. \A a \in Address : area[a].kind = "data" => old[a] = area[a]
  BY <1>2, <1>4, CellFacts
<1>8. ASSUME Good(area) PROVE Good(old) /\ area[0] = old[0]
  <2>1. area[0] = old[0]
    BY <1>5, <1>8, GoodFacts
  <2> QED BY <1>7, <1>8, <2>1, GoodBefore
<1> QED BY <1>6, <1>8 DEF Outcome, old

LEMMA CloseOutcome ==
  ASSUME TypeInv, SaveInv, RInv, pc = "close",
         NEW new, new = Write(flash[SaveBank], 0, <<Header(file.crc, file.size)>>),
         NEW area, area = new \/ area \in Partial(flash[SaveBank], new)
  PROVE  /\ HeaderOK(area, SaveBank) /\ Outcome(area)
         /\ area[0].kind = "header" => Len(area[0].crc) >= 2
<1>1. /\ new[0] = Header(file.crc, Len(file.crc))
      /\ HeaderOK(new, SaveBank)
  BY CloseWrites
<1>2. /\ flash[SaveBank][0] = Erased /\ file.crc = <<NextRev>> \o cal
  BY CloseFacts DEF RInv
<1>3. area[0] \in {Erased, new[0], Garbage}
  BY <1>2, PartialFacts, ConstFacts
<1>4. area[0].kind = "header" => area[0] = new[0]
  BY <1>3, CellFacts
<1>5. HeaderOK(area, SaveBank)
  BY <1>1, <1>4 DEF HeaderOK
<1>6. new[0].crc = <<NextRev>> \o cal
  <2>1. new[0].crc = file.crc
    BY <1>1, CellFacts
  <2> QED BY <1>2, <2>1, Zenon
<1>7. Len(<<NextRev>> \o cal) >= 2
  <2>1. cal \in Seq(Chars) /\ NextRev \in Chars /\ cal # << >>
    BY BankFacts, RevChars DEF TypeInv, RamTypes, RInv
  <2>2. Len(<<NextRev>> \o cal) = Len(cal) + 1
    BY <2>1, TailOfFile
  <2>3. Len(cal) \in Nat /\ Len(cal) # 0
    BY <2>1
  <2> QED BY <2>2, <2>3
<1>8. area[0].kind = "header" => Len(area[0].crc) >= 2
  BY <1>4, <1>6, <1>7
<1>9. ASSUME Good(area) PROVE File(area) = <<NextRev>> \o cal
  <2>1. area[0].kind = "header" /\ File(area) = area[0].crc
    BY <1>5, <1>9, GoodFacts
  <2> QED BY <1>4, <1>6, <2>1
<1> QED BY <1>5, <1>8, <1>9 DEF Outcome

-----------------------------------------------------------------------------
(***************************************************************************)
(* Every step of a save, without errors: what it does to the revisions and *)
(* to what a load would return.                                            *)
(***************************************************************************)

Silent == pc \in SavePc /\ pc' \in SavePc /\ UNCHANGED cal /\ Stored' = Stored
Ends == pc \in SavePc /\ pc' \in {"open", "ready"} /\ UNCHANGED cal /\ Stored' = cal
Dies == /\ pc \in SavePc /\ pc' = "off" /\ cal' = Defaults
        /\ Stored' \in {Stored, cal}

LEMMA RSaveOpen ==
  ASSUME ~ FlashErrors, DInv, DInv', RInv, SaveOpen
  PROVE  RInv' /\ (Silent \/ Dies)
<1> DEFINE old == flash[SaveBank]
           new == Erase(old, 0)
<1>1. pc = "open" /\ TypeInv
  BY DEF SaveOpen, DInv
<1>2. new[0] = Erased
  <2>1. 0 \in Nat /\ 0 \in Address /\ 0 <= 0 /\ 0 < 0 + EraseSize
    BY ConstFacts
  <2> QED BY <2>1, EraseFacts
<1>3. HeaderOK(old, SaveBank)
  BY <1>1, BankFacts DEF TypeInv, FlashTypes, RamTypes
<1>4. CASE /\ flash' = [flash EXCEPT ![SaveBank] = new] /\ pc' = "flush"
           /\ UNCHANGED <<cal, cal_rev, sta>>
  <2> HIDE DEF new
  <2>1. pc # "off" /\ pc' # "off"
    BY <1>1, <1>4
  <2>2. RInv' /\ Stored' = Stored
    BY <1>2, <1>4, <2>1, ROn
  <2> QED BY <1>1, <1>4, <2>2 DEF Silent, SavePc
<1>5. CASE /\ \E area \in Partial(old, new) :
                 flash' = [flash EXCEPT ![SaveBank] = area]
           /\ PowerOff
  <2>1. PICK area \in Partial(old, new) : flash' = [flash EXCEPT ![SaveBank] = area]
    BY <1>5
  <2>2. HeaderOK(area, SaveBank)
    <3>1. area[0] \in {old[0], Erased, Garbage}
      BY <1>2, PartialFacts, ConstFacts
    <3> QED BY <1>3, <3>1, CellFacts DEF HeaderOK
  <2>3. Outcome(area)
    BY <1>1, <2>2, OpenOutcome
  <2>4. RInv' /\ Stored' \in {Stored, cal}
    BY <1>1, <1>5, <2>1, <2>2, <2>3, ROff
  <2> QED BY <1>1, <1>5, <2>4 DEF Dies, SavePc, PowerOff
<1> QED BY <1>4, <1>5 DEF SaveOpen, FlashOp

\* The write of a page, done or cut short.
LEMMA RPage ==
  ASSUME DInv, DInv', RInv, pc \in {"page", "program"},
         NEW new, new[0] = flash[SaveBank][0],
         \/ /\ flash' = [flash EXCEPT ![SaveBank] = new]
            /\ pc' \in {"flush", "page", "program"}
            /\ UNCHANGED <<cal, cal_rev, sta>>
         \/ /\ \E area \in Partial(flash[SaveBank], new) :
                 flash' = [flash EXCEPT ![SaveBank] = area]
            /\ PowerOff
  PROVE  RInv' /\ (Silent \/ Dies)
<1>1. flash[SaveBank][0] = Erased /\ pc # "off" /\ pc \in SavePc
  BY DEF DInv, SaveInv, Writing, SavePc
<1>2. CASE /\ flash' = [flash EXCEPT ![SaveBank] = new]
           /\ pc' \in {"flush", "page", "program"}
           /\ UNCHANGED <<cal, cal_rev, sta>>
  <2>1. pc' # "off"
    BY <1>2
  <2>2. RInv' /\ Stored' = Stored
    BY <1>1, <1>2, <2>1, ROn
  <2> QED BY <1>1, <1>2, <2>2 DEF Silent, SavePc
<1>3. CASE /\ \E area \in Partial(flash[SaveBank], new) :
                 flash' = [flash EXCEPT ![SaveBank] = area]
           /\ PowerOff
  <2>1. PICK area \in Partial(flash[SaveBank], new) :
               flash' = [flash EXCEPT ![SaveBank] = area]
    BY <1>3
  <2>2. area[0] = Erased
    BY <1>1, PartialFacts, ConstFacts
  <2>3. HeaderOK(area, SaveBank) /\ Outcome(area)
    BY <2>2, CellFacts DEF HeaderOK, Outcome, Good
  <2>4. RInv' /\ Stored' \in {Stored, cal}
    BY <1>1, <1>3, <2>1, <2>3, ROff
  <2> QED BY <1>1, <1>3, <2>4 DEF Dies, PowerOff
<1> QED BY <1>2, <1>3

LEMMA RPageErase ==
  ASSUME ~ FlashErrors, DInv, DInv', RInv, PageErase
  PROVE  RInv' /\ (Silent \/ Dies)
<1> DEFINE old == flash[SaveBank]
           new == Erase(old, Frontier)
<1>1. pc \in {"page", "program"} /\ Frontier \in Nat \ {0}
  BY FrontierFacts DEF PageErase, DInv, TypeInv
<1>2. new[0] = old[0]
  <2>1. Frontier \in Nat /\ 0 \in Address /\ ~ (Frontier <= 0)
    BY <1>1, ConstFacts
  <2> QED BY <2>1, EraseFacts
<1> HIDE DEF new
<1>3. \/ /\ flash' = [flash EXCEPT ![SaveBank] = new]
         /\ pc' \in {"flush", "page", "program"}
         /\ UNCHANGED <<cal, cal_rev, sta>>
      \/ /\ \E area \in Partial(flash[SaveBank], new) :
              flash' = [flash EXCEPT ![SaveBank] = area]
         /\ PowerOff
  BY DEF PageErase, FlashOp, new, Frontier, save
<1> QED BY <1>1, <1>2, <1>3, RPage

LEMMA RPageWrite ==
  ASSUME ~ FlashErrors, DInv, DInv', RInv, PageWrite
  PROVE  RInv' /\ (Silent \/ Dies)
<1> DEFINE old == flash[SaveBank]
           n == PageLen(file, left)
           rest == SubSeq(left, n + 1, Len(left))
           cells == [i \in 1 .. n |-> Data(left[i])]
           new == Write(old, Frontier, cells)
<1>1. pc \in {"page", "program"} /\ Frontier \in Nat \ {0}
  BY FrontierFacts DEF PageWrite, DInv, TypeInv
<1>2. new[0] = old[0]
  <2>1. Frontier \in Nat /\ 0 \in Address /\ ~ (Frontier <= 0)
    BY <1>1, ConstFacts
  <2>2. ~ (0 \in Frontier .. Frontier + Len(cells) - 1)
    BY <2>1
  <2> QED BY <2>1, <2>2 DEF Write
<1> HIDE DEF new
<1>3. \/ /\ flash' = [flash EXCEPT ![SaveBank] = new]
         /\ pc' = IF rest = << >> THEN "flush" ELSE "page"
         /\ UNCHANGED <<cal, cal_rev, sta>>
      \/ /\ \E area \in Partial(flash[SaveBank], new) :
              flash' = [flash EXCEPT ![SaveBank] = area]
         /\ PowerOff
  BY DEF PageWrite, FlashOp, new, Frontier
<1>4. \/ /\ flash' = [flash EXCEPT ![SaveBank] = new]
         /\ pc' \in {"flush", "page", "program"}
         /\ UNCHANGED <<cal, cal_rev, sta>>
      \/ /\ \E area \in Partial(flash[SaveBank], new) :
              flash' = [flash EXCEPT ![SaveBank] = area]
         /\ PowerOff
  <2> HIDE DEF rest, cells, n
  <2> QED BY <1>3
<1> QED BY <1>1, <1>2, <1>4, RPage

LEMMA RSaveClose ==
  ASSUME ~ FlashErrors, DInv, DInv', RInv, SaveClose
  PROVE  RInv' /\ (Ends \/ Dies)
<1> DEFINE old == flash[SaveBank]
           new == Write(old, 0, <<Header(file.crc, file.size)>>)
<1>1. pc = "close" /\ pc # "off" /\ TypeInv /\ SaveInv
  BY DEF DInv, SaveClose
<1>2. CASE flash' = [flash EXCEPT ![SaveBank] = new] /\ Closed
  <2>1. ~ sta
    BY DEF RInv
  <2>2. cal_rev' = NextRev /\ cal' = cal /\ SaveReturns
    BY <1>2, <2>1 DEF Closed, NextRev
  <2>3. Good(new) /\ File(new) = <<NextRev>> \o cal
    BY <1>1, <2>1, CloseWrites
  <2>4. new[0].kind = "header" => Len(new[0].crc) >= 2
    BY <1>1, CloseOutcome
  <2> HIDE DEF new
  <2>5. RInv' /\ Stored' = cal
    BY <1>1, <1>2, <2>2, <2>3, <2>4, RClosed
  <2> QED BY <1>1, <2>2, <2>5 DEF Ends, SavePc, SaveReturns
<1>3. CASE /\ \E area \in Partial(old, new) :
                 flash' = [flash EXCEPT ![SaveBank] = area]
           /\ PowerOff
  <2>1. PICK area \in Partial(old, new) : flash' = [flash EXCEPT ![SaveBank] = area]
    BY <1>3
  <2>2. HeaderOK(area, SaveBank) /\ Outcome(area)
    BY <1>1, CloseOutcome
  <2>3. RInv' /\ Stored' \in {Stored, cal}
    BY <1>1, <1>3, <2>1, <2>2, ROff
  <2> QED BY <1>1, <1>3, <2>3 DEF Dies, SavePc, PowerOff
<1> QED BY <1>2, <1>3 DEF SaveClose, FlashOp

LEMMA RFlush ==
  ASSUME RInv, SaveFlush \/ SaveFlushed
  PROVE  RInv' /\ Silent
<1>1. /\ pc = "flush" /\ pc' \in {"page", "close"}
      /\ UNCHANGED <<flash, cal, cal_rev, sta>>
  BY DEF SaveFlush, SaveFlushed, save
<1>2. pc # "off" /\ cal' # << >>
  BY <1>1 DEF RInv
<1> QED BY <1>1, <1>2, RSame DEF Silent, SavePc

LEMMA RPowerFailure ==
  ASSUME RInv, PowerFailure
  PROVE  RInv' /\ Stored' = Stored
<1>1. UNCHANGED flash /\ pc' = "off" /\ ~ sta' /\ cal' = Defaults
  BY DEF PowerFailure, PowerOff, NoSave
<1>2. RevisionsAdjacent' = RevisionsAdjacent /\ Stored' = Stored
  BY <1>1 DEF RevisionsAdjacent, UseBank, ZeroNewer, Stored, GoodBanks, Rev
<1>3. cal' # << >>
  BY <1>1, DbaseAssumption, DbFacts
<1> QED BY <1>1, <1>2, <1>3 DEF RInv

LEMMA RInit ==
  ASSUME Init
  PROVE  RInv /\ Stored = None
<1>1. \A b \in Bank : flash[b] \in {ErasedArea, GarbageArea}
  BY DEF Init
<1>2. \A b \in Bank : flash[b][0].kind # "header"
  <2>1. \A b \in Bank : flash[b][0] \in {Erased, Garbage}
    BY <1>1, ConstFacts DEF ErasedArea, GarbageArea
  <2> QED BY <2>1, CellFacts
<1>3. GoodBanks = {}
  BY <1>2 DEF GoodBanks, Good
<1>4. RevisionsAdjacent /\ Stored = None
  BY <1>3 DEF RevisionsAdjacent, Stored, Bank
<1>5. cal # << >> /\ ~ sta /\ pc = "off"
  BY DbaseAssumption, DbFacts DEF Init
<1> QED BY <1>2, <1>4, <1>5 DEF RInv

\* The abstract store never stores anything but a database.
LEMMA SNext ==
  ASSUME SInv, [Store!Next]_(Store!vars)
  PROVE  SInv'
<1>1. cal \in Db /\ Stored \in Db \cup {None} /\ Defaults \in Db
  BY DbaseAssumption DEF SInv
<1> QED BY <1>1 DEF SInv, Store!Next, Store!vars, Store!Boot, Store!Load, Store!Loaded,
           Store!Set, Store!Save, Store!Saved, Store!NotSaved, Store!PowerFailure

LEMMA RNext ==
  ASSUME ~ FlashErrors, DInv, RInv, SInv, [Next]_vars
  PROVE  RInv' /\ [Store!Next]_(Store!vars)
<1> DEFINE mode == IF pc \in SavePc THEN "saving" ELSE pc
<1>0. DInv'
  BY DNext
<1>1. /\ pc \in SavePc => mode = "saving"
      /\ pc \in {"off", "ready"} => mode = pc
      /\ pc' \in SavePc => mode' = "saving"
      /\ pc' \in {"off", "ready"} => mode' = pc'
      /\ pc \in {"off", "ready"} \cup SavePc
  BY DEF SavePc, DInv, TypeInv, RamTypes
<1>2. ASSUME Silent PROVE UNCHANGED <<Stored, cal, mode>>
  BY <1>1, <1>2 DEF Silent
<1>3. ASSUME Ends PROVE Store!Saved
  <2>1. mode = "saving" /\ mode' \in {"ready", "saving"}
    BY <1>1, <1>3 DEF Ends, SavePc
  <2> QED BY <1>3, <2>1 DEF Ends, Store!Saved
<1>4. ASSUME Dies PROVE Store!PowerFailure
  <2>1. mode = "saving" /\ mode' = "off"
    BY <1>1, <1>4 DEF Dies
  <2> QED BY <1>4, <2>1 DEF Dies, Store!PowerFailure
<1>5. CASE PowerFailure
  <2>1. pc # "off" /\ pc' = "off" /\ cal' = Defaults
    BY <1>5 DEF PowerFailure, PowerOff
  <2>2. mode # "off" /\ mode' = "off"
    BY <1>1, <2>1
  <2>3. RInv' /\ Stored' = Stored
    BY <1>5, RPowerFailure
  <2>4. Store!PowerFailure
    BY <2>1, <2>2, <2>3 DEF Store!PowerFailure
  <2> QED BY <2>3, <2>4 DEF Store!Next
<1>6. CASE database_init
  <2>1. /\ RInv' /\ Stored' = Stored
        /\ cal' = IF Stored = None THEN cal ELSE Stored
    BY <1>6, RLoad DEF database_init
  <2>2. mode = "off" /\ mode' = "ready"
    BY <1>1, <1>6 DEF database_init
  <2>3. Store!Boot
    BY <2>1, <2>2 DEF Store!Boot, Store!Loaded
  <2> QED BY <2>1, <2>3 DEF Store!Next
<1>7. CASE DbaseLoad
  <2>1. /\ RInv' /\ Stored' = Stored
        /\ cal' = IF Stored = None THEN cal ELSE Stored
    BY <1>7, RLoad DEF DbaseLoad
  <2>2. mode = "ready" /\ mode' = "ready"
    BY <1>1, <1>7 DEF DbaseLoad
  <2>3. Store!Load
    BY <2>1, <2>2 DEF Store!Load, Store!Loaded
  <2> QED BY <2>1, <2>3 DEF Store!Next
<1>8. CASE DbaseSet
  <2>1. cal' \in Db /\ cal' # << >> /\ pc # "off"
    BY <1>8, DbFacts DEF DbaseSet
  <2>2. RInv' /\ Stored' = Stored
    BY <1>8, <2>1, RSame DEF DbaseSet, save
  <2>3. mode = "ready" /\ mode' = "ready"
    BY <1>1, <1>8 DEF DbaseSet
  <2>4. Store!Set
    BY <2>1, <2>2, <2>3 DEF Store!Set
  <2> QED BY <2>2, <2>4 DEF Store!Next
<1>9. CASE DbaseSave \/ DbaseClear
  <2>1. /\ pc = "ready" /\ pc' = "open" /\ cal' \in {cal, Defaults}
        /\ UNCHANGED <<flash, cal_rev, sta>>
    BY <1>9 DEF DbaseSave, DbaseClear, save
  <2>2. cal' # << >> /\ pc # "off"
    BY <2>1, DbaseAssumption, DbFacts DEF RInv
  <2>3. RInv' /\ Stored' = Stored
    BY <2>1, <2>2, RSame
  <2>4. mode = "ready" /\ mode' = "saving"
    BY <1>1, <2>1 DEF SavePc
  <2>5. Store!Save
    BY <2>1, <2>3, <2>4 DEF Store!Save
  <2> QED BY <2>3, <2>5 DEF Store!Next
<1>10. CASE SaveOpen
  BY <1>0, <1>2, <1>4, <1>10, RSaveOpen DEF Store!Next, Store!vars
<1>11. CASE SaveFlush \/ SaveFlushed
  BY <1>2, <1>11, RFlush DEF Store!vars
<1>12. CASE PageErase
  BY <1>0, <1>2, <1>4, <1>12, RPageErase DEF Store!Next, Store!vars
<1>13. CASE PageWrite
  BY <1>0, <1>2, <1>4, <1>13, RPageWrite DEF Store!Next, Store!vars
<1>14. CASE SaveClose
  BY <1>0, <1>3, <1>4, <1>14, RSaveClose DEF Store!Next
<1>15. CASE UNCHANGED vars
  <2>1. UNCHANGED <<flash, cal, cal_rev, pc, sta>>
    BY <1>15 DEF vars, save
  <2>2. /\ UNCHANGED Stored
        /\ RInv'
    BY <2>1 DEF RInv, RevisionsAdjacent, UseBank, ZeroNewer, Stored, GoodBanks, Rev, OtherBank
  <2> QED BY <2>1, <2>2 DEF Store!vars
<1> QED BY <1>5, <1>6, <1>7, <1>8, <1>9, <1>10, <1>11, <1>12, <1>13, <1>14, <1>15 DEF Next

-----------------------------------------------------------------------------
(***************************************************************************)
(* What holds when the flash reports no errors; power may fail at any      *)
(* step.                                                                   *)
(***************************************************************************)

LEMMA RAlways ==
  ASSUME ~ FlashErrors
  PROVE  Spec => [](DInv /\ RInv /\ SInv)
<1>1. Init => DInv /\ RInv /\ SInv
  <2>1. Init => cal \in Db
    BY DbaseAssumption DEF Init
  <2> QED BY <2>1, DInit, RInit DEF SInv
<1>2. DInv /\ RInv /\ SInv /\ [Next]_vars => (DInv /\ RInv /\ SInv)'
  BY DNext, RNext, SNext
<1> QED BY <1>1, <1>2, PTL DEF Spec

\* The revision in RAM is that of the bank a load would use, however often
\* revisions have wrapped and saves were cut short: the next save is newer.
THEOREM RevisionsTracked ==
  ASSUME ~ FlashErrors
  PROVE  Spec => []RevisionTracked
<1>1. DInv /\ RInv => RevisionTracked
  BY UseOther DEF RevisionTracked, RInv
<1> QED BY <1>1, RAlways, PTL

\* nk_dbase_save never writes to the bank that a load would use.
THEOREM NewestAlwaysKept ==
  ASSUME ~ FlashErrors
  PROVE  Spec => []NewestKept
<1>1. DInv /\ RInv => NewestKept
  <2> SUFFICES ASSUME DInv, RInv, pc \in SavePc, GoodBanks # {}
               PROVE  UseBank # SaveBank
    BY DEF NewestKept
  <2>1. SaveBank # OtherBank
    BY BankFacts DEF DInv, TypeInv, RamTypes
  <2>2. pc # "off"
    BY DEF SavePc
  <2> QED BY <2>1, <2>2, UseOther
<1> QED BY <1>1, RAlways, PTL

\* Two good banks are one revision apart, so (signed char)(zero_rev - one_rev)
\* tells which is newer.
THEOREM RevisionsStayAdjacent ==
  ASSUME ~ FlashErrors
  PROVE  Spec => []RevisionsAdjacent
<1>1. DInv /\ RInv => RevisionsAdjacent
  BY DEF RInv
<1> QED BY <1>1, RAlways, PTL

\* The two banks implement a store with atomic saves: a load returns the old
\* database or the new one, whichever flash operation of nk_dbase_save a
\* power failure interrupts.
THEOREM BanksImplementStore ==
  ASSUME ~ FlashErrors
  PROVE  Spec => ImplementsStore
<1>1. Init => Store!Init
  BY RInit DEF Init, Store!Init, SavePc
<1>2. DInv /\ RInv /\ SInv /\ [Next]_vars => [Store!Next]_(Store!vars)
  BY RNext
<1> QED BY <1>1, <1>2, RAlways, PTL DEF Spec, ImplementsStore, Store!Spec

=============================================================================
