------------------------------- MODULE NkDbase -------------------------------
(***************************************************************************)
(* The database in flash memory (src/libnklabs/src/nkdbase.c) and its      *)
(* commands (src/database.c): two banks, written in turn, each a checked   *)
(* file that starts with a revision number.                                *)
(*                                                                         *)
(* A database is the sequence of the characters it is serialized to; any   *)
(* other text does not parse.                                              *)
(* Every flash operation may be interrupted by a power failure and, if     *)
(* FlashErrors, may report an error; one that does has not stored all it   *)
(* was given.  Reading flash cannot fail on this port.                     *)
(***************************************************************************)
EXTENDS NkChecked

CONSTANTS
  Db,           \* the databases, as texts: non-empty sequences of characters
  Defaults,     \* cal_defaults
  BufSize,      \* buf_size
  RevMod,       \* revisions are counted modulo this (256)
  FlashErrors   \* may flash_erase and flash_write return an error?

ASSUME DbaseAssumption ==
  /\ Db \subseteq Seq(Nat) \ {<< >>} /\ Defaults \in Db
  /\ \A d \in Db : 1 + Len(d) <= AreaSize - HeaderSize
  /\ BufSize \in Nat \ {0}
  /\ RevMod \in Nat /\ RevMod % 4 = 0 /\ RevMod > 0
  /\ FlashErrors \in BOOLEAN

VARIABLES
  flash,    \* the two banks
  cal, cal_rev,
  pc,       \* "off", "ready", or the next step of a save
  file,     \* ofilt: size and CRC of the file being written
  text,     \* characters that nk_fputc has still to be called with
  left,     \* characters that nk_checked_write has still to write
  sta,      \* has a step of this save failed?
  again,    \* "dbase clear": a second save follows
  acked     \* ghost: the database last loaded, or saved with success; None
            \* before the first and after a load that does not parse

save == <<file, text, left, sta, again>>
vars == <<flash, cal, cal_rev, pc, save, acked>>

None == << >>
Bank == {0, 1}
SavePc == {"open", "flush", "page", "program", "close"}

-----------------------------------------------------------------------------
(***************************************************************************)
(* Which bank is loaded.                                                   *)
(***************************************************************************)

GoodBanks == {b \in Bank : Good(flash[b])}
Rev(b) == File(flash[b])[1]

\* Mutant: revisions compared as plain numbers.
ZeroNewerUnsigned == Rev(0) >= Rev(1)

\* (signed char)(zero_rev - one_rev) >= 0
ZeroNewer == (Rev(0) - Rev(1)) % RevMod < RevMod \div 2

\* use_bank, where there is a good bank.
UseBank ==
  IF GoodBanks = Bank THEN (IF ZeroNewer THEN 0 ELSE 1)
  ELSE CHOOSE b \in GoodBanks : TRUE

\* What a load returns.
Stored == IF GoodBanks = {} THEN None ELSE Tail(File(flash[UseBank]))

\* The text is parsed.  One that is damaged sets the members before the
\* damage; from then on nothing is promised of an earlier database.
Parse ==
  \/ Stored \in Db /\ cal' = Stored /\ acked' = Stored
  \/ Stored \notin Db /\ cal' \in Db /\ acked' = None

\* Mutant: the revision in RAM is not set.
nk_dbase_load_no_rev ==
  \/ GoodBanks = {} /\ UNCHANGED <<cal, cal_rev, acked>>
  \/ GoodBanks # {} /\ Parse /\ UNCHANGED cal_rev

\* The revision is set before the text is parsed.  The result, which tells
\* the three cases apart, is only printed.
nk_dbase_load ==
  \/ GoodBanks = {} /\ UNCHANGED <<cal, cal_rev, acked>>
  \/ GoodBanks # {} /\ cal_rev' = Rev(UseBank) /\ Parse

-----------------------------------------------------------------------------
(***************************************************************************)
(* Power, and the commands of database.c.                                  *)
(***************************************************************************)

NoSave ==
  /\ file' = NewFile
  /\ text' = << >>
  /\ left' = << >>
  /\ sta' = FALSE
  /\ again' = FALSE

\* RAM is lost: at the next boot it holds the defaults and revision 0.
PowerOff ==
  /\ pc' = "off"
  /\ cal' = Defaults
  /\ cal_rev' = 0
  /\ UNCHANGED acked
  /\ NoSave

PowerFailure ==
  /\ pc # "off"
  /\ PowerOff
  /\ UNCHANGED flash

database_init ==
  /\ pc = "off"
  /\ pc' = "ready"
  /\ nk_dbase_load
  /\ UNCHANGED <<flash, save>>

DbaseLoad ==
  /\ pc = "ready"
  /\ nk_dbase_load
  /\ UNCHANGED <<flash, pc, save>>

DbaseSet ==
  /\ pc = "ready"
  /\ cal' \in Db
  /\ UNCHANGED <<flash, cal_rev, pc, save, acked>>

DbaseSave ==
  /\ pc = "ready"
  /\ pc' = "open"
  /\ UNCHANGED <<flash, cal, cal_rev, save, acked>>

DbaseClear ==
  /\ pc = "ready"
  /\ pc' = "open"
  /\ cal' = Defaults
  /\ again' = TRUE
  /\ UNCHANGED <<flash, cal_rev, file, text, left, sta, acked>>

-----------------------------------------------------------------------------
(***************************************************************************)
(* nk_dbase_save, one step for each flash operation.                       *)
(***************************************************************************)

\* Mutant: always the same bank.
SaveBankFixed == 0

SaveBank == (cal_rev + 1) % 2

\* nk_dbase_save returns; "dbase clear" calls it again.
SaveReturns ==
  /\ pc' = IF again THEN "open" ELSE "ready"
  /\ NoSave

\* One flash operation on the bank being saved, and what the code does when
\* it returns 0 and when it does not.
FlashOp(new, Ok, Error) ==
  LET old == flash[SaveBank]
  IN  \/ /\ flash' = [flash EXCEPT ![SaveBank] = new]
         /\ Ok
      \/ /\ FlashErrors
         /\ \E area \in Partial(old, new) \ {new} :
              flash' = [flash EXCEPT ![SaveBank] = area]
         /\ Error
      \/ /\ \E area \in Partial(old, new) :
              flash' = [flash EXCEPT ![SaveBank] = area]
         /\ PowerOff

\* nk_checked_write_open: erase the first block, the header with it.
SaveOpen ==
  /\ pc = "open"
  /\ FlashOp(Erase(flash[SaveBank], 0),
             /\ pc' = "flush"
             /\ file' = NewFile
             /\ text' = <<(cal_rev + 1) % RevMod>> \o cal
             /\ UNCHANGED <<cal, cal_rev, left, sta, again, acked>>,
             /\ SaveReturns
             /\ UNCHANGED <<cal, cal_rev, acked>>)

\* The buffer of nkoutfile is full, or the text ends: nk_checked_write is
\* called with what is in it.
SaveFlush ==
  /\ pc = "flush"
  /\ text # << >>
  /\ LET n == IF Len(text) < BufSize THEN Len(text) ELSE BufSize
         block == SubSeq(text, 1, n)
     IN  /\ file' = AppendBlock(file, block)
         /\ left' = block
         /\ text' = SubSeq(text, n + 1, Len(text))
  /\ pc' = "page"
  /\ UNCHANGED <<flash, cal, cal_rev, sta, again, acked>>

SaveFlushed ==
  /\ pc = "flush"
  /\ text = << >>
  /\ pc' = "close"
  /\ UNCHANGED <<flash, cal, cal_rev, save, acked>>

\* nk_checked_write gives up this block; the character that nk_fputc was
\* called with when the buffer was full is dropped.
WriteFails ==
  /\ pc' = "flush"
  /\ sta' = TRUE
  /\ left' = << >>
  /\ text' = IF text = << >> THEN << >> ELSE Tail(text)
  /\ UNCHANGED <<cal, cal_rev, file, again, acked>>

PageErase ==
  /\ pc = "page"
  /\ FirstOfBlock(file, left)
  /\ FlashOp(Erase(flash[SaveBank], PageAddr(file, left)),
             /\ pc' = "program"
             /\ UNCHANGED <<cal, cal_rev, save, acked>>,
             WriteFails)

PageWrite ==
  /\ pc = "program" \/ (pc = "page" /\ ~ FirstOfBlock(file, left))
  /\ LET n == PageLen(file, left)
         rest == SubSeq(left, n + 1, Len(left))
     IN  FlashOp(Write(flash[SaveBank], PageAddr(file, left),
                       [i \in 1 .. n |-> Data(left[i])]),
                 /\ left' = rest
                 /\ pc' = IF rest = << >> THEN "flush" ELSE "page"
                 /\ UNCHANGED <<cal, cal_rev, file, text, sta, again, acked>>,
                 WriteFails)

\* Mutants: the revision is bumped also when a step has failed; it is kept
\* in more bits in RAM than in flash.
ClosedBumps ==
  /\ cal_rev' = (cal_rev + 1) % RevMod
  /\ acked' = IF sta THEN acked ELSE cal
  /\ UNCHANGED cal
  /\ SaveReturns

ClosedWide ==
  /\ cal_rev' = IF sta THEN cal_rev ELSE cal_rev + 1
  /\ acked' = IF sta THEN acked ELSE cal
  /\ UNCHANGED cal
  /\ SaveReturns

\* The header has been written: the save is a success if every step was.
Closed ==
  /\ cal_rev' = IF sta THEN cal_rev ELSE (cal_rev + 1) % RevMod
  /\ acked' = IF sta THEN acked ELSE cal
  /\ UNCHANGED cal
  /\ SaveReturns

\* nk_checked_write_close, also after an error.
SaveClose ==
  /\ pc = "close"
  /\ FlashOp(Write(flash[SaveBank], 0, <<Header(file.crc, file.size)>>),
             Closed,
             /\ SaveReturns
             /\ UNCHANGED <<cal, cal_rev, acked>>)

-----------------------------------------------------------------------------
\* A new board: the flash is blank, or what was in it is no database.
Init ==
  /\ flash \in [Bank -> {ErasedArea, GarbageArea}]
  /\ pc = "off"
  /\ cal = Defaults
  /\ cal_rev = 0
  /\ file = NewFile
  /\ text = << >>
  /\ left = << >>
  /\ sta = FALSE
  /\ again = FALSE
  /\ acked = None

Next ==
  \/ PowerFailure \/ database_init
  \/ DbaseLoad \/ DbaseSet \/ DbaseSave \/ DbaseClear
  \/ SaveOpen \/ SaveFlush \/ SaveFlushed \/ PageErase \/ PageWrite \/ SaveClose

Spec == Init /\ [][Next]_vars

-----------------------------------------------------------------------------
(***************************************************************************)
(* Properties.                                                             *)
(***************************************************************************)

Chars == (UNION {{d[i] : i \in DOMAIN d} : d \in Db}) \cup (0 .. RevMod - 1)

\* The values each variable takes.
TypeOK ==
  /\ DOMAIN flash = Bank
  /\ \A b \in Bank : DOMAIN flash[b] = Address
  /\ cal_rev \in 0 .. RevMod - 1
  /\ pc \in {"off", "ready"} \cup SavePc
  /\ file.size = Len(file.crc)
  /\ \A s \in {cal, acked, file.crc, text, left} : \A i \in DOMAIN s : s[i] \in Chars
  /\ sta \in BOOLEAN
  /\ again \in BOOLEAN

\* A save never touches the bank that a load would choose, so the newest
\* database outlives a power failure at any step of the next save: "an
\* older version of the database is always preserved" (nkdbase.md:8-10).
NewestKept ==
  pc \in SavePc /\ GoodBanks # {} => UseBank # SaveBank

\* On a flash without errors the revision in RAM is the one of the newest good
\* bank, also after power failures in a save and wraps: the next save gets a
\* newer one.
RevisionTracked ==
  pc # "off" /\ GoodBanks # {} => cal_rev = Rev(UseBank)

\* Two good banks are one revision apart, so the signed comparison of their
\* revisions is right however often they have wrapped.
RevisionsAdjacent ==
  GoodBanks = Bank =>
    (Rev(0) - Rev(1)) % RevMod \in {1, RevMod - 1}

\* Whatever flash errors and power failures do to the saves that follow, the
\* database last loaded, or saved with success, stays in a good bank, until a
\* load finds a text that does not parse (see DatabaseKept).
OlderPreserved ==
  acked # None => \E b \in GoodBanks : Tail(File(flash[b])) = acked

\* "Two areas of memory (banks) are allocated so that an older version of the
\* database is always preserved" (nkdbase.md:8): once a bank holds a database
\* that a load can read, one always does.
ReadableBanks == {b \in GoodBanks : Tail(File(flash[b])) \in Db}
DatabaseKept == [][ReadableBanks # {} => ReadableBanks' # {}]_vars

\* A save "bumps the revision number if the database was successfully saved"
\* (nkdbase.md:63) and else reports "Not saved." (nkdbase.c:90): then what a
\* load returns is what it was.
SaveFails == pc \in SavePc /\ pc' \in {"open", "ready"} /\ cal_rev' = cal_rev
FailedSaveChangesNothing == [][SaveFails => (Stored' = Stored)]_vars

\* The two banks implement a store whose saves are atomic.
Store ==
  INSTANCE NkStore WITH
    stored <- Stored,
    ram <- cal,
    mode <- IF pc \in SavePc THEN "saving" ELSE pc

ImplementsStore == Store!Spec

=============================================================================
