------------------------------- MODULE NkReadline -------------------------------
(***************************************************************************)
(* The command line editor (src/libnklabs/src/nkreadline.c): the line, the *)
(* history kept as NUL terminated strings in one buffer of bytes, and the  *)
(* completion of command names (nk_complete of nkcli.c).                   *)
(*                                                                         *)
(* tty_buf is the sequence of its first tty_len bytes and histbuf that of  *)
(* its first hist_end bytes; hist_idx and tty_cur count from 0 as in the   *)
(* code.  What is echoed is left out.                                      *)
(***************************************************************************)
EXTENDS Integers, Sequences, SequencesExt, FiniteSetsExt

CONSTANTS
  Typed,      \* the printable characters that are typed
  Commands,   \* the names in the command table
  LineSize,   \* NKREADLINE_LINE_SIZE
  HistSize    \* NKREADLINE_HIST_SIZE, "Must be larger than LINE_SIZE"

Space == 32

ASSUME ReadlineAssumption ==
  /\ Typed \subseteq 32 .. 126
  /\ Commands \subseteq Seq(33 .. 126)
  /\ LineSize \in Nat \ {0}
  /\ HistSize \in Nat /\ HistSize > LineSize

VARIABLES
  histbuf, hist_idx,  \* the history and the start of its current line
  tty_buf, tty_cur,   \* the line and the cursor
  changed,            \* has the line been edited?
  mode,               \* 0, 1 after ESC, 2 after ESC [
  tab_count,          \* 2 after a TAB with several matches, then counts down
  pc                  \* "edit", inside the "tab" loop, or in a "command"

hist == <<histbuf, hist_idx>>
vars == <<histbuf, hist_idx, tty_buf, tty_cur, changed, mode, tab_count, pc>>

-----------------------------------------------------------------------------
(***************************************************************************)
(* The history buffer.  h is the pair of histbuf and hist_idx, a record.   *)
(***************************************************************************)

Hist == [buf |-> histbuf, idx |-> hist_idx]
SetHist(h) == histbuf' = h.buf /\ hist_idx' = h.idx

AtEnd(h) == h.idx = Len(h.buf)

\* Index of the NUL that ends the string at i.
NulAt(buf, i) ==
  Min({j \in i .. Len(buf) - 1 : buf[j + 1] = 0} \cup {Len(buf)})

StringAt(h) == SubSeq(h.buf, h.idx + 1, NulAt(h.buf, h.idx))

\* The start of the line before (there is one).
hist_prev(h) ==
  [h EXCEPT !.idx = Max({j \in 0 .. h.idx - 1 : j = 0 \/ h.buf[j] = 0})]

hist_next(h) ==
  IF AtEnd(h) THEN h ELSE [h EXCEPT !.idx = NulAt(h.buf, h.idx) + 1]

\* Mutant: the NUL of the deleted line stays.
hist_del_text(h) ==
  IF AtEnd(h) THEN h
  ELSE [h EXCEPT !.buf = SubSeq(h.buf, 1, h.idx)
                           \o SubSeq(h.buf, NulAt(h.buf, h.idx) + 1, Len(h.buf))]

hist_del(h) ==
  IF AtEnd(h) THEN h
  ELSE [h EXCEPT !.buf = SubSeq(h.buf, 1, h.idx)
                           \o SubSeq(h.buf, NulAt(h.buf, h.idx) + 2, Len(h.buf))]

\* Where a line starts, and the end.
Starts(buf) == {0} \cup {i \in DOMAIN buf : buf[i] = 0}

\* Mutant: the index stays where it was.
evict_unmoved(h, len) ==
  LET cut == Min({s \in Starts(h.buf) : len + (Len(h.buf) - s) <= HistSize})
  IN  [h EXCEPT !.buf = SubSeq(h.buf, cut + 1, Len(h.buf))]

\* Delete oldest lines until len more bytes fit: the loop ends at the first
\* start that leaves room.  The index gives up what is deleted line by line
\* and stays at 0 once it is there.
Evict(h, len) ==
  LET cut == Min({s \in Starts(h.buf) : len + (Len(h.buf) - s) <= HistSize})
  IN  [buf |-> SubSeq(h.buf, cut + 1, Len(h.buf)),
       idx |-> IF h.idx \in Starts(h.buf) /\ h.idx <= cut THEN 0 ELSE h.idx - cut]

hist_ins(h, line) ==
  LET e == Evict(h, Len(line) + 1)
  IN  [e EXCEPT !.buf = SubSeq(e.buf, 1, e.idx) \o line \o <<0>>
                          \o SubSeq(e.buf, e.idx + 1, Len(e.buf))]

-----------------------------------------------------------------------------
(***************************************************************************)
(* The keys.                                                               *)
(***************************************************************************)

SetLine(line, cur) == tty_buf' = line /\ tty_cur' = cur

\* A line that was edited goes into the history at h.
Edited == changed /\ tty_buf # << >>
Saved(h) == IF Edited THEN hist_ins(h, tty_buf) ELSE h

\* strcpy from the history, cursor at the end.
Recall(h) ==
  /\ SetHist(h)
  /\ SetLine(StringAt(h), Len(StringAt(h)))
  /\ changed' = FALSE

\* The line is empty, no line of the history is recalled.
Cleared(h) ==
  /\ SetHist(h)
  /\ SetLine(<< >>, 0)
  /\ changed' = FALSE

\* Beep.
Refused == UNCHANGED <<hist, tty_buf, tty_cur, changed>>

\* Up: storing the line may have made it the oldest.
hist_up ==
  \/ /\ hist_idx # 0
     /\ LET h == Saved(Hist)
        IN  \/ h.idx # 0 /\ Recall(hist_prev(h))
            \/ h.idx = 0 /\ Cleared(h)
  \/ hist_idx = 0 /\ Refused

\* Down: an edited line is stored behind the one it was made from.  From an
\* empty line it recalls the line at the index itself.
hist_down ==
  LET more == ~ AtEnd(Hist) /\ ~ AtEnd(hist_next(Hist))
      stored == IF Edited THEN Saved(hist_next(Hist)) ELSE Hist
      h == IF tty_buf = << >> THEN Hist ELSE hist_next(stored)
  IN  \/ more /\ ~ AtEnd(h) /\ Recall(h)
      \/ more /\ AtEnd(h) /\ Cleared(h)
      \/ ~ more /\ tty_buf # << >> /\ Cleared([stored EXCEPT !.idx = Len(stored.buf)])
      \/ ~ more /\ tty_buf = << >> /\ Refused

MoveTo(cur) == tty_cur' = cur /\ UNCHANGED <<hist, tty_buf, changed>>
cur_left == MoveTo(Max({tty_cur - 1, 0}))
cur_right == MoveTo(Min({tty_cur + 1, Len(tty_buf)}))

\* Mutant: one character more fits in the line.
typech_long(c) ==
  /\ tty_buf' = IF Len(tty_buf) # LineSize THEN InsertAt(tty_buf, tty_cur + 1, c) ELSE tty_buf
  /\ tty_cur' = tty_cur + 1
  /\ changed' = TRUE
  /\ UNCHANGED hist

typech(c) ==
  \/ /\ Len(tty_buf) # LineSize - 1
     /\ SetLine(InsertAt(tty_buf, tty_cur + 1, c), tty_cur + 1)
     /\ changed' = TRUE
     /\ UNCHANGED hist
  \/ Len(tty_buf) = LineSize - 1 /\ Refused

\* Mutant: a deletion does not mark the line as edited.
delch_unmarked(cur) ==
  /\ SetLine(RemoveAt(tty_buf, cur + 1), cur)
  /\ UNCHANGED <<hist, changed>>

\* Delete the character at cur.
delch(cur) ==
  /\ SetLine(RemoveAt(tty_buf, cur + 1), cur)
  /\ changed' = TRUE
  /\ UNCHANGED hist

Backspace ==
  \/ tty_cur # 0 /\ delch(tty_cur - 1)
  \/ tty_cur = 0 /\ Refused

DeleteChar ==
  \/ tty_cur # Len(tty_buf) /\ delch(tty_cur)
  \/ tty_cur = Len(tty_buf) /\ Refused

\* ^C
GiveUp == Cleared([Saved(Hist) EXCEPT !.idx = Len(Saved(Hist).buf)])

-----------------------------------------------------------------------------
(***************************************************************************)
(* prompt_task, one action per character, by the mode it is read in.       *)
(***************************************************************************)

Char == /\ pc = "edit"
        /\ tab_count' = Max({tab_count - 1, 0})

EditKey ==
  /\ mode = 0
  /\ Char
  /\ \/ \E c \in Typed : typech(c)
     \/ Backspace \/ DeleteChar \/ GiveUp
     \/ MoveTo(Len(tty_buf)) \/ MoveTo(0)            \* ^E, ^A
     \/ hist_up \/ hist_down \/ cur_left \/ cur_right
  /\ UNCHANGED <<mode, pc>>

\* Mutant: the recalled line is removed whether or not it was edited.
EnterRemoves ==
  LET stored == IF tty_buf = << >> THEN Hist
                ELSE LET rest == hist_del(Hist)
                     IN  hist_ins([rest EXCEPT !.idx = Len(rest.buf)], tty_buf)
  IN  /\ mode = 0
      /\ Char
      /\ SetHist([stored EXCEPT !.idx = Len(stored.buf)])
      /\ tty_cur' = Len(tty_buf)
      /\ changed' = FALSE
      /\ pc' = "command"
      /\ UNCHANGED <<tty_buf, mode>>

\* Enter: a recalled line that was not edited moves to the end of the
\* history.  The callback is called with the line.
Enter ==
  LET rest == IF changed THEN Hist ELSE hist_del(Hist)
      stored == IF tty_buf = << >> THEN Hist
                ELSE hist_ins([rest EXCEPT !.idx = Len(rest.buf)], tty_buf)
  IN  /\ mode = 0
      /\ Char
      /\ SetHist([stored EXCEPT !.idx = Len(stored.buf)])
      /\ tty_cur' = Len(tty_buf)
      /\ changed' = FALSE
      /\ pc' = "command"
      /\ UNCHANGED <<tty_buf, mode>>

\* ESC, then [, then the letter of an arrow; any other character ends it.
Escape ==
  /\ \/ mode = 0 /\ mode' = 1
     \/ mode = 1 /\ mode' \in {0, 2}
  /\ Char
  /\ UNCHANGED <<hist, tty_buf, tty_cur, changed, pc>>

Arrow ==
  /\ mode = 2
  /\ Char
  /\ hist_up \/ hist_down \/ cur_left \/ cur_right \/ Refused
  /\ mode' = 0
  /\ UNCHANGED pc

\* TAB: behind a space the help of the command is shown and the line typed
\* again; otherwise the loop of the completion starts.
Tab ==
  /\ mode = 0
  /\ Char
  /\ IF tty_buf # << >> /\ Last(tty_buf) = Space
       THEN tty_cur' = Len(tty_buf) /\ UNCHANGED pc
       ELSE pc' = "tab" /\ UNCHANGED tty_cur
  /\ UNCHANGED <<hist, tty_buf, changed, mode>>

\* nk_complete: the characters that may follow the line, a space behind a
\* whole name.
Completions(line) ==
  {IF Len(name) = Len(line) THEN Space ELSE name[Len(line) + 1] :
     name \in {n \in Commands : IsPrefix(line, n)}}

\* Mutant: it is the space in the line that ends the loop, not the one that
\* was to be typed.
CompleteUntilTyped ==
  LET next == Completions(tty_buf)
      cur == IF tab_count # 0 THEN Len(tty_buf) ELSE tty_cur
      full == Len(tty_buf) = LineSize - 1
  IN  /\ pc = "tab"
      /\ \/ /\ Cardinality(next) = 1
            /\ \E c \in next :
                 /\ SetLine(IF full THEN tty_buf ELSE InsertAt(tty_buf, cur + 1, c),
                            IF full THEN cur ELSE cur + 1)
                 /\ changed' = (changed \/ ~ full)
                 /\ pc' = IF c = Space /\ ~ full THEN "edit" ELSE "tab"
            /\ UNCHANGED tab_count
         \/ /\ Cardinality(next) # 1
            /\ tty_cur' = cur
            /\ tab_count' = IF next = {} THEN tab_count ELSE 2
            /\ pc' = "edit"
            /\ UNCHANGED <<tty_buf, changed>>
      /\ UNCHANGED <<hist, mode>>

\* One round of the loop.  When the matches are listed the line is typed
\* again, which moves the cursor to its end.  typech only beeps when the line
\* is full; the space behind a whole name ends the loop all the same.
Complete ==
  LET next == Completions(tty_buf)
      cur == IF tab_count # 0 THEN Len(tty_buf) ELSE tty_cur
      full == Len(tty_buf) = LineSize - 1
  IN  /\ pc = "tab"
      /\ \/ /\ Cardinality(next) = 1
            /\ \E c \in next :
                 /\ SetLine(IF full THEN tty_buf ELSE InsertAt(tty_buf, cur + 1, c),
                            IF full THEN cur ELSE cur + 1)
                 /\ changed' = (changed \/ ~ full)
                 /\ pc' = IF c = Space THEN "edit" ELSE "tab"
            /\ UNCHANGED tab_count
         \/ /\ Cardinality(next) # 1
            /\ tty_cur' = cur
            /\ tab_count' = IF next = {} THEN tab_count ELSE 2
            /\ pc' = "edit"
            /\ UNCHANGED <<tty_buf, changed>>
      /\ UNCHANGED <<hist, mode>>

\* The command returns, or the program it gave the console to: a new line.
nk_readline ==
  /\ pc = "command"
  /\ SetLine(<< >>, 0)
  /\ changed' = FALSE
  /\ pc' = "edit"
  /\ UNCHANGED <<hist, mode, tab_count>>

Init ==
  /\ histbuf = << >> /\ hist_idx = 0
  /\ tty_buf = << >> /\ tty_cur = 0
  /\ changed = FALSE
  /\ mode = 0
  /\ tab_count = 0
  /\ pc = "command"

Next ==
  \/ EditKey \/ Enter \/ Escape \/ Arrow \/ Tab
  \/ Complete
  \/ nk_readline

\* The loop of the completion runs on; nothing is assumed of the operator.
Spec == Init /\ [][Next]_vars /\ WF_vars(Complete)

-----------------------------------------------------------------------------
\* The line leaves room for its NUL and the cursor is in it, the history
\* fits its buffer.
TypeOK ==
  /\ histbuf \in Seq(0 .. 126) /\ Len(histbuf) <= HistSize
  /\ hist_idx \in Nat
  /\ tty_buf \in Seq(32 .. 126) /\ Len(tty_buf) <= LineSize - 1
  /\ tty_cur \in 0 .. Len(tty_buf)
  /\ changed \in BOOLEAN
  /\ mode \in 0 .. 2
  /\ tab_count \in 0 .. 2
  /\ pc \in {"edit", "tab", "command"}

\* The history is a row of strings, none empty, each with its NUL, and the
\* index is at the start of one or at the end: strlen, hist_prev and hist_del
\* never see half a line or stale bytes, whatever was evicted.
WholeLines ==
  /\ hist_idx \in Starts(histbuf)
  /\ Len(histbuf) \in Starts(histbuf)
  /\ \A i \in Starts(histbuf) : i < Len(histbuf) => histbuf[i + 1] # 0

\* The lines of the history: the n-th is what is in front of the n-th NUL.
Nuls(n) == {i \in 1 .. n : i \in DOMAIN histbuf /\ histbuf[i] = 0}
NthNul(n) ==
  IF n = 0 THEN 0
  ELSE CHOOSE i \in Nuls(Len(histbuf)) : Cardinality(Nuls(i)) = n
LineList ==
  [n \in 1 .. Cardinality(Nuls(Len(histbuf))) |->
     SubSeq(histbuf, NthNul(n - 1) + 1, NthNul(n) - 1)]

History ==
  INSTANCE NkHistory WITH
    lines <- LineList,
    pos <- Cardinality(Nuls(hist_idx)) + 1,
    line <- IF pc = "command" THEN << >> ELSE tty_buf

\* The editor keeps the history that NkHistory promises: no line that was
\* edited is lost, and lines leave it only by age or by being entered again.
ImplementsHistory == History!Spec

\* What Enter deletes as the recalled line (nkreadline.c:392) is that line.
RecalledIsStored == History!RecalledIsStored

\* A TAB comes to an end, also when the name fills the line and the space
\* behind it is not typed (nkreadline.c:326).  It needs names that fit the
\* line, as those of the program do: on the front part of a longer one, a
\* full line, the loop would spin.
CompletionEnds == pc = "tab" ~> pc # "tab"

=============================================================================
