--------------------------- MODULE NkReadline_proofs ---------------------------
(***************************************************************************)
(* The line editor and its history, for every command table, line size and *)
(* history size: the history stays a row of whole lines whatever is stored,*)
(* evicted or deleted, no line outgrows its buffer, a line that is not     *)
(* edited is the one the history has at the index, and the bytes implement *)
(* the list of lines of NkHistory.                                         *)
(***************************************************************************)
EXTENDS NkReadline, SequenceLemmas

Byte == {0} \cup 32 .. 126
Printable == 32 .. 126

LEMMA PrintableBytes ==
  /\ \A c \in Printable : c # 0 /\ c \in Byte
  /\ \A c \in Byte : c # 0 => c \in Printable
  /\ 0 \in Byte
BY DEF Byte, Printable

-----------------------------------------------------------------------------
(***************************************************************************)
(* Where lines start.                                                      *)
(***************************************************************************)

LEMMA StartsAre ==
  ASSUME NEW buf \in Seq(Byte)
  PROVE  /\ Len(buf) \in Nat
         /\ 0 \in Starts(buf)
         /\ \A i \in Starts(buf) : i \in Nat /\ i <= Len(buf)
         /\ \A i \in 1 .. Len(buf) : i \in Starts(buf) <=> buf[i] = 0
         /\ \A i : i \in Starts(buf) /\ i # 0 => i \in 1 .. Len(buf)
BY DEF Starts

\* The least element of a set of naturals, as Min chooses it.
LEMMA MinOf ==
  ASSUME NEW T, T \subseteq Nat, T # {}
  PROVE  Min(T) \in T /\ \A y \in T : Min(T) <= y
BY LeastNat DEF Min

\* Likewise the greatest element of a set of naturals with a bound.
LEMMA MaxOf ==
  ASSUME NEW T, T \subseteq Nat, T # {}, NEW b \in Nat, \A y \in T : y <= b
  PROVE  Max(T) \in T /\ \A y \in T : Max(T) >= y
<1> DEFINE D == {b - y : y \in T}
<1>1. D \subseteq Nat /\ D # {}
  <2>1. PICK y \in T : TRUE
    OBVIOUS
  <2>2. b - y \in D
    OBVIOUS
  <2>3. ASSUME NEW e \in D PROVE e \in Nat
    <3>1. PICK z \in T : e = b - z
      OBVIOUS
    <3>2. z \in Nat /\ z <= b
      OBVIOUS
    <3> HIDE DEF D
    <3> QED BY <3>1, <3>2
  <2> HIDE DEF D
  <2> QED BY <2>2, <2>3
<1>2. PICK d \in D : \A e \in D : d <= e
  <2> HIDE DEF D
  <2> QED BY <1>1, LeastNat
<1>3. PICK x \in T : d = b - x
  OBVIOUS
<1>4. \A y \in T : x >= y
  <2> TAKE y \in T
  <2>1. b - y \in D
    OBVIOUS
  <2> HIDE DEF D
  <2>2. d <= b - y
    BY <1>2, <2>1
  <2> QED BY <1>3, <2>2
<1> HIDE DEF D
<1> QED BY <1>4 DEF Max

-----------------------------------------------------------------------------
(***************************************************************************)
(* A row of lines: none is empty, each has its NUL and leaves room for it  *)
(* in the edit buffer.                                                     *)
(***************************************************************************)

Rows(buf) ==
  /\ Len(buf) \in Starts(buf)
  /\ \A i \in Starts(buf) : i < Len(buf) =>
       /\ i + 1 \notin Starts(buf)
       /\ \E j \in Starts(buf) : i < j /\ j <= i + LineSize

\* The history as the functions of nkreadline.c leave it.
Good(h) ==
  /\ h = [buf |-> h.buf, idx |-> h.idx]
  /\ h.buf \in Seq(Byte)
  /\ Len(h.buf) <= HistSize
  /\ h.idx \in Starts(h.buf)
  /\ Rows(h.buf)

\* The line that starts at the index.
LineAt(h, line) ==
  /\ (h.idx + Len(line)) + 1 <= Len(h.buf)
  /\ \A k \in 1 .. Len(line) : h.buf[h.idx + k] = line[k]
  /\ h.buf[(h.idx + Len(line)) + 1] = 0

\* strlen from the start of a line: it ends inside the history, it has a
\* character, and it fits the edit buffer.
LEMMA NulFacts ==
  ASSUME NEW buf \in Seq(Byte), Rows(buf), NEW i \in Starts(buf), i < Len(buf)
  PROVE  /\ i \in Nat /\ NulAt(buf, i) \in Nat
         /\ i + 1 <= NulAt(buf, i) /\ NulAt(buf, i) + 1 <= Len(buf)
         /\ NulAt(buf, i) - i <= LineSize - 1
         /\ buf[NulAt(buf, i) + 1] = 0
         /\ NulAt(buf, i) + 1 \in Starts(buf)
         /\ \A k \in i + 1 .. NulAt(buf, i) : buf[k] # 0
<1>1. LineSize \in Nat
  BY ReadlineAssumption
<1>2. i \in Nat /\ Len(buf) \in Nat
  BY StartsAre
<1> DEFINE T == {j \in i .. Len(buf) - 1 : buf[j + 1] = 0} \cup {Len(buf)}
           n == Min(T)
<1>3. PICK j \in Starts(buf) : i < j /\ j <= i + LineSize
  BY DEF Rows
<1>4. j \in 1 .. Len(buf) /\ buf[j] = 0
  BY <1>2, <1>3, StartsAre
<1>5. j - 1 \in T
  <2>1. j - 1 \in i .. Len(buf) - 1 /\ (j - 1) + 1 = j
    BY <1>2, <1>3, <1>4
  <2> QED BY <1>4, <2>1
<1>6. T \subseteq Nat
  BY <1>2
<1>7. \A x \in T : x = Len(buf) \/ (x \in i .. Len(buf) - 1 /\ buf[x + 1] = 0)
  OBVIOUS
<1>8. \A x \in i .. Len(buf) - 1 : buf[x + 1] = 0 => x \in T
  OBVIOUS
<1>9. NulAt(buf, i) = n
  BY DEF NulAt
<1> HIDE DEF T
<1>10. n \in T /\ \A y \in T : n <= y
  BY <1>5, <1>6, MinOf
<1> HIDE DEF n
<1>11. n \in i .. Len(buf) - 1 /\ buf[n + 1] = 0 /\ n <= j - 1
  BY <1>2, <1>4, <1>5, <1>7, <1>10
<1>12. n + 1 \in Starts(buf)
  <2>1. n + 1 \in 1 .. Len(buf)
    BY <1>2, <1>11
  <2> QED BY <1>11, <2>1, StartsAre
<1>13. n # i
  BY <1>12 DEF Rows
<1>14. ASSUME NEW k \in i + 1 .. n PROVE buf[k] # 0
  <2>1. k - 1 \in i .. Len(buf) - 1 /\ (k - 1) + 1 = k /\ ~ (n <= k - 1)
    BY <1>2, <1>11
  <2> QED BY <1>8, <1>10, <2>1
<1> QED BY <1>1, <1>2, <1>3, <1>4, <1>9, <1>11, <1>12, <1>13, <1>14

-----------------------------------------------------------------------------
(***************************************************************************)
(* The bytes after memmove and memcpy: a part taken out, a part put in.    *)
(***************************************************************************)

LEMMA CutElements ==
  ASSUME NEW S, NEW s \in Seq(S), NEW i \in 0 .. Len(s), NEW j \in i .. Len(s)
  PROVE  LET r == SubSeq(s, 1, i) \o SubSeq(s, j + 1, Len(s))
         IN  /\ r \in Seq(S)
             /\ Len(r) = Len(s) - (j - i)
             /\ \A k \in 1 .. i : r[k] = s[k]
             /\ \A k \in i + 1 .. Len(s) - (j - i) : r[k] = s[k + (j - i)]
<1> DEFINE a == SubSeq(s, 1, i)
           b == SubSeq(s, j + 1, Len(s))
<1>1. Len(s) \in Nat /\ i \in Nat /\ j \in Nat /\ i <= j /\ j <= Len(s) /\ j \in 0 .. Len(s)
  OBVIOUS
<1>2. a \in Seq(S) /\ Len(a) = i /\ \A k \in 1 .. i : a[k] = s[k]
  BY SplitFacts
<1>3. b \in Seq(S) /\ Len(b) = Len(s) - j /\ \A k \in 1 .. Len(s) - j : b[k] = s[j + k]
  BY <1>1, SplitFacts
<1> HIDE DEF a, b
<1> DEFINE r == a \o b
<1>4. /\ r \in Seq(S) /\ Len(r) = Len(a) + Len(b)
      /\ \A k \in 1 .. Len(a) : r[k] = a[k]
      /\ \A k \in 1 .. Len(b) : r[Len(a) + k] = b[k]
  <2>1. a \in Seq(S) /\ b \in Seq(S)
    BY <1>2, <1>3
  <2> QED BY ONLY <2>1
<1> HIDE DEF r
<1>5. r \in Seq(S) /\ Len(r) = Len(s) - (j - i)
  BY <1>1, <1>2, <1>3, <1>4
<1>6. \A k \in 1 .. i : r[k] = s[k]
  BY <1>2, <1>4
<1>7. ASSUME NEW k \in i + 1 .. Len(s) - (j - i) PROVE r[k] = s[k + (j - i)]
  <2>1. k - i \in 1 .. Len(s) - j /\ i + (k - i) = k /\ j + (k - i) = k + (j - i)
    BY <1>1
  <2>2. r[i + (k - i)] = b[k - i]
    BY <1>2, <1>3, <1>4, <2>1
  <2>3. b[k - i] = s[j + (k - i)]
    BY <1>3, <2>1
  <2> QED BY <2>1, <2>2, <2>3
<1> QED BY <1>5, <1>6, <1>7 DEF a, b, r

\* r is s with line and its NUL, n bytes, put in front of the byte at i.
With(r, s, i, line, n) ==
  /\ r \in Seq(Byte)
  /\ n = Len(line) + 1
  /\ Len(r) = Len(s) + n
  /\ \A k \in 1 .. i : r[k] = s[k]
  /\ \A k \in 1 .. Len(line) : r[i + k] = line[k]
  /\ r[i + n] = 0
  /\ \A k \in i + 1 .. Len(s) : r[k + n] = s[k]

LEMMA SpliceElements ==
  ASSUME NEW s \in Seq(Byte), NEW i \in 0 .. Len(s), NEW l \in Seq(Byte),
         NEW t, t = SubSeq(s, 1, i) \o l \o << 0 >> \o SubSeq(s, i + 1, Len(s))
  PROVE  With(t, s, i, l, Len(l) + 1)
<1> DEFINE S == Byte
           z == 0
<1>0. s \in Seq(S) /\ l \in Seq(S) /\ z \in S
  BY PrintableBytes
<1> HIDE DEF S, z
<1> DEFINE a == SubSeq(s, 1, i)
           b == SubSeq(s, i + 1, Len(s))
           c == a \o l
           e == <<z>>
           d == c \o e
           r == d \o b
<1>1. Len(s) \in Nat /\ i \in Nat /\ i <= Len(s) /\ Len(l) \in Nat
  BY <1>0
<1>2. /\ a \in Seq(S) /\ Len(a) = i /\ \A k \in 1 .. i : a[k] = s[k]
      /\ b \in Seq(S) /\ Len(b) = Len(s) - i
      /\ \A k \in 1 .. Len(s) - i : b[k] = s[i + k]
  BY <1>0, SplitFacts
<1>3. e \in Seq(S) /\ Len(e) = 1 /\ e[1] = z
  BY <1>0
<1> HIDE DEF a, b, e
<1>4. /\ c \in Seq(S) /\ Len(c) = Len(a) + Len(l)
      /\ \A k \in 1 .. Len(a) : c[k] = a[k]
      /\ \A k \in 1 .. Len(l) : c[Len(a) + k] = l[k]
  <2>1. a \in Seq(S) /\ l \in Seq(S)
    BY <1>0, <1>2
  <2> QED BY ONLY <2>1
<1> HIDE DEF c
<1>5. /\ d \in Seq(S) /\ Len(d) = Len(c) + Len(e)
      /\ \A k \in 1 .. Len(c) : d[k] = c[k]
      /\ \A k \in 1 .. Len(e) : d[Len(c) + k] = e[k]
  <2>1. c \in Seq(S) /\ e \in Seq(S)
    BY <1>3, <1>4
  <2> QED BY ONLY <2>1
<1> HIDE DEF d
<1>6. /\ r \in Seq(S) /\ Len(r) = Len(d) + Len(b)
      /\ \A k \in 1 .. Len(d) : r[k] = d[k]
      /\ \A k \in 1 .. Len(b) : r[Len(d) + k] = b[k]
  <2>1. d \in Seq(S) /\ b \in Seq(S)
    BY <1>2, <1>5
  <2> QED BY ONLY <2>1
<1> HIDE DEF r
<1> DEFINE n == Len(l) + 1
<1>7. n \in Nat /\ Len(c) = i + Len(l) /\ Len(d) = i + n /\ (i + Len(l)) + 1 = i + n
  BY <1>1, <1>2, <1>3, <1>4, <1>5
<1>8. r \in Seq(S) /\ Len(r) = Len(s) + n
  BY <1>1, <1>2, <1>6, <1>7
<1>9. ASSUME NEW k \in 1 .. i PROVE r[k] = s[k]
  <2>1. k \in 1 .. Len(a) /\ k \in 1 .. Len(c) /\ k \in 1 .. Len(d)
    BY <1>1, <1>2, <1>7
  <2> QED BY <1>2, <1>4, <1>5, <1>6, <2>1
<1>10. ASSUME NEW k \in 1 .. Len(l) PROVE r[i + k] = l[k]
  <2>1. i + k \in 1 .. Len(c) /\ i + k \in 1 .. Len(d)
    BY <1>1, <1>7
  <2>2. c[i + k] = l[k]
    BY <1>2, <1>4
  <2> QED BY <1>5, <1>6, <2>1, <2>2
<1>11. r[i + n] = z
  <2>1. i + n \in 1 .. Len(d) /\ Len(c) + 1 = i + n /\ 1 \in 1 .. Len(e)
    BY <1>1, <1>3, <1>7
  <2>2. d[Len(c) + 1] = z
    BY <1>3, <1>5, <2>1
  <2> QED BY <1>6, <2>1, <2>2
<1>12. ASSUME NEW k \in i + 1 .. Len(s) PROVE r[k + n] = s[k]
  <2>1. k - i \in 1 .. Len(b) /\ (i + n) + (k - i) = k + n /\ i + (k - i) = k
    BY <1>1, <1>2, <1>7
  <2>2. r[Len(d) + (k - i)] = b[k - i]
    BY <1>6, <2>1
  <2>3. b[k - i] = s[i + (k - i)]
    BY <1>2, <2>1
  <2>4. Len(d) + (k - i) = k + n
    BY <1>7, <2>1
  <2> QED BY <2>1, <2>2, <2>3, <2>4
<1>13. r = t
  BY DEF r, d, c, a, b, e, z
<1> HIDE DEF n
<1> QED BY <1>8, <1>9, <1>10, <1>11, <1>12, <1>13 DEF n, With, S, z

-----------------------------------------------------------------------------
(***************************************************************************)
(* The history with the lines between two starts taken out.                *)
(***************************************************************************)

\* r is s without the bytes from i to j.
Without(r, s, i, j) ==
  /\ r \in Seq(Byte)
  /\ Len(r) = Len(s) - (j - i)
  /\ \A k \in 1 .. i : r[k] = s[k]
  /\ \A k \in i + 1 .. Len(s) - (j - i) : r[k] = s[k + (j - i)]

LEMMA WithoutStarts ==
  ASSUME NEW s \in Seq(Byte), NEW i \in Starts(s), NEW j \in Starts(s), i <= j,
         NEW r, Without(r, s, i, j)
  PROVE  /\ Len(r) \in Nat /\ i <= Len(r)
         /\ \A q \in 0 .. i : q \in Starts(r) <=> q \in Starts(s)
         /\ \A q \in i .. Len(r) : q \in Starts(r) <=> q + (j - i) \in Starts(s)
<1> DEFINE d == j - i
<1>1. /\ Len(s) \in Nat /\ i \in Nat /\ j \in Nat /\ j <= Len(s) /\ d \in Nat
      /\ Len(r) = Len(s) - d /\ r \in Seq(Byte) /\ i + d = j
  BY StartsAre DEF Without
<1>2. Len(r) \in Nat /\ i <= Len(r)
  BY <1>1
<1>3. ASSUME NEW q \in 0 .. i PROVE q \in Starts(r) <=> q \in Starts(s)
  <2>1. CASE q = 0
    BY <1>1, <2>1, StartsAre
  <2>2. CASE q # 0
    <3>1. q \in 1 .. i /\ q \in 1 .. Len(r) /\ q \in 1 .. Len(s)
      BY <1>1, <1>2, <2>2
    <3>2. r[q] = s[q]
      BY <3>1 DEF Without
    <3> QED BY <1>1, <3>1, <3>2, StartsAre
  <2> QED BY <2>1, <2>2
<1>4. ASSUME NEW q \in i .. Len(r) PROVE q \in Starts(r) <=> q + d \in Starts(s)
  <2>1. CASE q = i
    <3>1. q \in 0 .. i /\ q + d = j
      BY <1>1, <2>1
    <3> QED BY <1>3, <2>1, <3>1
  <2>2. CASE q # i
    <3>1. q \in i + 1 .. Len(s) - d /\ q \in 1 .. Len(r) /\ q + d \in 1 .. Len(s)
      BY <1>1, <1>2, <2>2
    <3>2. r[q] = s[q + d]
      BY <3>1 DEF Without
    <3> QED BY <1>1, <3>1, <3>2, StartsAre
  <2> QED BY <2>1, <2>2
<1> QED BY <1>2, <1>3, <1>4

LEMMA WithoutRows ==
  ASSUME NEW s \in Seq(Byte), Rows(s), NEW i \in Starts(s), NEW j \in Starts(s),
         i <= j, NEW r, Without(r, s, i, j)
  PROVE  Rows(r) /\ i \in Starts(r)
<1> DEFINE d == j - i
<1>1. /\ Len(s) \in Nat /\ i \in Nat /\ j \in Nat /\ j <= Len(s) /\ d \in Nat
      /\ Len(r) = Len(s) - d /\ r \in Seq(Byte) /\ i + d = j /\ LineSize \in Nat
  BY StartsAre, ReadlineAssumption DEF Without
<1>2. /\ Len(r) \in Nat /\ i <= Len(r)
      /\ \A q \in 0 .. i : q \in Starts(r) <=> q \in Starts(s)
      /\ \A q \in i .. Len(r) : q \in Starts(r) <=> q + d \in Starts(s)
  BY WithoutStarts
<1> HIDE DEF d
<1>3. i \in Starts(r)
  BY <1>1, <1>2
<1>4. Len(r) \in Starts(r)
  <2>1. Len(r) \in i .. Len(r) /\ Len(r) + d = Len(s)
    BY <1>1, <1>2
  <2> QED BY <1>2, <2>1 DEF Rows
<1>5. ASSUME NEW q \in Starts(r), q < Len(r)
      PROVE  /\ q + 1 \notin Starts(r)
             /\ \E p \in Starts(r) : q < p /\ p <= q + LineSize
  <2>0. q \in Nat
    BY <1>1, StartsAre
  <2>1. CASE q < i
    <3>1. q \in 0 .. i /\ q + 1 \in 0 .. i /\ q < Len(s)
      BY <1>1, <2>0, <2>1
    <3>2. q \in Starts(s)
      BY <1>2, <3>1
    <3>3. q + 1 \notin Starts(s)
      BY <3>1, <3>2 DEF Rows
    <3>4. PICK p \in Starts(s) : q < p /\ p <= q + LineSize
      BY <3>1, <3>2 DEF Rows
    <3>5. p \in Nat
      BY StartsAre
    <3>6. CASE p <= i
      <4>1. p \in Starts(r)
        BY <1>1, <1>2, <3>5, <3>6
      <4> QED BY <1>2, <3>1, <3>3, <3>4, <4>1
    <3>7. CASE ~ (p <= i)
      <4>1. q < i /\ i <= q + LineSize
        BY <1>1, <2>0, <2>1, <3>4, <3>5, <3>7
      <4> QED BY <1>2, <1>3, <3>1, <3>3, <4>1
    <3> QED BY <3>6, <3>7
  <2>2. CASE ~ (q < i)
    <3>1. /\ q \in i .. Len(r) /\ q + 1 \in i .. Len(r) /\ q + d < Len(s)
          /\ (q + d) + 1 = (q + 1) + d
      BY <1>1, <1>2, <1>5, <2>0, <2>2
    <3>2. q + d \in Starts(s)
      BY <1>2, <3>1
    <3>3. (q + 1) + d \notin Starts(s)
      BY <3>1, <3>2 DEF Rows
    <3>4. PICK p \in Starts(s) : q + d < p /\ p <= (q + d) + LineSize
      BY <3>1, <3>2 DEF Rows
    <3>5. p \in Nat /\ p <= Len(s)
      BY StartsAre
    <3>6. p - d \in i .. Len(r) /\ (p - d) + d = p /\ q < p - d /\ p - d <= q + LineSize
      BY <1>1, <1>2, <2>0, <2>2, <3>4, <3>5
    <3>7. p - d \in Starts(r)
      BY <1>2, <3>6
    <3> QED BY <1>2, <3>1, <3>3, <3>6, <3>7
  <2> QED BY <2>1, <2>2
<1> QED BY <1>3, <1>4, <1>5 DEF Rows

-----------------------------------------------------------------------------
(***************************************************************************)
(* The history with a line put in at a start.                              *)
(***************************************************************************)

LEMMA WithStarts ==
  ASSUME NEW s \in Seq(Byte), NEW i \in Starts(s), NEW line \in Seq(Printable),
         NEW n, NEW r, With(r, s, i, line, n)
  PROVE  /\ Len(r) \in Nat /\ n \in Nat /\ i + n <= Len(r)
         /\ \A q \in 0 .. i : q \in Starts(r) <=> q \in Starts(s)
         /\ \A q \in 1 .. n - 1 : i + q \notin Starts(r)
         /\ \A q \in i .. Len(s) : q + n \in Starts(r) <=> q \in Starts(s)
<1>1. /\ Len(s) \in Nat /\ i \in Nat /\ i <= Len(s) /\ n \in Nat /\ n >= 1
      /\ Len(r) = Len(s) + n /\ r \in Seq(Byte) /\ Len(line) = n - 1
  BY StartsAre DEF With
<1>2. Len(r) \in Nat /\ i + n <= Len(r)
  BY <1>1
<1>3. ASSUME NEW q \in 0 .. i PROVE q \in Starts(r) <=> q \in Starts(s)
  <2>1. CASE q = 0
    BY <1>1, <2>1, StartsAre
  <2>2. CASE q # 0
    <3>1. q \in 1 .. i /\ q \in 1 .. Len(r) /\ q \in 1 .. Len(s)
      BY <1>1, <1>2, <2>2
    <3>2. r[q] = s[q]
      BY <3>1 DEF With
    <3> QED BY <1>1, <3>1, <3>2, StartsAre
  <2> QED BY <2>1, <2>2
<1>4. ASSUME NEW q \in 1 .. n - 1 PROVE i + q \notin Starts(r)
  <2>1. i + q \in 1 .. Len(r) /\ q \in 1 .. Len(line)
    BY <1>1
  <2>2. r[i + q] = line[q]
    BY <2>1 DEF With
  <2>3. line[q] \in Printable
    BY <2>1
  <2>4. line[q] # 0
    BY <2>3, PrintableBytes
  <2> QED BY <1>1, <2>1, <2>2, <2>4, StartsAre
<1>5. ASSUME NEW q \in i .. Len(s) PROVE q + n \in Starts(r) <=> q \in Starts(s)
  <2>1. q + n \in 1 .. Len(r)
    BY <1>1
  <2>2. CASE q = i
    <3>1. r[q + n] = 0
      BY <2>2 DEF With
    <3> QED BY <1>1, <2>1, <2>2, <3>1, StartsAre
  <2>3. CASE q # i
    <3>1. q \in i + 1 .. Len(s) /\ q \in 1 .. Len(s)
      BY <1>1, <2>3
    <3>2. r[q + n] = s[q]
      BY <3>1 DEF With
    <3> QED BY <1>1, <2>1, <3>1, <3>2, StartsAre
  <2> QED BY <2>2, <2>3
<1> QED BY <1>1, <1>2, <1>3, <1>4, <1>5

LEMMA WithRows ==
  ASSUME NEW s \in Seq(Byte), Rows(s), NEW i \in Starts(s),
         NEW line \in Seq(Printable), line # << >>, Len(line) <= LineSize - 1,
         NEW n, NEW r, With(r, s, i, line, n)
  PROVE  Rows(r) /\ i \in Starts(r) /\ i + n \in Starts(r)
<1>1. /\ Len(s) \in Nat /\ i \in Nat /\ i <= Len(s) /\ n \in Nat /\ n >= 2
      /\ Len(r) = Len(s) + n /\ r \in Seq(Byte) /\ LineSize \in Nat /\ n <= LineSize
  <2>1. Len(line) \in Nat /\ Len(line) # 0
    OBVIOUS
  <2>2. LineSize \in Nat
    BY ReadlineAssumption
  <2> QED BY <2>1, <2>2, StartsAre DEF With
<1>2. /\ Len(r) \in Nat /\ i + n <= Len(r)
      /\ \A q \in 0 .. i : q \in Starts(r) <=> q \in Starts(s)
      /\ \A q \in 1 .. n - 1 : i + q \notin Starts(r)
      /\ \A q \in i .. Len(s) : q + n \in Starts(r) <=> q \in Starts(s)
  BY WithStarts
<1>3. i \in Starts(r) /\ i + n \in Starts(r)
  BY <1>1, <1>2
<1>4. Len(r) \in Starts(r)
  <2>1. Len(s) \in i .. Len(s) /\ Len(s) + n = Len(r)
    BY <1>1, <1>2
  <2> QED BY <1>2, <2>1 DEF Rows
<1>5. ASSUME NEW q \in Starts(r), q < Len(r)
      PROVE  /\ q + 1 \notin Starts(r)
             /\ \E p \in Starts(r) : q < p /\ p <= q + LineSize
  <2>0. q \in Nat
    BY <1>1, StartsAre
  <2>1. CASE q < i
    <3>1. q \in 0 .. i /\ q + 1 \in 0 .. i /\ q < Len(s)
      BY <1>1, <2>0, <2>1
    <3>2. q \in Starts(s)
      BY <1>2, <3>1
    <3>3. q + 1 \notin Starts(s)
      BY <3>1, <3>2 DEF Rows
    <3>4. PICK p \in Starts(s) : q < p /\ p <= q + LineSize
      BY <3>1, <3>2 DEF Rows
    <3>5. p \in Nat
      BY StartsAre
    <3>6. CASE p <= i
      <4>1. p \in Starts(r)
        BY <1>1, <1>2, <3>5, <3>6
      <4> QED BY <1>2, <3>1, <3>3, <3>4, <4>1
    <3>7. CASE ~ (p <= i)
      <4>1. q < i /\ i <= q + LineSize
        BY <1>1, <2>0, <2>1, <3>4, <3>5, <3>7
      <4> QED BY <1>2, <1>3, <3>1, <3>3, <4>1
    <3> QED BY <3>6, <3>7
  <2>2. CASE q = i
    <3>1. 1 \in 1 .. n - 1 /\ q < q + n /\ q + n <= q + LineSize
      BY <1>1, <2>0
    <3> QED BY <1>2, <1>3, <2>2, <3>1
  <2>3. CASE q > i /\ q < i + n
    <3>1. q - i \in 1 .. n - 1 /\ i + (q - i) = q
      BY <1>1, <2>0, <2>3
    <3> QED BY <1>2, <1>5, <3>1
  <2>4. CASE q >= i + n
    <3>1. /\ q - n \in i .. Len(s) /\ (q - n) + n = q /\ q - n < Len(s)
          /\ (q - n) + 1 \in i .. Len(s) /\ ((q - n) + 1) + n = q + 1
      BY <1>1, <1>5, <2>0, <2>4
    <3>2. q - n \in Starts(s)
      BY <1>2, <3>1
    <3>3. (q - n) + 1 \notin Starts(s)
      BY <3>1, <3>2 DEF Rows
    <3>4. PICK p \in Starts(s) : q - n < p /\ p <= (q - n) + LineSize
      BY <3>1, <3>2 DEF Rows
    <3>5. p \in Nat /\ p <= Len(s)
      BY StartsAre
    <3>6. p \in i .. Len(s) /\ q < p + n /\ p + n <= q + LineSize
      BY <1>1, <2>0, <2>4, <3>4, <3>5
    <3>7. p + n \in Starts(r)
      BY <1>2, <3>6
    <3> QED BY <1>2, <3>1, <3>3, <3>6, <3>7
  <2> QED BY <1>1, <2>0, <2>1, <2>2, <2>3, <2>4
<1> QED BY <1>3, <1>4, <1>5 DEF Rows

-----------------------------------------------------------------------------
(***************************************************************************)
(* The functions of the history.                                           *)
(***************************************************************************)

\* hist_del: the line at the index is gone, and the index at the next one.
LEMMA DelGood ==
  ASSUME NEW h, Good(h)
  PROVE  Good(hist_del(h)) /\ hist_del(h).idx = h.idx
<1>1. CASE AtEnd(h)
  BY <1>1 DEF hist_del
<1>2. CASE ~ AtEnd(h)
  <2> DEFINE s == h.buf
             i == h.idx
             j == NulAt(s, i) + 1
             r == SubSeq(s, 1, i) \o SubSeq(s, (j - 1) + 2, Len(s))
  <2>1. s \in Seq(Byte) /\ Rows(s) /\ i \in Starts(s) /\ h = [buf |-> s, idx |-> i] /\ Len(s) <= HistSize
    BY DEF Good
  <2>2. i \in Nat /\ Len(s) \in Nat /\ i <= Len(s) /\ i # Len(s)
    BY <1>2, <2>1, StartsAre DEF AtEnd
  <2>3. j \in Nat /\ i <= j /\ j <= Len(s) /\ j \in Starts(s) /\ j - 1 = NulAt(s, i)
    <3>1. i < Len(s)
      BY <2>2
    <3>2. NulAt(s, i) \in Nat /\ i + 1 <= NulAt(s, i) /\ NulAt(s, i) + 1 <= Len(s)
      BY <2>1, <3>1, NulFacts
    <3>3. NulAt(s, i) + 1 \in Starts(s)
      BY <2>1, <3>1, NulFacts
    <3> QED BY <2>2, <3>2, <3>3
  <2>4. hist_del(h) = [h EXCEPT !.buf = r]
    BY <1>2, <2>3 DEF hist_del
  <2>5. r = SubSeq(s, 1, i) \o SubSeq(s, j + 1, Len(s))
    <3>1. (j - 1) + 2 = j + 1
      BY <2>3
    <3> QED BY <3>1
  <2> HIDE DEF r, j
  <2>6. hist_del(h) = [buf |-> r, idx |-> i]
    BY <2>1, <2>4
  <2>7. i \in 0 .. Len(s) /\ j \in i .. Len(s)
    BY <2>2, <2>3
  <2> HIDE DEF s, i
  <2>8. Without(r, s, i, j)
    <3> DEFINE S == Byte
    <3> HIDE DEF S
    <3>1. /\ r \in Seq(S)
          /\ Len(r) = Len(s) - (j - i)
          /\ \A k \in 1 .. i : r[k] = s[k]
          /\ \A k \in i + 1 .. Len(s) - (j - i) : r[k] = s[k + (j - i)]
      <4>1. s \in Seq(S)
        BY <2>1 DEF S
      <4> QED BY <2>5, <2>7, <4>1, CutElements
    <3> QED BY <3>1 DEF Without, S
  <2>9. Rows(r) /\ i \in Starts(r)
    BY <2>1, <2>3, <2>8, WithoutRows
  <2>10. r \in Seq(Byte) /\ Len(r) = Len(s) - (j - i)
    BY <2>8 DEF Without
  <2>11. Len(r) <= HistSize
    BY <2>1, <2>2, <2>3, <2>10, ReadlineAssumption
  <2>12. hist_del(h).buf = r /\ hist_del(h).idx = i
    BY <2>6
  <2> QED BY <2>6, <2>9, <2>10, <2>11, <2>12 DEF Good, i
<1> QED BY <1>1, <1>2

\* Evicting the oldest lines: room is made, and the index is still at the
\* start of a line.
LEMMA EvictGood ==
  ASSUME NEW h, Good(h), NEW len \in Nat, len <= LineSize
  PROVE  Good(Evict(h, len)) /\ len + Len(Evict(h, len).buf) <= HistSize
<1> DEFINE s == h.buf
           x == h.idx
           T == {p \in Starts(s) : len + (Len(s) - p) <= HistSize}
           cut == Min(T)
           r == SubSeq(s, cut + 1, Len(s))
           y == IF x \in Starts(s) /\ x <= cut THEN 0 ELSE x - cut
<1>1. /\ s \in Seq(Byte) /\ Rows(s) /\ x \in Starts(s) /\ Len(s) <= HistSize
      /\ Len(s) \in Nat /\ x \in Nat /\ x <= Len(s) /\ 0 \in Starts(s)
  BY StartsAre DEF Good
<1>2. Evict(h, len) = [buf |-> r, idx |-> y]
  BY DEF Evict
<1>3. LineSize \in Nat /\ HistSize \in Nat /\ HistSize > LineSize
  BY ReadlineAssumption
<1>4. Len(s) \in T
  BY <1>1, <1>3 DEF Rows
<1>5. T \subseteq Nat
  BY <1>1, StartsAre
<1>6. \A p \in T : p \in Starts(s) /\ len + (Len(s) - p) <= HistSize
  OBVIOUS
<1> HIDE DEF T
<1>7. cut \in T
  BY <1>4, <1>5, MinOf
<1>8. cut \in Starts(s) /\ len + (Len(s) - cut) <= HistSize
  BY <1>6, <1>7
<1> HIDE DEF cut
<1>9. cut \in Nat /\ cut <= Len(s) /\ cut \in 0 .. Len(s) /\ cut - 0 = cut
  BY <1>1, <1>8, StartsAre
<1> HIDE DEF s, x
<1>10. /\ r \in Seq(Byte) /\ Len(r) = Len(s) - cut
       /\ \A k \in 1 .. Len(s) - cut : r[k] = s[cut + k]
  <2> DEFINE S == Byte
  <2>1. s \in Seq(S)
    BY <1>1
  <2> HIDE DEF S
  <2>2. /\ r \in Seq(S) /\ Len(r) = Len(s) - cut
        /\ \A k \in 1 .. Len(s) - cut : r[k] = s[cut + k]
    BY <1>9, <2>1, SplitFacts
  <2> QED BY <2>2 DEF S
<1> HIDE DEF r
<1>11. Without(r, s, 0, cut)
  <2>1. \A k \in 0 + 1 .. Len(s) - (cut - 0) : r[k] = s[k + (cut - 0)]
    <3> TAKE k \in 0 + 1 .. Len(s) - (cut - 0)
    <3>1. k \in 1 .. Len(s) - cut /\ cut + k = k + (cut - 0)
      BY <1>1, <1>9
    <3> QED BY <1>10, <3>1
  <2>2. \A k \in 1 .. 0 : r[k] = s[k]
    OBVIOUS
  <2> QED BY <1>9, <1>10, <2>1, <2>2 DEF Without
<1>12. Rows(r) /\ 0 \in Starts(r)
  BY <1>1, <1>8, <1>9, <1>11, WithoutRows
<1>13. y \in Starts(r)
  <2>1. CASE x <= cut
    BY <1>1, <1>12, <2>1
  <2>2. CASE ~ (x <= cut)
    <3>1. x - cut \in 0 .. Len(r) /\ (x - cut) + (cut - 0) = x /\ y = x - cut
      BY <1>1, <1>9, <1>10, <2>2
    <3>2. \A q \in 0 .. Len(r) : q \in Starts(r) <=> q + (cut - 0) \in Starts(s)
      BY <1>1, <1>8, <1>9, <1>11, WithoutStarts
    <3> QED BY <1>1, <3>1, <3>2
  <2> QED BY <2>1, <2>2
<1> HIDE DEF y
<1>14. len + Len(r) <= HistSize /\ Len(r) <= HistSize
  BY <1>1, <1>3, <1>8, <1>9, <1>10
<1>15. Evict(h, len).buf = r /\ Evict(h, len).idx = y
  BY <1>2
<1> QED BY <1>2, <1>10, <1>12, <1>13, <1>14, <1>15 DEF Good

\* hist_ins: the line is at the index, whole, between two others.
LEMMA InsGood ==
  ASSUME NEW h, Good(h), NEW line \in Seq(Printable), line # << >>,
         Len(line) <= LineSize - 1
  PROVE  /\ Good(hist_ins(h, line))
         /\ LineAt(hist_ins(h, line), line)
<1> DEFINE e == Evict(h, Len(line) + 1)
           s == e.buf
           i == e.idx
           n == Len(line) + 1
           r == SubSeq(s, 1, i) \o line \o << 0 >> \o SubSeq(s, i + 1, Len(s))
<1>1. Len(line) \in Nat /\ n \in Nat /\ n <= LineSize
  BY ReadlineAssumption
<1>2. Good(e) /\ n + Len(s) <= HistSize
  BY <1>1, EvictGood
<1>3. hist_ins(h, line) = [e EXCEPT !.buf = r]
  BY DEF hist_ins
<1> HIDE DEF e
<1>4. /\ s \in Seq(Byte) /\ Rows(s) /\ i \in Starts(s) /\ e = [buf |-> s, idx |-> i]
      /\ Len(s) \in Nat /\ i \in 0 .. Len(s)
  BY <1>2, StartsAre DEF Good
<1> HIDE DEF r
<1>5. hist_ins(h, line) = [buf |-> r, idx |-> i]
  BY <1>3, <1>4
<1> HIDE DEF s, i
<1>6. With(r, s, i, line, n)
  <2>1. line \in Seq(Byte)
    <3> DEFINE S == Byte
    <3>1. \A k \in 1 .. Len(line) : line[k] \in S
      BY PrintableBytes
    <3> HIDE DEF S
    <3>2. line \in Seq(S)
      BY <3>1
    <3> QED BY <3>2 DEF S
  <2> QED BY <1>4, <2>1, SpliceElements DEF r
<1>7. Rows(r) /\ i \in Starts(r)
  BY <1>4, <1>6, WithRows
<1>8. r \in Seq(Byte) /\ Len(r) = Len(s) + n
  BY <1>6 DEF With
<1>9. Len(r) <= HistSize
  BY <1>1, <1>2, <1>4, <1>8
<1>10. hist_ins(h, line).buf = r /\ hist_ins(h, line).idx = i
  BY <1>5
<1>11. Good(hist_ins(h, line))
  BY <1>5, <1>7, <1>8, <1>9, <1>10 DEF Good
<1>12. LineAt(hist_ins(h, line), line)
  <2>1. (i + Len(line)) + 1 = i + n /\ i + n <= Len(r)
    BY <1>1, <1>4, <1>8
  <2>2. r[i + n] = 0 /\ \A k \in 1 .. Len(line) : r[i + k] = line[k]
    BY <1>6 DEF With
  <2> HIDE DEF n
  <2> QED BY <1>10, <2>1, <2>2 DEF LineAt
<1> QED BY <1>11, <1>12

\* hist_next: the index moves to the next line or to the end.
LEMMA NextGood ==
  ASSUME NEW h, Good(h)
  PROVE  Good(hist_next(h)) /\ hist_next(h).buf = h.buf
<1>1. CASE AtEnd(h)
  BY <1>1 DEF hist_next
<1>2. CASE ~ AtEnd(h)
  <2> DEFINE j == NulAt(h.buf, h.idx) + 1
  <2>1. hist_next(h) = [h EXCEPT !.idx = j]
    BY <1>2 DEF hist_next
  <2>2. h.idx < Len(h.buf)
    <3>1. h.idx \in Nat /\ Len(h.buf) \in Nat /\ h.idx <= Len(h.buf)
      BY StartsAre DEF Good
    <3> QED BY <1>2, <3>1 DEF AtEnd
  <2>3. j \in Starts(h.buf)
    BY <2>2, NulFacts DEF Good
  <2> HIDE DEF j
  <2>4. hist_next(h) = [buf |-> h.buf, idx |-> j]
    BY <2>1 DEF Good
  <2>5. hist_next(h).buf = h.buf /\ hist_next(h).idx = j
    BY <2>4
  <2> QED BY <2>3, <2>4, <2>5 DEF Good
<1> QED BY <1>1, <1>2

\* hist_prev: the index moves to the line before, so not to the end.
LEMMA PrevGood ==
  ASSUME NEW h, Good(h), h.idx # 0
  PROVE  Good(hist_prev(h)) /\ ~ AtEnd(hist_prev(h))
<1> DEFINE s == h.buf
           i == h.idx
           T == {j \in 0 .. i - 1 : j = 0 \/ s[j] = 0}
           j == Max(T)
<1>1. s \in Seq(Byte) /\ i \in Nat /\ Len(s) \in Nat /\ i <= Len(s) /\ i # 0
  BY StartsAre DEF Good
<1>2. hist_prev(h) = [h EXCEPT !.idx = j]
  BY DEF hist_prev
<1>3. 0 \in T /\ T \subseteq Nat /\ \A y \in T : y <= i
  BY <1>1
<1>4. \A y \in T : y \in 0 .. i - 1 /\ (y = 0 \/ s[y] = 0)
  OBVIOUS
<1> HIDE DEF T
<1>5. j \in T
  BY <1>1, <1>3, MaxOf
<1> HIDE DEF j
<1>6. j \in 0 .. i - 1 /\ (j = 0 \/ s[j] = 0)
  BY <1>4, <1>5
<1>7. j \in Starts(s) /\ j # Len(s)
  <2>1. CASE j = 0
    BY <1>1, <2>1, StartsAre
  <2>2. CASE j # 0
    <3>1. j \in 1 .. Len(s) /\ j # Len(s)
      BY <1>1, <1>6, <2>2
    <3> QED BY <1>1, <1>6, <2>2, <3>1, StartsAre
  <2> QED BY <2>1, <2>2
<1>8. hist_prev(h) = [buf |-> s, idx |-> j]
  BY <1>2 DEF Good
<1>9. hist_prev(h).buf = s /\ hist_prev(h).idx = j
  BY <1>8
<1> QED BY <1>7, <1>8, <1>9 DEF Good, AtEnd

\* strcpy from the history: a whole line that fits the edit buffer.
LEMMA StringGood ==
  ASSUME NEW h, Good(h), ~ AtEnd(h)
  PROVE  /\ StringAt(h) \in Seq(Printable) /\ Len(StringAt(h)) \in Nat
         /\ Len(StringAt(h)) <= LineSize - 1
         /\ StringAt(h) # << >>
         /\ LineAt(h, StringAt(h))
<1> DEFINE s == h.buf
           i == h.idx
           n == NulAt(s, i)
           t == SubSeq(s, i + 1, n)
<1>1. s \in Seq(Byte) /\ i \in Nat /\ Len(s) \in Nat /\ i < Len(s) /\ Rows(s) /\ i \in Starts(s)
  BY StartsAre DEF Good, AtEnd
<1>2. /\ n \in Nat /\ i + 1 <= n /\ n + 1 <= Len(s) /\ n - i <= LineSize - 1
      /\ s[n + 1] = 0
      /\ \A k \in i + 1 .. n : s[k] # 0
  BY <1>1, NulFacts
<1> HIDE DEF s, i, n
<1>3. \A k \in i + 1 .. n : s[k] \in Printable
  <2> TAKE k \in i + 1 .. n
  <2>1. k \in 1 .. Len(s)
    BY <1>1, <1>2
  <2>2. s[k] \in Byte
    BY <1>1, <2>1
  <2> QED BY <1>2, <2>2, PrintableBytes
<1>4. /\ t \in Seq(Printable) /\ Len(t) = n - i
      /\ \A k \in 1 .. n - i : t[k] = s[i + k]
  <2> DEFINE P == Printable
  <2>1. \A k \in i + 1 .. n : s[k] \in P
    BY <1>3
  <2> HIDE DEF P
  <2>2. t = [k \in 1 .. n - i |-> s[i + k]]
    BY <1>1, <1>2
  <2> HIDE DEF t
  <2>3. \A k \in 1 .. n - i : i + k \in i + 1 .. n
    BY <1>1, <1>2
  <2>4. n - i \in Nat
    BY <1>1, <1>2
  <2>5. t \in [1 .. n - i -> P]
    BY <2>1, <2>2, <2>3
  <2>6. t \in Seq(P) /\ Len(t) = n - i
    BY <2>4, <2>5
  <2> QED BY <2>2, <2>6 DEF P
<1>5. StringAt(h) = t
  BY DEF StringAt, t, s, i, n
<1> HIDE DEF t
<1>6. Len(t) \in Nat /\ Len(t) <= LineSize - 1 /\ t # << >>
  <2>1. n - i \in Nat /\ n - i # 0
    BY <1>1, <1>2
  <2> QED BY <1>2, <1>4, <2>1
<1>7. LineAt(h, t)
  <2>1. (i + Len(t)) + 1 = n + 1
    BY <1>1, <1>2, <1>4
  <2> QED BY <1>2, <1>4, <2>1 DEF LineAt, s, i
<1> QED BY <1>4, <1>5, <1>6, <1>7

-----------------------------------------------------------------------------
(***************************************************************************)
(* The invariant, and the keys that keep it.                               *)
(***************************************************************************)

LineOK ==
  /\ tty_buf \in Seq(Printable) /\ Len(tty_buf) <= LineSize - 1
  /\ tty_cur \in 0 .. Len(tty_buf)
  /\ changed \in BOOLEAN

\* A line that is not edited is the one at the index, byte by byte.
Stored == ~ changed /\ tty_buf # << >> => LineAt(Hist, tty_buf)

Inner == LineOK /\ Good(Hist) /\ Stored

LEMMA LineFacts ==
  ASSUME LineOK
  PROVE  /\ Len(tty_buf) \in Nat /\ LineSize \in Nat /\ tty_cur \in Nat
         /\ tty_cur <= Len(tty_buf) /\ LineSize >= 1
         /\ tty_buf = << >> <=> Len(tty_buf) = 0
BY ReadlineAssumption DEF LineOK

LEMMA SetHistGood ==
  ASSUME NEW h, Good(h), SetHist(h)
  PROVE  Hist' = h
BY DEF Good, SetHist, Hist

LEMMA HistSame ==
  ASSUME UNCHANGED hist
  PROVE  Hist' = Hist
BY DEF hist, Hist

LEMMA EmptyLine ==
  /\ << >> \in Seq(Printable) /\ Len(<< >>) = 0 /\ 0 \in 0 .. Len(<< >>)
  /\ Len(<< >>) <= LineSize - 1
BY ReadlineAssumption

LEMMA RecallInner ==
  ASSUME NEW h, Good(h), ~ AtEnd(h), Recall(h)
  PROVE  Inner'
<1>1. SetHist(h) /\ tty_buf' = StringAt(h) /\ tty_cur' = Len(StringAt(h)) /\ changed' = FALSE
  BY DEF Recall, SetLine
<1>2. Hist' = h
  BY <1>1, SetHistGood
<1> DEFINE t == StringAt(h)
<1>3. /\ t \in Seq(Printable) /\ Len(t) \in Nat /\ Len(t) <= LineSize - 1
      /\ LineAt(h, t)
  BY StringGood
<1> HIDE DEF t
<1>4. tty_buf' = t /\ tty_cur' = Len(t)
  BY <1>1 DEF t
<1>5. Len(t) \in 0 .. Len(t)
  BY <1>3
<1>6. LineOK'
  BY <1>1, <1>3, <1>4, <1>5 DEF LineOK
<1>7. Stored'
  BY <1>2, <1>3, <1>4 DEF Stored
<1> QED BY <1>2, <1>6, <1>7 DEF Inner

LEMMA ClearedInner ==
  ASSUME NEW h, Good(h), Cleared(h)
  PROVE  Inner'
<1>1. SetHist(h) /\ tty_buf' = << >> /\ tty_cur' = 0 /\ changed' = FALSE
  BY DEF Cleared, SetLine
<1>2. Hist' = h
  BY <1>1, SetHistGood
<1>3. LineOK'
  BY <1>1, EmptyLine DEF LineOK
<1>4. Stored'
  BY <1>1 DEF Stored
<1> QED BY <1>2, <1>3, <1>4 DEF Inner

LEMMA RefusedInner ==
  ASSUME Inner, Refused
  PROVE  Inner'
<1>1. Hist' = Hist /\ tty_buf' = tty_buf /\ tty_cur' = tty_cur /\ changed' = changed
  BY HistSame DEF Refused
<1> QED BY <1>1 DEF Inner, LineOK, Stored

LEMMA MoveInner ==
  ASSUME Inner, NEW cur \in 0 .. Len(tty_buf), MoveTo(cur)
  PROVE  Inner'
<1>1. Hist' = Hist /\ tty_buf' = tty_buf /\ tty_cur' = cur /\ changed' = changed
  BY HistSame DEF MoveTo
<1> QED BY <1>1 DEF Inner, LineOK, Stored

\* A line that was edited and is left goes into the history.
LEMMA SavedGood ==
  ASSUME LineOK, NEW h, Good(h)
  PROVE  Good(Saved(h))
<1>1. CASE Edited
  BY <1>1, InsGood DEF Saved, Edited, LineOK
<1>2. CASE ~ Edited
  BY <1>2 DEF Saved
<1> QED BY <1>1, <1>2

LEMMA AtEndGood ==
  ASSUME NEW h, Good(h)
  PROVE  Good([h EXCEPT !.idx = Len(h.buf)])
<1> DEFINE g == [h EXCEPT !.idx = Len(h.buf)]
<1>1. g = [buf |-> h.buf, idx |-> Len(h.buf)]
  BY DEF Good
<1> HIDE DEF g
<1>2. g.buf = h.buf /\ g.idx = Len(h.buf)
  BY <1>1
<1>3. Len(h.buf) \in Starts(h.buf)
  BY DEF Good, Rows
<1>4. Good(g)
  BY <1>1, <1>2, <1>3 DEF Good
<1> QED BY <1>4 DEF g

LEMMA UpInner ==
  ASSUME Inner, hist_up
  PROVE  Inner'
<1>1. CASE hist_idx = 0 /\ Refused
  BY <1>1, RefusedInner
<1> DEFINE h == Saved(Hist)
<1>2. Good(h)
  BY SavedGood DEF Inner
<1> HIDE DEF h
<1>3. CASE h.idx # 0 /\ Recall(hist_prev(h))
  BY <1>2, <1>3, PrevGood, RecallInner
<1>4. CASE h.idx = 0 /\ Cleared(h)
  BY <1>2, <1>4, ClearedInner
<1> QED BY <1>1, <1>3, <1>4 DEF hist_up, h

LEMMA DownInner ==
  ASSUME Inner, hist_down
  PROVE  Inner'
<1> DEFINE more == ~ AtEnd(Hist) /\ ~ AtEnd(hist_next(Hist))
           stored == IF Edited THEN Saved(hist_next(Hist)) ELSE Hist
           h == IF tty_buf = << >> THEN Hist ELSE hist_next(stored)
           g == [stored EXCEPT !.idx = Len(stored.buf)]
<1>1. Good(Hist) /\ Good(hist_next(Hist)) /\ LineOK
  BY NextGood DEF Inner
<1>2. Good(stored)
  BY <1>1, SavedGood
<1>3. \/ more /\ ~ AtEnd(h) /\ Recall(h)
      \/ more /\ AtEnd(h) /\ Cleared(h)
      \/ ~ more /\ tty_buf # << >> /\ Cleared(g)
      \/ ~ more /\ tty_buf = << >> /\ Refused
  BY DEF hist_down
<1> HIDE DEF stored, more
<1>4. Good(h)
  BY <1>1, <1>2, NextGood
<1>5. Good(g)
  BY <1>2, AtEndGood
<1> HIDE DEF h, g
<1> QED BY <1>3, <1>4, <1>5, RecallInner, ClearedInner, RefusedInner

LEMMA GiveUpInner ==
  ASSUME Inner, GiveUp
  PROVE  Inner'
<1> DEFINE h == Saved(Hist)
<1>1. Good(h)
  BY SavedGood DEF Inner
<1> HIDE DEF h
<1> DEFINE g == [h EXCEPT !.idx = Len(h.buf)]
<1>2. Good(g)
  BY <1>1, AtEndGood
<1>3. Cleared(g)
  BY DEF GiveUp, h
<1> HIDE DEF g
<1> QED BY <1>2, <1>3, ClearedInner

LEMMA TwoNumbers ==
  ASSUME NEW a \in Int, NEW b \in Int
  PROVE  /\ Max({a, b}) = IF a >= b THEN a ELSE b
         /\ Min({a, b}) = IF a <= b THEN a ELSE b
<1>1. CASE a >= b
  <2>1. \A x \in {a, b} : (\A y \in {a, b} : x >= y) <=> x = a
    BY <1>1
  <2>2. \A x \in {a, b} : (\A y \in {a, b} : x <= y) <=> x = b
    BY <1>1
  <2> QED BY <1>1, <2>1, <2>2 DEF Max, Min
<1>2. CASE ~ (a >= b)
  <2>1. \A x \in {a, b} : (\A y \in {a, b} : x >= y) <=> x = b
    BY <1>2
  <2>2. \A x \in {a, b} : (\A y \in {a, b} : x <= y) <=> x = a
    BY <1>2
  <2> QED BY <1>2, <2>1, <2>2 DEF Max, Min
<1> QED BY <1>1, <1>2

LEMMA CursorInner ==
  ASSUME Inner, cur_left \/ cur_right \/ MoveTo(Len(tty_buf)) \/ MoveTo(0)
  PROVE  Inner'
<1>1. /\ Len(tty_buf) \in Nat /\ tty_cur \in Nat /\ tty_cur <= Len(tty_buf)
  BY LineFacts DEF Inner
<1> DEFINE l == Max({tty_cur - 1, 0})
           r == Min({tty_cur + 1, Len(tty_buf)})
<1>2. l = (IF tty_cur - 1 >= 0 THEN tty_cur - 1 ELSE 0)
  <2>1. tty_cur - 1 \in Int /\ 0 \in Int
    BY <1>1
  <2> QED BY <2>1, TwoNumbers
<1>3. r = (IF tty_cur + 1 <= Len(tty_buf) THEN tty_cur + 1 ELSE Len(tty_buf))
  <2>1. tty_cur + 1 \in Int /\ Len(tty_buf) \in Int
    BY <1>1
  <2> QED BY <2>1, TwoNumbers
<1>4. MoveTo(l) \/ MoveTo(r) \/ MoveTo(Len(tty_buf)) \/ MoveTo(0)
  BY DEF cur_left, cur_right
<1> HIDE DEF l, r
<1>5. /\ l \in 0 .. Len(tty_buf) /\ r \in 0 .. Len(tty_buf)
      /\ Len(tty_buf) \in 0 .. Len(tty_buf) /\ 0 \in 0 .. Len(tty_buf)
  BY <1>1, <1>2, <1>3
<1> QED BY <1>4, <1>5, MoveInner

LEMMA TypedLine ==
  ASSUME NEW s \in Seq(Printable), NEW k \in 0 .. Len(s), NEW c \in Printable
  PROVE  /\ InsertAt(s, k + 1, c) \in Seq(Printable)
         /\ Len(InsertAt(s, k + 1, c)) = Len(s) + 1
<1> DEFINE S == Printable
           i == k + 1
<1>1. s \in Seq(S) /\ c \in S /\ i \in 1 .. Len(s) + 1
  OBVIOUS
<1> HIDE DEF S, i
<1>2. InsertAt(s, i, c) \in Seq(S) /\ Len(InsertAt(s, i, c)) = Len(s) + 1
  BY ONLY <1>1, InsertAtElements
<1> QED BY <1>2 DEF S, i

LEMMA DeletedLine ==
  ASSUME NEW s \in Seq(Printable), NEW k \in 0 .. Len(s) - 1
  PROVE  /\ RemoveAt(s, k + 1) \in Seq(Printable)
         /\ Len(RemoveAt(s, k + 1)) = Len(s) - 1
<1> DEFINE S == Printable
           i == k + 1
<1>1. s \in Seq(S) /\ i \in 1 .. Len(s)
  OBVIOUS
<1> HIDE DEF S, i
<1>2. RemoveAt(s, i) \in Seq(S) /\ Len(RemoveAt(s, i)) = Len(s) - 1
  BY ONLY <1>1, RemoveAtElements
<1> QED BY <1>2 DEF S, i

LEMMA TypeInner ==
  ASSUME Inner, NEW c \in Printable, typech(c)
  PROVE  Inner'
<1>1. CASE Refused
  BY <1>1, RefusedInner
<1> DEFINE t == InsertAt(tty_buf, tty_cur + 1, c)
<1>2. CASE /\ Len(tty_buf) # LineSize - 1
           /\ SetLine(t, tty_cur + 1)
           /\ changed' = TRUE
           /\ UNCHANGED hist
  <2>1. t \in Seq(Printable) /\ Len(t) = Len(tty_buf) + 1
    BY TypedLine DEF Inner, LineOK
  <2>2. tty_buf' = t /\ tty_cur' = tty_cur + 1 /\ changed' = TRUE /\ Hist' = Hist
    BY <1>2, HistSame DEF SetLine
  <2> HIDE DEF t
  <2>3. /\ Len(tty_buf) \in Nat /\ LineSize \in Nat /\ tty_cur \in Nat
        /\ tty_cur <= Len(tty_buf) /\ Len(tty_buf) <= LineSize - 1
    BY LineFacts DEF Inner, LineOK
  <2>4. Len(t) <= LineSize - 1 /\ tty_cur + 1 \in 0 .. Len(t)
    BY <1>2, <2>1, <2>3
  <2>5. LineOK'
    BY <2>1, <2>2, <2>4 DEF LineOK
  <2> QED BY <2>2, <2>5 DEF Inner, Stored
<1> QED BY <1>1, <1>2 DEF typech

LEMMA DeleteInner ==
  ASSUME Inner, NEW cur \in 0 .. Len(tty_buf) - 1, delch(cur)
  PROVE  Inner'
<1> DEFINE t == RemoveAt(tty_buf, cur + 1)
<1>1. t \in Seq(Printable) /\ Len(t) = Len(tty_buf) - 1
  BY DeletedLine DEF Inner, LineOK
<1>2. tty_buf' = t /\ tty_cur' = cur /\ changed' = TRUE /\ Hist' = Hist
  BY HistSame DEF SetLine, delch
<1> HIDE DEF t
<1>3. Len(tty_buf) \in Nat /\ LineSize \in Nat /\ Len(tty_buf) <= LineSize - 1
  BY LineFacts DEF Inner, LineOK
<1>4. Len(t) <= LineSize - 1 /\ cur \in 0 .. Len(t)
  BY <1>1, <1>3
<1>5. LineOK'
  BY <1>1, <1>2, <1>4 DEF LineOK
<1> QED BY <1>2, <1>5 DEF Inner, Stored

LEMMA EraseInner ==
  ASSUME Inner, Backspace \/ DeleteChar
  PROVE  Inner'
<1>1. Len(tty_buf) \in Nat /\ tty_cur \in Nat /\ tty_cur <= Len(tty_buf)
  BY LineFacts DEF Inner
<1>2. CASE tty_cur # 0 /\ delch(tty_cur - 1)
  <2>1. tty_cur - 1 \in 0 .. Len(tty_buf) - 1
    BY <1>1, <1>2
  <2> QED BY <1>2, <2>1, DeleteInner
<1>3. CASE tty_cur # Len(tty_buf) /\ delch(tty_cur)
  <2>1. tty_cur \in 0 .. Len(tty_buf) - 1
    BY <1>1, <1>3
  <2> QED BY <1>3, <2>1, DeleteInner
<1>4. CASE Refused
  BY <1>4, RefusedInner
<1> QED BY <1>2, <1>3, <1>4 DEF Backspace, DeleteChar

-----------------------------------------------------------------------------
(***************************************************************************)
(* The steps of prompt_task.                                               *)
(***************************************************************************)

\* While a command runs the line is the one that was entered, and no line of
\* the history is recalled.
Editing ==
  /\ LineOK
  /\ Good(Hist)
  /\ pc # "command" => Stored
  /\ mode \in 0 .. 2
  /\ tab_count \in 0 .. 2
  /\ pc \in {"edit", "tab", "command"}

LEMMA InnerEditing ==
  ASSUME Editing
  PROVE  /\ pc # "command" => Inner
         /\ LineOK /\ Good(Hist)
BY DEF Editing, Inner

LEMMA CharCounts ==
  ASSUME Editing, Char
  PROVE  pc = "edit" /\ tab_count' \in 0 .. 2 /\ Inner
<1>1. tab_count - 1 \in Int /\ 0 \in Int
  BY DEF Editing
<1>2. tab_count' = IF tab_count - 1 >= 0 THEN tab_count - 1 ELSE 0
  BY <1>1, TwoNumbers DEF Char
<1> QED BY <1>2, InnerEditing DEF Editing, Char

LEMMA EditKeyStep ==
  ASSUME Editing, EditKey
  PROVE  Editing'
<1>1. /\ pc = "edit" /\ tab_count' \in 0 .. 2 /\ Inner
      /\ mode' = mode /\ pc' = pc
  BY CharCounts DEF EditKey
<1>2. Inner'
  <2>1. CASE \E c \in Typed : typech(c)
    <3>1. Typed \subseteq Printable
      BY ReadlineAssumption DEF Printable
    <3> QED BY <1>1, <2>1, <3>1, TypeInner
  <2>2. CASE Backspace \/ DeleteChar
    BY <1>1, <2>2, EraseInner
  <2>3. CASE GiveUp
    BY <1>1, <2>3, GiveUpInner
  <2>4. CASE cur_left \/ cur_right \/ MoveTo(Len(tty_buf)) \/ MoveTo(0)
    BY <1>1, <2>4, CursorInner
  <2>5. CASE hist_up \/ hist_down
    BY <1>1, <2>5, UpInner, DownInner
  <2> QED BY <2>1, <2>2, <2>3, <2>4, <2>5 DEF EditKey
<1> QED BY <1>1, <1>2 DEF Editing, Inner

LEMMA EnterStep ==
  ASSUME Editing, Enter
  PROVE  Editing'
<1> DEFINE rest == IF changed THEN Hist ELSE hist_del(Hist)
           back == [rest EXCEPT !.idx = Len(rest.buf)]
           stored == IF tty_buf = << >> THEN Hist ELSE hist_ins(back, tty_buf)
           last == [stored EXCEPT !.idx = Len(stored.buf)]
<1>1. /\ tab_count' \in 0 .. 2 /\ Inner /\ pc' = "command" /\ mode' = mode
      /\ SetHist(last) /\ tty_cur' = Len(tty_buf) /\ tty_buf' = tty_buf
      /\ changed' = FALSE
  BY CharCounts DEF Enter
<1>2. Good(rest)
  BY <1>1, DelGood DEF Inner
<1> HIDE DEF rest
<1>3. Good(back)
  BY <1>2, AtEndGood
<1> HIDE DEF back
<1>4. Good(stored)
  BY <1>1, <1>3, InsGood DEF Inner, LineOK
<1> HIDE DEF stored
<1>5. Good(last)
  BY <1>4, AtEndGood
<1> HIDE DEF last
<1>6. Hist' = last
  BY <1>1, <1>5, SetHistGood
<1>7. Len(tty_buf) \in 0 .. Len(tty_buf)
  BY <1>1, LineFacts DEF Inner
<1>8. LineOK'
  BY <1>1, <1>7 DEF Inner, LineOK
<1> QED BY <1>1, <1>5, <1>6, <1>8 DEF Editing

LEMMA EscapeStep ==
  ASSUME Editing, Escape
  PROVE  Editing'
<1>1. /\ tab_count' \in 0 .. 2 /\ Inner /\ pc' = pc /\ pc = "edit"
      /\ mode' \in 0 .. 2 /\ Refused
  BY CharCounts DEF Escape, Refused
<1>2. Inner'
  BY <1>1, RefusedInner
<1> QED BY <1>1, <1>2 DEF Editing, Inner

LEMMA ArrowStep ==
  ASSUME Editing, Arrow
  PROVE  Editing'
<1>1. /\ tab_count' \in 0 .. 2 /\ Inner /\ pc' = pc /\ pc = "edit" /\ mode' = 0
  BY CharCounts DEF Arrow
<1>2. Inner'
  BY <1>1, UpInner, DownInner, CursorInner, RefusedInner DEF Arrow
<1> QED BY <1>1, <1>2 DEF Editing, Inner

LEMMA TabStep ==
  ASSUME Editing, Tab
  PROVE  Editing'
<1>1. /\ tab_count' \in 0 .. 2 /\ Inner /\ pc = "edit" /\ mode' = mode
      /\ UNCHANGED hist /\ tty_buf' = tty_buf /\ changed' = changed
      /\ pc' \in {"edit", "tab"} /\ tty_cur' \in {tty_cur, Len(tty_buf)}
  BY CharCounts DEF Tab
<1>2. tty_cur \in 0 .. Len(tty_buf) /\ Len(tty_buf) \in 0 .. Len(tty_buf)
  BY <1>1, LineFacts DEF Inner
<1>3. MoveTo(tty_cur')
  BY <1>1 DEF MoveTo
<1>4. tty_cur' \in 0 .. Len(tty_buf)
  BY <1>1, <1>2
<1>5. Inner'
  BY <1>1, <1>3, <1>4, MoveInner
<1> QED BY <1>1, <1>5 DEF Editing, Inner

\* What nk_complete adds to the line is printable.
LEMMA CompletionsPrintable ==
  ASSUME LineOK, NEW c \in Completions(tty_buf)
  PROVE  c \in Printable
<1>1. PICK name \in Commands :
        /\ IsPrefix(tty_buf, name)
        /\ c = IF Len(name) = Len(tty_buf) THEN Space ELSE name[Len(tty_buf) + 1]
  BY DEF Completions
<1>2. name \in Seq(33 .. 126) /\ Len(tty_buf) <= Len(name) /\ Len(tty_buf) \in Nat
  BY <1>1, ReadlineAssumption, LineFacts DEF IsPrefix
<1>3. CASE Len(name) = Len(tty_buf)
  BY <1>1, <1>3 DEF Space, Printable
<1>4. CASE Len(name) # Len(tty_buf)
  <2>1. Len(tty_buf) + 1 \in 1 .. Len(name)
    BY <1>2, <1>4
  <2>2. name[Len(tty_buf) + 1] \in 33 .. 126
    <3> DEFINE S == 33 .. 126
               k == Len(tty_buf) + 1
    <3>1. name \in Seq(S) /\ k \in 1 .. Len(name)
      BY <1>2, <2>1
    <3> HIDE DEF S, k
    <3>2. name[k] \in S
      BY <3>1
    <3> QED BY <3>2 DEF S, k
  <2>3. 33 .. 126 \subseteq Printable
    BY DEF Printable
  <2> QED BY <1>1, <1>4, <2>2, <2>3
<1> QED BY <1>3, <1>4

LEMMA CompleteStep ==
  ASSUME Editing, Complete
  PROVE  Editing'
<1> DEFINE next == Completions(tty_buf)
           cur == IF tab_count # 0 THEN Len(tty_buf) ELSE tty_cur
           full == Len(tty_buf) = LineSize - 1
<1>1. pc = "tab" /\ Inner /\ UNCHANGED hist /\ mode' = mode
  BY InnerEditing DEF Complete
<1>2. cur \in 0 .. Len(tty_buf)
  BY <1>1, LineFacts DEF Inner
<1>3. CASE /\ \E c \in next :
                /\ SetLine(IF full THEN tty_buf ELSE InsertAt(tty_buf, cur + 1, c),
                           IF full THEN cur ELSE cur + 1)
                /\ changed' = (changed \/ ~ full)
                /\ pc' = IF c = Space THEN "edit" ELSE "tab"
           /\ UNCHANGED tab_count
  <2>1. PICK c \in next :
          /\ SetLine(IF full THEN tty_buf ELSE InsertAt(tty_buf, cur + 1, c),
                     IF full THEN cur ELSE cur + 1)
          /\ changed' = (changed \/ ~ full)
          /\ pc' = IF c = Space THEN "edit" ELSE "tab"
    BY <1>3
  <2>2. c \in Printable
    BY <1>1, CompletionsPrintable DEF Inner
  <2> HIDE DEF next, cur
  <2>3. CASE full
    <3>1. changed' = changed /\ tty_buf' = tty_buf /\ tty_cur' = cur
      BY <1>1, <2>1, <2>3 DEF SetLine, Inner, LineOK
    <3>2. MoveTo(cur)
      BY <1>1, <3>1 DEF MoveTo
    <3>3. Inner'
      BY <1>1, <1>2, <3>2, MoveInner
    <3> QED BY <1>1, <1>3, <2>1, <3>3 DEF Editing, Inner
  <2>4. CASE ~ full
    <3> DEFINE t == InsertAt(tty_buf, cur + 1, c)
    <3>1. t \in Seq(Printable) /\ Len(t) = Len(tty_buf) + 1
      BY <1>1, <1>2, <2>2, TypedLine DEF Inner, LineOK
    <3>2. tty_buf' = t /\ tty_cur' = cur + 1 /\ changed' = TRUE /\ Hist' = Hist
      BY <1>1, <2>1, <2>4, HistSame DEF SetLine
    <3> HIDE DEF t
    <3>3. /\ Len(tty_buf) \in Nat /\ LineSize \in Nat /\ Len(tty_buf) <= LineSize - 1
      BY <1>1, LineFacts DEF Inner, LineOK
    <3>4. Len(t) <= LineSize - 1 /\ cur + 1 \in 0 .. Len(t)
      BY <1>2, <2>4, <3>1, <3>3
    <3>5. LineOK'
      BY <3>1, <3>2, <3>4 DEF LineOK
    <3> QED BY <1>1, <1>3, <2>1, <3>2, <3>5 DEF Editing, Inner, Stored
  <2> QED BY <2>3, <2>4
<1>4. CASE /\ tty_cur' = cur
           /\ tab_count' = IF next = {} THEN tab_count ELSE 2
           /\ pc' = "edit"
           /\ UNCHANGED <<tty_buf, changed>>
  <2> HIDE DEF next, cur
  <2>1. MoveTo(cur)
    BY <1>1, <1>4 DEF MoveTo
  <2>2. Inner'
    BY <1>1, <1>2, <2>1, MoveInner
  <2>3. tab_count' \in 0 .. 2
    BY <1>4 DEF Editing
  <2> QED BY <1>1, <1>4, <2>2, <2>3 DEF Editing, Inner
<1> QED BY <1>3, <1>4 DEF Complete

LEMMA ReadlineStep ==
  ASSUME Editing, nk_readline
  PROVE  Editing'
<1>1. /\ tty_buf' = << >> /\ tty_cur' = 0 /\ changed' = FALSE /\ pc' = "edit"
      /\ Hist' = Hist /\ mode' = mode /\ tab_count' = tab_count
  BY HistSame DEF nk_readline, SetLine
<1>2. LineOK'
  BY <1>1, EmptyLine DEF LineOK
<1> QED BY <1>1, <1>2 DEF Editing, Stored

LEMMA EditingInit ==
  ASSUME Init PROVE Editing
<1>1. << >> \in Seq(Byte) /\ Len(<< >>) = 0
  OBVIOUS
<1>2. Starts(<< >>) = {0}
  BY DEF Starts
<1>3. Hist = [buf |-> << >>, idx |-> 0]
  BY DEF Init, Hist
<1>4. Hist.buf = << >> /\ Hist.idx = 0
  BY <1>3
<1>5. Rows(<< >>)
  BY <1>1, <1>2 DEF Rows
<1>6. Good(Hist)
  BY <1>1, <1>2, <1>3, <1>4, <1>5, ReadlineAssumption DEF Good
<1>7. LineOK
  BY EmptyLine DEF LineOK, Init
<1> QED BY <1>6, <1>7 DEF Editing, Init

LEMMA EditingNext ==
  ASSUME Editing, [Next]_vars PROVE Editing'
<1>1. CASE UNCHANGED vars
  <2>1. /\ Hist' = Hist /\ tty_buf' = tty_buf /\ tty_cur' = tty_cur
        /\ changed' = changed /\ pc' = pc /\ mode' = mode /\ tab_count' = tab_count
    BY <1>1 DEF vars, Hist
  <2> QED BY <2>1 DEF Editing, LineOK, Stored
<1> QED BY <1>1, EditKeyStep, EnterStep, EscapeStep, ArrowStep, TabStep,
           CompleteStep, ReadlineStep DEF Next

-----------------------------------------------------------------------------
(***************************************************************************)
(* The theorems.  The invariant Editing is needed whole: a recalled line   *)
(* fits the edit buffer because every line of the history does, that is    *)
(* because every line that was stored did; and hist_del takes out a whole  *)
(* line because the index is at a start.                                   *)
(***************************************************************************)

LEMMA AlwaysEditing == Spec => []Editing
<1>1. Init => Editing
  BY EditingInit
<1>2. Editing /\ [Next]_vars => Editing'
  BY EditingNext
<1> QED BY <1>1, <1>2, PTL DEF Spec

\* No line outgrows the edit buffer, not even one that strcpy brings back
\* from the history, the cursor stays in the line and the history in its
\* buffer: for every command table, line size and history size.
THEOREM EditorTypes == Spec => []TypeOK
<1>1. ASSUME Editing PROVE TypeOK
  <2>1. histbuf \in Seq(Byte) /\ Len(histbuf) <= HistSize /\ hist_idx \in Starts(histbuf)
    BY <1>1 DEF Editing, Good, Hist
  <2>2. histbuf \in Seq(0 .. 126)
    <3> DEFINE S == 0 .. 126
    <3>1. Byte \subseteq S
      BY DEF Byte
    <3> HIDE DEF S
    <3>2. histbuf \in Seq(S)
      BY <2>1, <3>1
    <3> QED BY <3>2 DEF S
  <2>3. hist_idx \in Nat
    BY <2>1, StartsAre
  <2> QED BY <1>1, <2>1, <2>2, <2>3 DEF TypeOK, Editing, LineOK, Printable
<1>2. Editing => TypeOK
  BY <1>1
<1> QED BY <1>2, AlwaysEditing, PTL

\* Whatever is stored, evicted, deleted and moved in whatever order, the
\* history is a row of whole lines and the index at the start of one or at
\* the end.
THEOREM HistoryStaysWhole == Spec => []WholeLines
<1>1. ASSUME Editing PROVE WholeLines
  <2>1. histbuf \in Seq(Byte) /\ hist_idx \in Starts(histbuf) /\ Rows(histbuf)
    BY <1>1 DEF Editing, Good, Hist
  <2>2. ASSUME NEW i \in Starts(histbuf), i < Len(histbuf) PROVE histbuf[i + 1] # 0
    <3>1. i + 1 \notin Starts(histbuf)
      BY <2>1, <2>2 DEF Rows
    <3>2. i + 1 \in 1 .. Len(histbuf)
      <4>1. i \in Nat /\ Len(histbuf) \in Nat
        BY <2>1, StartsAre
      <4> QED BY <2>2, <4>1
    <3> QED BY <2>1, <3>1, <3>2, StartsAre
  <2> QED BY <2>1, <2>2 DEF WholeLines, Rows
<1>2. Editing => WholeLines
  BY <1>1
<1> QED BY <1>2, AlwaysEditing, PTL

-----------------------------------------------------------------------------
(***************************************************************************)
(* From bytes to lines: the line at a start is the one after as many lines *)
(* as there are NULs up to it.                                             *)
(***************************************************************************)

LEMMA NulsCount ==
  ASSUME histbuf \in Seq(Byte), NEW a \in 0 .. Len(histbuf), NEW b \in a .. Len(histbuf)
  PROVE  /\ IsFiniteSet(Nuls(a)) /\ IsFiniteSet(Nuls(b))
         /\ Cardinality(Nuls(a)) \in Nat /\ Cardinality(Nuls(b)) \in Nat
         /\ Cardinality(Nuls(a)) <= Cardinality(Nuls(b))
         /\ Cardinality(Nuls(b)) = Cardinality(Nuls(a)) => Nuls(b) = Nuls(a)
<1>1. Len(histbuf) \in Nat /\ a \in Nat /\ b \in Nat /\ a <= b
  OBVIOUS
<1>2. IsFiniteSet(1 .. b)
  BY <1>1, FS_Interval
<1>3. Nuls(b) \in SUBSET (1 .. b)
  BY DEF Nuls
<1>4. Nuls(a) \in SUBSET Nuls(b)
  <2>1. \A i \in 1 .. a : i \in 1 .. b
    BY <1>1
  <2> QED BY <2>1 DEF Nuls
<1>5. IsFiniteSet(Nuls(b))
  BY <1>2, <1>3, FS_Subset
<1> QED BY <1>4, <1>5, FS_Subset, FS_CardinalityType

LEMMA NulsAre ==
  ASSUME histbuf \in Seq(Byte), NEW n \in 0 .. Len(histbuf)
  PROVE  \A i : i \in Nuls(n) <=> i \in 1 .. n /\ histbuf[i] = 0
<1>1. DOMAIN histbuf = 1 .. Len(histbuf) /\ Len(histbuf) \in Nat
  OBVIOUS
<1>2. \A i : i \in 1 .. n => i \in 1 .. Len(histbuf)
  BY <1>1
<1> QED BY <1>1, <1>2 DEF Nuls

LEMMA NthNulIs ==
  ASSUME histbuf \in Seq(Byte), NEW e \in Nuls(Len(histbuf))
  PROVE  /\ Cardinality(Nuls(e)) \in 1 .. Cardinality(Nuls(Len(histbuf)))
         /\ NthNul(Cardinality(Nuls(e))) = e
<1> DEFINE n == Len(histbuf)
           c == Cardinality(Nuls(e))
<1>1. n \in Nat /\ n \in 0 .. n
  OBVIOUS
<1>2. \A i \in Nuls(n) : i \in 1 .. n /\ i \in 0 .. n /\ i \in Nuls(i) /\ histbuf[i] = 0
  <2>1. ASSUME NEW i \in Nuls(n) PROVE i \in 1 .. n /\ i \in 0 .. n /\ i \in Nuls(i) /\ histbuf[i] = 0
    <3>1. i \in 1 .. n /\ histbuf[i] = 0
      BY <1>1, NulsAre
    <3>2. i \in 0 .. n /\ i \in 1 .. i
      BY <1>1, <3>1
    <3> QED BY <3>1, <3>2, NulsAre
  <2> QED BY <2>1
<1>3. \A i, j \in Nuls(n) : i < j => Cardinality(Nuls(i)) # Cardinality(Nuls(j))
  <2>1. SUFFICES ASSUME NEW i \in Nuls(n), NEW j \in Nuls(n), i < j,
                        Cardinality(Nuls(i)) = Cardinality(Nuls(j))
                 PROVE  FALSE
    OBVIOUS
  <2>2. i \in 0 .. n /\ j \in i .. n /\ j \in Nuls(j) /\ j \notin 1 .. i
    BY <1>1, <1>2, <2>1
  <2>3. Nuls(j) = Nuls(i)
    BY <2>1, <2>2, NulsCount
  <2>4. j \notin Nuls(i)
    BY <2>2, NulsAre
  <2> QED BY <2>2, <2>3, <2>4
<1>4. c \in Nat /\ c <= Cardinality(Nuls(n)) /\ Cardinality(Nuls(n)) \in Nat /\ c # 0
  <2>1. e \in 0 .. n /\ n \in e .. n
    BY <1>1, <1>2
  <2>2. /\ c \in Nat /\ c <= Cardinality(Nuls(n)) /\ Cardinality(Nuls(n)) \in Nat
        /\ IsFiniteSet(Nuls(e))
    BY <2>1, NulsCount
  <2>3. Nuls(e) # {}
    BY <1>2
  <2> QED BY <2>2, <2>3, FS_EmptySet
<1>5. NthNul(c) = CHOOSE i \in Nuls(n) : Cardinality(Nuls(i)) = c
  BY <1>4 DEF NthNul
<1>6. \A i \in Nuls(n) : Cardinality(Nuls(i)) = c <=> i = e
  <2> TAKE i \in Nuls(n)
  <2>1. i < e \/ i = e \/ e < i
    BY <1>1, <1>2
  <2> QED BY <1>3, <2>1
<1>7. NthNul(c) = e
  BY <1>5, <1>6
<1> QED BY <1>4, <1>7

LEMMA RecalledLine ==
  ASSUME Editing, pc # "command", ~ changed, tty_buf # << >>
  PROVE  /\ Cardinality(Nuls(hist_idx)) + 1 \in DOMAIN LineList
         /\ tty_buf = LineList[Cardinality(Nuls(hist_idx)) + 1]
<1> DEFINE n == Len(histbuf)
           x == hist_idx
           m == Len(tty_buf)
           e == (x + m) + 1
           c == Cardinality(Nuls(x))
<1>1. /\ histbuf \in Seq(Byte) /\ x \in Starts(histbuf) /\ tty_buf \in Seq(Printable)
      /\ LineAt(Hist, tty_buf) /\ m \in Nat
  BY DEF Editing, Good, Hist, LineOK, Stored
<1>2. /\ n \in Nat /\ x \in Nat /\ x <= n
  BY <1>1, StartsAre
<1>3. /\ e <= n /\ histbuf[e] = 0
      /\ \A k \in 1 .. m : histbuf[x + k] = tty_buf[k]
  BY <1>1 DEF LineAt, Hist
<1>4. /\ e \in 1 .. n /\ x \in 0 .. n /\ n \in 0 .. n /\ e \in 0 .. n
  BY <1>1, <1>2, <1>3
<1>5. e \in Nuls(n)
  BY <1>1, <1>3, <1>4, NulsAre
<1>6. Nuls(e) = Nuls(x) \cup {e} /\ e \notin Nuls(x)
  <2>1. ASSUME NEW i \in 1 .. e, histbuf[i] = 0, i # e PROVE i \in 1 .. x
    <3>1. SUFFICES ASSUME i > x PROVE FALSE
      BY <1>2
    <3>2. i - x \in 1 .. m /\ x + (i - x) = i
      BY <1>1, <1>2, <2>1, <3>1
    <3>3. tty_buf[i - x] = 0
      BY <1>3, <2>1, <3>2
    <3>4. tty_buf[i - x] \in Printable
      BY <1>1, <3>2
    <3> QED BY <3>3, <3>4, PrintableBytes
  <2>2. ASSUME NEW i \in 1 .. x PROVE i \in 1 .. e /\ i # e
    BY <1>1, <1>2
  <2>3. e \in 1 .. e
    BY <1>4
  <2>4. \A i : i \in Nuls(e) <=> i \in 1 .. e /\ histbuf[i] = 0
    BY <1>1, <1>4, NulsAre
  <2>5. \A i : i \in Nuls(x) <=> i \in 1 .. x /\ histbuf[i] = 0
    BY <1>1, <1>4, NulsAre
  <2> HIDE DEF e
  <2> QED BY <1>3, <2>1, <2>2, <2>3, <2>4, <2>5
<1>7. IsFiniteSet(Nuls(x)) /\ c \in Nat
  <2>1. n \in x .. n
    BY <1>2
  <2> QED BY <1>1, <1>4, <2>1, NulsCount
<1>8. Cardinality(Nuls(e)) = c + 1
  BY <1>6, <1>7, FS_AddElement
<1>9. c + 1 \in 1 .. Cardinality(Nuls(n)) /\ NthNul(c + 1) = e
  BY <1>1, <1>5, <1>8, NthNulIs
<1>10. NthNul(c) = x
  <2>1. CASE x = 0
    <3>1. Nuls(x) = {}
      BY <2>1 DEF Nuls
    <3>2. c = 0
      BY <3>1, FS_EmptySet
    <3> QED BY <2>1, <3>2 DEF NthNul
  <2>2. CASE x # 0
    <3>1. x \in 1 .. n /\ histbuf[x] = 0
      BY <1>1, <1>2, <2>2, StartsAre
    <3>2. x \in Nuls(n)
      BY <1>1, <1>4, <3>1, NulsAre
    <3> QED BY <1>1, <3>2, NthNulIs
  <2> QED BY <2>1, <2>2
<1>11. LineList[c + 1] = SubSeq(histbuf, x + 1, e - 1) /\ c + 1 \in DOMAIN LineList
  <2>1. (c + 1) - 1 = c
    BY <1>7
  <2> QED BY <1>9, <1>10, <2>1 DEF LineList
<1>12. SubSeq(histbuf, x + 1, e - 1) = tty_buf
  <2> DEFINE t == SubSeq(histbuf, x + 1, e - 1)
  <2>1. e - 1 = x + m
    BY <1>1, <1>2
  <2>2. t = [k \in 1 .. m |-> histbuf[x + k]]
    <3>1. t = SubSeq(histbuf, x + 1, x + m)
      BY <2>1
    <3> HIDE DEF t, e
    <3> QED BY <1>1, <1>2, <1>3, <3>1
  <2>3. tty_buf = [k \in 1 .. m |-> tty_buf[k]]
    BY <1>1
  <2> HIDE DEF t
  <2> QED BY <1>3, <2>2, <2>3 DEF t
<1> QED BY <1>11, <1>12

\* What Enter takes out of the history as the recalled line is that line,
\* and no other, for every history that the keys can build.
THEOREM RecalledAlwaysStored == Spec => []RecalledIsStored
<1>1. Editing => RecalledIsStored
  BY RecalledLine DEF RecalledIsStored, History!RecalledIsStored
<1> QED BY <1>1, AlwaysEditing, PTL

-----------------------------------------------------------------------------
(***************************************************************************)
(* The history as lines.  A buffer is the text of the lines ls if they are *)
(* in it one after the other, the n-th up to byte st[n].                   *)
(***************************************************************************)

Lines == Seq(Printable) \ {<< >>}

HasLine(buf, i, l) ==
  /\ (i + Len(l)) + 1 <= Len(buf)
  /\ \A k \in 1 .. Len(l) : buf[i + k] = l[k]
  /\ buf[(i + Len(l)) + 1] = 0

Text(buf, ls, st) ==
  /\ buf \in Seq(Byte)
  /\ ls \in Seq(Lines)
  /\ st \in [0 .. Len(ls) -> Nat]
  /\ st[0] = 0 /\ st[Len(ls)] = Len(buf)
  /\ \A n \in 1 .. Len(ls) :
       /\ st[n] = (st[n - 1] + Len(ls[n])) + 1
       /\ HasLine(buf, st[n - 1], ls[n])

LEMMA TextFacts ==
  ASSUME NEW buf, NEW ls, NEW st, Text(buf, ls, st)
  PROVE  /\ Len(ls) \in Nat /\ Len(buf) \in Nat
         /\ \A n \in 0 .. Len(ls) : st[n] \in Nat
         /\ \A n \in 1 .. Len(ls) :
              /\ n - 1 \in 0 .. Len(ls) /\ n \in 0 .. Len(ls)
              /\ ls[n] \in Seq(Printable) /\ ls[n] # << >>
              /\ Len(ls[n]) \in Nat /\ Len(ls[n]) >= 1
              /\ st[n - 1] < st[n]
<1>1. Len(ls) \in Nat /\ Len(buf) \in Nat
  BY DEF Text
<1>2. \A n \in 0 .. Len(ls) : st[n] \in Nat
  BY DEF Text
<1>3. ASSUME NEW n \in 1 .. Len(ls)
      PROVE  /\ n - 1 \in 0 .. Len(ls) /\ n \in 0 .. Len(ls)
             /\ ls[n] \in Seq(Printable) /\ ls[n] # << >>
             /\ Len(ls[n]) \in Nat /\ Len(ls[n]) >= 1
             /\ st[n - 1] < st[n]
  <2>1. n - 1 \in 0 .. Len(ls) /\ n \in 0 .. Len(ls)
    BY <1>1
  <2>2. ls[n] \in Lines
    BY DEF Text
  <2>3. ls[n] \in Seq(Printable) /\ ls[n] # << >>
    BY <2>2 DEF Lines
  <2>4. Len(ls[n]) \in Nat /\ Len(ls[n]) >= 1
    <3> DEFINE l == ls[n]
    <3>1. l \in Seq(Printable) /\ l # << >>
      BY <2>3
    <3> HIDE DEF l
    <3>2. Len(l) \in Nat /\ Len(l) # 0
      BY <3>1
    <3> QED BY <3>2 DEF l
  <2>5. st[n] = (st[n - 1] + Len(ls[n])) + 1 /\ st[n - 1] \in Nat
    BY <1>2, <2>1 DEF Text
  <2>6. st[n - 1] < st[n]
    BY <2>4, <2>5
  <2> QED BY <2>1, <2>3, <2>4, <2>6
<1> QED BY <1>1, <1>2, <1>3

LEMMA Ascending ==
  ASSUME NEW buf, NEW ls, NEW st, Text(buf, ls, st)
  PROVE  \A a, b \in 0 .. Len(ls) : a < b => st[a] < st[b]
<1> SUFFICES ASSUME NEW a \in 0 .. Len(ls)
             PROVE  \A b \in 0 .. Len(ls) : a < b => st[a] < st[b]
  OBVIOUS
<1> DEFINE B == {b \in 0 .. Len(ls) : a < b /\ ~ (st[a] < st[b])}
<1>1. SUFFICES ASSUME B # {} PROVE FALSE
  OBVIOUS
<1>2. B \subseteq Nat /\ Len(ls) \in Nat
  BY TextFacts
<1>3. PICK b \in B : \A c \in B : b <= c
  BY <1>1, <1>2, LeastNat
<1>4. /\ b \in 1 .. Len(ls) /\ b - 1 \in 0 .. Len(ls) /\ ~ (b <= b - 1)
      /\ a = b - 1 \/ a < b - 1
  BY <1>2
<1>5. st[b - 1] < st[b] /\ st[b - 1] \in Nat /\ st[b] \in Nat /\ st[a] \in Nat
  BY <1>4, TextFacts
<1>6. b - 1 \notin B
  BY <1>3, <1>4
<1>7. st[a] < st[b]
  BY <1>4, <1>5, <1>6
<1> QED BY <1>7

LEMMA InOrder ==
  ASSUME NEW buf, NEW ls, NEW st, Text(buf, ls, st),
         NEW a \in 0 .. Len(ls), NEW b \in 0 .. Len(ls)
  PROVE  /\ st[a] \in Nat /\ st[b] \in Nat /\ st[a] <= Len(buf)
         /\ a <= b <=> st[a] <= st[b]
         /\ st[a] = st[b] => a = b
<1>1. st[a] \in Nat /\ st[b] \in Nat /\ a \in Nat /\ b \in Nat /\ Len(ls) \in Nat
  BY TextFacts
<1>2. /\ a < b => st[a] < st[b]
      /\ b < a => st[b] < st[a]
      /\ a < Len(ls) => st[a] < st[Len(ls)]
  <2>1. Len(ls) \in 0 .. Len(ls)
    BY <1>1
  <2> QED BY <2>1, Ascending
<1>3. st[Len(ls)] = Len(buf) /\ a <= Len(ls) /\ Len(buf) \in Nat
  BY TextFacts DEF Text
<1> QED BY <1>1, <1>2, <1>3

\* A place behind the start a of a line of n bytes and before its end is in it.
LEMMA InsideLine ==
  ASSUME NEW a \in Nat, NEW n \in Nat, NEW q \in Nat,
         q <= (a + n) + 1, q # (a + n) + 1, ~ (q <= a)
  PROVE  q - a \in 1 .. n /\ a + (q - a) = q
OBVIOUS

\* The starts are the ends of the lines, and 0.
LEMMA StartsOf ==
  ASSUME NEW buf, NEW ls, NEW st, Text(buf, ls, st)
  PROVE  \A q : q \in Starts(buf) <=> \E n \in 0 .. Len(ls) : q = st[n]
<1>0. buf \in Seq(Byte) /\ Len(buf) \in Nat /\ Len(ls) \in Nat /\ Len(ls) \in 0 .. Len(ls)
  BY TextFacts DEF Text
<1>1. ASSUME NEW n \in 0 .. Len(ls) PROVE st[n] \in Starts(buf)
  <2>1. CASE n = 0
    BY <1>0, <2>1, StartsAre DEF Text
  <2>2. CASE n # 0
    <3>1. n \in 1 .. Len(ls)
      BY <2>2
    <3>2. st[n] = (st[n - 1] + Len(ls[n])) + 1 /\ buf[(st[n - 1] + Len(ls[n])) + 1] = 0
      BY <3>1 DEF Text, HasLine
    <3>3. st[n] \in Nat /\ st[n - 1] \in Nat /\ st[n - 1] < st[n] /\ st[n] <= Len(buf)
      BY <3>1, TextFacts, InOrder
    <3>4. st[n] \in 1 .. Len(buf)
      BY <1>0, <3>3
    <3> QED BY <1>0, <3>2, <3>4, StartsAre
  <2> QED BY <2>1, <2>2
<1>2. ASSUME NEW q \in Starts(buf) PROVE \E n \in 0 .. Len(ls) : q = st[n]
  <2>1. q \in Nat /\ q <= Len(buf)
    BY <1>0, StartsAre
  <2> DEFINE B == {n \in 0 .. Len(ls) : q <= st[n]}
  <2>2. Len(ls) \in B
    BY <1>0, <2>1 DEF Text
  <2>3. B \subseteq Nat
    BY <1>0
  <2>4. PICK n \in B : \A m \in B : n <= m
    BY <2>2, <2>3, LeastNat
  <2>5. n \in 0 .. Len(ls) /\ q <= st[n] /\ st[n] \in Nat
    BY TextFacts
  <2>6. SUFFICES ASSUME q # st[n] PROVE FALSE
    BY <2>5
  <2>7. n # 0
    BY <2>1, <2>5, <2>6 DEF Text
  <2>8. n \in 1 .. Len(ls) /\ n - 1 \in 0 .. Len(ls) /\ ~ (n <= n - 1)
    BY <2>5, <2>7
  <2>9. ~ (q <= st[n - 1]) /\ st[n - 1] \in Nat
    BY <2>4, <2>8, TextFacts
  <2>10. /\ st[n] = (st[n - 1] + Len(ls[n])) + 1
         /\ \A k \in 1 .. Len(ls[n]) : buf[st[n - 1] + k] = ls[n][k]
    BY <2>8 DEF Text, HasLine
  <2>11. Len(ls[n]) \in Nat /\ ls[n] \in Seq(Printable)
    BY <2>8, TextFacts
  <2> DEFINE k == q - st[n - 1]
  <2>12. k \in 1 .. Len(ls[n]) /\ st[n - 1] + k = q
    <3>1. q \in Nat /\ st[n - 1] \in Nat /\ Len(ls[n]) \in Nat /\ ~ (q <= st[n - 1])
      BY <2>1, <2>9, <2>11
    <3>2. q <= (st[n - 1] + Len(ls[n])) + 1 /\ q # (st[n - 1] + Len(ls[n])) + 1
      BY <2>5, <2>6, <2>10
    <3> HIDE DEF B
    <3> QED BY ONLY <3>1, <3>2, InsideLine DEF k
  <2>13. ls[n][k] \in Printable
    BY <2>11, <2>12
  <2>14. buf[q] # 0
    BY <2>10, <2>12, <2>13, PrintableBytes
  <2>15. q # 0
    BY <2>9
  <2> QED BY <1>0, <2>14, <2>15, StartsAre
<1> QED BY <1>1, <1>2

\* The text of a line determines it.
LEMMA LineIs ==
  ASSUME NEW buf \in Seq(Byte), NEW i \in Nat, NEW l \in Seq(Printable), HasLine(buf, i, l)
  PROVE  SubSeq(buf, i + 1, i + Len(l)) = l
<1> DEFINE m == Len(l)
           t == SubSeq(buf, i + 1, i + m)
<1>1. m \in Nat /\ Len(buf) \in Nat
  OBVIOUS
<1>2. (i + m) + 1 <= Len(buf) /\ \A k \in 1 .. m : buf[i + k] = l[k]
  BY DEF HasLine
<1>3. l = [k \in 1 .. m |-> l[k]]
  OBVIOUS
<1> HIDE DEF m
<1>4. t = [k \in 1 .. m |-> buf[i + k]]
  BY <1>1, <1>2
<1> HIDE DEF t
<1> QED BY <1>2, <1>3, <1>4 DEF t, m

LEMMA CountOf ==
  ASSUME NEW ls, NEW st, Text(histbuf, ls, st)
  PROVE  \A n \in 0 .. Len(ls) : Cardinality(Nuls(st[n])) = n
<1> DEFINE B == {n \in 0 .. Len(ls) : Cardinality(Nuls(st[n])) # n}
<1>1. SUFFICES ASSUME B # {} PROVE FALSE
  OBVIOUS
<1>2. B \subseteq Nat /\ Len(ls) \in Nat /\ histbuf \in Seq(Byte) /\ Len(histbuf) \in Nat
  BY TextFacts DEF Text
<1>3. PICK n \in B : \A m \in B : n <= m
  BY <1>1, <1>2, LeastNat
<1>4. n \in 0 .. Len(ls) /\ Cardinality(Nuls(st[n])) # n
  OBVIOUS
<1> HIDE DEF B
<1>5. n # 0
  <2>1. Nuls(0) = {}
    BY DEF Nuls
  <2>2. Cardinality(Nuls(0)) = 0
    BY <2>1, FS_EmptySet
  <2> QED BY <1>4, <2>2 DEF Text
<1> DEFINE a == st[n - 1]
           e == st[n]
<1>6. n - 1 \in 0 .. Len(ls) /\ ~ (n <= n - 1) /\ n - 1 \in Nat /\ n \in Nat
  BY <1>4, <1>5
<1>7. Cardinality(Nuls(a)) = n - 1
  BY <1>3, <1>6 DEF B
<1>8. /\ a \in Nat /\ e \in Nat /\ a < e /\ e <= Len(histbuf)
      /\ a \in Starts(histbuf) /\ e \in Starts(histbuf)
  <2>1. a \in Nat /\ e \in Nat /\ e <= Len(histbuf) /\ (n <= n - 1 <=> e <= a)
    BY <1>4, <1>6, InOrder
  <2>2. a \in Starts(histbuf) /\ e \in Starts(histbuf)
    BY <1>4, <1>6, StartsOf
  <2> QED BY <1>6, <2>1, <2>2
<1>9. ASSUME NEW q \in Starts(histbuf), a < q, q <= e PROVE q = e
  <2>1. PICK m \in 0 .. Len(ls) : q = st[m]
    BY StartsOf
  <2>2. (m <= n - 1 <=> q <= a) /\ (m <= n <=> q <= e) /\ q \in Nat
    BY <1>4, <1>6, <2>1, InOrder
  <2>3. m = n
    BY <1>4, <1>6, <1>8, <1>9, <2>2
  <2> QED BY <2>1, <2>3
<1> HIDE DEF a, e
<1>10. /\ \A i : i \in Nuls(a) <=> i \in 1 .. a /\ histbuf[i] = 0
       /\ \A i : i \in Nuls(e) <=> i \in 1 .. e /\ histbuf[i] = 0
  <2>1. a \in 0 .. Len(histbuf) /\ e \in 0 .. Len(histbuf)
    BY <1>2, <1>8
  <2> QED BY <1>2, <2>1, NulsAre
<1>11. \A i \in 1 .. e : histbuf[i] = 0 => i \in 1 .. a \/ i = e
  <2> SUFFICES ASSUME NEW i \in 1 .. e, histbuf[i] = 0, i \notin 1 .. a PROVE i = e
    OBVIOUS
  <2>1. i \in 1 .. Len(histbuf) /\ a < i /\ i <= e
    BY <1>2, <1>8
  <2>2. i \in Starts(histbuf)
    BY <1>2, <2>1, StartsAre
  <2> QED BY <1>9, <2>1, <2>2
<1>12. e \in 1 .. e /\ histbuf[e] = 0 /\ e \notin 1 .. a /\ \A i \in 1 .. a : i \in 1 .. e
  <2>1. e \in 1 .. e /\ e \in 1 .. Len(histbuf) /\ e \notin 1 .. a /\ \A i \in 1 .. a : i \in 1 .. e
    BY <1>2, <1>8
  <2> QED BY <1>2, <1>8, <2>1, StartsAre
<1>13. Nuls(e) = Nuls(a) \cup {e} /\ e \notin Nuls(a)
  BY <1>10, <1>11, <1>12
<1>14. IsFiniteSet(Nuls(a))
  <2>1. a \in 0 .. Len(histbuf) /\ Len(histbuf) \in a .. Len(histbuf)
    BY <1>2, <1>8
  <2> QED BY <1>2, <2>1, NulsCount
<1>15. Cardinality(Nuls(e)) = (n - 1) + 1
  BY <1>7, <1>13, <1>14, FS_AddElement
<1> QED BY <1>4, <1>6, <1>15 DEF e

\* There is one list of lines that a buffer is the text of: LineList.
LEMMA LineListIs ==
  ASSUME NEW ls, NEW st, Text(histbuf, ls, st)
  PROVE  LineList = ls
<1> DEFINE N == Len(ls)
           L == Len(histbuf)
<1>1. N \in Nat /\ L \in Nat /\ histbuf \in Seq(Byte) /\ st[0] = 0 /\ st[N] = L
  BY TextFacts DEF Text
<1>2. \A n \in 0 .. N : Cardinality(Nuls(st[n])) = n
  BY CountOf
<1>3. Cardinality(Nuls(L)) = N
  BY <1>1, <1>2
<1>4. ASSUME NEW n \in 0 .. N PROVE NthNul(n) = st[n]
  <2>1. CASE n = 0
    BY <1>1, <2>1 DEF NthNul
  <2>2. CASE n # 0
    <3>1. st[n] \in Starts(histbuf) /\ st[n] \in Nat /\ st[n] <= L
      BY StartsOf, InOrder
    <3>2. st[n] # 0
      <4>1. 0 \in 0 .. N
        BY <1>1
      <4> QED BY <1>1, <2>2, <4>1, InOrder
    <3>3. st[n] \in 1 .. L /\ histbuf[st[n]] = 0 /\ L \in 0 .. L
      BY <1>1, <3>1, <3>2, StartsAre
    <3>4. st[n] \in Nuls(L)
      BY <1>1, <3>3, NulsAre
    <3>5. NthNul(Cardinality(Nuls(st[n]))) = st[n]
      BY <1>1, <3>4, NthNulIs
    <3> QED BY <1>2, <3>5
  <2> QED BY <2>1, <2>2
<1>5. ASSUME NEW n \in 1 .. N PROVE SubSeq(histbuf, NthNul(n - 1) + 1, NthNul(n) - 1) = ls[n]
  <2>1. n - 1 \in 0 .. N /\ n \in 0 .. N
    BY <1>1
  <2>2. NthNul(n - 1) = st[n - 1] /\ NthNul(n) = st[n]
    BY <1>4, <2>1
  <2>3. /\ ls[n] \in Seq(Printable) /\ Len(ls[n]) \in Nat /\ st[n - 1] \in Nat
    BY <2>1, TextFacts
  <2>4. st[n] = (st[n - 1] + Len(ls[n])) + 1 /\ HasLine(histbuf, st[n - 1], ls[n])
    BY DEF Text
  <2>5. st[n] - 1 = st[n - 1] + Len(ls[n])
    BY <2>3, <2>4
  <2>6. SubSeq(histbuf, st[n - 1] + 1, st[n - 1] + Len(ls[n])) = ls[n]
    BY <1>1, <2>3, <2>4, LineIs
  <2> QED BY <2>2, <2>5, <2>6
<1>6. LineList = [n \in 1 .. N |-> SubSeq(histbuf, NthNul(n - 1) + 1, NthNul(n) - 1)]
  BY <1>3 DEF LineList
<1>7. LineList = [n \in 1 .. N |-> ls[n]]
  BY <1>5, <1>6
<1>8. ls = [n \in 1 .. N |-> ls[n]]
  <2>1. ls \in Seq(Lines)
    BY DEF Text
  <2> QED BY <2>1
<1> QED BY <1>7, <1>8

\* Two starts have different numbers of lines in front of them, and the next
\* start has one more.
LEMMA CountGrows ==
  ASSUME histbuf \in Seq(Byte), NEW x \in Starts(histbuf), NEW y \in Starts(histbuf), x < y
  PROVE  Cardinality(Nuls(x)) < Cardinality(Nuls(y))
<1>1. x \in Nat /\ y \in Nat /\ y <= Len(histbuf) /\ Len(histbuf) \in Nat
  BY StartsAre
<1>2. /\ x \in 0 .. Len(histbuf) /\ y \in x .. Len(histbuf) /\ y \in 0 .. Len(histbuf)
      /\ y \in 1 .. Len(histbuf) /\ y \in 1 .. y /\ y \notin 1 .. x
  BY <1>1
<1>3. /\ Cardinality(Nuls(x)) \in Nat /\ Cardinality(Nuls(y)) \in Nat
      /\ Cardinality(Nuls(x)) <= Cardinality(Nuls(y))
      /\ Cardinality(Nuls(y)) = Cardinality(Nuls(x)) => Nuls(y) = Nuls(x)
  BY <1>2, NulsCount
<1>4. y \in Nuls(y) /\ y \notin Nuls(x)
  BY <1>2, NulsAre, StartsAre
<1>5. Cardinality(Nuls(y)) # Cardinality(Nuls(x))
  BY <1>3, <1>4
<1> QED BY <1>3, <1>5

LEMMA CountNext ==
  ASSUME histbuf \in Seq(Byte), Rows(histbuf), NEW x \in Starts(histbuf), x < Len(histbuf)
  PROVE  Cardinality(Nuls(NulAt(histbuf, x) + 1)) = Cardinality(Nuls(x)) + 1
<1> DEFINE e == NulAt(histbuf, x) + 1
<1>1. x \in Nat /\ Len(histbuf) \in Nat
  BY StartsAre
<1>2. /\ NulAt(histbuf, x) \in Nat /\ x + 1 <= NulAt(histbuf, x)
      /\ e <= Len(histbuf) /\ histbuf[e] = 0
      /\ \A k \in x + 1 .. NulAt(histbuf, x) : histbuf[k] # 0
  BY NulFacts
<1>3. e \in Nat /\ x < e /\ x + 1 .. NulAt(histbuf, x) = x + 1 .. e - 1
  BY <1>1, <1>2
<1>4. \A k \in x + 1 .. e - 1 : histbuf[k] # 0
  BY <1>2, <1>3
<1> HIDE DEF e
<1>5. /\ \A i : i \in Nuls(x) <=> i \in 1 .. x /\ histbuf[i] = 0
      /\ \A i : i \in Nuls(e) <=> i \in 1 .. e /\ histbuf[i] = 0
  <2>1. x \in 0 .. Len(histbuf) /\ e \in 0 .. Len(histbuf)
    BY <1>1, <1>2, <1>3
  <2> QED BY <2>1, NulsAre
<1>6. \A i : i \in 1 .. e => i \in 1 .. x \/ i \in x + 1 .. e - 1 \/ i = e
  BY <1>1, <1>3
<1>7. e \in 1 .. e /\ e \notin 1 .. x /\ \A i : i \in 1 .. x => i \in 1 .. e
  BY <1>1, <1>3
<1>8. Nuls(e) = Nuls(x) \cup {e} /\ e \notin Nuls(x)
  BY <1>2, <1>4, <1>5, <1>6, <1>7
<1>9. IsFiniteSet(Nuls(x))
  <2>1. x \in 0 .. Len(histbuf) /\ Len(histbuf) \in x .. Len(histbuf)
    BY <1>1
  <2> QED BY <2>1, NulsCount
<1>10. Cardinality(Nuls(e)) = Cardinality(Nuls(x)) + 1
  BY <1>8, <1>9, FS_AddElement
<1> QED BY <1>10 DEF e

\* The history is the text of some list of lines.
LEMMA HasText ==
  ASSUME Good(Hist)
  PROVE  \E ls, st : Text(histbuf, ls, st)
<1> DEFINE L == Len(histbuf)
           N == Cardinality(Nuls(L))
           Is(x, n) == Cardinality(Nuls(x)) = n
<1>1. /\ histbuf \in Seq(Byte) /\ Rows(histbuf) /\ L \in Nat /\ L \in Starts(histbuf)
      /\ 0 \in Starts(histbuf) /\ Len(histbuf) <= HistSize
  BY StartsAre DEF Good, Hist, Rows
<1>2. N \in Nat
  <2>1. L \in 0 .. L /\ L \in L .. L
    BY <1>1
  <2> QED BY <1>1, <2>1, NulsCount
<1>3. \A x \in Starts(histbuf) : x # L => x < L /\ x \in Nat
  BY <1>1, StartsAre
<1>4. \A n \in 0 .. N : \E x \in Starts(histbuf) : Is(x, n)
  <2> DEFINE B == {n \in 0 .. N : ~ \E x \in Starts(histbuf) : Is(x, n)}
  <2>1. SUFFICES ASSUME B # {} PROVE FALSE
    OBVIOUS
  <2>2. B \subseteq Nat
    BY <1>2
  <2>3. PICK n \in B : \A m \in B : n <= m
    BY <2>1, <2>2, LeastNat
  <2>4. Is(0, 0)
    <3>1. Nuls(0) = {}
      BY DEF Nuls
    <3> QED BY <3>1, FS_EmptySet
  <2>5. n # 0 /\ n \in 0 .. N
    BY <1>1, <2>4
  <2>6. n - 1 \in 0 .. N /\ ~ (n <= n - 1) /\ n - 1 # N /\ (n - 1) + 1 = n
    BY <1>2, <2>5
  <2>7. PICK x \in Starts(histbuf) : Is(x, n - 1)
    BY <2>3, <2>6
  <2>8. x < L
    BY <1>3, <2>6, <2>7
  <2>9. Is(NulAt(histbuf, x) + 1, n)
    BY <1>1, <2>6, <2>7, <2>8, CountNext
  <2>10. NulAt(histbuf, x) + 1 \in Starts(histbuf)
    BY <1>1, <2>8, NulFacts
  <2> QED BY <2>9, <2>10
<1>5. \A x, y \in Starts(histbuf) : Cardinality(Nuls(x)) = Cardinality(Nuls(y)) => x = y
  <2> SUFFICES ASSUME NEW x \in Starts(histbuf), NEW y \in Starts(histbuf), x # y
               PROVE  Cardinality(Nuls(x)) # Cardinality(Nuls(y))
    OBVIOUS
  <2>1. x \in Nat /\ y \in Nat /\ (x < y \/ y < x)
    BY <1>1, StartsAre
  <2>2. /\ x \in 0 .. L /\ L \in x .. L /\ y \in 0 .. L /\ L \in y .. L
    BY <1>1, <2>1, StartsAre
  <2>3. Cardinality(Nuls(x)) \in Nat /\ Cardinality(Nuls(y)) \in Nat
    BY <1>1, <2>2, NulsCount
  <2>4. \/ Cardinality(Nuls(x)) < Cardinality(Nuls(y))
        \/ Cardinality(Nuls(y)) < Cardinality(Nuls(x))
    BY <1>1, <2>1, CountGrows
  <2> QED BY <2>3, <2>4
<1> DEFINE st == [n \in 0 .. N |-> CHOOSE x \in Starts(histbuf) : Is(x, n)]
           rec(n) == [buf |-> histbuf, idx |-> st[n]]
           ls == [n \in 1 .. N |-> StringAt(rec(n - 1))]
<1>6. \A n \in 0 .. N : st[n] \in Starts(histbuf) /\ Cardinality(Nuls(st[n])) = n
  <2> TAKE n \in 0 .. N
  <2>1. st[n] = CHOOSE x \in Starts(histbuf) : Is(x, n)
    OBVIOUS
  <2> HIDE DEF Is
  <2>2. st[n] \in Starts(histbuf) /\ Is(st[n], n)
    BY <1>4, <2>1
  <2> QED BY <2>2 DEF Is
<1>7. st \in [0 .. N -> Nat]
  <2>1. \A n \in 0 .. N : st[n] \in Nat
    BY <1>1, <1>6, StartsAre
  <2> QED BY <2>1
<1> HIDE DEF st
<1>8. st[0] = 0 /\ st[N] = L
  <2>1. Cardinality(Nuls(0)) = 0
    <3>1. Nuls(0) = {}
      BY DEF Nuls
    <3> QED BY <3>1, FS_EmptySet
  <2>2. 0 \in 0 .. N /\ N \in 0 .. N
    BY <1>2
  <2> QED BY <1>1, <1>5, <1>6, <2>1, <2>2
<1>9. ASSUME NEW n \in 1 .. N
      PROVE  /\ ls[n] \in Lines
             /\ st[n] = (st[n - 1] + Len(ls[n])) + 1
             /\ HasLine(histbuf, st[n - 1], ls[n])
  <2> DEFINE x == st[n - 1]
             h == rec(n - 1)
  <2>1. n - 1 \in 0 .. N /\ n \in 0 .. N /\ n - 1 # N /\ (n - 1) + 1 = n
    BY <1>2
  <2>2. x \in Starts(histbuf) /\ Cardinality(Nuls(x)) = n - 1
    BY <1>6, <2>1
  <2>3. x < L /\ x \in Nat /\ x # L
    BY <1>3, <2>1, <2>2
  <2>4. h = [buf |-> h.buf, idx |-> h.idx] /\ h.buf = histbuf /\ h.idx = x
    OBVIOUS
  <2>5. ls[n] = StringAt(h)
    OBVIOUS
  <2> HIDE DEF h, ls
  <2>6. Good(h) /\ ~ AtEnd(h)
    BY <1>1, <2>2, <2>3, <2>4 DEF Good, AtEnd
  <2>7. /\ StringAt(h) \in Seq(Printable) /\ StringAt(h) # << >> /\ LineAt(h, StringAt(h))
    BY <2>6, StringGood
  <2>8. HasLine(histbuf, x, ls[n]) /\ ls[n] \in Lines
    BY <2>4, <2>5, <2>7 DEF HasLine, LineAt, Lines
  <2>9. /\ NulAt(histbuf, x) \in Nat /\ x + 1 <= NulAt(histbuf, x)
        /\ NulAt(histbuf, x) + 1 <= L
        /\ NulAt(histbuf, x) + 1 \in Starts(histbuf)
    BY <1>1, <2>2, <2>3, NulFacts
  <2>10. Cardinality(Nuls(NulAt(histbuf, x) + 1)) = n
    BY <1>1, <2>1, <2>2, <2>3, CountNext
  <2>11. st[n] = NulAt(histbuf, x) + 1
    BY <1>5, <1>6, <2>1, <2>9, <2>10
  <2>12. Len(ls[n]) = NulAt(histbuf, x) - x
    <3>1. ls[n] = SubSeq(histbuf, x + 1, NulAt(histbuf, x))
      BY <2>4, <2>5 DEF StringAt
    <3> DEFINE e == NulAt(histbuf, x)
    <3>2. e \in Nat /\ x + 1 <= e /\ e + 1 <= Len(histbuf)
      BY <2>9
    <3> HIDE DEF e, x
    <3>3. Len(SubSeq(histbuf, x + 1, e)) = e - x
      BY <1>1, <2>3, <3>2
    <3> QED BY <3>1, <3>3 DEF e
  <2>13. st[n] = (x + Len(ls[n])) + 1
    BY <2>3, <2>9, <2>11, <2>12
  <2> QED BY <2>8, <2>13
<1>10. ls \in Seq(Lines) /\ Len(ls) = N
  <2>1. \A n \in 1 .. N : ls[n] \in Lines
    BY <1>9
  <2>2. ls \in [1 .. N -> Lines]
    BY <2>1
  <2> HIDE DEF ls
  <2> QED BY <1>2, <2>2
<1> HIDE DEF ls
<1>11. Text(histbuf, ls, st)
  BY <1>1, <1>7, <1>8, <1>9, <1>10 DEF Text
<1> QED BY <1>11

-----------------------------------------------------------------------------
(***************************************************************************)
(* What taking bytes out and putting them in does to the lines.            *)
(***************************************************************************)

\* The bytes of s from x + 1 to y are in r, moved from i to j.
Carried(r, s, i, j, x, y) ==
  \A k \in x + 1 .. y : \A m \in Nat : m + i = k + j => r[m] = s[k]

\* A line from i to e whose bytes were moved to j and f.
Moved(r, s, l, i, e, j, f, x, y) ==
  /\ l \in Seq(Printable)
  /\ i \in Nat /\ e \in Nat /\ j \in Nat /\ f \in Nat /\ x \in Nat /\ y \in Nat
  /\ HasLine(s, i, l) /\ e = (i + Len(l)) + 1 /\ f + i = e + j
  /\ x <= i /\ e <= y /\ Len(r) \in Nat /\ f <= Len(r)
  /\ Carried(r, s, i, j, x, y)

LEMMA LineMoved ==
  ASSUME NEW r, NEW s, NEW l, NEW i, NEW e, NEW j, NEW f, NEW x, NEW y,
         Moved(r, s, l, i, e, j, f, x, y)
  PROVE  f = (j + Len(l)) + 1 /\ HasLine(r, j, l)
<1> DEFINE n == Len(l)
<1>0. /\ i \in Nat /\ e \in Nat /\ j \in Nat /\ f \in Nat /\ x \in Nat /\ y \in Nat
      /\ e = (i + n) + 1 /\ f + i = e + j /\ x <= i /\ e <= y /\ f <= Len(r)
      /\ Carried(r, s, i, j, x, y)
  BY DEF Moved
<1>1. n \in Nat
  BY DEF Moved
<1>2. (\A k \in 1 .. n : s[i + k] = l[k]) /\ s[(i + n) + 1] = 0
  BY DEF HasLine, Moved
<1> HIDE DEF n
<1>3. f = (j + n) + 1
  BY <1>0, <1>1
<1>4. \A k \in 1 .. n + 1 : r[j + k] = s[i + k]
  <2> TAKE k \in 1 .. n + 1
  <2>1. i + k \in x + 1 .. y /\ j + k \in Nat /\ (j + k) + i = (i + k) + j
    BY <1>0, <1>1
  <2> QED BY <1>0, <2>1 DEF Carried
<1>5. /\ n + 1 \in 1 .. n + 1 /\ \A k \in 1 .. n : k \in 1 .. n + 1
      /\ (j + n) + 1 = j + (n + 1) /\ (i + n) + 1 = i + (n + 1)
  BY <1>0, <1>1
<1>6. r[(j + n) + 1] = 0
  BY <1>2, <1>4, <1>5
<1>7. \A k \in 1 .. n : r[j + k] = l[k]
  BY <1>2, <1>4, <1>5
<1> QED BY <1>0, <1>3, <1>6, <1>7 DEF HasLine, n

LEMMA CutNumbers ==
  ASSUME NEW a \in Nat, NEW b \in Nat, NEW y \in Nat, a <= b, b <= y
  PROVE  /\ b - a \in Nat /\ b - a <= b /\ b - (b - a) = a
         /\ y - (b - a) \in Nat /\ a <= y - (b - a) /\ (y - (b - a)) + (b - a) = y
OBVIOUS

\* ls2 is ls without the lines from a + 1 to b.
LinesWithout(ls2, ls, a, b) ==
  /\ ls2 \in Seq(Lines)
  /\ Len(ls2) = Len(ls) - (b - a)
  /\ \A n \in 1 .. a : ls2[n] = ls[n]
  /\ \A n \in a + 1 .. Len(ls2) : ls2[n] = ls[n + (b - a)]

\* The bytes from the end of line a to that of line b taken out.
Excised(r, ls2, s, ls, st, a, b) ==
  /\ Text(s, ls, st)
  /\ a \in 0 .. Len(ls) /\ b \in a .. Len(ls)
  /\ Without(r, s, st[a], st[b])
  /\ LinesWithout(ls2, ls, a, b)

Recounted(st2, m, st, a, b) ==
  /\ \A n \in 0 .. a : st2[n] = st[n]
  /\ \A n \in a .. m : st2[n] = st[n + (b - a)] - (st[b] - st[a])

\* The lines between them are gone.
LEMMA WithoutText ==
  ASSUME NEW r, NEW ls2, NEW s, NEW ls, NEW st, NEW a, NEW b,
         Excised(r, ls2, s, ls, st, a, b)
  PROVE  \E st2 : Text(r, ls2, st2) /\ Recounted(st2, Len(ls2), st, a, b)
<1> DEFINE c == b - a
           d == st[b] - st[a]
           N == Len(ls)
           M == Len(ls2)
           st2 == [n \in 0 .. M |-> IF n <= a THEN st[n] ELSE st[n + c] - d]
<1> USE DEF Excised
<1>0. /\ ls2 \in Seq(Lines) /\ M = N - c
      /\ \A n \in 1 .. a : ls2[n] = ls[n]
      /\ \A n \in a + 1 .. M : ls2[n] = ls[n + c]
  BY DEF LinesWithout
<1>1. /\ N \in Nat /\ M = N - c /\ a \in Nat /\ b \in Nat /\ c \in Nat /\ b \in 0 .. N
      /\ a <= M /\ M \in Nat /\ a + c = b /\ Len(s) \in Nat /\ M + c = N
  BY <1>0, TextFacts
<1>2. /\ st[a] \in Nat /\ st[b] \in Nat /\ st[a] <= st[b] /\ d \in Nat
      /\ st[b] <= Len(s) /\ st[0] = 0 /\ st[N] = Len(s)
      /\ d <= st[b] /\ st[b] - d = st[a]
      /\ Len(s) - d \in Nat /\ st[a] <= Len(s) - d /\ (Len(s) - d) + d = Len(s)
  <2>1. st[a] \in Nat /\ st[b] \in Nat /\ st[a] <= st[b] /\ st[b] <= Len(s)
    BY <1>1, InOrder
  <2>2. st[0] = 0 /\ st[N] = Len(s)
    BY DEF Text
  <2> DEFINE u == st[a]
             v == st[b]
             y == Len(s)
  <2>3. u \in Nat /\ v \in Nat /\ y \in Nat /\ u <= v /\ v <= y
    BY <1>1, <2>1
  <2> HIDE DEF u, v, y
  <2>4. /\ v - u \in Nat /\ v - u <= v /\ v - (v - u) = u
        /\ y - (v - u) \in Nat /\ u <= y - (v - u) /\ (y - (v - u)) + (v - u) = y
    BY <2>3, CutNumbers
  <2> QED BY <2>1, <2>2, <2>4 DEF u, v, y
<1>3. /\ r \in Seq(Byte) /\ Len(r) = Len(s) - d
      /\ \A k \in 1 .. st[a] : r[k] = s[k]
      /\ \A k \in st[a] + 1 .. Len(s) - d : r[k] = s[k + d]
  BY DEF Without
<1>4. \A n \in 0 .. a : n \in 0 .. M /\ n \in 0 .. N /\ st2[n] = st[n]
  BY <1>1
<1>5. \A n \in a .. M : n \in 0 .. M /\ n + c \in 0 .. N /\ st2[n] = st[n + c] - d
  <2> TAKE n \in a .. M
  <2>1. n \in 0 .. M /\ n + c \in 0 .. N
    BY <1>1
  <2>2. CASE n = a
    <3>1. st[a] = st[b] - d
      BY <1>2
    <3> HIDE DEF d, c
    <3> QED BY <1>1, <2>1, <2>2, <3>1
  <2>3. CASE n # a
    <3>1. ~ (n <= a)
      BY <1>1, <2>3
    <3> HIDE DEF c, d
    <3> QED BY <2>1, <3>1
  <2> QED BY <2>1, <2>2, <2>3
<1>6. st2 \in [0 .. M -> Nat]
  <2> SUFFICES ASSUME NEW n \in 0 .. M PROVE st2[n] \in Nat
    OBVIOUS
  <2>1. CASE n <= a
    <3>1. n \in 0 .. a
      BY <1>1, <2>1
    <3> HIDE DEF st2
    <3> QED BY <1>4, <3>1, TextFacts
  <2>2. CASE ~ (n <= a)
    <3> HIDE DEF c, d, M, N, st2
    <3>1. n \in a .. M /\ n + c \in 0 .. N /\ b <= n + c
      BY <1>1, <2>2
    <3>2. st2[n] = st[n + c] - d
      BY <1>5, <3>1
    <3>3. st[b] <= st[n + c] /\ st[n + c] \in Nat
      BY <1>1, <3>1, InOrder DEF N
    <3>4. st[n + c] - d \in Nat
      <4> DEFINE u == st[n + c]
                 v == st[b]
      <4>1. u \in Nat /\ v \in Nat /\ d \in Nat /\ d <= v /\ v <= u
        BY <1>2, <3>3
      <4> HIDE DEF u, v
      <4>2. u - d \in Nat
        BY <4>1
      <4> QED BY <4>2 DEF u
    <3> QED BY <3>2, <3>4
  <2> QED BY <2>1, <2>2
<1> HIDE DEF st2
<1>7. st2[0] = 0 /\ st2[M] = Len(r)
  <2>1. 0 \in 0 .. a /\ M \in a .. M
    BY <1>1
  <2> QED BY <1>1, <1>2, <1>3, <1>4, <1>5, <2>1
<1> HIDE DEF c, d
<1>8. ASSUME NEW n \in 1 .. M
      PROVE  /\ st2[n] = (st2[n - 1] + Len(ls2[n])) + 1
             /\ HasLine(r, st2[n - 1], ls2[n])
  <2> DEFINE z == Len(r)
  <2>0. z \in Nat /\ Len(s) = z + d /\ st[a] <= z
    BY <1>2, <1>3
  <2>1. CASE n <= a
    <3> DEFINE i == st[n - 1]
               e == st[n]
               y == st[a]
               l == ls[n]
    <3>1. n \in 1 .. a /\ n \in 0 .. a /\ n - 1 \in 0 .. a /\ n \in 1 .. N /\ n \in 0 .. N
      BY <1>1, <2>1
    <3>2. st2[n] = e /\ st2[n - 1] = i /\ ls2[n] = l
      BY <1>0, <1>4, <3>1
    <3>3. e = (i + Len(l)) + 1 /\ HasLine(s, i, l)
      BY <3>1 DEF Text
    <3>4. l \in Seq(Printable) /\ i \in Nat /\ e \in Nat /\ y \in Nat /\ e <= y /\ y <= z
      <4>1. a \in 0 .. N /\ l \in Seq(Printable) /\ i \in Nat /\ e \in Nat /\ y \in Nat
        BY <1>1, <3>1, TextFacts
      <4>2. e <= y
        BY <2>1, <3>1, <4>1, InOrder
      <4>3. y <= z
        BY <2>0
      <4> QED BY ONLY <4>1, <4>2, <4>3
    <3>5. \A k \in 1 .. y : r[k] = s[k]
      BY <1>3
    <3> HIDE DEF i, e, l, y, z
    <3>6. Carried(r, s, i, i, 0, y)
      <4> SUFFICES ASSUME NEW k \in 0 + 1 .. y, NEW m \in Nat, m + i = k + i
                   PROVE  r[m] = s[k]
        BY DEF Carried
      <4>1. m = k /\ k \in 1 .. y
        BY <3>4
      <4> QED BY <3>5, <4>1
    <3>7. e <= z /\ 0 <= i /\ e + i = e + i /\ 0 \in Nat
      BY <2>0, <3>4
    <3>8. e <= Len(r) /\ Len(r) \in Nat
      BY <2>0, <3>7 DEF z
    <3>9. e = (i + Len(l)) + 1 /\ HasLine(r, i, l)
      <4>1. Moved(r, s, l, i, e, i, e, 0, y)
        BY <3>3, <3>4, <3>6, <3>7, <3>8 DEF Moved
      <4> QED BY <4>1, LineMoved, Zenon
    <3> QED BY <3>2, <3>9
  <2>2. CASE ~ (n <= a)
    <3> DEFINE m == n + c
               i == st[m - 1]
               e == st[m]
               x == st[b]
               y == Len(s)
               l == ls[m]
               j == st2[n - 1]
               f == st2[n]
    <3>1. /\ n \in a .. M /\ n - 1 \in a .. M /\ m \in 1 .. N /\ m \in 0 .. N /\ m - 1 \in 0 .. N
          /\ (n - 1) + c = m - 1 /\ n \in a + 1 .. M /\ b <= m - 1
      BY <1>1, <2>2
    <3>2. f = e - d /\ j = i - d /\ ls2[n] = l
      BY <1>0, <1>5, <3>1
    <3>3. e = (i + Len(l)) + 1 /\ HasLine(s, i, l)
      BY <3>1 DEF Text
    <3>4. /\ l \in Seq(Printable) /\ i \in Nat /\ e \in Nat /\ x \in Nat /\ y \in Nat
          /\ e <= y /\ x <= i
      BY <1>1, <3>1, TextFacts, InOrder
    <3>5. j \in Nat /\ f \in Nat
      <4>1. n - 1 \in 0 .. M /\ n \in 0 .. M
        BY <1>1
      <4> QED BY <1>6, <4>1
    <3>6. /\ d \in Nat /\ x \in Nat /\ d <= x /\ y = z + d
          /\ \A k \in (x - d) + 1 .. z : r[k] = s[k + d]
      <4>1. x - d = st[a] /\ d <= x
        BY <1>2
      <4>2. y - d = z
        BY <1>3
      <4> QED BY <1>2, <1>3, <2>0, <4>1, <4>2
    <3> HIDE DEF i, e, l, x, y, z, j, f
    <3>7. Carried(r, s, i, j, x, y)
      <4> SUFFICES ASSUME NEW k \in x + 1 .. y, NEW q \in Nat, q + i = k + j
                   PROVE  r[q] = s[k]
        BY DEF Carried
      <4>1. q \in (x - d) + 1 .. z /\ q + d = k
        BY <2>0, <3>2, <3>4, <3>6
      <4> QED BY <3>6, <4>1
    <3>8. f <= z /\ f + i = e + j
      <4>1. d \in Nat /\ y = z + d
        BY <3>6
      <4> QED BY <2>0, <3>2, <3>4, <4>1
    <3>9. f <= Len(r) /\ Len(r) \in Nat
      BY <2>0, <3>8 DEF z
    <3>10. f = (j + Len(l)) + 1 /\ HasLine(r, j, l)
      <4>1. Moved(r, s, l, i, e, j, f, x, y)
        BY <3>3, <3>4, <3>5, <3>7, <3>8, <3>9 DEF Moved
      <4> QED BY <4>1, LineMoved, Zenon
    <3> QED BY <3>2, <3>10 DEF f, j
  <2> QED BY <2>1, <2>2
<1>9. Text(r, ls2, st2)
  BY <1>0, <1>3, <1>6, <1>7, <1>8 DEF Text
<1>10. \A n \in 0 .. a : st2[n] = st[n]
  BY <1>4
<1>11. \A n \in a .. M : st2[n] = st[n + c] - d
  BY <1>5
<1> QED BY <1>9, <1>10, <1>11 DEF Recounted, c, d

\* A line put in behind line p.
LEMMA WithText ==
  ASSUME NEW s, NEW ls, NEW st, Text(s, ls, st), NEW p \in 0 .. Len(ls),
         NEW line \in Lines, NEW w, NEW r, With(r, s, st[p], line, w)
  PROVE  \E st2 : Text(r, InsertAt(ls, p + 1, line), st2) /\ st2[p] = st[p]
<1> DEFINE N == Len(ls)
           ls2 == InsertAt(ls, p + 1, line)
           M == N + 1
           st2 == [n \in 0 .. M |-> IF n <= p THEN st[n] ELSE st[n - 1] + w]
<1>1. /\ N \in Nat /\ p \in Nat /\ p <= N /\ Len(s) \in Nat /\ M \in Nat
      /\ ls \in Seq(Lines) /\ st[0] = 0 /\ st[N] = Len(s) /\ p + 1 \in 1 .. N + 1
  BY TextFacts DEF Text
<1>2. /\ ls2 \in Seq(Lines) /\ Len(ls2) = M
      /\ \A n \in 1 .. M : ls2[n] = IF n < p + 1 THEN ls[n] ELSE IF n = p + 1 THEN line ELSE ls[n - 1]
  <2> DEFINE S == Lines
             q == p + 1
  <2>1. ls \in Seq(S) /\ line \in S /\ q \in 1 .. Len(ls) + 1
    BY <1>1
  <2> HIDE DEF S, q
  <2>2. /\ InsertAt(ls, q, line) \in Seq(S)
        /\ Len(InsertAt(ls, q, line)) = Len(ls) + 1
        /\ \A n \in 1 .. Len(ls) + 1 :
             InsertAt(ls, q, line)[n] =
               IF n < q THEN ls[n] ELSE IF n = q THEN line ELSE ls[n - 1]
    BY ONLY <2>1, InsertAtElements
  <2> QED BY <2>2 DEF S, q
<1> HIDE DEF ls2
<1>3. line \in Seq(Printable) /\ line # << >> /\ Len(line) \in Nat
  BY DEF Lines
<1>4. /\ w = Len(line) + 1 /\ r \in Seq(Byte) /\ Len(r) = Len(s) + w
      /\ \A k \in 1 .. st[p] : r[k] = s[k]
      /\ \A k \in 1 .. Len(line) : r[st[p] + k] = line[k]
      /\ r[st[p] + w] = 0
      /\ \A k \in st[p] + 1 .. Len(s) : r[k + w] = s[k]
  BY DEF With
<1>5. w \in Nat /\ st[p] \in Nat /\ st[p] <= Len(s)
  BY <1>3, <1>4, InOrder
<1>6. \A n \in 0 .. p : n \in 0 .. M /\ n \in 0 .. N /\ st2[n] = st[n]
  BY <1>1
<1>7. \A n \in p + 1 .. M : n \in 0 .. M /\ n - 1 \in 0 .. N /\ st2[n] = st[n - 1] + w
  <2> TAKE n \in p + 1 .. M
  <2>1. n \in 0 .. M /\ n - 1 \in 0 .. N /\ ~ (n <= p)
    BY <1>1
  <2> QED BY <2>1
<1>8. st2 \in [0 .. M -> Nat]
  <2> SUFFICES ASSUME NEW n \in 0 .. M PROVE st2[n] \in Nat
    OBVIOUS
  <2> HIDE DEF st2
  <2>1. CASE n <= p
    <3>1. n \in 0 .. p
      BY <1>1, <2>1
    <3> QED BY <1>6, <3>1, TextFacts
  <2>2. CASE ~ (n <= p)
    <3>1. n \in p + 1 .. M
      BY <1>1, <2>2
    <3>2. st2[n] = st[n - 1] + w /\ st[n - 1] \in Nat
      BY <1>7, <3>1, TextFacts
    <3> QED BY <1>5, <3>2
  <2> QED BY <2>1, <2>2
<1> HIDE DEF st2
<1>9. st2[0] = 0 /\ st2[M] = Len(r)
  <2>1. 0 \in 0 .. p /\ M \in p + 1 .. M /\ M - 1 = N
    BY <1>1
  <2>2. st2[0] = st[0] /\ st2[M] = st[N] + w
    BY ONLY <1>6, <1>7, <2>1
  <2> QED BY <1>1, <1>4, <2>2
<1>10. ASSUME NEW n \in 1 .. M
       PROVE  /\ st2[n] = (st2[n - 1] + Len(ls2[n])) + 1
              /\ HasLine(r, st2[n - 1], ls2[n])
  <2> DEFINE z == Len(r)
             y == Len(s)
             x == st[p]
  <2>0. z \in Nat /\ z = y + w /\ y \in Nat /\ x \in Nat /\ x <= y /\ w \in Nat
    BY <1>1, <1>4, <1>5
  <2>1. CASE n <= p
    <3> DEFINE i == st[n - 1]
               e == st[n]
               l == ls[n]
    <3>1. n \in 0 .. p /\ n - 1 \in 0 .. p /\ n \in 1 .. N /\ n \in 0 .. N /\ n < p + 1
      BY <1>1, <2>1
    <3>2. st2[n] = e /\ st2[n - 1] = i /\ ls2[n] = l
      BY <1>2, <1>6, <3>1
    <3>3. e = (i + Len(l)) + 1 /\ HasLine(s, i, l)
      BY <3>1 DEF Text
    <3>4. l \in Seq(Printable) /\ i \in Nat /\ e \in Nat /\ e <= x
      BY <2>1, <3>1, TextFacts, InOrder
    <3>5. \A k \in 1 .. x : r[k] = s[k]
      BY <1>4
    <3> HIDE DEF i, e, l, x, y, z
    <3>6. Carried(r, s, i, i, 0, x)
      <4> SUFFICES ASSUME NEW k \in 0 + 1 .. x, NEW m \in Nat, m + i = k + i
                   PROVE  r[m] = s[k]
        BY DEF Carried
      <4>1. m = k /\ k \in 1 .. x
        BY <2>0, <3>4
      <4> QED BY <3>5, <4>1
    <3>7. e <= z /\ 0 <= i /\ e + i = e + i /\ 0 \in Nat
      BY <2>0, <3>4
    <3>8. e <= Len(r) /\ Len(r) \in Nat
      BY <2>0, <3>7 DEF z
    <3>9. e = (i + Len(l)) + 1 /\ HasLine(r, i, l)
      <4>1. Moved(r, s, l, i, e, i, e, 0, x)
        BY <2>0, <3>3, <3>4, <3>6, <3>7, <3>8 DEF Moved
      <4> QED BY <4>1, LineMoved, Zenon
    <3> QED BY <3>2, <3>9
  <2>2. CASE n = p + 1
    <3>1. n \in p + 1 .. M /\ n - 1 = p /\ p \in 0 .. p /\ ~ (n < p + 1)
      BY <1>1, <2>2
    <3>2. st2[n] = x + w /\ st2[n - 1] = x /\ ls2[n] = line
      BY <1>2, <1>6, <1>7, <2>2, <3>1
    <3>3. w = Len(line) + 1 /\ r[x + w] = 0 /\ \A k \in 1 .. Len(line) : r[x + k] = line[k]
      BY <1>4
    <3> HIDE DEF x, y, z
    <3>4. (x + Len(line)) + 1 = x + w /\ x + w <= z
      BY <1>3, <2>0, <3>3
    <3>5. HasLine(r, x, line)
      BY <3>3, <3>4 DEF HasLine, z
    <3> QED BY <3>2, <3>4, <3>5
  <2>3. CASE n > p + 1
    <3> DEFINE m == n - 1
               i == st[m - 1]
               e == st[m]
               l == ls[m]
               j == st2[m]
               f == st2[n]
    <3>1. /\ n \in p + 1 .. M /\ m \in p + 1 .. M /\ m \in 1 .. N /\ m \in 0 .. N /\ m - 1 \in 0 .. N
          /\ ~ (n < p + 1) /\ n # p + 1 /\ p <= m - 1
      BY <1>1, <2>3
    <3>2. f = e + w /\ j = i + w /\ ls2[n] = l
      BY <1>2, <1>7, <3>1
    <3>3. e = (i + Len(l)) + 1 /\ HasLine(s, i, l)
      BY <3>1 DEF Text
    <3>4. /\ l \in Seq(Printable) /\ i \in Nat /\ e \in Nat /\ e <= y /\ x <= i
      BY <3>1, TextFacts, InOrder
    <3>5. \A k \in x + 1 .. y : r[k + w] = s[k]
      BY <1>4
    <3> HIDE DEF i, e, l, x, y, z, j, f
    <3>6. Carried(r, s, i, j, x, y)
      <4> SUFFICES ASSUME NEW k \in x + 1 .. y, NEW q \in Nat, q + i = k + j
                   PROVE  r[q] = s[k]
        BY DEF Carried
      <4>1. q = k + w
        BY <2>0, <3>2, <3>4
      <4> QED BY <3>5, <4>1
    <3>7. f \in Nat /\ j \in Nat /\ f <= z /\ f + i = e + j
      BY <2>0, <3>2, <3>4
    <3>8. f <= Len(r) /\ Len(r) \in Nat
      BY <2>0, <3>7 DEF z
    <3>9. f = (j + Len(l)) + 1 /\ HasLine(r, j, l)
      <4>1. Moved(r, s, l, i, e, j, f, x, y)
        BY <2>0, <3>3, <3>4, <3>6, <3>7, <3>8 DEF Moved
      <4> QED BY <4>1, LineMoved, Zenon
    <3> QED BY <3>2, <3>9 DEF f, j
  <2> QED BY <1>1, <2>1, <2>2, <2>3
<1>11. Text(r, ls2, st2)
  BY <1>2, <1>4, <1>8, <1>9, <1>10 DEF Text
<1>12. st2[p] = st[p]
  <2>1. p \in 0 .. p
    BY <1>1
  <2> QED BY <1>6, <2>1
<1> QED BY <1>11, <1>12 DEF ls2

-----------------------------------------------------------------------------
(***************************************************************************)
(* What the lines take in the buffer: Size, a fold, is the distance        *)
(* between two starts.                                                     *)
(***************************************************************************)

\* One step of the fold: the positions e without the last of them, and it.
SizeStep(ls, g, e) ==
  IF e = {} THEN 0 ELSE g[e \ {Max(e)}] + Len(ls[Max(e)]) + 1

\* g computes the size on the sets D of positions.
IsSize(ls, D, g) == g = [e \in D |-> SizeStep(ls, g, e)]

\* The recursion has a solution: on the empty set of positions, and, if on
\* the sets of at most k - 1, then on those of at most k.
LEMMA SizeExists ==
  ASSUME NEW ls, Len(ls) \in Nat, NEW n \in Nat
  PROVE  \E g : IsSize(ls, Small(ls, n), g)
<1> DEFINE T == {k \in Nat : ~ \E g : IsSize(ls, Small(ls, k), g)}
<1>0. \A e \in Positions(ls) :
        Cardinality(e) \in Nat /\ (Cardinality(e) = 0 <=> e = {})
  BY PositionsFinite
<1>1. SUFFICES ASSUME T # {} PROVE FALSE
  OBVIOUS
<1>2. PICK k \in T : \A j \in T : k <= j
  BY <1>1, LeastNat
<1>3. CASE k = 0
  <2>1. \A e \in Small(ls, 0) : e = {}
    BY <1>0 DEF Small
  <2> DEFINE g == [e \in Small(ls, 0) |-> 0]
  <2>2. \A e \in Small(ls, 0) : SizeStep(ls, g, e) = 0
    BY <2>1 DEF SizeStep
  <2>3. IsSize(ls, Small(ls, 0), g)
    BY <2>2 DEF IsSize
  <2> QED BY <1>2, <1>3, <2>3
<1>4. CASE k # 0
  <2>1. k - 1 \in Nat /\ k - 1 \notin T
    BY <1>2, <1>4
  <2>2. PICK g : IsSize(ls, Small(ls, k - 1), g)
    BY <2>1
  <2> DEFINE D == Small(ls, k)
             F == Small(ls, k - 1)
             h == [e \in D |-> SizeStep(ls, g, e)]
  <2>3. ASSUME NEW e \in D, e # {} PROVE e \ {Max(e)} \in F
    BY <2>1, <2>3, PositionsFinite DEF Small
  <2>4. F \subseteq D
    BY <1>0, <2>1 DEF Small
  <2> HIDE DEF D, F
  <2>5. \A e \in F : g[e] = SizeStep(ls, g, e)
    BY <2>2 DEF IsSize, F
  <2>6. \A e \in F : h[e] = g[e]
    BY <2>4, <2>5
  <2>7. \A e \in D : SizeStep(ls, g, e) = SizeStep(ls, h, e)
    <3> HIDE DEF h
    <3> QED BY <2>3, <2>6 DEF SizeStep
  <2>8. IsSize(ls, D, h)
    BY <2>7 DEF IsSize
  <2> QED BY <1>2, <2>8 DEF D
<1> QED BY <1>3, <1>4

\* st counts the bytes of the lines ls.
Counts(ls, st) ==
  /\ Len(ls) \in Nat
  /\ \A n \in 0 .. Len(ls) : st[n] \in Nat
  /\ \A n \in 1 .. Len(ls) :
       Len(ls[n]) \in Nat /\ st[n] = (st[n - 1] + Len(ls[n])) + 1

\* Every solution counts them.
LEMMA SizeValues ==
  ASSUME NEW ls, NEW st, Counts(ls, st), NEW g, IsSize(ls, Positions(ls), g)
  PROVE  \A n \in 0 .. Len(ls) : g[1 .. n] = st[n] - st[0]
<1> DEFINE B == {n \in 0 .. Len(ls) : g[1 .. n] # st[n] - st[0]}
<1>1. SUFFICES ASSUME B # {} PROVE FALSE
  OBVIOUS
<1>2. B \subseteq Nat /\ Len(ls) \in Nat
  BY DEF Counts
<1>3. PICK n \in B : \A m \in B : n <= m
  BY <1>1, <1>2, LeastNat
<1>4. n \in 0 .. Len(ls) /\ g[1 .. n] # st[n] - st[0] /\ n \in Nat /\ n <= Len(ls)
  BY <1>2
<1>5. 1 .. n \in Positions(ls)
  BY <1>2, <1>4 DEF Positions
<1>6. g[1 .. n] = SizeStep(ls, g, 1 .. n)
  BY <1>5 DEF IsSize
<1> DEFINE z == st[0]
<1>7. z \in Nat
  BY <1>2 DEF Counts
<1>8. CASE n = 0
  <2>1. 1 .. n = {}
    BY <1>8
  <2>2. g[1 .. n] = 0
    BY <1>6, <2>1 DEF SizeStep
  <2> HIDE DEF z
  <2> QED BY <1>4, <1>7, <1>8, <2>2 DEF z
<1>9. CASE n # 0
  <2>1. n \in 1 .. n /\ n - 1 \in 0 .. Len(ls) /\ ~ (n <= n - 1) /\ n \in 1 .. Len(ls)
    BY <1>2, <1>4, <1>9
  <2>2. Max(1 .. n) = n
    <3>1. \A x \in 1 .. n : (\A y \in 1 .. n : x >= y) <=> x = n
      BY <1>4, <2>1
    <3> QED BY <2>1, <3>1 DEF Max
  <2>3. (1 .. n) \ {n} = 1 .. n - 1
    BY <1>4
  <2>4. g[1 .. n] = g[1 .. n - 1] + Len(ls[n]) + 1
    BY <1>6, <2>1, <2>2, <2>3 DEF SizeStep
  <2>5. g[1 .. n - 1] = st[n - 1] - st[0]
    BY <1>3, <2>1
  <2> DEFINE a == st[n - 1]
             e == st[n]
             l == Len(ls[n])
             u == g[1 .. n]
  <2>6. a \in Nat /\ e \in Nat /\ l \in Nat /\ e = (a + l) + 1
    BY <2>1, <1>4 DEF Counts
  <2>7. u = (a - z) + l + 1 /\ u # e - z
    BY <1>4, <2>4, <2>5
  <2> HIDE DEF a, e, l, u, z
  <2> QED BY <1>7, <2>6, <2>7
<1> QED BY <1>8, <1>9

\* The definition of Size, written out.
SizeBody(ls, f) ==
  [e \in SUBSET DOMAIN ls |->
     IF e = {} THEN 0 ELSE LET x == Max(e) IN f[e \ {x}] + Len(ls[x]) + 1]

LEMMA SizeDef ==
  ASSUME NEW ls
  PROVE  History!Size(ls) = (CHOOSE f : f = SizeBody(ls, f))[DOMAIN ls]
BY Zenon DEF History!Size, History!FoldLeft, History!MapThenFoldSet, History!Max,
             SizeBody, Max

LEMMA SizeIs ==
  ASSUME NEW S, NEW ls \in Seq(S), NEW st, Counts(ls, st)
  PROVE  History!Size(ls) = st[Len(ls)] - st[0]
<1> DEFINE N == 1 .. Len(ls)
           P(f) == f = SizeBody(ls, f)
           g == CHOOSE f : P(f)
<1>0. /\ DOMAIN ls = N /\ N \in Positions(ls) /\ Len(ls) \in Nat
      /\ Len(ls) \in 0 .. Len(ls)
  BY DEF Positions
<1>1. History!Size(ls) = g[N]
  BY <1>0, SizeDef
<1>2. \A f : P(f) <=> IsSize(ls, Positions(ls), f)
  BY <1>0 DEF SizeBody, SizeStep, IsSize, Positions
<1>3. Small(ls, Len(ls)) = Positions(ls)
  BY <1>0, PositionsFinite DEF Small
<1> HIDE DEF P
<1>4. \E f : P(f)
  BY <1>0, <1>2, <1>3, SizeExists
<1>5. P(g)
  BY <1>4
<1> HIDE DEF g
<1>6. g[N] = st[Len(ls)] - st[0]
  BY <1>0, <1>2, <1>5, SizeValues
<1> QED BY <1>1, <1>6

\* NkHistory has its operators on sequences from the same module.
LEMMA SameOperators ==
  ASSUME NEW s, NEW i, NEW e
  PROVE  History!InsertAt(s, i, e) = InsertAt(s, i, e) /\ History!RemoveAt(s, i) = RemoveAt(s, i)
BY DEF History!InsertAt, History!RemoveAt, InsertAt, RemoveAt

-----------------------------------------------------------------------------
(***************************************************************************)
(* The functions of the history, in lines.                                 *)
(***************************************************************************)

\* h has the lines ls, ending at st, and its index behind the p-th.
Shows(h, ls, st, p) ==
  /\ Good(h)
  /\ Text(h.buf, ls, st)
  /\ p \in 0 .. Len(ls)
  /\ h.idx = st[p]

\* Whatever the index, it is behind some line.
LEMMA SomePlace ==
  ASSUME NEW h, Good(h), NEW ls, NEW st, Text(h.buf, ls, st)
  PROVE  \E p : Shows(h, ls, st, p)
<1>1. h.idx \in Starts(h.buf)
  BY DEF Good
<1>2. PICK p \in 0 .. Len(ls) : h.idx = st[p]
  BY <1>1, StartsOf
<1> QED BY <1>2 DEF Shows

LEMMA EndPlace ==
  ASSUME NEW h, NEW ls, NEW st, NEW p, Shows(h, ls, st, p)
  PROVE  AtEnd(h) <=> p = Len(ls)
<1>1. /\ Text(h.buf, ls, st) /\ p \in 0 .. Len(ls) /\ h.idx = st[p]
      /\ st[Len(ls)] = Len(h.buf)
  BY DEF Shows, Text
<1>2. Len(ls) \in 0 .. Len(ls)
  BY <1>1, TextFacts
<1>3. st[p] = st[Len(ls)] => p = Len(ls)
  BY <1>1, <1>2, InOrder
<1> QED BY <1>1, <1>3 DEF AtEnd

\* strlen and strcpy at the index: the next line, and its end.
LEMMA NextPlace ==
  ASSUME NEW h, NEW ls, NEW st, NEW p, Shows(h, ls, st, p), ~ AtEnd(h)
  PROVE  /\ p + 1 \in 1 .. Len(ls)
         /\ NulAt(h.buf, h.idx) + 1 = st[p + 1]
         /\ StringAt(h) = ls[p + 1]
<1> DEFINE s == h.buf
           x == h.idx
           n == NulAt(s, x)
           l == ls[p + 1]
<1>1. /\ Text(s, ls, st) /\ p \in 0 .. Len(ls) /\ x = st[p] /\ Good(h)
      /\ p # Len(ls) /\ s \in Seq(Byte) /\ Rows(s) /\ x \in Starts(s)
  BY EndPlace DEF Shows, Good
<1>2. Len(ls) \in Nat /\ Len(s) \in Nat
  BY <1>1, TextFacts
<1>3. p + 1 \in 1 .. Len(ls) /\ (p + 1) - 1 = p /\ p + 1 \in 0 .. Len(ls)
  BY <1>1, <1>2
<1>4. l \in Seq(Printable) /\ Len(l) \in Nat /\ x \in Nat /\ st[p + 1] \in Nat
  BY <1>1, <1>3, TextFacts
<1>5. st[p + 1] = (x + Len(l)) + 1 /\ HasLine(s, x, l)
  <2>1. /\ st[p + 1] = (st[(p + 1) - 1] + Len(l)) + 1
        /\ HasLine(s, st[(p + 1) - 1], l)
    BY <1>1, <1>3 DEF Text
  <2> QED BY <1>1, <1>3, <2>1
<1>6. /\ n \in Nat /\ x + 1 <= n /\ n + 1 <= Len(s)
      /\ s[n + 1] = 0 /\ \A k \in x + 1 .. n : s[k] # 0
  <2>1. x < Len(s)
    <3>1. x \in Nat /\ x <= Len(s) /\ x # Len(s)
      BY <1>1, StartsAre DEF AtEnd
    <3> QED BY <1>2, <3>1
  <2> QED BY <1>1, <2>1, NulFacts
<1>7. /\ (x + Len(l)) + 1 <= Len(s) /\ s[(x + Len(l)) + 1] = 0
      /\ \A k \in 1 .. Len(l) : s[x + k] = l[k]
  BY <1>5 DEF HasLine
<1> HIDE DEF s, x, n, l
<1>8. n = x + Len(l)
  <2>1. CASE n < x + Len(l)
    <3> DEFINE k == (n + 1) - x
    <3>1. k \in 1 .. Len(l) /\ x + k = n + 1
      BY <1>4, <1>6, <2>1
    <3> HIDE DEF k
    <3>2. l[k] = 0 /\ l[k] \in Printable
      BY <1>4, <1>6, <1>7, <3>1
    <3> QED BY <3>2, PrintableBytes
  <2>2. CASE n > x + Len(l)
    <3>1. (x + Len(l)) + 1 \in x + 1 .. n
      BY <1>4, <1>6, <2>2
    <3> QED BY <1>6, <1>7, <3>1
  <2> QED BY <1>4, <1>6, <2>1, <2>2
<1>9. SubSeq(s, x + 1, n) = l
  BY <1>1, <1>4, <1>5, <1>8, LineIs
<1>10. NulAt(h.buf, h.idx) + 1 = st[p + 1]
  <2>1. n + 1 = st[p + 1]
    BY <1>5, <1>8
  <2> QED BY <2>1 DEF n, s, x
<1>11. StringAt(h) = ls[p + 1]
  BY <1>9 DEF StringAt, n, s, x, l
<1> QED BY <1>3, <1>10, <1>11

LEMMA NextShows ==
  ASSUME NEW h, NEW ls, NEW st, NEW p, Shows(h, ls, st, p), ~ AtEnd(h)
  PROVE  Shows(hist_next(h), ls, st, p + 1)
<1>1. Good(hist_next(h)) /\ hist_next(h).buf = h.buf
  BY NextGood DEF Shows
<1>2. hist_next(h) = [h EXCEPT !.idx = NulAt(h.buf, h.idx) + 1]
  BY DEF hist_next
<1>3. p + 1 \in 1 .. Len(ls) /\ NulAt(h.buf, h.idx) + 1 = st[p + 1]
  BY NextPlace
<1>4. hist_next(h).idx = st[p + 1]
  <2> DEFINE j == NulAt(h.buf, h.idx) + 1
  <2>1. hist_next(h) = [h EXCEPT !.idx = j] /\ h = [buf |-> h.buf, idx |-> h.idx]
    BY <1>2 DEF Shows, Good
  <2> HIDE DEF j
  <2>2. hist_next(h).idx = j
    BY <2>1
  <2> QED BY <1>3, <2>2 DEF j
<1>5. p + 1 \in 0 .. Len(ls)
  BY <1>3
<1> QED BY <1>1, <1>4, <1>5 DEF Shows

\* The index at the end.
LEMMA EndShows ==
  ASSUME NEW h, NEW ls, NEW st, NEW p, Shows(h, ls, st, p)
  PROVE  Shows([h EXCEPT !.idx = Len(h.buf)], ls, st, Len(ls))
<1> DEFINE g == [h EXCEPT !.idx = Len(h.buf)]
<1>1. Good(g) /\ Good(h) /\ Text(h.buf, ls, st)
  BY AtEndGood DEF Shows
<1>2. g.buf = h.buf /\ g.idx = Len(h.buf)
  <2>1. h = [buf |-> h.buf, idx |-> h.idx]
    BY <1>1 DEF Good
  <2> QED BY <2>1
<1> HIDE DEF g
<1>3. Len(ls) \in 0 .. Len(ls)
  BY <1>1, TextFacts
<1>4. st[Len(ls)] = Len(h.buf)
  BY <1>1 DEF Text
<1>5. Shows(g, ls, st, Len(ls))
  BY <1>1, <1>2, <1>3, <1>4 DEF Shows
<1> QED BY <1>5 DEF g

\* hist_del takes out the line behind the index.
LEMMA DelShows ==
  ASSUME NEW h, NEW ls, NEW st, NEW p, Shows(h, ls, st, p), ~ AtEnd(h)
  PROVE  \E st2 : Shows(hist_del(h), RemoveAt(ls, p + 1), st2, p)
<1> DEFINE s == h.buf
           x == h.idx
           j == st[p + 1]
           r == SubSeq(s, 1, x) \o SubSeq(s, j + 1, Len(s))
           ls2 == RemoveAt(ls, p + 1)
<1>1. /\ Text(s, ls, st) /\ p \in 0 .. Len(ls) /\ x = st[p] /\ Good(h)
      /\ s \in Seq(Byte) /\ h = [buf |-> s, idx |-> x] /\ ls \in Seq(Lines)
  BY DEF Shows, Good, Text
<1>2. Len(ls) \in Nat /\ Len(s) \in Nat /\ p \in Nat
  BY <1>1, TextFacts
<1>3. p + 1 \in 1 .. Len(ls) /\ NulAt(s, x) + 1 = j
  BY NextPlace
<1>4. p + 1 \in p .. Len(ls) /\ p + 1 \in 0 .. Len(ls) /\ p <= p + 1 /\ (p + 1) - p = 1
  BY <1>2, <1>3
<1>5. x \in Nat /\ j \in Nat /\ x <= j /\ j <= Len(s)
  BY <1>1, <1>4, InOrder
<1>6. hist_del(h) = [h EXCEPT !.buf = r]
  <2>1. NulAt(s, x) + 2 = j + 1
    <3> DEFINE n == NulAt(s, x)
    <3>1. n \in Nat
      <4>1. x < Len(s) /\ Rows(s) /\ x \in Starts(s)
        <5>1. x \in Nat /\ x <= Len(s) /\ x # Len(s) /\ Rows(s) /\ x \in Starts(s)
          BY <1>1, <1>2, StartsAre DEF AtEnd, Good
        <5> QED BY <1>2, <5>1
      <4> QED BY <1>1, <4>1, NulFacts
    <3>2. n + 1 = j
      BY <1>3
    <3> HIDE DEF n, j
    <3> QED BY <3>1, <3>2 DEF n
  <2> QED BY <2>1 DEF hist_del
<1> HIDE DEF r
<1>7. hist_del(h).buf = r /\ hist_del(h).idx = x
  BY <1>1, <1>6
<1>8. Without(r, s, st[p], st[p + 1])
  <2> DEFINE S == Byte
             i == st[p]
  <2>1. s \in Seq(S) /\ i \in 0 .. Len(s) /\ j \in i .. Len(s)
    BY <1>1, <1>2, <1>5
  <2>2. r = SubSeq(s, 1, i) \o SubSeq(s, j + 1, Len(s))
    BY <1>1 DEF r
  <2> HIDE DEF S, i, j, s
  <2>3. /\ r \in Seq(S)
        /\ Len(r) = Len(s) - (j - i)
        /\ \A k \in 1 .. i : r[k] = s[k]
        /\ \A k \in i + 1 .. Len(s) - (j - i) : r[k] = s[k + (j - i)]
    BY <2>1, <2>2, CutElements
  <2> QED BY <2>3 DEF Without, S, i, j
<1>9. /\ ls2 \in Seq(Lines) /\ Len(ls2) = Len(ls) - 1
      /\ \A k \in 1 .. Len(ls) - 1 : ls2[k] = IF k < p + 1 THEN ls[k] ELSE ls[k + 1]
  BY <1>1, <1>3, RemoveAtElements
<1> HIDE DEF ls2
<1>10. \A n \in 1 .. p : ls2[n] = ls[n]
  <2> TAKE n \in 1 .. p
  <2>1. n \in 1 .. Len(ls) - 1 /\ n < p + 1
    BY <1>2, <1>3
  <2> QED BY <1>9, <2>1
<1>11. \A n \in p + 1 .. Len(ls2) : ls2[n] = ls[n + ((p + 1) - p)]
  <2> TAKE n \in p + 1 .. Len(ls2)
  <2>1. n \in 1 .. Len(ls) - 1 /\ ~ (n < p + 1)
    BY <1>2, <1>9
  <2> QED BY <1>4, <1>9, <2>1
<1>12. Len(ls2) = Len(ls) - ((p + 1) - p)
  BY <1>4, <1>9
<1>13. PICK st2 : Text(r, ls2, st2) /\ \A n \in 0 .. p : st2[n] = st[n]
  <2>1. LinesWithout(ls2, ls, p, p + 1)
    BY <1>9, <1>10, <1>11, <1>12 DEF LinesWithout
  <2>2. Excised(r, ls2, s, ls, st, p, p + 1)
    BY <1>1, <1>4, <1>8, <2>1 DEF Excised
  <2>3. PICK st2 : Text(r, ls2, st2) /\ Recounted(st2, Len(ls2), st, p, p + 1)
    BY <2>2, WithoutText, Zenon
  <2> QED BY <2>3 DEF Recounted
<1>14. p \in 0 .. p /\ p \in 0 .. Len(ls2)
  BY <1>2, <1>3, <1>9
<1>15. Good(hist_del(h))
  BY <1>1, DelGood
<1>16. Shows(hist_del(h), ls2, st2, p)
  BY <1>1, <1>7, <1>13, <1>14, <1>15 DEF Shows
<1> QED BY <1>16 DEF ls2

\* The first k of the lines ls are what gives way to len bytes.
Gone(k, ls, st, len) ==
  /\ k \in 0 .. Len(ls)
  /\ len + (st[Len(ls)] - st[k]) <= HistSize
  /\ \A j \in 0 .. k - 1 : len + (st[Len(ls)] - st[j]) > HistSize

\* Evicting takes out the first lines, and the index with them if it was there.
LEMMA EvictShows ==
  ASSUME NEW h, NEW ls, NEW st, NEW p, Shows(h, ls, st, p),
         NEW len \in Nat, len <= LineSize
  PROVE  \E k, st2 :
           /\ Gone(k, ls, st, len)
           /\ Shows(Evict(h, len), SubSeq(ls, k + 1, Len(ls)), st2,
                    IF p <= k THEN 0 ELSE p - k)
<1> DEFINE s == h.buf
           x == h.idx
           N == Len(ls)
           T == {q \in Starts(s) : len + (Len(s) - q) <= HistSize}
           cut == Min(T)
           r == SubSeq(s, cut + 1, Len(s))
           y == IF x \in Starts(s) /\ x <= cut THEN 0 ELSE x - cut
<1>1. /\ Good(h) /\ Text(s, ls, st) /\ p \in 0 .. N /\ x = st[p]
      /\ s \in Seq(Byte) /\ Rows(s) /\ x \in Starts(s) /\ ls \in Seq(Lines)
      /\ st[0] = 0 /\ st[N] = Len(s) /\ Len(s) <= HistSize
  BY DEF Shows, Good, Text
<1>2. N \in Nat /\ Len(s) \in Nat /\ p \in Nat /\ p <= N
  BY <1>1, TextFacts
<1>3. Evict(h, len) = [buf |-> r, idx |-> y]
  BY DEF Evict
<1>4. LineSize \in Nat /\ HistSize \in Nat /\ HistSize > LineSize
  BY ReadlineAssumption
<1>5. Len(s) \in T /\ T \subseteq Nat
  <2>1. Len(s) \in T
    BY <1>1, <1>2, <1>4 DEF Rows
  <2> QED BY <1>1, <2>1, StartsAre
<1>6. \A q : q \in T <=> q \in Starts(s) /\ len + (Len(s) - q) <= HistSize
  OBVIOUS
<1> HIDE DEF T
<1>7. cut \in T /\ \A q \in T : cut <= q
  BY <1>5, MinOf
<1> HIDE DEF cut
<1>8. PICK k \in 0 .. N : cut = st[k]
  BY <1>1, <1>6, <1>7, StartsOf
<1>9. k \in Nat /\ k <= N /\ cut \in Nat /\ cut <= Len(s) /\ cut \in 0 .. Len(s)
  BY <1>1, <1>2, <1>8, InOrder
<1>10. Gone(k, ls, st, len)
  <2>1. len + (st[N] - st[k]) <= HistSize
    BY <1>1, <1>6, <1>7, <1>8
  <2>2. ASSUME NEW j \in 0 .. k - 1 PROVE len + (st[N] - st[j]) > HistSize
    <3>1. j \in 0 .. N /\ j < k /\ j \in Nat
      BY <1>2, <1>9
    <3> DEFINE z == st[j]
    <3>2. z \in Nat /\ z <= Len(s) /\ z < cut /\ z \in Starts(s)
      <4>1. z < st[k]
        BY <1>1, <1>8, <3>1, Ascending
      <4> QED BY <1>1, <1>8, <3>1, <4>1, InOrder, StartsOf
    <3> HIDE DEF z
    <3>3. z \notin T
      BY <1>7, <1>9, <3>2
    <3>4. len + (Len(s) - z) > HistSize
      <4>1. ~ (len + (Len(s) - z) <= HistSize)
        BY <1>6, <3>2, <3>3
      <4> HIDE DEF s
      <4> QED BY <1>2, <1>4, <3>2, <4>1
    <3> QED BY <1>1, <3>4 DEF z
  <2> QED BY <1>8, <2>1, <2>2 DEF Gone
<1> DEFINE ls2 == SubSeq(ls, k + 1, N)
           p2 == IF p <= k THEN 0 ELSE p - k
<1>11. /\ r \in Seq(Byte) /\ Len(r) = Len(s) - cut
       /\ \A e \in 1 .. Len(s) - cut : r[e] = s[cut + e]
  <2> DEFINE S == Byte
  <2>1. s \in Seq(S)
    BY <1>1
  <2> HIDE DEF S, s
  <2>2. /\ r \in Seq(S) /\ Len(r) = Len(s) - cut
        /\ \A e \in 1 .. Len(s) - cut : r[e] = s[cut + e]
    BY <1>9, <2>1, SplitFacts
  <2> QED BY <2>2 DEF S
<1> HIDE DEF r
<1>12. Without(r, s, st[0], st[k])
  <2>0. Without(r, s, 0, cut)
    <3> HIDE DEF s
    <3>1. \A e \in 0 + 1 .. Len(s) - (cut - 0) : r[e] = s[e + (cut - 0)]
      <4> TAKE e \in 0 + 1 .. Len(s) - (cut - 0)
      <4>1. e \in 1 .. Len(s) - cut /\ cut + e = e + (cut - 0)
        BY <1>2, <1>9
      <4> QED BY <1>11, <4>1
    <3>2. Len(r) = Len(s) - (cut - 0)
      BY <1>2, <1>9, <1>11
    <3> QED BY <1>11, <3>1, <3>2 DEF Without
  <2> QED BY <1>1, <1>8, <2>0
<1>13. /\ ls2 \in Seq(Lines) /\ Len(ls2) = N - k
       /\ \A n \in 1 .. N - k : ls2[n] = ls[k + n]
  <2> DEFINE S == Lines
  <2>1. ls \in Seq(S)
    BY <1>1
  <2> HIDE DEF S
  <2>2. /\ ls2 \in Seq(S) /\ Len(ls2) = N - k
        /\ \A n \in 1 .. N - k : ls2[n] = ls[k + n]
    BY <2>1, SplitFacts
  <2> QED BY <2>2 DEF S
<1> HIDE DEF ls2
<1>14. LinesWithout(ls2, ls, 0, k)
  <2>1. Len(ls2) = N - (k - 0)
    BY <1>2, <1>9, <1>13
  <2>2. \A n \in 0 + 1 .. Len(ls2) : ls2[n] = ls[n + (k - 0)]
    <3> TAKE n \in 0 + 1 .. Len(ls2)
    <3>1. n \in 1 .. N - k /\ n + (k - 0) = k + n
      BY <1>2, <1>9, <1>13
    <3> QED BY <1>13, <3>1
  <2> QED BY <1>13, <2>1, <2>2 DEF LinesWithout
<1>15. PICK st2 : Text(r, ls2, st2) /\ Recounted(st2, Len(ls2), st, 0, k)
  <2>1. 0 \in 0 .. N /\ k \in 0 .. N
    BY <1>2
  <2>2. Excised(r, ls2, s, ls, st, 0, k)
    BY <1>1, <1>12, <1>14, <2>1 DEF Excised
  <2> QED BY <2>2, WithoutText, Zenon
<1>16. p2 \in 0 .. Len(ls2) /\ y = st2[p2]
  <2>1. CASE p <= k
    <3>1. x <= cut
      BY <1>1, <1>8, <2>1, InOrder
    <3>2. y = 0 /\ p2 = 0
      BY <1>1, <2>1, <3>1
    <3>3. st2[0] = 0
      BY <1>15 DEF Text
    <3> QED BY <1>2, <1>9, <1>13, <3>2, <3>3
  <2>2. CASE ~ (p <= k)
    <3>1. ~ (x <= cut)
      BY <1>1, <1>8, <2>2, InOrder
    <3>2. y = x - cut /\ p2 = p - k
      BY <1>1, <2>2, <3>1
    <3>3. p2 \in 0 .. Len(ls2) /\ p2 + (k - 0) = p
      BY <1>2, <1>9, <1>13, <2>2, <3>2
    <3>4. st2[p2] = st[p2 + (k - 0)] - (st[k] - st[0])
      BY <1>15, <3>3 DEF Recounted
    <3>5. st2[p2] = x - (cut - 0)
      BY <1>1, <1>8, <3>3, <3>4
    <3>6. cut - 0 = cut
      BY <1>9
    <3> QED BY <3>2, <3>3, <3>5, <3>6
  <2> QED BY <2>1, <2>2
<1>17. Good(Evict(h, len))
  BY <1>1, EvictGood
<1> HIDE DEF y, p2
<1>18. Evict(h, len).buf = r /\ Evict(h, len).idx = y
  BY <1>3
<1>19. Shows(Evict(h, len), ls2, st2, p2)
  BY <1>15, <1>16, <1>17, <1>18 DEF Shows
<1> QED BY <1>10, <1>19 DEF ls2, p2

LEMMA TailSize ==
  ASSUME NEW buf, NEW ls, NEW st, Text(buf, ls, st), NEW j \in 0 .. Len(ls)
  PROVE  /\ History!Size(SubSeq(ls, j + 1, Len(ls))) = st[Len(ls)] - st[j]
         /\ st[Len(ls)] \in Nat /\ st[j] \in Nat
<1> DEFINE N == Len(ls)
           S == Lines
           t == SubSeq(ls, j + 1, N)
           M == N - j
           c == [n \in 0 .. M |-> st[n + j]]
<1>1. N \in Nat /\ j \in Nat /\ j <= N /\ M \in Nat /\ ls \in Seq(S) /\ N \in 0 .. N
  BY TextFacts DEF Text
<1>2. t \in Seq(S) /\ Len(t) = M /\ \A n \in 1 .. M : t[n] = ls[j + n]
  <2> HIDE DEF S
  <2> QED BY <1>1, SplitFacts
<1> HIDE DEF t, S
<1>3. \A n \in 0 .. M : c[n] = st[n + j] /\ c[n] \in Nat
  <2> TAKE n \in 0 .. M
  <2>1. n + j \in 0 .. N
    BY <1>1
  <2> QED BY <2>1, TextFacts
<1>4. ASSUME NEW n \in 1 .. M PROVE Len(t[n]) \in Nat /\ c[n] = (c[n - 1] + Len(t[n])) + 1
  <2>1. /\ n \in 0 .. M /\ n - 1 \in 0 .. M /\ j + n \in 1 .. N
        /\ (j + n) - 1 = (n - 1) + j /\ j + n = n + j
    BY <1>1
  <2>2. Len(ls[j + n]) \in Nat
    BY <2>1, TextFacts
  <2>3. st[j + n] = (st[(j + n) - 1] + Len(ls[j + n])) + 1
    BY <2>1 DEF Text
  <2>4. c[n] = st[j + n] /\ c[n - 1] = st[(j + n) - 1] /\ t[n] = ls[j + n]
    BY <1>2, <1>3, <2>1
  <2> QED BY <2>2, <2>3, <2>4
<1>5. Counts(t, c)
  <2> HIDE DEF c, M
  <2> QED BY <1>1, <1>2, <1>3, <1>4 DEF Counts
<1>6. History!Size(t) = c[Len(t)] - c[0]
  BY <1>2, <1>5, SizeIs
<1>7. c[M] = st[N] /\ c[0] = st[j]
  <2>1. M \in 0 .. M /\ 0 \in 0 .. M /\ M + j = N /\ 0 + j = j
    BY <1>1
  <2> QED BY <1>3, <2>1
<1>8. st[N] \in Nat /\ st[j] \in Nat
  BY <1>1, TextFacts
<1> HIDE DEF c, M
<1> QED BY <1>2, <1>6, <1>7, <1>8 DEF t

\* What is evicted is what NkHistory says is forgotten.
LEMMA ForgottenIs ==
  ASSUME NEW buf, NEW ls, NEW st, Text(buf, ls, st), NEW line, Len(line) \in Nat,
         NEW k, Gone(k, ls, st, Len(line) + 1)
  PROVE  History!Forgotten(ls, line) = k
<1> DEFINE N == Len(ls)
           z(j) == History!Size(SubSeq(ls, j + 1, N)) + Len(line) + 1
           P(j) == /\ j = N \/ z(j) <= HistSize
                   /\ \A i \in 0 .. j - 1 : z(i) > HistSize
<1>1. N \in Nat /\ HistSize \in Nat
  BY TextFacts, ReadlineAssumption
<1>2. \A j \in 0 .. N : z(j) = (Len(line) + 1) + (st[N] - st[j]) /\ z(j) \in Int
  <2> TAKE j \in 0 .. N
  <2> DEFINE a == st[N]
             b == st[j]
             n == Len(line)
             g == History!Size(SubSeq(ls, j + 1, N))
  <2>1. g = a - b /\ a \in Nat /\ b \in Nat /\ n \in Nat
    BY TailSize
  <2> HIDE DEF a, b, n, g
  <2>2. g + n + 1 = (n + 1) + (a - b) /\ g + n + 1 \in Int
    BY <2>1
  <2> QED BY <2>2 DEF a, b, n, g
<1>3. k \in 0 .. N /\ z(k) <= HistSize /\ \A j \in 0 .. k - 1 : z(j) > HistSize
  <2>1. k \in 0 .. N /\ \A j \in 0 .. k - 1 : j \in 0 .. N
    BY <1>1 DEF Gone
  <2> HIDE DEF z
  <2> QED BY <1>2, <2>1 DEF Gone
<1>4. History!Forgotten(ls, line) = CHOOSE j \in 0 .. N : P(j)
  BY DEF History!Forgotten
<1> HIDE DEF z
<1>5. P(k)
  BY <1>3
<1>6. ASSUME NEW j \in 0 .. N, P(j) PROVE j = k
  <2>1. CASE j < k
    <3>1. j \in 0 .. k - 1 /\ j # N
      BY <1>1, <1>3, <2>1
    <3>2. z(j) > HistSize /\ z(j) <= HistSize /\ z(j) \in Int
      BY <1>2, <1>3, <1>6, <3>1
    <3> QED BY <1>1, <3>2
  <2>2. CASE k < j
    <3>1. k \in 0 .. j - 1
      BY <1>1, <1>3, <2>2
    <3>2. z(k) > HistSize /\ z(k) <= HistSize /\ z(k) \in Int
      BY <1>2, <1>3, <1>6, <3>1
    <3> QED BY <1>1, <3>2
  <2> QED BY <1>1, <1>3, <2>1, <2>2
<1> HIDE DEF P
<1> QED BY <1>3, <1>4, <1>5, <1>6

\* hist_ins puts the line in at the index, if that is still there.
LEMMA InsShows ==
  ASSUME NEW h, NEW ls, NEW st, NEW p, Shows(h, ls, st, p),
         NEW line \in Seq(Printable), line # << >>, Len(line) <= LineSize - 1
  PROVE  \E st2, p2 : Shows(hist_ins(h, line), History!Insert(ls, p + 1, line), st2, p2)
<1> DEFINE n == Len(line) + 1
           e == Evict(h, n)
           s == e.buf
           i == e.idx
           r == SubSeq(s, 1, i) \o line \o << 0 >> \o SubSeq(s, i + 1, Len(s))
<1>1. Len(line) \in Nat /\ n \in Nat /\ n <= LineSize
  BY ReadlineAssumption
<1>2. PICK k, st1 :
        /\ Gone(k, ls, st, n)
        /\ Shows(e, SubSeq(ls, k + 1, Len(ls)), st1, IF p <= k THEN 0 ELSE p - k)
  <2> HIDE DEF n
  <2> QED BY <1>1, EvictShows
<1> DEFINE ls1 == SubSeq(ls, k + 1, Len(ls))
           p1 == IF p <= k THEN 0 ELSE p - k
           q == IF p + 1 > k THEN (p + 1) - k ELSE 1
<1>3. Text(h.buf, ls, st) /\ p \in 0 .. Len(ls) /\ k \in 0 .. Len(ls) /\ Good(h)
  BY <1>2 DEF Shows, Gone
<1>4. History!Forgotten(ls, line) = k
  BY <1>1, <1>2, <1>3, ForgottenIs
<1>5. History!Insert(ls, p + 1, line) = InsertAt(ls1, q, line)
  <2>1. History!Insert(ls, p + 1, line) = History!InsertAt(ls1, q, line)
    BY <1>4 DEF History!Insert
  <2> QED BY <2>1, SameOperators
<1>6. q = p1 + 1
  <2>1. Len(ls) \in Nat /\ p \in Nat /\ k \in Nat
    BY <1>3, TextFacts
  <2> QED BY <2>1
<1>7. hist_ins(h, line) = [e EXCEPT !.buf = r]
  BY DEF hist_ins
<1> HIDE DEF e, n, ls1, p1, q
<1>8. /\ Good(e) /\ Text(s, ls1, st1) /\ p1 \in 0 .. Len(ls1) /\ i = st1[p1]
  BY <1>2 DEF Shows, ls1, p1
<1>9. /\ s \in Seq(Byte) /\ e = [buf |-> s, idx |-> i] /\ i \in 0 .. Len(s)
  BY <1>8, StartsAre DEF Good
<1> HIDE DEF r
<1>10. hist_ins(h, line).buf = r /\ hist_ins(h, line).idx = i
  BY <1>7, <1>9
<1> HIDE DEF s, i
<1>11. With(r, s, st1[p1], line, n)
  <2>1. line \in Seq(Byte)
    <3> DEFINE S == Byte
    <3>1. \A m \in 1 .. Len(line) : line[m] \in S
      BY PrintableBytes
    <3> HIDE DEF S
    <3>2. line \in Seq(S)
      BY <3>1
    <3> QED BY <3>2 DEF S
  <2>2. With(r, s, i, line, Len(line) + 1)
    BY <1>9, <2>1, SpliceElements DEF r
  <2> QED BY <1>8, <2>2 DEF n
<1>12. line \in Lines
  BY DEF Lines
<1>13. PICK st2 : Text(r, InsertAt(ls1, p1 + 1, line), st2)
  BY <1>8, <1>11, <1>12, WithText
<1>14. Good(hist_ins(h, line))
  BY <1>3, InsGood
<1>15. \E p2 : Shows(hist_ins(h, line), InsertAt(ls1, p1 + 1, line), st2, p2)
  BY <1>10, <1>13, <1>14, SomePlace
<1> QED BY <1>5, <1>6, <1>15

-----------------------------------------------------------------------------
(***************************************************************************)
(* The steps of prompt_task as steps of NkHistory.                         *)
(***************************************************************************)

AbsPos == Cardinality(Nuls(hist_idx)) + 1
AbsLine == IF pc = "command" THEN << >> ELSE tty_buf

\* What is mapped to NkHistory is what the history shows.
LEMMA Seen ==
  \A ls, st, p : Shows(Hist, ls, st, p) => LineList = ls /\ AbsPos = p + 1
<1> TAKE ls, st, p
<1> HAVE Shows(Hist, ls, st, p)
<1>1. Text(histbuf, ls, st) /\ p \in 0 .. Len(ls) /\ hist_idx = st[p]
  BY DEF Shows, Hist
<1>2. LineList = ls
  BY <1>1, LineListIs
<1>3. Cardinality(Nuls(st[p])) = p
  BY <1>1, CountOf
<1> QED BY <1>1, <1>2, <1>3 DEF AbsPos

LEMMA SeenNext ==
  \A ls, st, p : Shows(Hist', ls, st, p) => LineList' = ls /\ AbsPos' = p + 1
<1>1. (\A ls, st, p : Shows(Hist, ls, st, p) => LineList = ls /\ AbsPos = p + 1)'
  BY Seen, PTL
<1> QED BY <1>1

LEMMA ShowsSome ==
  ASSUME Good(Hist)
  PROVE  \E ls, st, p : Shows(Hist, ls, st, p)
<1>1. PICK ls, st : Text(histbuf, ls, st)
  BY HasText
<1>2. Hist.buf = histbuf
  BY DEF Hist
<1> QED BY <1>1, <1>2, SomePlace

LEMMA ShowsPlace ==
  ASSUME NEW h, NEW ls, NEW st, NEW p, Shows(h, ls, st, p)
  PROVE  /\ Len(ls) \in Nat /\ p \in Nat /\ p <= Len(ls)
         /\ p + 1 \in 1 .. Len(ls) + 1
         /\ DOMAIN ls = 1 .. Len(ls)
<1>1. ls \in Seq(Lines) /\ p \in 0 .. Len(ls)
  BY DEF Shows, Text
<1> DEFINE S == Lines
<1>2. ls \in Seq(S)
  BY <1>1
<1> HIDE DEF S
<1>3. Len(ls) \in Nat /\ DOMAIN ls = 1 .. Len(ls)
  BY <1>2
<1> QED BY <1>1, <1>3

LEMMA IsMove ==
  ASSUME LineList' \in History!Kept, AbsPos' \in 1 .. Len(LineList') + 1,
         \/ AbsLine' = << >>
         \/ AbsPos' \in DOMAIN LineList' /\ AbsLine' = LineList'[AbsPos'],
         changed' = FALSE
  PROVE  History!Move
BY DEF History!Move, AbsPos, AbsLine

LEMMA IsEdit ==
  ASSUME LineList' = LineList, AbsPos' = AbsPos, AbsLine' \in Seq(Nat \ {0}),
         changed' = TRUE
  PROVE  History!Edit
BY DEF History!Edit, History!Line, AbsPos, AbsLine

LEMMA IsEnter ==
  ASSUME AbsLine # << >>,
         NEW rest, rest = IF changed THEN LineList ELSE RemoveAt(LineList, AbsPos),
         LineList' = History!Insert(rest, Len(rest) + 1, AbsLine),
         AbsPos' = Len(LineList') + 1,
         AbsLine' = << >>, changed' = FALSE
  PROVE  History!Enter
<1>1. rest = IF changed THEN LineList ELSE History!RemoveAt(LineList, AbsPos)
  BY SameOperators
<1> QED BY <1>1 DEF History!Enter, AbsPos, AbsLine

LEMMA IsStutter ==
  ASSUME LineList' = LineList, AbsPos' = AbsPos, AbsLine' = AbsLine, changed' = changed
  PROVE  UNCHANGED History!vars
BY DEF History!vars, AbsPos, AbsLine

LEMMA KeptSame ==
  ASSUME ~ (changed /\ AbsLine # << >>)
  PROVE  LineList \in History!Kept
BY DEF History!Kept, AbsLine

LEMMA KeptIns ==
  ASSUME changed, AbsLine # << >>, NEW p \in {AbsPos, AbsPos + 1},
         p \in 1 .. Len(LineList) + 1
  PROVE  History!Insert(LineList, p, AbsLine) \in History!Kept
BY DEF History!Kept, AbsPos, AbsLine

\* The history is left alone.
LEMMA SameHistory ==
  ASSUME Good(Hist), Hist' = Hist
  PROVE  /\ LineList' = LineList /\ AbsPos' = AbsPos
         /\ AbsPos' \in 1 .. Len(LineList') + 1
<1>1. PICK ls, st, p : Shows(Hist, ls, st, p)
  BY ShowsSome
<1>2. LineList = ls /\ AbsPos = p + 1
  BY <1>1, Seen
<1>3. LineList' = ls /\ AbsPos' = p + 1
  BY <1>1, SeenNext
<1> QED BY <1>1, <1>2, <1>3, ShowsPlace

LEMMA StutterStep ==
  ASSUME Good(Hist), UNCHANGED hist, tty_buf' = tty_buf, changed' = changed,
         pc # "command", pc' # "command"
  PROVE  UNCHANGED History!vars
<1>1. LineList' = LineList /\ AbsPos' = AbsPos
  BY HistSame, SameHistory
<1>2. AbsLine' = AbsLine
  BY DEF AbsLine
<1> QED BY <1>1, <1>2, IsStutter

LEMMA EditStep ==
  ASSUME Good(Hist), UNCHANGED hist, pc' # "command", LineOK', changed' = TRUE
  PROVE  History!Edit
<1>1. LineList' = LineList /\ AbsPos' = AbsPos
  BY HistSame, SameHistory
<1>2. AbsLine' = tty_buf'
  BY DEF AbsLine
<1>3. tty_buf' \in Seq(Nat \ {0})
  <2> DEFINE l == tty_buf'
             S == Nat \ {0}
  <2>1. l \in Seq(Printable)
    BY DEF LineOK
  <2>2. Printable \subseteq S
    BY DEF Printable
  <2> HIDE DEF l, S
  <2>3. l \in Seq(S)
    BY <2>1, <2>2
  <2> QED BY <2>3 DEF l, S
<1> QED BY <1>1, <1>2, <1>3, IsEdit

\* An edited line that is left is kept, in front of the line it was made
\* from or behind it.
LEMMA SavedShows ==
  ASSUME LineOK, pc # "command",
         NEW ls, NEW st, NEW p, Shows(Hist, ls, st, p),
         NEW h, NEW q \in {p, p + 1}, Shows(h, ls, st, q)
  PROVE  \E ls2, st2, p2 : Shows(Saved(h), ls2, st2, p2) /\ ls2 \in History!Kept
<1>1. LineList = ls /\ AbsPos = p + 1 /\ AbsLine = tty_buf
  BY Seen DEF AbsLine
<1>2. CASE Edited
  <2> DEFINE ls2 == History!Insert(ls, q + 1, tty_buf)
  <2>1. Saved(h) = hist_ins(h, tty_buf) /\ changed /\ tty_buf # << >>
    BY <1>2 DEF Saved, Edited
  <2>2. PICK st2, p2 : Shows(Saved(h), ls2, st2, p2)
    BY <2>1, InsShows DEF LineOK
  <2>3. q + 1 \in {AbsPos, AbsPos + 1}
    BY <1>1
  <2>4. q + 1 \in 1 .. Len(LineList) + 1
    BY <1>1, ShowsPlace
  <2>5. ls2 \in History!Kept
    BY <1>1, <2>1, <2>3, <2>4, KeptIns
  <2> QED BY <2>2, <2>5
<1>3. CASE ~ Edited
  <2>1. Saved(h) = h /\ ~ (changed /\ AbsLine # << >>)
    BY <1>1, <1>3 DEF Saved, Edited
  <2>2. ls \in History!Kept
    BY <1>1, <2>1, KeptSame
  <2> QED BY <2>1, <2>2
<1> QED BY <1>2, <1>3

\* The line is left for an empty one.
LEMMA ClearedMove ==
  ASSUME NEW g, NEW ls, NEW st, NEW p, Shows(g, ls, st, p), ls \in History!Kept, Cleared(g)
  PROVE  History!Move
<1>1. SetHist(g) /\ tty_buf' = << >> /\ changed' = FALSE
  BY DEF Cleared, SetLine
<1>2. Hist' = g
  BY <1>1, SetHistGood DEF Shows
<1>3. LineList' = ls /\ AbsPos' = p + 1
  BY <1>2, SeenNext
<1>4. AbsLine' = << >>
  BY <1>1 DEF AbsLine
<1>5. AbsPos' \in 1 .. Len(LineList') + 1
  BY <1>3, ShowsPlace
<1> QED BY <1>1, <1>3, <1>4, <1>5, IsMove

\* The line is left for one of the history.
LEMMA RecallMove ==
  ASSUME NEW g, NEW ls, NEW st, NEW p, Shows(g, ls, st, p), ls \in History!Kept, Recall(g),
         ~ AtEnd(g), pc' # "command"
  PROVE  History!Move
<1>1. SetHist(g) /\ tty_buf' = StringAt(g) /\ changed' = FALSE
  BY DEF Recall, SetLine
<1>2. Hist' = g
  BY <1>1, SetHistGood DEF Shows
<1>3. LineList' = ls /\ AbsPos' = p + 1
  BY <1>2, SeenNext
<1>4. AbsLine' = ls[p + 1] /\ p + 1 \in 1 .. Len(ls)
  BY <1>1, NextPlace DEF AbsLine
<1>5. AbsPos' \in 1 .. Len(LineList') + 1 /\ AbsPos' \in DOMAIN LineList'
  BY <1>3, <1>4, ShowsPlace
<1>6. AbsLine' = LineList'[AbsPos']
  BY <1>3, <1>4
<1> QED BY <1>1, <1>3, <1>5, <1>6, IsMove

LEMMA RefusedStutter ==
  ASSUME Good(Hist), Refused, pc # "command", pc' # "command"
  PROVE  UNCHANGED History!vars
<1>1. UNCHANGED hist /\ tty_buf' = tty_buf /\ changed' = changed
  BY DEF Refused
<1> QED BY <1>1, StutterStep

LEMMA UpMove ==
  ASSUME Inner, hist_up, pc # "command", pc' # "command"
  PROVE  History!Move \/ UNCHANGED History!vars
<1>0. Good(Hist) /\ LineOK
  BY DEF Inner
<1>1. CASE hist_idx = 0 /\ Refused
  BY <1>0, <1>1, RefusedStutter
<1>2. PICK ls, st, p : Shows(Hist, ls, st, p)
  BY <1>0, ShowsSome
<1> DEFINE h == Saved(Hist)
<1>3. PICK ls2, st2, p2 : Shows(h, ls2, st2, p2) /\ ls2 \in History!Kept
  BY <1>0, <1>2, SavedShows
<1> HIDE DEF h
<1>4. CASE h.idx # 0 /\ Recall(hist_prev(h))
  <2> DEFINE g == hist_prev(h)
  <2>1. Good(h) /\ Text(h.buf, ls2, st2)
    BY <1>3 DEF Shows
  <2>2. Good(g) /\ ~ AtEnd(g)
    BY <1>4, <2>1, PrevGood
  <2>3. g.buf = h.buf
    <3>1. h = [buf |-> h.buf, idx |-> h.idx]
      BY <2>1 DEF Good
    <3> DEFINE m == Max({j \in 0 .. h.idx - 1 : j = 0 \/ h.buf[j] = 0})
    <3>2. g = [h EXCEPT !.idx = m]
      BY DEF hist_prev
    <3> HIDE DEF g, m
    <3> QED BY <3>1, <3>2
  <2> HIDE DEF g
  <2>4. PICK p3 : Shows(g, ls2, st2, p3)
    BY <2>1, <2>2, <2>3, SomePlace
  <2>5. Recall(g)
    BY <1>4 DEF g
  <2> QED BY <1>3, <2>2, <2>4, <2>5, RecallMove
<1>5. CASE h.idx = 0 /\ Cleared(h)
  BY <1>3, <1>5, ClearedMove
<1> QED BY <1>1, <1>4, <1>5 DEF hist_up, h

LEMMA DownMove ==
  ASSUME Inner, hist_down, pc # "command", pc' # "command"
  PROVE  History!Move \/ UNCHANGED History!vars
<1> DEFINE more == ~ AtEnd(Hist) /\ ~ AtEnd(hist_next(Hist))
           stored == IF Edited THEN Saved(hist_next(Hist)) ELSE Hist
           h == IF tty_buf = << >> THEN Hist ELSE hist_next(stored)
           g == [stored EXCEPT !.idx = Len(stored.buf)]
<1>0. Good(Hist) /\ LineOK
  BY DEF Inner
<1>1. \/ more /\ ~ AtEnd(h) /\ Recall(h)
      \/ more /\ AtEnd(h) /\ Cleared(h)
      \/ ~ more /\ tty_buf # << >> /\ Cleared(g)
      \/ ~ more /\ tty_buf = << >> /\ Refused
  BY DEF hist_down
<1>2. PICK ls, st, p : Shows(Hist, ls, st, p)
  BY <1>0, ShowsSome
<1>3. PICK ls2, st2, p2 : Shows(stored, ls2, st2, p2) /\ ls2 \in History!Kept
  <2>1. CASE Edited
    <3> DEFINE n == hist_next(Hist)
    <3>1. PICK q \in {p, p + 1} : Shows(n, ls, st, q)
      <4>1. CASE AtEnd(Hist)
        <5>1. n = Hist
          BY <4>1 DEF hist_next
        <5> QED BY <1>2, <5>1
      <4>2. CASE ~ AtEnd(Hist)
        BY <1>2, <4>2, NextShows
      <4> QED BY <4>1, <4>2
    <3>2. stored = Saved(n)
      BY <2>1
    <3> HIDE DEF n, stored
    <3> QED BY <1>0, <1>2, <3>1, <3>2, SavedShows
  <2>2. CASE ~ Edited
    <3>1. stored = Hist /\ Saved(Hist) = Hist
      BY <2>2 DEF Saved
    <3>2. \E ls2, st2, p2 : Shows(Saved(Hist), ls2, st2, p2) /\ ls2 \in History!Kept
      BY <1>0, <1>2, SavedShows
    <3> QED BY <3>1, <3>2
  <2> QED BY <2>1, <2>2
<1>4. PICK p3 : Shows(hist_next(stored), ls2, st2, p3)
  <2> HIDE DEF stored
  <2>1. CASE AtEnd(stored)
    BY <1>3, <2>1 DEF hist_next
  <2>2. CASE ~ AtEnd(stored)
    BY <1>3, <2>2, NextShows
  <2> QED BY <2>1, <2>2
<1>5. \E p4 : Shows(h, ls2, st2, p4)
  <2>1. CASE tty_buf = << >>
    <3>1. stored = Hist
      BY <2>1 DEF Edited
    <3> HIDE DEF stored
    <3> QED BY <1>3, <2>1, <3>1
  <2>2. CASE tty_buf # << >>
    <3> HIDE DEF stored
    <3> QED BY <1>4, <2>2
  <2> QED BY <2>1, <2>2
<1>6. Shows(g, ls2, st2, Len(ls2))
  <2> HIDE DEF stored
  <2> QED BY <1>3, EndShows
<1> HIDE DEF more, stored, h, g
<1>7. CASE ~ AtEnd(h) /\ Recall(h)
  BY <1>3, <1>5, <1>7, RecallMove
<1>8. CASE Cleared(h)
  BY <1>3, <1>5, <1>8, ClearedMove
<1>9. CASE Cleared(g)
  BY <1>3, <1>6, <1>9, ClearedMove
<1>10. CASE Refused
  BY <1>0, <1>10, RefusedStutter
<1> QED BY <1>1, <1>7, <1>8, <1>9, <1>10

LEMMA GiveUpMove ==
  ASSUME Inner, GiveUp, pc # "command"
  PROVE  History!Move
<1> DEFINE h == Saved(Hist)
<1>0. Good(Hist) /\ LineOK
  BY DEF Inner
<1>1. PICK ls, st, p : Shows(Hist, ls, st, p)
  BY <1>0, ShowsSome
<1>2. PICK ls2, st2, p2 : Shows(h, ls2, st2, p2) /\ ls2 \in History!Kept
  BY <1>0, <1>1, SavedShows
<1> HIDE DEF h
<1> DEFINE g == [h EXCEPT !.idx = Len(h.buf)]
<1>3. Shows(g, ls2, st2, Len(ls2))
  BY <1>2, EndShows
<1>4. Cleared(g)
  BY DEF GiveUp, h
<1> HIDE DEF g
<1> QED BY <1>2, <1>3, <1>4, ClearedMove

\* The keys that leave the history alone edit the line, or do nothing.
LEMMA LineKey ==
  ASSUME Good(Hist), LineOK', UNCHANGED hist, pc # "command", pc' # "command",
         changed' = TRUE \/ (tty_buf' = tty_buf /\ changed' = changed)
  PROVE  History!Edit \/ UNCHANGED History!vars
BY EditStep, StutterStep

LEMMA KeyMaps ==
  ASSUME Inner, LineOK', pc # "command", pc' # "command",
         \/ \E c \in Typed : typech(c)
         \/ Backspace \/ DeleteChar \/ Refused
         \/ cur_left \/ cur_right \/ MoveTo(Len(tty_buf)) \/ MoveTo(0)
  PROVE  History!Edit \/ UNCHANGED History!vars
<1>1. Good(Hist)
  BY DEF Inner
<1>2. CASE \E c \in Typed : typech(c)
  <2>1. UNCHANGED hist /\ (changed' = TRUE \/ (tty_buf' = tty_buf /\ changed' = changed))
    BY <1>2 DEF typech, Refused
  <2> QED BY <1>1, <2>1, LineKey
<1>3. CASE Backspace \/ DeleteChar \/ Refused
  <2>1. UNCHANGED hist /\ (changed' = TRUE \/ (tty_buf' = tty_buf /\ changed' = changed))
    BY <1>3 DEF Backspace, DeleteChar, delch, Refused
  <2> QED BY <1>1, <2>1, LineKey
<1>4. CASE cur_left \/ cur_right \/ MoveTo(Len(tty_buf)) \/ MoveTo(0)
  <2>1. UNCHANGED hist /\ tty_buf' = tty_buf /\ changed' = changed
    BY <1>4 DEF cur_left, cur_right, MoveTo
  <2> QED BY <1>1, <2>1, LineKey
<1> QED BY <1>2, <1>3, <1>4

LEMMA EditKeyMaps ==
  ASSUME Editing, Editing', EditKey
  PROVE  [History!Next]_(History!vars)
<1>1. pc = "edit" /\ Inner /\ pc' = pc
  BY CharCounts DEF EditKey
<1>2. LineOK'
  BY DEF Editing
<1>3. CASE GiveUp
  BY <1>1, <1>3, GiveUpMove DEF History!Next
<1>4. CASE hist_up
  BY <1>1, <1>4, UpMove DEF History!Next
<1>5. CASE hist_down
  BY <1>1, <1>5, DownMove DEF History!Next
<1>6. CASE \/ \E c \in Typed : typech(c)
           \/ Backspace \/ DeleteChar
           \/ cur_left \/ cur_right \/ MoveTo(Len(tty_buf)) \/ MoveTo(0)
  BY <1>1, <1>2, <1>6, KeyMaps DEF History!Next
<1> QED BY <1>3, <1>4, <1>5, <1>6 DEF EditKey

LEMMA ArrowMaps ==
  ASSUME Editing, Editing', Arrow
  PROVE  [History!Next]_(History!vars)
<1>1. pc = "edit" /\ Inner /\ pc' = pc
  BY CharCounts DEF Arrow
<1>2. LineOK'
  BY DEF Editing
<1>3. CASE hist_up
  BY <1>1, <1>3, UpMove DEF History!Next
<1>4. CASE hist_down
  BY <1>1, <1>4, DownMove DEF History!Next
<1>5. CASE cur_left \/ cur_right \/ Refused
  BY <1>1, <1>2, <1>5, KeyMaps DEF History!Next
<1> QED BY <1>3, <1>4, <1>5 DEF Arrow

LEMMA OtherMaps ==
  ASSUME Editing, Editing', Escape \/ Tab \/ Complete
  PROVE  [History!Next]_(History!vars)
<1>1. Good(Hist) /\ LineOK'
  BY DEF Editing
<1>2. CASE Escape
  <2>1. /\ pc = "edit" /\ pc' = pc /\ UNCHANGED hist
        /\ tty_buf' = tty_buf /\ changed' = changed
    BY <1>2 DEF Escape, Char
  <2> QED BY <1>1, <2>1, LineKey DEF History!Next
<1>3. CASE Tab
  <2>1. /\ pc = "edit" /\ pc' \in {"edit", "tab"} /\ UNCHANGED hist
        /\ tty_buf' = tty_buf /\ changed' = changed
    BY <1>3 DEF Tab, Char
  <2> QED BY <1>1, <2>1, LineKey DEF History!Next
<1>4. CASE Complete
  <2>0. changed \in BOOLEAN
    BY DEF Editing, LineOK
  <2>1. /\ pc = "tab" /\ pc' \in {"edit", "tab"} /\ UNCHANGED hist
        /\ changed' = TRUE \/ (tty_buf' = tty_buf /\ changed' = changed)
    BY <1>4, <2>0 DEF Complete, SetLine
  <2> QED BY <1>1, <2>1, LineKey DEF History!Next
<1> QED BY <1>2, <1>3, <1>4

LEMMA ReadlineMaps ==
  ASSUME Editing, nk_readline
  PROVE  History!Move
<1>1. /\ tty_buf' = << >> /\ changed' = FALSE /\ Hist' = Hist /\ pc = "command"
  BY HistSame DEF nk_readline, SetLine
<1>2. LineList' = LineList /\ AbsPos' \in 1 .. Len(LineList') + 1
  BY <1>1, SameHistory DEF Editing
<1>3. AbsLine = << >> /\ AbsLine' = << >>
  BY <1>1 DEF AbsLine
<1>4. LineList \in History!Kept
  BY <1>3, KeptSame
<1> QED BY <1>1, <1>2, <1>3, <1>4, IsMove

\* Enter on an empty line leaves the history alone, any other line goes to
\* its end; the line that hist_del takes out first is the recalled one.
LEMMA EnterMaps ==
  ASSUME Editing, Enter
  PROVE  History!Move \/ History!Enter
<1> DEFINE rest == IF changed THEN Hist ELSE hist_del(Hist)
           back == [rest EXCEPT !.idx = Len(rest.buf)]
           stored == IF tty_buf = << >> THEN Hist ELSE hist_ins(back, tty_buf)
           last == [stored EXCEPT !.idx = Len(stored.buf)]
<1>1. /\ pc = "edit" /\ Inner /\ pc' = "command" /\ SetHist(last) /\ changed' = FALSE
  BY CharCounts DEF Enter
<1>2. Good(Hist) /\ LineOK
  BY DEF Editing
<1>3. PICK ls, st, p : Shows(Hist, ls, st, p)
  BY <1>2, ShowsSome
<1>4. LineList = ls /\ AbsPos = p + 1 /\ AbsLine = tty_buf /\ AbsLine' = << >>
  BY <1>1, <1>3, Seen DEF AbsLine
<1>5. ASSUME NEW ls2, NEW st2, NEW p2, Shows(stored, ls2, st2, p2)
      PROVE  LineList' = ls2 /\ AbsPos' = Len(ls2) + 1 /\ Len(ls2) \in Nat
  <2> HIDE DEF stored
  <2>1. Shows(last, ls2, st2, Len(ls2))
    BY <1>5, EndShows
  <2> HIDE DEF last
  <2>2. Hist' = last
    BY <1>1, <2>1, SetHistGood DEF Shows
  <2> QED BY <2>1, <2>2, SeenNext, ShowsPlace
<1>6. CASE tty_buf = << >>
  <2>1. stored = Hist
    BY <1>6
  <2>2. LineList' = ls /\ AbsPos' = Len(ls) + 1 /\ Len(ls) \in Nat
    <3> HIDE DEF stored
    <3> QED BY <1>3, <1>5, <2>1
  <2>3. LineList' \in History!Kept
    BY <1>4, <1>6, <2>2, KeptSame
  <2>4. AbsPos' \in 1 .. Len(LineList') + 1
    BY <2>2
  <2> QED BY <1>1, <1>4, <2>3, <2>4, IsMove
<1>7. CASE tty_buf # << >>
  <2> DEFINE rl == IF changed THEN ls ELSE RemoveAt(ls, p + 1)
  <2>1. \E st2, p2 : Shows(rest, rl, st2, p2)
    <3>1. CASE changed
      BY <1>3, <3>1
    <3>2. CASE ~ changed
      <4>1. AbsPos \in DOMAIN LineList
        BY <1>1, <1>7, <3>2, RecalledLine DEF AbsPos
      <4>2. p + 1 \in 1 .. Len(ls)
        BY <1>3, <1>4, <4>1, ShowsPlace
      <4>3. p # Len(ls)
        BY <1>3, <4>2, ShowsPlace
      <4>4. ~ AtEnd(Hist)
        BY <1>3, <4>3, EndPlace
      <4> QED BY <1>3, <3>2, <4>4, DelShows
    <3> QED BY <3>1, <3>2
  <2>2. rl = IF changed THEN LineList ELSE RemoveAt(LineList, AbsPos)
    BY <1>4
  <2>3. stored = hist_ins(back, tty_buf)
    BY <1>7
  <2> HIDE DEF rest, rl, stored
  <2>4. PICK st2 : Shows(back, rl, st2, Len(rl))
    BY <2>1, EndShows
  <2> HIDE DEF back
  <2>5. \E st3, p3 : Shows(stored, History!Insert(rl, Len(rl) + 1, tty_buf), st3, p3)
    BY <1>2, <1>7, <2>3, <2>4, InsShows DEF LineOK
  <2>6. /\ LineList' = History!Insert(rl, Len(rl) + 1, tty_buf)
        /\ AbsPos' = Len(LineList') + 1
    BY <1>5, <2>5
  <2>7. History!Enter
    BY <1>1, <1>4, <1>7, <2>2, <2>6, IsEnter
  <2> QED BY <2>7
<1> QED BY <1>6, <1>7

LEMMA StepMaps ==
  ASSUME Editing, Editing', [Next]_vars
  PROVE  [History!Next]_(History!vars)
<1>1. CASE UNCHANGED vars
  <2>1. /\ Hist' = Hist /\ tty_buf' = tty_buf /\ changed' = changed /\ pc' = pc
    BY <1>1 DEF vars, Hist
  <2>2. LineList' = LineList /\ AbsPos' = AbsPos
    BY <2>1, SameHistory DEF Editing
  <2>3. AbsLine' = AbsLine
    BY <2>1 DEF AbsLine
  <2> QED BY <2>1, <2>2, <2>3, IsStutter
<1>2. CASE EditKey
  BY <1>2, EditKeyMaps
<1>3. CASE Arrow
  BY <1>3, ArrowMaps
<1>4. CASE Enter
  BY <1>4, EnterMaps DEF History!Next
<1>5. CASE nk_readline
  BY <1>5, ReadlineMaps DEF History!Next
<1>6. CASE Escape \/ Tab \/ Complete
  BY <1>6, OtherMaps
<1> QED BY <1>1, <1>2, <1>3, <1>4, <1>5, <1>6 DEF Next

LEMMA InitMaps ==
  ASSUME Init
  PROVE  History!Init
<1>1. Good(Hist) /\ histbuf = << >> /\ hist_idx = 0 /\ changed = FALSE /\ pc = "command"
  BY EditingInit DEF Init, Editing
<1>2. PICK ls, st, p : Shows(Hist, ls, st, p)
  BY <1>1, ShowsSome
<1>3. LineList = ls /\ AbsPos = p + 1
  BY <1>2, Seen
<1>4. /\ Text(histbuf, ls, st) /\ st[0] = 0 /\ st[Len(ls)] = 0
      /\ ls \in Seq(Lines) /\ p \in 0 .. Len(ls)
  BY <1>1, <1>2 DEF Shows, Hist, Text
<1>5. 0 \in 0 .. Len(ls) /\ Len(ls) \in 0 .. Len(ls)
  BY <1>2, ShowsPlace
<1>6. Len(ls) = 0
  BY <1>4, <1>5, InOrder
<1>7. ls = << >> /\ p = 0
  <2> DEFINE S == Lines
  <2>1. ls \in Seq(S)
    BY <1>4
  <2> HIDE DEF S
  <2> QED BY <1>4, <1>6, <2>1
<1>8. LineList = << >> /\ AbsPos = 1 /\ AbsLine = << >>
  BY <1>1, <1>3, <1>7 DEF AbsLine
<1> QED BY <1>1, <1>8 DEF History!Init, AbsPos, AbsLine

\* The bytes of histbuf and its index implement the list of lines: no line
\* that was edited is lost, and lines leave the history only by age or by
\* being entered again, for every command table, line size and history size.
THEOREM EditorKeepsHistory == Spec => ImplementsHistory
<1>1. Init => History!Init
  BY InitMaps
<1>2. Editing /\ Editing' /\ [Next]_vars => [History!Next]_(History!vars)
  BY StepMaps
<1> QED BY <1>1, <1>2, AlwaysEditing, PTL DEF Spec, ImplementsHistory, History!Spec

=============================================================================
