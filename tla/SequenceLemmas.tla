--------------------------- MODULE SequenceLemmas ---------------------------
(***************************************************************************)
(* Facts about sequences and numbers that the proofs of the components     *)
(* cite: what removal and insertion at a position return, the least        *)
(* element of a set of naturals, the arithmetic of counters that wrap and  *)
(* of addresses in blocks, and the sets that folds recur over.             *)
(***************************************************************************)
EXTENDS Integers, Sequences, SequencesExt, SequenceTheorems, FiniteSetTheorems,
        NaturalsInduction, WellFoundedInduction, TLAPS

\* What RemoveAt (deque) returns: the other elements, in their order.
LEMMA RemoveAtElements ==
  ASSUME NEW S, NEW s \in Seq(S), NEW i \in 1 .. Len(s)
  PROVE  /\ RemoveAt(s, i) \in Seq(S)
         /\ Len(RemoveAt(s, i)) = Len(s) - 1
         /\ \A k \in 1 .. Len(s) - 1 :
              RemoveAt(s, i)[k] = IF k < i THEN s[k] ELSE s[k + 1]
<1> DEFINE a == SubSeq(s, 1, i - 1)
           b == SubSeq(s, i + 1, Len(s))
<1>1. /\ a \in Seq(S) /\ Len(a) = i - 1
      /\ \A k \in 1 .. i - 1 : a[k] = s[k]
  <2>1. \A k \in 1 .. i - 1 : s[k] \in S
    OBVIOUS
  <2> QED BY <2>1, SubSeqProperties
<1>2. /\ b \in Seq(S) /\ Len(b) = Len(s) - i
      /\ \A k \in 1 .. Len(s) - i : b[k] = s[k + i]
  <2>1. \A k \in i + 1 .. Len(s) : s[k] \in S
    OBVIOUS
  <2> QED BY <2>1, SubSeqProperties
<1>3. RemoveAt(s, i) = a \o b
  BY DEF RemoveAt
<1> HIDE DEF a, b
<1>4. /\ a \o b \in Seq(S) /\ Len(a \o b) = Len(a) + Len(b)
      /\ \A k \in 1 .. Len(a) + Len(b) :
           (a \o b)[k] = IF k <= Len(a) THEN a[k] ELSE b[k - Len(a)]
  BY <1>1, <1>2, ConcatProperties
<1>5. Len(s) \in Nat
  OBVIOUS
<1>6. Len(a) + Len(b) = Len(s) - 1
  BY <1>1, <1>2, <1>5
<1>7. ASSUME NEW k \in 1 .. Len(s) - 1
      PROVE  (a \o b)[k] = IF k < i THEN s[k] ELSE s[k + 1]
  <2>1. CASE k < i
    BY <2>1, <1>1, <1>4, <1>5, <1>6
  <2>2. CASE ~ (k < i)
    <3>1. k - (i - 1) \in 1 .. Len(s) - i
      BY <2>2, <1>5
    <3>2. b[k - (i - 1)] = s[k + 1]
      BY <3>1, <1>2, <1>5
    <3> QED BY <2>2, <3>2, <1>1, <1>4, <1>5, <1>6
  <2> QED BY <2>1, <2>2
<1> QED BY <1>3, <1>4, <1>6, <1>7

\* What InsertAt (enque before position i) returns.
LEMMA InsertAtElements ==
  ASSUME NEW S, NEW s \in Seq(S), NEW i \in 1 .. Len(s) + 1, NEW e \in S
  PROVE  /\ InsertAt(s, i, e) \in Seq(S)
         /\ Len(InsertAt(s, i, e)) = Len(s) + 1
         /\ \A k \in 1 .. Len(s) + 1 :
              InsertAt(s, i, e)[k] = IF k < i THEN s[k]
                                     ELSE IF k = i THEN e ELSE s[k - 1]
<1> DEFINE a == SubSeq(s, 1, i - 1)
           b == SubSeq(s, i, Len(s))
           c == a \o <<e>>
<1>1. /\ a \in Seq(S) /\ Len(a) = i - 1
      /\ \A k \in 1 .. i - 1 : a[k] = s[k]
  <2>1. \A k \in 1 .. i - 1 : s[k] \in S
    OBVIOUS
  <2> QED BY <2>1, SubSeqProperties
<1>2. /\ b \in Seq(S) /\ Len(b) = Len(s) - i + 1
      /\ \A k \in 1 .. Len(s) - i + 1 : b[k] = s[k + i - 1]
  <2>1. \A k \in i .. Len(s) : s[k] \in S
    OBVIOUS
  <2> QED BY <2>1, SubSeqProperties
<1>3. InsertAt(s, i, e) = c \o b
  BY DEF InsertAt
<1> HIDE DEF a, b
<1>4. <<e>> \in Seq(S) /\ Len(<<e>>) = 1 /\ <<e>>[1] = e
  OBVIOUS
<1>5. /\ c \in Seq(S) /\ Len(c) = i
      /\ \A k \in 1 .. i : c[k] = IF k < i THEN s[k] ELSE e
  BY <1>1, <1>4, ConcatProperties
<1> HIDE DEF c
<1>6. /\ c \o b \in Seq(S) /\ Len(c \o b) = Len(c) + Len(b)
      /\ \A k \in 1 .. Len(c) + Len(b) :
           (c \o b)[k] = IF k <= Len(c) THEN c[k] ELSE b[k - Len(c)]
  BY <1>2, <1>5, ConcatProperties
<1>7. Len(s) \in Nat
  OBVIOUS
<1>8. Len(c) + Len(b) = Len(s) + 1
  BY <1>2, <1>5, <1>7
<1>9. ASSUME NEW k \in 1 .. Len(s) + 1
      PROVE  (c \o b)[k] = IF k < i THEN s[k]
                            ELSE IF k = i THEN e ELSE s[k - 1]
  <2>1. CASE k <= i
    BY <2>1, <1>5, <1>6, <1>7, <1>8
  <2>2. CASE ~ (k <= i)
    <3>1. k - i \in 1 .. Len(s) - i + 1
      BY <2>2, <1>7
    <3>2. b[k - i] = s[k - 1]
      BY <3>1, <1>2, <1>7
    <3> QED BY <2>2, <3>2, <1>5, <1>6, <1>7, <1>8
  <2> QED BY <2>1, <2>2
<1> QED BY <1>3, <1>6, <1>8, <1>9

\* A non-empty set of naturals has a least element.
LEMMA LeastNat ==
  ASSUME NEW T, T \subseteq Nat, T # {}
  PROVE  \E x \in T : \A y \in T : x <= y
<1>1. PICK x \in T : \A y \in T : ~ (<<y, x>> \in OpToRel(<, Nat))
  BY NatLessThanWellFounded, WFMin
<1>2. \A y \in T : ~ (y < x)
  BY <1>1 DEF OpToRel
<1>3. \A y \in T : x <= y
  BY <1>2
<1> QED BY <1>3

\* A non-empty set of numbers up to n has a greatest element.
LEMMA GreatestIn ==
  ASSUME NEW n \in Nat, NEW s, s \subseteq 1 .. n, s # {}
  PROVE  Max(s) \in s
<1> DEFINE T == {n - x : x \in s}
<1>0. \A x \in s : x \in Int /\ n - x \in Nat
  OBVIOUS
<1>1. T \subseteq Nat /\ T # {}
  BY <1>0
<1>2. PICK t \in T : \A u \in T : t <= u
  BY <1>1, LeastNat
<1>3. PICK x \in s : t = n - x
  BY <1>2
<1>4. \A y \in s : n - x <= n - y
  BY <1>2, <1>3
<1>5. \A y \in s : x >= y
  BY <1>0, <1>3, <1>4
<1> QED BY <1>3, <1>5 DEF Max

\* A sequence over a set is one over a larger set.
LEMMA SeqOfSubset ==
  ASSUME NEW S, NEW T, S \subseteq T, NEW s \in Seq(S)
  PROVE  s \in Seq(T)
<1>1. s \in [1 .. Len(s) -> S] /\ Len(s) \in Nat
  OBVIOUS
<1>2. s \in [1 .. Len(s) -> T]
  BY <1>1
<1> QED BY <1>1, <1>2

LEMMA ConcatType ==
  ASSUME NEW S, NEW a \in Seq(S), NEW b \in Seq(S)
  PROVE  a \o b \in Seq(S) /\ Len(a \o b) = Len(a) + Len(b)
BY ConcatProperties

\* Removal keeps the elements of the others: none is lost or duplicated.
LEMMA RemoveAtInjective ==
  ASSUME NEW S, NEW s \in Seq(S), NEW i \in 1 .. Len(s),
         NEW k \in 1 .. Len(s) - 1
  PROVE  \E m \in 1 .. Len(s) :
           /\ m # i
           /\ RemoveAt(s, i)[k] = s[m]
           /\ m = IF k < i THEN k ELSE k + 1
<1>1. Len(s) \in Nat
  OBVIOUS
<1>2. RemoveAt(s, i)[k] = IF k < i THEN s[k] ELSE s[k + 1]
  BY RemoveAtElements
<1> QED BY <1>1, <1>2

\* The remainder of a number that is at most one modulus out of range.
LEMMA ModWrap ==
  ASSUME NEW m \in Nat \ {0}, NEW x \in Int
  PROVE  /\ x % m \in 0 .. m - 1
         /\ 0 <= x /\ x < m => x % m = x
         /\ - m <= x /\ x < 0 => x % m = x + m
         /\ m <= x /\ x < m + m => x % m = x - m
OBVIOUS

-----------------------------------------------------------------------------
(***************************************************************************)
(* Remainders of numbers however far out of range.                         *)
(***************************************************************************)

LEMMA DivMod ==
  ASSUME NEW m \in Nat \ {0}, NEW x \in Int
  PROVE  /\ x = (x \div m) * m + (x % m)
         /\ x \div m \in Int
         /\ x % m \in 0 .. m - 1
OBVIOUS

\* The only multiple of m nearer to 0 than m is 0.
LEMMA SmallMultiple ==
  ASSUME NEW m \in Nat \ {0}, NEW n \in Int, NEW d \in Int,
         - m < d, d < m, n * m = d
  PROVE  n = 0
<1>1. n >= 1 => n * m >= m
  OBVIOUS
<1>2. n <= - 1 => n * m <= - m
  OBVIOUS
<1> QED BY <1>1, <1>2

LEMMA ModUnique ==
  ASSUME NEW m \in Nat \ {0}, NEW x \in Int, NEW q \in Int,
         NEW r \in 0 .. m - 1, x = q * m + r
  PROVE  x % m = r
<1> DEFINE p == x \div m
           s == x % m
<1>1. x = p * m + s /\ p \in Int /\ s \in 0 .. m - 1
  BY DivMod
<1> HIDE DEF p, s
<1>2. (p - q) * m = r - s
  BY <1>1
<1>3. p - q = 0
  BY <1>1, <1>2, SmallMultiple
<1>4. r = s
  BY <1>1, <1>2, <1>3
<1> QED BY <1>4 DEF s

\* A multiple of the modulus makes no difference.
LEMMA ModShift ==
  ASSUME NEW m \in Nat \ {0}, NEW c \in Nat, c % m = 0, NEW x \in Int
  PROVE  (x - c) % m = x % m
<1> DEFINE p == x \div m
           s == x % m
           k == c \div m
<1>1. x = p * m + s /\ p \in Int /\ s \in 0 .. m - 1
  BY DivMod
<1>2. c = k * m /\ k \in Int
  BY DivMod
<1> HIDE DEF p, s, k
<1>3. x - c = (p - k) * m + s
  BY <1>1, <1>2
<1>4. (x - c) % m = s
  BY <1>1, <1>2, <1>3, ModUnique
<1> QED BY <1>4 DEF s

\* Two numbers less than the modulus apart have different remainders.
LEMMA ModDistinct ==
  ASSUME NEW m \in Nat \ {0}, NEW x \in Int, NEW d \in 1 .. m - 1
  PROVE  (x + d) % m # x % m
<1> SUFFICES ASSUME (x + d) % m = x % m PROVE FALSE
  OBVIOUS
<1> DEFINE p == x \div m
           s == x % m
           y == x + d
           c == y \div m
<1>1. x = p * m + s /\ p \in Int /\ s \in 0 .. m - 1
  BY DivMod
<1>2. y \in Int
  OBVIOUS
<1>3. y = c * m + s /\ c \in Int
  <2> HIDE DEF y
  <2>1. y = c * m + (y % m) /\ c \in Int
    BY <1>2, DivMod
  <2> QED BY <2>1 DEF y
<1> HIDE DEF p, s, c
<1>4. (c - p) * m = d
  BY <1>1, <1>3
<1>5. c - p = 0
  BY <1>1, <1>3, <1>4, SmallMultiple
<1> QED BY <1>4, <1>5

\* A remainder may be taken before or after adding.
LEMMA ModAdd ==
  ASSUME NEW m \in Nat \ {0}, NEW x \in Int, NEW k \in Int
  PROVE  ((x % m) + k) % m = (x + k) % m
<1> DEFINE p == x \div m
           s == x % m
           y == s + k
           r == y % m
           q == y \div m
<1>1. x = p * m + s /\ p \in Int /\ s \in 0 .. m - 1
  BY DivMod
<1> HIDE DEF p, s
<1>2. y \in Int
  BY <1>1
<1>3. y = s + k
  OBVIOUS
<1> HIDE DEF y
<1>4. y = q * m + r /\ q \in Int /\ r \in 0 .. m - 1
  BY <1>2, DivMod
<1> HIDE DEF q, r
<1> DEFINE z == x + k
           n == p + q
<1>5. z \in Int /\ n \in Int /\ z = n * m + r
  BY <1>1, <1>3, <1>4
<1> HIDE DEF z, n
<1>6. z % m = r
  BY <1>4, <1>5, ModUnique
<1> QED BY <1>6 DEF z, r, y, s

\* The same for a variable that holds a remainder.
LEMMA ModAddVar ==
  ASSUME NEW m \in Nat \ {0}, NEW x \in Int, NEW y, y = x % m, NEW k \in Int
  PROVE  (y + k) % m = (x + k) % m
BY ModAdd

LEMMA ModIncrement ==
  ASSUME NEW c \in Nat \ {0}, NEW x \in 0 .. c - 1
  PROVE  /\ (x + 1) % c \in 0 .. c - 1
         /\ (x + 1) % c = x + 1 \/ (x + 1) % c = (x + 1) - c
<1>1. CASE x + 1 < c
  <2>1. x + 1 \in 0 .. c - 1 /\ x + 1 = 0 * c + (x + 1)
    BY <1>1
  <2> QED BY <2>1, ModUnique
<1>2. CASE x + 1 = c
  <2>1. 0 \in 0 .. c - 1 /\ x + 1 = 1 * c + 0
    BY <1>2
  <2>2. (x + 1) % c = 0
    BY <2>1, ModUnique
  <2> QED BY <1>2, <2>2
<1> QED BY <1>1, <1>2

\* A sequence cut in two.
LEMMA SplitFacts ==
  ASSUME NEW S, NEW s \in Seq(S), NEW n \in 0 .. Len(s)
  PROVE  /\ SubSeq(s, 1, n) \in Seq(S) /\ SubSeq(s, n + 1, Len(s)) \in Seq(S)
         /\ Len(SubSeq(s, 1, n)) = n /\ Len(SubSeq(s, n + 1, Len(s))) = Len(s) - n
         /\ \A i \in 1 .. n : SubSeq(s, 1, n)[i] = s[i]
         /\ \A i \in 1 .. Len(s) - n : SubSeq(s, n + 1, Len(s))[i] = s[n + i]
         /\ SubSeq(s, 1, n) \o SubSeq(s, n + 1, Len(s)) = s
<1> DEFINE a == SubSeq(s, 1, n)
           b == SubSeq(s, n + 1, Len(s))
<1>1. a \in Seq(S) /\ Len(a) = n /\ \A i \in 1 .. n : a[i] = s[i]
  OBVIOUS
<1>2. /\ b \in Seq(S) /\ Len(b) = Len(s) - n
      /\ \A i \in 1 .. Len(s) - n : b[i] = s[n + i]
  OBVIOUS
<1> HIDE DEF a, b
<1>3. Len(s) \in Nat /\ n \in Nat /\ n <= Len(s)
  OBVIOUS
<1>4. /\ a \o b \in Seq(S) /\ Len(a \o b) = Len(a) + Len(b)
      /\ \A i \in 1 .. Len(a) + Len(b) :
           (a \o b)[i] = IF i <= Len(a) THEN a[i] ELSE b[i - Len(a)]
  BY <1>1, <1>2, ConcatProperties, Zenon
<1>5. ASSUME NEW i \in 1 .. Len(s) PROVE (a \o b)[i] = s[i]
  <2>1. i \in 1 .. Len(a) + Len(b) /\ Len(a) = n
    BY <1>1, <1>2, <1>3
  <2>2. CASE i <= n
    BY <1>1, <1>4, <2>1, <2>2
  <2>3. CASE i > n
    <3>1. i - n \in 1 .. Len(s) - n /\ n + (i - n) = i /\ ~ (i <= n)
      BY <1>3, <2>3
    <3> QED BY <1>2, <1>4, <2>1, <3>1
  <2>4. i <= n \/ i > n
    BY <1>3
  <2> QED BY <2>2, <2>3, <2>4
<1>6. Len(a \o b) = Len(s)
  BY <1>1, <1>2, <1>3, <1>4
<1>7. a \o b = s
  BY <1>4, <1>5, <1>6, SeqEqual
<1> QED BY <1>1, <1>2, <1>7 DEF a, b

-----------------------------------------------------------------------------
(***************************************************************************)
(* Addresses and blocks.                                                   *)
(***************************************************************************)

\* The next page goes on in the same erase block, or starts a new one.
LEMMA NextPage ==
  ASSUME NEW e \in Nat \ {0}, NEW p \in Nat, NEW n \in Nat, n <= e - (p % e)
  PROVE  \/ n = e - (p % e) /\ (p + n) % e = 0
         \/ n < e - (p % e) /\ (p + n) % e = (p % e) + n
<1> DEFINE q == p \div e
           r == p % e
<1>1. p = q * e + r /\ q \in Int /\ r \in 0 .. e - 1
  BY DivMod
<1> HIDE DEF q, r
<1>2. CASE n = e - r
  <2> DEFINE x == p + n
             k == q + 1
  <2>1. x = k * e + 0 /\ x \in Int /\ k \in Int /\ 0 \in 0 .. e - 1
    BY <1>1, <1>2
  <2> HIDE DEF x, k
  <2>2. x % e = 0
    BY <2>1, ModUnique
  <2> QED BY <1>2, <2>2 DEF x, r
<1>3. CASE n < e - r
  <2> DEFINE x == p + n
             s == r + n
  <2>1. x = q * e + s /\ x \in Int /\ s \in 0 .. e - 1
    BY <1>1, <1>3
  <2> HIDE DEF x, s
  <2>2. x % e = s
    BY <1>1, <2>1, ModUnique
  <2> QED BY <1>3, <2>2 DEF x, s, r
<1>4. n <= e - r
  BY DEF r
<1> QED BY <1>1, <1>2, <1>3, <1>4

\* The rest of a block lies in the area that its first address lies in.
LEMMA BlockInside ==
  ASSUME NEW e \in Nat \ {0}, NEW base \in Nat, NEW size \in Nat, NEW p \in Nat,
         base % e = 0, size % e = 0, base <= p, p < base + size
  PROVE  p + (e - (p % e)) <= base + size
<1> DEFINE b == base \div e
           c == size \div e
           q == p \div e
           r == p % e
<1>1. base = b * e /\ size = c * e /\ b \in Int /\ c \in Int
  <2>1. /\ base = b * e + (base % e) /\ b \in Int
        /\ size = c * e + (size % e) /\ c \in Int
    BY DivMod
  <2> HIDE DEF b, c
  <2> QED BY <2>1
<1>2. p = q * e + r /\ q \in Int /\ r \in 0 .. e - 1
  BY DivMod
<1> HIDE DEF b, c, q, r
<1> DEFINE t == b + c
           d == t - q
<1>3. base + size = t * e /\ t \in Int /\ d \in Int
  BY <1>1, <1>2
<1>4. t * e = q * e + d * e
  BY <1>2, <1>3
<1> HIDE DEF t, d
<1>5. d * e > 0
  BY <1>2, <1>3, <1>4
<1>6. d >= 1
  <2>1. d <= 0 => d * e <= 0
    BY <1>3
  <2> QED BY <1>3, <1>5, <2>1
<1>7. d * e >= e
  BY <1>3, <1>6
<1>8. p + (e - r) <= base + size
  BY <1>2, <1>3, <1>4, <1>7
<1> QED BY <1>8 DEF r

-----------------------------------------------------------------------------
(***************************************************************************)
(* The sets of positions of a sequence, over which the folds of the        *)
(* community modules recur, and those of at most n positions.              *)
(***************************************************************************)

Positions(s) == SUBSET (1 .. Len(s))
Small(s, n) == {e \in Positions(s) : Cardinality(e) <= n}

LEMMA PositionsFinite ==
  ASSUME NEW s, Len(s) \in Nat, NEW e \in Positions(s)
  PROVE  /\ IsFiniteSet(e) /\ Cardinality(e) \in Nat
         /\ Cardinality(e) <= Len(s)
         /\ Cardinality(e) = 0 <=> e = {}
         /\ e # {} => /\ Max(e) \in e /\ e \ {Max(e)} \in Positions(s)
                      /\ Cardinality(e \ {Max(e)}) = Cardinality(e) - 1
<1> DEFINE n == Len(s)
<1>0. n \in Nat
  OBVIOUS
<1>1. e \subseteq 1 .. n
  BY DEF Positions
<1> HIDE DEF n
<1>2. IsFiniteSet(1 .. n) /\ Cardinality(1 .. n) = n
  BY ONLY <1>0, FS_Interval, SMT
<1>3. IsFiniteSet(e) /\ Cardinality(e) <= n
  BY <1>1, <1>2, FS_Subset
<1>4. Cardinality(e) \in Nat /\ (Cardinality(e) = 0 <=> e = {})
  BY <1>3, FS_CardinalityType, FS_EmptySet
<1>5. ASSUME e # {}
      PROVE  /\ Max(e) \in e /\ e \ {Max(e)} \in Positions(s)
             /\ Cardinality(e \ {Max(e)}) = Cardinality(e) - 1
  <2>1. Max(e) \in e
    BY <1>0, <1>1, <1>5, GreatestIn
  <2>2. Cardinality(e \ {Max(e)}) = Cardinality(e) - 1
    BY <1>3, <2>1, FS_RemoveElement
  <2> QED BY <2>1, <2>2, <1>1 DEF Positions, n
<1> QED BY <1>3, <1>4, <1>5 DEF n

=============================================================================
