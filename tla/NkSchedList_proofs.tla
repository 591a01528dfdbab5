-------------------------- MODULE NkSchedList_proofs --------------------------
(***************************************************************************)
(* Proofs about the linked lists of the work queue: the links always form  *)
(* a ring and a free list, and the pointer program implements NkSched.     *)
(*                                                                         *)
(* The links are described by the lists they stand for, as sequences       *)
(* (Forward, Backward, Chain); each primitive is shown to be an insertion  *)
(* in such a sequence or a removal from it, and walking the links to       *)
(* return it.                                                              *)
(***************************************************************************)
EXTENDS NkSchedList, SequenceLemmas, FiniteSetTheorems

\* The item at place n of the ring that holds the items of s behind the base,
\* which is at place 0 and again behind the last.
At(s, n) == IF n \in 1 .. Len(s) THEN s[n] ELSE Base

Injective(s) == \A i, k \in 1 .. Len(s) : s[i] = s[k] => i = k

\* s is a list of items that leaves out the base and holds none twice.
IsList(s) == s \in Seq(Items \ {Base}) /\ Injective(s)

\* The forward and the backward links of the ring.
Forward(nx, s) == \A n \in 0 .. Len(s) : nx[At(s, n)] = At(s, n + 1)
Backward(pv, s) == \A n \in 0 .. Len(s) : pv[At(s, n + 1)] = At(s, n)

\* The free list from fl on.
Chain(nx, fl, f) ==
  /\ fl = IF f = << >> THEN Null ELSE f[1]
  /\ \A n \in 1 .. Len(f) : nx[f[n]] = IF n = Len(f) THEN Null ELSE f[n + 1]

-----------------------------------------------------------------------------
(***************************************************************************)
(* Walking.                                                                *)
(***************************************************************************)

\* The numbers of the items.
LEMMA Sizes ==
  /\ QueueSize \in Nat \ {0} /\ Items = 0 .. QueueSize - 1 /\ Base = 0 /\ Null = -1
  /\ Base \in Items /\ Null \notin Items
BY ListAssumption DEF Items, Base, Null

\* One link further.
Link(nx, i) == IF i = Null THEN Null ELSE nx[i]

\* A walk is determined by its start and its links.
LEMMA WalkIs ==
  ASSUME NEW nx, NEW i, NEW g \in [0 .. QueueSize -> Items \cup {Null}], g[0] = i,
         \A n \in 1 .. QueueSize : g[n] = Link(nx, g[n - 1])
  PROVE  Steps(nx, i) = g
<1> DEFINE Sol(f) == f = [n \in 0 .. QueueSize |->
                            IF n = 0 THEN i
                            ELSE IF f[n - 1] = Null THEN Null ELSE nx[f[n - 1]]]
           h == CHOOSE f : Sol(f)
<1>1. Steps(nx, i) = h
  BY DEF Steps
<1>2. Sol(g)
  <2>1. \A n \in 0 .. QueueSize :
          g[n] = IF n = 0 THEN i ELSE IF g[n - 1] = Null THEN Null ELSE nx[g[n - 1]]
    <3>1. \A n \in 0 .. QueueSize : n = 0 \/ (n # 0 /\ n \in 1 .. QueueSize)
      BY Sizes
    <3>2. \A n \in 1 .. QueueSize : g[n] = IF g[n - 1] = Null THEN Null ELSE nx[g[n - 1]]
      BY DEF Link
    <3> QED BY <3>1, <3>2
  <2> QED BY <2>1
<1>3. Sol(h)
  BY <1>2
<1>4. h = [n \in 0 .. QueueSize |-> h[n]] /\ h[0] = i
      /\ \A n \in 1 .. QueueSize : h[n] = Link(nx, h[n - 1])
  <2> HIDE DEF h
  <2>1. \A n \in 0 .. QueueSize :
          h[n] = IF n = 0 THEN i ELSE IF h[n - 1] = Null THEN Null ELSE nx[h[n - 1]]
    BY <1>3
  <2>2. h = [n \in 0 .. QueueSize |-> h[n]]
    BY <1>3, <2>1
  <2>3. 0 \in 0 .. QueueSize /\ \A n \in 1 .. QueueSize : n # 0 /\ n \in 0 .. QueueSize
    BY Sizes
  <2>4. h[0] = i
    BY <2>1, <2>3
  <2>5. \A n \in 1 .. QueueSize : h[n] = IF h[n - 1] = Null THEN Null ELSE nx[h[n - 1]]
    BY <2>1, <2>3
  <2> QED BY <2>2, <2>4, <2>5 DEF Link
<1> HIDE DEF h, Sol
<1> DEFINE T == {n \in 0 .. QueueSize : h[n] # g[n]}
<1>5. T = {}
  <2>1. SUFFICES ASSUME T # {} PROVE FALSE
    OBVIOUS
  <2>2. T \subseteq Nat
    OBVIOUS
  <2>3. PICK n \in T : \A m \in T : n <= m
    BY <2>1, <2>2, LeastNat
  <2>4. n # 0 /\ n \in 0 .. QueueSize /\ h[n] # g[n]
    BY <1>4, <2>3
  <2>5. n - 1 \in 0 .. QueueSize /\ n \in 1 .. QueueSize /\ n - 1 < n
    BY <2>4, Sizes
  <2>6. n - 1 \notin T
    BY <2>2, <2>3, <2>5
  <2>7. h[n - 1] = g[n - 1]
    BY <2>5, <2>6
  <2> QED BY <1>4, <2>4, <2>5, <2>7
<1>6. h = g
  BY <1>4, <1>5
<1> QED BY <1>1, <1>6

\* Different places of the ring hold different items.
LEMMA AtFacts ==
  ASSUME NEW s, IsList(s)
  PROVE  /\ Len(s) \in Nat
         /\ \A n : At(s, n) \in Items
         /\ At(s, 0) = Base /\ At(s, Len(s) + 1) = Base
         /\ \A n \in 1 .. Len(s) : At(s, n) = s[n] /\ s[n] # Base /\ s[n] \in Items
         /\ \A n, m \in 0 .. Len(s) : At(s, n) = At(s, m) => n = m
         /\ \A n, m \in 1 .. Len(s) + 1 : At(s, n) = At(s, m) => n = m
<1>1. s \in Seq(Items \ {Base}) /\ Len(s) \in Nat
  BY DEF IsList
<1>2. \A n \in 1 .. Len(s) : At(s, n) = s[n] /\ s[n] # Base /\ s[n] \in Items
  BY <1>1 DEF At
<1>3. \A n \in 1 .. Len(s), m \in 1 .. Len(s) : s[n] = s[m] => n = m
  BY DEF IsList, Injective
<1>4. \A n : n \notin 1 .. Len(s) => At(s, n) = Base
  BY DEF At
<1>5. /\ 0 \notin 1 .. Len(s) /\ Len(s) + 1 \notin 1 .. Len(s)
      /\ \A n \in 0 .. Len(s) : n = 0 \/ n \in 1 .. Len(s)
      /\ \A n \in 1 .. Len(s) + 1 : n = Len(s) + 1 \/ n \in 1 .. Len(s)
  BY <1>1
<1>6. \A n : At(s, n) \in Items
  BY <1>2, <1>4, Sizes
<1>7. \A n, m \in 0 .. Len(s) : At(s, n) = At(s, m) => n = m
  BY <1>2, <1>3, <1>4, <1>5
<1>8. \A n, m \in 1 .. Len(s) + 1 : At(s, n) = At(s, m) => n = m
  BY <1>2, <1>3, <1>4, <1>5
<1> QED BY <1>1, <1>2, <1>4, <1>5, <1>6, <1>7, <1>8

\* Walking from the base along the forward links visits the list, and then the
\* base again.
LEMMA QueueItemsIs ==
  ASSUME NEW nx, NEW s, IsList(s), Len(s) < QueueSize, Forward(nx, s)
  PROVE  QueueItems(nx) = s
<1> DEFINE c == Len(s) + 1
           g == [n \in 0 .. QueueSize |-> At(s, n % c)]
<1>1. Len(s) \in Nat /\ c \in Nat \ {0} /\ c <= QueueSize /\ QueueSize \in Nat
  BY AtFacts, Sizes
<1> HIDE DEF c
<1>2. \A n \in Nat : n % c \in 0 .. Len(s) /\ (n < c => n % c = n) /\ c % c = 0
  <2>1. ASSUME NEW n \in Nat
        PROVE  n % c \in 0 .. Len(s) /\ (n < c => n % c = n)
    <3>1. n \in Int /\ 0 <= n /\ c \in Nat \ {0} /\ 0 .. c - 1 = 0 .. Len(s)
      BY <1>1 DEF c
    <3>2. n % c \in 0 .. c - 1 /\ (0 <= n /\ n < c => n % c = n)
      BY <3>1, ModWrap
    <3> QED BY <3>1, <3>2
  <2>2. c % c = 0
    BY <1>1, ModWrap
  <2> QED BY <2>1, <2>2
<1>3. ASSUME NEW n \in 1 .. QueueSize
      PROVE  At(s, n % c) = Link(nx, At(s, (n - 1) % c))
  <2> DEFINE x == (n - 1) % c
             y == n % c
  <2>1. n \in Nat /\ n - 1 \in Nat
    BY <1>1
  <2>2. x \in 0 .. Len(s)
    BY <1>2, <2>1
  <2>3. y = (x + 1) % c
    <3> DEFINE b == n - 1
    <3>1. b \in Int /\ b + 1 = n /\ 1 \in Int /\ x = b % c
      BY <2>1
    <3> HIDE DEF b, x
    <3>2. (x + 1) % c = (b + 1) % c
      BY <1>1, <3>1, ModAddVar
    <3> QED BY <3>1, <3>2
  <2> HIDE DEF x, y
  <2>4. At(s, y) = At(s, x + 1)
    <3>1. CASE x = Len(s)
      <4>1. x + 1 = c
        BY <3>1 DEF c
      <4>2. y = 0
        BY <1>1, <1>2, <2>3, <4>1
      <4> QED BY <3>1, <4>2, AtFacts
    <3>2. CASE x # Len(s)
      <4>1. x + 1 \in Nat /\ x + 1 < c
        BY <1>1, <2>2, <3>2 DEF c
      <4> QED BY <1>2, <2>3, <4>1
    <3> QED BY <3>1, <3>2
  <2>5. nx[At(s, x)] = At(s, x + 1)
    BY <2>2 DEF Forward
  <2>6. At(s, x) # Null
    BY AtFacts, Sizes
  <2>7. Link(nx, At(s, x)) = nx[At(s, x)]
    BY <2>6 DEF Link
  <2> QED BY <2>4, <2>5, <2>7 DEF x, y
<1>4. \A n \in 0 .. QueueSize : g[n] = At(s, n % c)
  OBVIOUS
<1>5. g \in [0 .. QueueSize -> Items \cup {Null}]
  BY AtFacts
<1> HIDE DEF g
<1>6. Steps(nx, Base) = g
  <2>1. 0 \in 0 .. QueueSize /\ 0 % c = 0
    BY <1>1, <1>2
  <2>2. g[0] = Base
    BY <1>4, <2>1, AtFacts
  <2>3. ASSUME NEW n \in 1 .. QueueSize
        PROVE  g[n] = Link(nx, g[n - 1])
    <3>1. n \in 0 .. QueueSize /\ n - 1 \in 0 .. QueueSize
      BY <1>1
    <3>2. g[n] = At(s, n % c) /\ g[n - 1] = At(s, (n - 1) % c)
      BY <1>4, <3>1
    <3> QED BY <1>3, <3>2
  <2>4. \A n \in 1 .. QueueSize : g[n] = Link(nx, g[n - 1])
    BY <2>3
  <2> QED BY <1>5, <2>2, <2>4, WalkIs
<1> DEFINE ends == {n \in 1 .. QueueSize : g[n] = Base}
           len == IF ends = {} THEN QueueSize
                  ELSE (CHOOSE n \in ends : \A m \in ends : n <= m) - 1
<1>7. QueueItems(nx) = [n \in 1 .. len |-> g[n]]
  BY <1>6 DEF QueueItems
<1>8. \A n \in 1 .. Len(s) : n \in 1 .. QueueSize /\ g[n] = s[n] /\ g[n] # Base
  <2>1. ASSUME NEW n \in 1 .. Len(s)
        PROVE  n \in 1 .. QueueSize /\ g[n] = s[n] /\ g[n] # Base
    <3>1. n \in Nat /\ n < c /\ n \in 1 .. QueueSize /\ n \in 0 .. QueueSize
      BY <1>1 DEF c
    <3>2. g[n] = At(s, n)
      BY <1>2, <1>4, <3>1
    <3> QED BY <3>1, <3>2, AtFacts
  <2> QED BY <2>1
<1>9. c \in ends
  <2>1. c \in 0 .. QueueSize /\ c \in 1 .. QueueSize /\ c % c = 0
    BY <1>1, <1>2
  <2>2. g[c] = Base
    BY <1>4, <2>1, AtFacts
  <2> QED BY <2>1, <2>2
<1>10. \A m \in ends : c <= m
  <2>1. ASSUME NEW m \in ends, m < c
        PROVE  FALSE
    <3>1. m \in 1 .. Len(s)
      BY <1>1, <2>1 DEF c
    <3> QED BY <1>8, <2>1, <3>1
  <2> QED BY <1>1, <2>1
<1>11. len = Len(s)
  <2> DEFINE Least(n) == n \in ends /\ \A m \in ends : n <= m
             d == CHOOSE n : Least(n)
  <2>1. Least(c)
    BY <1>9, <1>10
  <2>2. Least(d)
    BY <2>1
  <2>3. d = c
    <3>1. d \in ends /\ \A m \in ends : d <= m
      BY <2>2
    <3>2. ends \subseteq Nat
      OBVIOUS
    <3> HIDE DEF d, ends
    <3>3. d \in Nat /\ d <= c /\ c <= d
      BY <1>9, <1>10, <3>1, <3>2
    <3> QED BY <1>1, <3>3
  <2>4. len = d - 1
    BY <1>9
  <2> HIDE DEF d, len, ends
  <2> QED BY <1>1, <2>3, <2>4 DEF c
<1>12. [n \in 1 .. Len(s) |-> g[n]] = s
  <2>1. s \in Seq(Items \ {Base})
    BY DEF IsList
  <2>2. s = [n \in 1 .. Len(s) |-> s[n]]
    BY <2>1
  <2> QED BY <1>8, <2>2
<1> HIDE DEF len
<1> QED BY <1>7, <1>11, <1>12

\* Walking from the first free item visits the free list, and ends.
LEMMA FreeItemsAre ==
  ASSUME NEW nx, NEW fl, NEW f, IsList(f), Len(f) < QueueSize, Chain(nx, fl, f)
  PROVE  /\ FreeItems(nx, fl) = {f[n] : n \in 1 .. Len(f)}
         /\ Steps(nx, fl)[QueueSize] = Null
<1> DEFINE g == [n \in 0 .. QueueSize |-> IF n < Len(f) THEN f[n + 1] ELSE Null]
<1>1. Len(f) \in Nat /\ QueueSize \in Nat /\ f \in Seq(Items \ {Base})
  BY Sizes DEF IsList
<1>2. \A n \in 1 .. Len(f) : f[n] \in Items /\ f[n] # Null
  BY AtFacts, Sizes
<1>3. /\ \A n \in 0 .. QueueSize : n < Len(f) => g[n] = f[n + 1]
      /\ \A n \in 0 .. QueueSize : ~ (n < Len(f)) => g[n] = Null
  OBVIOUS
<1>3a. g \in [0 .. QueueSize -> Items \cup {Null}]
  <2>1. \A n \in 0 .. QueueSize : n < Len(f) => n + 1 \in 1 .. Len(f)
    BY <1>1
  <2> QED BY <1>2, <2>1
<1> HIDE DEF g
<1>4. g[0] = fl
  <2>1. 0 \in 0 .. QueueSize /\ 0 + 1 = 1
    BY <1>1
  <2>2. CASE f = << >>
    <3>1. Len(f) = 0
      BY <2>2
    <3> QED BY <1>3, <2>1, <2>2, <3>1 DEF Chain
  <2>3. CASE f # << >>
    <3>1. 0 < Len(f)
      BY <1>1, <2>3
    <3> QED BY <1>3, <2>1, <2>3, <3>1 DEF Chain
  <2> QED BY <2>2, <2>3
<1>5. ASSUME NEW n \in 1 .. QueueSize
      PROVE  g[n] = Link(nx, g[n - 1])
  <2>1. n \in 0 .. QueueSize /\ n - 1 \in 0 .. QueueSize /\ (n - 1) + 1 = n /\ n \in Nat
    BY <1>1
  <2>2. CASE n - 1 < Len(f)
    <3>1. n \in 1 .. Len(f) /\ g[n - 1] = f[n]
      BY <1>1, <1>3, <2>1, <2>2
    <3>2. Link(nx, g[n - 1]) = nx[f[n]]
      BY <1>2, <3>1 DEF Link
    <3>3. nx[f[n]] = IF n = Len(f) THEN Null ELSE f[n + 1]
      BY <3>1 DEF Chain
    <3>4. n < Len(f) <=> n # Len(f)
      BY <1>1, <3>1
    <3> QED BY <1>3, <2>1, <3>2, <3>3, <3>4
  <2>3. CASE ~ (n - 1 < Len(f))
    <3>1. ~ (n < Len(f))
      BY <1>1, <2>1, <2>3
    <3> QED BY <1>3, <2>1, <2>3, <3>1 DEF Link
  <2> QED BY <2>2, <2>3
<1>6. Steps(nx, fl) = g
  <2>1. \A n \in 1 .. QueueSize : g[n] = Link(nx, g[n - 1])
    BY <1>5
  <2> QED BY <1>3a, <1>4, <2>1, WalkIs
<1>7. g[QueueSize] = Null
  BY <1>1, <1>3
<1>8. FreeItems(nx, fl) = {g[n] : n \in 0 .. QueueSize} \ {Null}
  BY <1>6 DEF FreeItems
<1>9. ASSUME NEW x \in {g[n] : n \in 0 .. QueueSize}, x # Null
      PROVE  x \in {f[n] : n \in 1 .. Len(f)}
  <2>1. PICK n \in 0 .. QueueSize : x = g[n]
    BY <1>9
  <2>2. n < Len(f) /\ x = f[n + 1]
    BY <1>3, <1>9, <2>1
  <2>3. n + 1 \in 1 .. Len(f)
    BY <1>1, <2>1, <2>2
  <2> QED BY <2>2, <2>3
<1>10. ASSUME NEW n \in 1 .. Len(f)
       PROVE  f[n] \in {g[m] : m \in 0 .. QueueSize} /\ f[n] # Null
  <2>1. n - 1 \in 0 .. QueueSize /\ n - 1 < Len(f) /\ (n - 1) + 1 = n
    BY <1>1
  <2>2. g[n - 1] = f[n]
    BY <1>3, <2>1
  <2> QED BY <1>2, <2>1, <2>2
<1>11. FreeItems(nx, fl) = {f[n] : n \in 1 .. Len(f)}
  BY <1>8, <1>9, <1>10
<1> QED BY <1>6, <1>7, <1>11

-----------------------------------------------------------------------------
(***************************************************************************)
(* Lists with an item less and with an item more.                          *)
(***************************************************************************)

Elems(s) == {s[n] : n \in 1 .. Len(s)}

\* Taking out place k: the places behind it move up.
LEMMA ShorterList ==
  ASSUME NEW s, IsList(s), NEW k \in 1 .. Len(s)
  PROVE  /\ IsList(RemoveAt(s, k))
         /\ Len(RemoveAt(s, k)) = Len(s) - 1
         /\ Elems(RemoveAt(s, k)) = Elems(s) \ {s[k]}
         /\ \A n \in 0 .. Len(s) :
              At(RemoveAt(s, k), n) = IF n < k THEN At(s, n) ELSE At(s, n + 1)
<1> DEFINE r == RemoveAt(s, k)
<1>1. s \in Seq(Items \ {Base}) /\ Len(s) \in Nat /\ k \in Nat /\ 1 <= k /\ k <= Len(s)
  BY DEF IsList
<1>2. /\ r \in Seq(Items \ {Base})
      /\ Len(r) = Len(s) - 1
      /\ \A n \in 1 .. Len(s) - 1 : r[n] = IF n < k THEN s[n] ELSE s[n + 1]
  BY <1>1, RemoveAtElements
<1> HIDE DEF r
<1>3. \A n, m \in 1 .. Len(s) : s[n] = s[m] => n = m
  BY DEF IsList, Injective
<1>4. Injective(r)
  <2>1. SUFFICES ASSUME NEW n \in 1 .. Len(r), NEW m \in 1 .. Len(r), r[n] = r[m]
                 PROVE  n = m
    BY DEF Injective
  <2>2. /\ n \in 1 .. Len(s) - 1 /\ m \in 1 .. Len(s) - 1
        /\ n \in 1 .. Len(s) /\ n + 1 \in 1 .. Len(s)
        /\ m \in 1 .. Len(s) /\ m + 1 \in 1 .. Len(s)
    BY <1>1, <1>2
  <2>3. r[n] = (IF n < k THEN s[n] ELSE s[n + 1]) /\ r[m] = (IF m < k THEN s[m] ELSE s[m + 1])
    BY <1>2, <2>2
  <2>4. CASE n < k /\ m < k
    BY <1>3, <2>1, <2>2, <2>3, <2>4
  <2>5. CASE n < k /\ ~ (m < k)
    <3>1. n # m + 1
      BY <1>1, <2>2, <2>5
    <3> QED BY <1>3, <2>1, <2>2, <2>3, <2>5, <3>1
  <2>6. CASE ~ (n < k) /\ m < k
    <3>1. m # n + 1
      BY <1>1, <2>2, <2>6
    <3> QED BY <1>3, <2>1, <2>2, <2>3, <2>6, <3>1
  <2>7. CASE ~ (n < k) /\ ~ (m < k)
    <3>1. n + 1 = m + 1
      BY <1>3, <2>1, <2>2, <2>3, <2>7
    <3> QED BY <2>2, <3>1
  <2> QED BY <2>4, <2>5, <2>6, <2>7
<1>5. IsList(r)
  BY <1>2, <1>4 DEF IsList
<1>6. ASSUME NEW n \in 0 .. Len(s)
      PROVE  At(r, n) = IF n < k THEN At(s, n) ELSE At(s, n + 1)
  <2>1. CASE n = 0
    <3>1. 0 < k
      BY <1>1
    <3> QED BY <1>5, <2>1, <3>1, AtFacts
  <2>2. CASE n # 0 /\ n < k
    <3>1. n \in 1 .. Len(s) - 1 /\ n \in 1 .. Len(r) /\ n \in 1 .. Len(s)
      BY <1>1, <1>2, <2>2
    <3> QED BY <1>2, <2>2, <3>1 DEF At
  <2>3. CASE ~ (n < k) /\ n # Len(s)
    <3>1. n \in 1 .. Len(s) - 1 /\ n \in 1 .. Len(r) /\ n + 1 \in 1 .. Len(s)
      BY <1>1, <1>2, <2>3
    <3> QED BY <1>2, <2>3, <3>1 DEF At
  <2>4. CASE ~ (n < k) /\ n = Len(s)
    <3>1. n \notin 1 .. Len(r) /\ n + 1 \notin 1 .. Len(s)
      BY <1>1, <1>2, <2>4
    <3> QED BY <2>4, <3>1 DEF At
  <2> QED BY <2>1, <2>2, <2>3, <2>4
<1>7. Elems(r) = Elems(s) \ {s[k]}
  <2>1. ASSUME NEW n \in 1 .. Len(r)
        PROVE  r[n] \in Elems(s) /\ r[n] # s[k]
    <3>1. n \in 1 .. Len(s) - 1 /\ n \in 1 .. Len(s) /\ n + 1 \in 1 .. Len(s)
      BY <1>1, <1>2
    <3>2. CASE n < k
      <4>1. r[n] = s[n] /\ n # k
        BY <1>2, <3>1, <3>2
      <4> QED BY <1>3, <3>1, <4>1 DEF Elems
    <3>3. CASE ~ (n < k)
      <4>1. r[n] = s[n + 1]
        BY <1>2, <3>1, <3>3
      <4>2. n + 1 # k
        BY <1>1, <3>1, <3>3
      <4> QED BY <1>3, <3>1, <4>1, <4>2 DEF Elems
    <3> QED BY <3>2, <3>3
  <2>2. ASSUME NEW n \in 1 .. Len(s), s[n] # s[k]
        PROVE  s[n] \in Elems(r)
    <3>1. CASE n < k
      <4>1. n \in 1 .. Len(s) - 1 /\ n \in 1 .. Len(r)
        BY <1>1, <1>2, <3>1
      <4>2. r[n] = s[n]
        BY <1>2, <3>1, <4>1
      <4> QED BY <4>1, <4>2 DEF Elems
    <3>2. CASE ~ (n < k)
      <4>1. n # k
        BY <2>2
      <4>2. n - 1 \in 1 .. Len(s) - 1 /\ n - 1 \in 1 .. Len(r) /\ ~ (n - 1 < k) /\ (n - 1) + 1 = n
        BY <1>1, <1>2, <3>2, <4>1
      <4>3. r[n - 1] = s[n]
        BY <1>2, <4>2
      <4> QED BY <4>2, <4>3 DEF Elems
    <3> QED BY <3>1, <3>2
  <2> QED BY <2>1, <2>2 DEF Elems
<1> QED BY <1>2, <1>5, <1>6, <1>7 DEF r

\* Putting an item in before place k: that place and those behind it move down.
LEMMA LongerElements ==
  ASSUME NEW s, IsList(s), NEW k \in 1 .. Len(s) + 1, NEW i \in Items \ {Base}
  PROVE  \A n \in 1 .. Len(s) + 1 : InsertAt(s, k, i)[n] = IF n < k THEN s[n]
                                        ELSE IF n = k THEN i ELSE s[n - 1]
<1> DEFINE S == Items \ {Base}
<1>1. s \in Seq(S) /\ i \in S
  BY DEF IsList
<1> HIDE DEF S
<1> QED BY <1>1, InsertAtElements

LEMMA LongerList ==
  ASSUME NEW s, IsList(s), NEW k \in 1 .. Len(s) + 1, NEW i \in Items \ {Base},
         i \notin Elems(s)
  PROVE  /\ IsList(InsertAt(s, k, i))
         /\ Len(InsertAt(s, k, i)) = Len(s) + 1
         /\ Elems(InsertAt(s, k, i)) = Elems(s) \cup {i}
         /\ \A n \in 0 .. Len(s) + 2 :
              At(InsertAt(s, k, i), n) = IF n < k THEN At(s, n)
                                         ELSE IF n = k THEN i ELSE At(s, n - 1)
<1> DEFINE r == InsertAt(s, k, i)
<1>1. s \in Seq(Items \ {Base}) /\ Len(s) \in Nat /\ k \in Nat /\ 1 <= k /\ k <= Len(s) + 1
  BY DEF IsList
<1>2. /\ r \in Seq(Items \ {Base})
      /\ Len(r) = Len(s) + 1
      /\ \A n \in 1 .. Len(s) + 1 : r[n] = IF n < k THEN s[n]
                                           ELSE IF n = k THEN i ELSE s[n - 1]
  <2> DEFINE S == Items \ {Base}
  <2>1. s \in Seq(S) /\ i \in S
    BY <1>1
  <2> HIDE DEF S
  <2>2. r \in Seq(S) /\ Len(r) = Len(s) + 1
    BY ONLY <1>1, <2>1, InsertAtElements, SMTT(60)
  <2>3. ASSUME NEW n \in 1 .. Len(s) + 1
        PROVE  r[n] = IF n < k THEN s[n] ELSE IF n = k THEN i ELSE s[n - 1]
    BY ONLY <1>1, <2>1, n \in 1 .. Len(s) + 1, InsertAtElements, SMTT(60)
  <2> QED BY <2>2, <2>3 DEF S
<1> HIDE DEF r
<1>3. /\ \A n, m \in 1 .. Len(s) : s[n] = s[m] => n = m
      /\ \A n \in 1 .. Len(s) : s[n] # i
  BY DEF IsList, Injective, Elems
<1>4. \A n \in 1 .. Len(s) + 1 : /\ n < k => n \in 1 .. Len(s) /\ r[n] = s[n]
                                 /\ n = k => r[n] = i
                                 /\ n > k => n - 1 \in 1 .. Len(s) /\ r[n] = s[n - 1]
                                 /\ n < k \/ n = k \/ n > k
  <2>1. ASSUME NEW n \in 1 .. Len(s) + 1
        PROVE  /\ n < k => n \in 1 .. Len(s) /\ ~ (n = k)
               /\ n > k => n - 1 \in 1 .. Len(s) /\ ~ (n < k) /\ n # k
               /\ n = k => ~ (n < k)
               /\ n < k \/ n = k \/ n > k
    BY <1>1
  <2> QED BY <1>2, <2>1
<1>5. Injective(r)
  <2>1. SUFFICES ASSUME NEW n \in 1 .. Len(r), NEW m \in 1 .. Len(r), r[n] = r[m]
                 PROVE  n = m
    BY DEF Injective
  <2>2. n \in 1 .. Len(s) + 1 /\ m \in 1 .. Len(s) + 1
    BY <1>2
  <2>3. CASE n < k
    <3>1. CASE m < k
      BY <1>3, <1>4, <2>1, <2>2, <2>3, <3>1
    <3>2. CASE m = k
      BY <1>3, <1>4, <2>1, <2>2, <2>3, <3>2
    <3>3. CASE m > k
      <4>1. n # m - 1
        BY <1>1, <2>2, <2>3, <3>3
      <4> QED BY <1>3, <1>4, <2>1, <2>2, <2>3, <3>3, <4>1
    <3> QED BY <1>4, <2>2, <3>1, <3>2, <3>3
  <2>4. CASE n = k
    <3>1. CASE m < k
      BY <1>3, <1>4, <2>1, <2>2, <2>4, <3>1
    <3>2. CASE m > k
      BY <1>3, <1>4, <2>1, <2>2, <2>4, <3>2
    <3> QED BY <1>4, <2>2, <2>4, <3>1, <3>2
  <2>5. CASE n > k
    <3>1. CASE m < k
      <4>1. m # n - 1
        BY <1>1, <2>2, <2>5, <3>1
      <4> QED BY <1>3, <1>4, <2>1, <2>2, <2>5, <3>1, <4>1
    <3>2. CASE m = k
      BY <1>3, <1>4, <2>1, <2>2, <2>5, <3>2
    <3>3. CASE m > k
      <4>1. n - 1 = m - 1
        BY <1>3, <1>4, <2>1, <2>2, <2>5, <3>3
      <4> QED BY <2>2, <4>1
    <3> QED BY <1>4, <2>2, <3>1, <3>2, <3>3
  <2> QED BY <1>4, <2>2, <2>3, <2>4, <2>5
<1>6. IsList(r)
  BY <1>2, <1>5 DEF IsList
<1>7. ASSUME NEW n \in 0 .. Len(s) + 2
      PROVE  At(r, n) = IF n < k THEN At(s, n) ELSE IF n = k THEN i ELSE At(s, n - 1)
  <2>1. CASE n = 0
    <3>1. 0 < k
      BY <1>1
    <3> QED BY <1>6, <2>1, <3>1, AtFacts
  <2>2. CASE n # 0 /\ n # Len(s) + 2
    <3>1. n \in 1 .. Len(s) + 1 /\ n \in 1 .. Len(r)
      BY <1>1, <1>2, <2>2
    <3>2. At(r, n) = r[n]
      BY <3>1 DEF At
    <3>3. (n < k => ~ (n = k)) /\ (n > k => ~ (n < k) /\ n # k)
      BY <1>1, <3>1
    <3> QED BY <1>4, <3>1, <3>2, <3>3 DEF At
  <2>3. CASE n = Len(s) + 2
    <3>1. n \notin 1 .. Len(r) /\ n - 1 \notin 1 .. Len(s) /\ ~ (n < k) /\ n # k
      BY <1>1, <1>2, <2>3
    <3> QED BY <3>1 DEF At
  <2> QED BY <2>1, <2>2, <2>3
<1>8. Elems(r) = Elems(s) \cup {i}
  <2>1. ASSUME NEW n \in 1 .. Len(r)
        PROVE  r[n] \in Elems(s) \cup {i}
    <3>1. n \in 1 .. Len(s) + 1
      BY <1>2
    <3> QED BY <1>4, <3>1 DEF Elems
  <2>2. ASSUME NEW n \in 1 .. Len(s)
        PROVE  s[n] \in Elems(r)
    <3>1. CASE n < k
      <4>1. n \in 1 .. Len(s) + 1 /\ n \in 1 .. Len(r)
        BY <1>1, <1>2
      <4> QED BY <1>4, <3>1, <4>1 DEF Elems
    <3>2. CASE ~ (n < k)
      <4>1. n + 1 \in 1 .. Len(s) + 1 /\ n + 1 \in 1 .. Len(r) /\ n + 1 > k /\ (n + 1) - 1 = n
        BY <1>1, <1>2, <3>2
      <4>2. r[n + 1] = s[n]
        BY <1>4, <4>1
      <4> QED BY <4>1, <4>2 DEF Elems
    <3> QED BY <3>1, <3>2
  <2>3. i \in Elems(r)
    <3>1. k \in 1 .. Len(s) + 1 /\ k \in 1 .. Len(r)
      BY <1>1, <1>2
    <3>2. r[k] = i
      BY <1>4, <3>1
    <3> QED BY <3>1, <3>2 DEF Elems
  <2> QED BY <2>1, <2>2, <2>3 DEF Elems
<1> QED BY <1>2, <1>6, <1>7, <1>8 DEF r

-----------------------------------------------------------------------------
(***************************************************************************)
(* The list primitives.                                                    *)
(***************************************************************************)

Rec(nx, pv, fl) == [next |-> nx, prev |-> pv, freelist |-> fl]

Linked(nx, pv) == nx \in [Items -> Items \cup {Null}] /\ pv \in [Items -> Items]

\* l is the ring s; it has the links nx except for the items touched.
Relinked(l, s, fl, nx, touched) ==
  \E nx2, pv2 :
    /\ l = Rec(nx2, pv2, fl)
    /\ Linked(nx2, pv2)
    /\ Forward(nx2, s) /\ Backward(pv2, s)
    /\ \A x \in Items : x \notin touched => nx2[x] = nx[x]

\* Links of items that are not in a list do not matter to it.
LEMMA ChainKept ==
  ASSUME NEW nx, NEW nx2, NEW fl, NEW f, Chain(nx, fl, f),
         \A x \in Elems(f) : nx2[x] = nx[x]
  PROVE  Chain(nx2, fl, f)
BY DEF Chain, Elems

LEMMA AtElems ==
  ASSUME NEW s, IsList(s), NEW n
  PROVE  At(s, n) \in Elems(s) \cup {Base}
BY DEF At, Elems

LEMMA ForwardKept ==
  ASSUME NEW nx, NEW nx2, NEW s, IsList(s), Forward(nx, s),
         \A x \in Elems(s) \cup {Base} : nx2[x] = nx[x]
  PROVE  Forward(nx2, s)
BY AtElems DEF Forward

\* deque: the neighbours of an item of the ring are linked to each other.
LEMMA DequeRing ==
  ASSUME NEW nx, NEW pv, NEW fl, Linked(nx, pv), NEW s, IsList(s),
         Forward(nx, s), Backward(pv, s), NEW k \in 1 .. Len(s)
  PROVE  Relinked(deque(Rec(nx, pv, fl), s[k]), RemoveAt(s, k), fl, nx, Elems(s) \cup {Base})
<1> DEFINE a == At(s, k - 1)
           b == At(s, k + 1)
           i == s[k]
           r == RemoveAt(s, k)
           nx2 == [nx EXCEPT ![a] = b]
           pv2 == [pv EXCEPT ![b] = a]
<1>1. Len(s) \in Nat /\ k \in Nat /\ 1 <= k /\ k <= Len(s)
  BY AtFacts
<1>2. /\ k \in 0 .. Len(s) /\ k - 1 \in 0 .. Len(s) /\ (k - 1) + 1 = k /\ k - 1 # k
      /\ k \in 1 .. Len(s) + 1 /\ k + 1 \in 1 .. Len(s) + 1
  BY <1>1
<1>3. At(s, k) = i /\ a \in Items /\ b \in Items /\ i \in Items
  BY AtFacts
<1>4. nx[i] = b /\ pv[i] = a /\ a # i
  <2>1. nx[At(s, k)] = At(s, k + 1)
    BY <1>2 DEF Forward
  <2>2. pv[At(s, (k - 1) + 1)] = At(s, k - 1)
    BY <1>2 DEF Backward
  <2>3. At(s, k - 1) # At(s, k)
    BY <1>2, AtFacts
  <2> QED BY <1>2, <1>3, <2>1, <2>2, <2>3
<1>5. deque([next |-> nx, prev |-> pv, freelist |-> fl], i)
        = [next |-> nx2, prev |-> pv2, freelist |-> fl]
  <2>1. nx2[i] = b
    BY <1>3, <1>4 DEF Linked
  <2> DEFINE l == [next |-> nx, prev |-> pv, freelist |-> fl]
             fwd == [l EXCEPT !.next[l.prev[i]] = l.next[i]]
  <2>2. l.prev[i] = a /\ l.next[i] = b
    BY <1>4
  <2>3. fwd = [l EXCEPT !.next[a] = b]
    BY <2>2
  <2> HIDE DEF i, a, b
  <2>4. fwd = [next |-> nx2, prev |-> pv, freelist |-> fl]
    BY <2>3
  <2>5. deque(l, i) = [fwd EXCEPT !.prev[fwd.next[i]] = fwd.prev[i]]
    BY DEF deque
  <2> HIDE DEF fwd
  <2>6. fwd.next[i] = b /\ fwd.prev[i] = a
    BY <1>4, <2>1, <2>4
  <2>7. [fwd EXCEPT !.prev[fwd.next[i]] = fwd.prev[i]] = [fwd EXCEPT !.prev[b] = a]
    BY <2>6
  <2> HIDE DEF nx2
  <2>8. [fwd EXCEPT !.prev[b] = a] = [next |-> nx2, prev |-> pv2, freelist |-> fl]
    BY <2>4
  <2> QED BY <2>5, <2>7, <2>8
<1>6. Linked(nx2, pv2)
  BY <1>3 DEF Linked
<1>7. /\ nx2[a] = b /\ \A x \in Items : x # a => nx2[x] = nx[x]
      /\ pv2[b] = a /\ \A x \in Items : x # b => pv2[x] = pv[x]
  BY <1>3 DEF Linked
<1>8. \A x \in Items : x \notin Elems(s) \cup {Base} => nx2[x] = nx[x]
  BY <1>7, AtElems
<1>9. Len(r) = Len(s) - 1 /\ \A n \in 0 .. Len(s) : At(r, n) = IF n < k THEN At(s, n) ELSE At(s, n + 1)
  BY ShorterList
<1>10. /\ \A n : At(s, n) \in Items
       /\ \A n, m \in 0 .. Len(s) : At(s, n) = At(s, m) => n = m
       /\ \A n, m \in 1 .. Len(s) + 1 : At(s, n) = At(s, m) => n = m
  BY AtFacts
<1> HIDE DEF nx2, pv2, r
<1>11. Forward(nx2, r)
  <2>1. SUFFICES ASSUME NEW n \in 0 .. Len(r) PROVE nx2[At(r, n)] = At(r, n + 1)
    BY DEF Forward
  <2>2. n \in 0 .. Len(s) /\ n + 1 \in 0 .. Len(s)
    BY <1>1, <1>9
  <2>3. CASE n < k - 1
    <3>1. n < k /\ n + 1 < k /\ n # k - 1
      BY <1>1, <2>2, <2>3
    <3>2. At(r, n) = At(s, n) /\ At(r, n + 1) = At(s, n + 1)
      BY <1>9, <2>2, <3>1
    <3>3. At(s, n) # a
      BY <1>2, <1>10, <2>2, <3>1
    <3> QED BY <1>7, <1>10, <2>2, <3>2, <3>3 DEF Forward
  <2>4. CASE n = k - 1
    <3>1. n < k /\ n + 1 = k /\ ~ (n + 1 < k)
      BY <1>1, <2>2, <2>4
    <3> QED BY <1>7, <1>9, <2>2, <2>4, <3>1
  <2>5. CASE n > k - 1
    <3>1. ~ (n < k) /\ ~ (n + 1 < k) /\ n + 1 # k - 1
      BY <1>1, <2>2, <2>5
    <3>2. At(r, n) = At(s, n + 1) /\ At(r, n + 1) = At(s, (n + 1) + 1)
      BY <1>9, <2>2, <3>1
    <3>3. At(s, n + 1) # a
      BY <1>2, <1>10, <2>2, <3>1
    <3> QED BY <1>7, <1>10, <2>2, <3>2, <3>3 DEF Forward
  <2> QED BY <1>1, <2>2, <2>3, <2>4, <2>5
<1>12. Backward(pv2, r)
  <2>1. SUFFICES ASSUME NEW n \in 0 .. Len(r) PROVE pv2[At(r, n + 1)] = At(r, n)
    BY DEF Backward
  <2>2. /\ n \in 0 .. Len(s) /\ n + 1 \in 0 .. Len(s)
        /\ n + 1 \in 1 .. Len(s) + 1 /\ (n + 1) + 1 \in 1 .. Len(s) + 1
    BY <1>1, <1>9
  <2>3. CASE n < k - 1
    <3>1. n < k /\ n + 1 < k /\ n + 1 # k + 1
      BY <1>1, <2>2, <2>3
    <3>2. At(r, n) = At(s, n) /\ At(r, n + 1) = At(s, n + 1)
      BY <1>9, <2>2, <3>1
    <3>3. At(s, n + 1) # b
      BY <1>2, <1>10, <2>2, <3>1
    <3> QED BY <1>7, <1>10, <2>2, <3>2, <3>3 DEF Backward
  <2>4. CASE n = k - 1
    <3>1. n < k /\ n + 1 = k /\ ~ (n + 1 < k)
      BY <1>1, <2>2, <2>4
    <3> QED BY <1>7, <1>9, <2>2, <2>4, <3>1
  <2>5. CASE n > k - 1
    <3>1. ~ (n < k) /\ ~ (n + 1 < k) /\ (n + 1) + 1 # k + 1
      BY <1>1, <2>2, <2>5
    <3>2. At(r, n) = At(s, n + 1) /\ At(r, n + 1) = At(s, (n + 1) + 1)
      BY <1>9, <2>2, <3>1
    <3>3. At(s, (n + 1) + 1) # b
      BY <1>2, <1>10, <2>2, <3>1
    <3> QED BY <1>7, <1>10, <2>2, <3>2, <3>3 DEF Backward
  <2> QED BY <1>1, <2>2, <2>3, <2>4, <2>5
<1>13. deque(Rec(nx, pv, fl), s[k]) = Rec(nx2, pv2, fl)
  BY <1>5 DEF Rec
<1> QED BY <1>6, <1>8, <1>11, <1>12, <1>13 DEF r, Relinked

\* enque: an item that is not in the ring is linked in before place k.
LEMMA EnqueRing ==
  ASSUME NEW nx, NEW pv, NEW fl, Linked(nx, pv), NEW s, IsList(s),
         Forward(nx, s), Backward(pv, s), NEW k \in 1 .. Len(s) + 1,
         NEW i \in Items \ {Base}, i \notin Elems(s)
  PROVE  Relinked(enque(Rec(nx, pv, fl), At(s, k), i), InsertAt(s, k, i), fl, nx,
                  Elems(s) \cup {Base, i})
<1> DEFINE a == At(s, k - 1)
           b == At(s, k)
           r == InsertAt(s, k, i)
           nx1 == [nx EXCEPT ![i] = b]
           nx2 == [nx1 EXCEPT ![a] = i]
           pv1 == [pv EXCEPT ![i] = a]
           pv2 == [pv1 EXCEPT ![b] = i]
<1>1. Len(s) \in Nat /\ k \in Nat /\ 1 <= k /\ k <= Len(s) + 1
  BY AtFacts
<1>2. k - 1 \in 0 .. Len(s) /\ (k - 1) + 1 = k /\ k \in 1 .. Len(s) + 1
  BY <1>1
<1>3. /\ \A n : At(s, n) \in Items /\ At(s, n) # i
      /\ a \in Items /\ b \in Items /\ a # i /\ b # i
  BY AtFacts, AtElems
<1>4. pv[b] = a
  BY <1>2 DEF Backward
<1>5. enque([next |-> nx, prev |-> pv, freelist |-> fl], b, i)
        = [next |-> nx2, prev |-> pv2, freelist |-> fl]
  <2>1. pv1[b] = a
    BY <1>3, <1>4 DEF Linked
  <2> DEFINE l == [next |-> nx, prev |-> pv, freelist |-> fl]
             at == [l EXCEPT !.next[i] = b, !.prev[i] = l.prev[b]]
  <2>2. l.prev[b] = a
    BY <1>4
  <2>3. at = [l EXCEPT !.next[i] = b, !.prev[i] = a]
    BY <2>2
  <2> HIDE DEF a, b
  <2>4. at = [next |-> nx1, prev |-> pv1, freelist |-> fl]
    <3> DEFINE l1 == [l EXCEPT !.next[i] = b]
    <3>1. l1 = [next |-> nx1, prev |-> pv, freelist |-> fl]
      OBVIOUS
    <3>2. at = [l1 EXCEPT !.prev[i] = a]
      BY <2>3
    <3> HIDE DEF l1, at, nx1
    <3> QED BY <3>1, <3>2
  <2>5. enque(l, b, i) = [at EXCEPT !.next[at.prev[b]] = i, !.prev[b] = i]
    BY DEF enque
  <2> HIDE DEF at
  <2>6. at.prev[b] = a
    BY <2>1, <2>4
  <2>7. [at EXCEPT !.next[at.prev[b]] = i, !.prev[b] = i] = [at EXCEPT !.next[a] = i, !.prev[b] = i]
    BY <2>6
  <2> HIDE DEF nx1, pv1
  <2>8. [at EXCEPT !.next[a] = i, !.prev[b] = i] = [next |-> nx2, prev |-> pv2, freelist |-> fl]
    <3> DEFINE l2 == [at EXCEPT !.next[a] = i]
    <3>1. l2 = [next |-> nx2, prev |-> pv1, freelist |-> fl]
      BY <2>4
    <3>2. [at EXCEPT !.next[a] = i, !.prev[b] = i] = [l2 EXCEPT !.prev[b] = i]
      OBVIOUS
    <3> HIDE DEF l2, nx2
    <3> QED BY <3>1, <3>2
  <2> QED BY <2>5, <2>7, <2>8
<1>6. Linked(nx2, pv2)
  BY <1>3 DEF Linked
<1>7. /\ nx2[a] = i /\ nx2[i] = b /\ \A x \in Items : x # a /\ x # i => nx2[x] = nx[x]
      /\ pv2[b] = i /\ pv2[i] = a /\ \A x \in Items : x # b /\ x # i => pv2[x] = pv[x]
  BY <1>3 DEF Linked
<1>8. \A x \in Items : x \notin Elems(s) \cup {Base, i} => nx2[x] = nx[x]
  <2>1. a \in Elems(s) \cup {Base}
    BY AtElems
  <2> HIDE DEF nx2, pv2, a, b
  <2> QED BY <1>7, <2>1
<1>9. /\ Len(r) = Len(s) + 1
      /\ \A n \in 0 .. Len(s) + 2 :
           At(r, n) = IF n < k THEN At(s, n) ELSE IF n = k THEN i ELSE At(s, n - 1)
  BY LongerList
<1>10. /\ \A n, m \in 0 .. Len(s) : At(s, n) = At(s, m) => n = m
       /\ \A n, m \in 1 .. Len(s) + 1 : At(s, n) = At(s, m) => n = m
  BY AtFacts
<1> HIDE DEF nx1, nx2, pv1, pv2, r
<1>11. Forward(nx2, r)
  <2>1. SUFFICES ASSUME NEW n \in 0 .. Len(r) PROVE nx2[At(r, n)] = At(r, n + 1)
    BY DEF Forward
  <2>2. n \in 0 .. Len(s) + 2 /\ n + 1 \in 0 .. Len(s) + 2 /\ (n + 1) - 1 = n
    BY <1>1, <1>9
  <2>3. CASE n < k - 1
    <3>1. n < k /\ n + 1 < k /\ n # k - 1 /\ n \in 0 .. Len(s)
      BY <1>1, <2>2, <2>3
    <3>2. At(r, n) = At(s, n) /\ At(r, n + 1) = At(s, n + 1)
      BY <1>9, <2>2, <3>1
    <3>3. At(s, n) # a
      BY <1>2, <1>10, <3>1
    <3> QED BY <1>3, <1>7, <3>1, <3>2, <3>3 DEF Forward
  <2>4. CASE n = k - 1
    <3>1. n < k /\ n + 1 = k /\ ~ (n + 1 < k)
      BY <1>1, <2>2, <2>4
    <3> QED BY <1>7, <1>9, <2>2, <2>4, <3>1
  <2>5. CASE n = k
    <3>1. ~ (n < k) /\ ~ (n + 1 < k) /\ n + 1 # k
      BY <1>1, <2>2, <2>5
    <3> QED BY <1>7, <1>9, <2>2, <2>5, <3>1
  <2>6. CASE n > k
    <3>1. /\ ~ (n < k) /\ n # k /\ ~ (n + 1 < k) /\ n + 1 # k
          /\ n - 1 \in 0 .. Len(s) /\ n - 1 # k - 1 /\ (n - 1) + 1 = n
      BY <1>1, <1>9, <2>2, <2>6
    <3>2. At(r, n) = At(s, n - 1) /\ At(r, n + 1) = At(s, n)
      BY <1>9, <2>2, <3>1
    <3>3. At(s, n - 1) # a
      BY <1>2, <1>10, <3>1
    <3>4. nx[At(s, n - 1)] = At(s, n)
      BY <3>1 DEF Forward
    <3> QED BY <1>3, <1>7, <3>2, <3>3, <3>4
  <2> QED BY <1>1, <2>2, <2>3, <2>4, <2>5, <2>6
<1>12. Backward(pv2, r)
  <2>1. SUFFICES ASSUME NEW n \in 0 .. Len(r) PROVE pv2[At(r, n + 1)] = At(r, n)
    BY DEF Backward
  <2>2. n \in 0 .. Len(s) + 2 /\ n + 1 \in 0 .. Len(s) + 2 /\ (n + 1) - 1 = n
    BY <1>1, <1>9
  <2>3. CASE n < k - 1
    <3>1. n < k /\ n + 1 < k /\ n + 1 # k /\ n \in 0 .. Len(s) /\ n + 1 \in 1 .. Len(s) + 1
      BY <1>1, <2>2, <2>3
    <3>2. At(r, n) = At(s, n) /\ At(r, n + 1) = At(s, n + 1)
      BY <1>9, <2>2, <3>1
    <3>3. At(s, n + 1) # b
      BY <1>2, <1>10, <3>1
    <3> QED BY <1>3, <1>7, <3>1, <3>2, <3>3 DEF Backward
  <2>4. CASE n = k - 1
    <3>1. n < k /\ n + 1 = k /\ ~ (n + 1 < k)
      BY <1>1, <2>2, <2>4
    <3> QED BY <1>7, <1>9, <2>2, <2>4, <3>1
  <2>5. CASE n = k
    <3>1. ~ (n < k) /\ ~ (n + 1 < k) /\ n + 1 # k
      BY <1>1, <2>2, <2>5
    <3> QED BY <1>7, <1>9, <2>2, <2>5, <3>1
  <2>6. CASE n > k
    <3>1. /\ ~ (n < k) /\ n # k /\ ~ (n + 1 < k) /\ n + 1 # k
          /\ n - 1 \in 0 .. Len(s) /\ n \in 1 .. Len(s) + 1 /\ (n - 1) + 1 = n
      BY <1>1, <1>9, <2>2, <2>6
    <3>2. At(r, n) = At(s, n - 1) /\ At(r, n + 1) = At(s, n)
      BY <1>9, <2>2, <3>1
    <3>3. At(s, n) # b
      BY <1>2, <1>10, <3>1
    <3>4. pv[At(s, n)] = At(s, n - 1)
      BY <3>1 DEF Backward
    <3> QED BY <1>3, <1>7, <3>2, <3>3, <3>4
  <2> QED BY <1>1, <2>2, <2>3, <2>4, <2>5, <2>6
<1>13. enque(Rec(nx, pv, fl), At(s, k), i) = Rec(nx2, pv2, fl)
  BY <1>5 DEF Rec
<1> QED BY <1>6, <1>8, <1>11, <1>12, <1>13 DEF r, Relinked

-----------------------------------------------------------------------------
(***************************************************************************)
(* The ring and the free list together.                                    *)
(***************************************************************************)

\* A list has as many items as places, since none is twice in it.
LEMMA ElemsCount ==
  ASSUME NEW s, IsList(s)
  PROVE  IsFiniteSet(Elems(s)) /\ Cardinality(Elems(s)) = Len(s)
<1>1. s \in Seq(Items \ {Base}) /\ Len(s) \in Nat
  BY DEF IsList
<1>2. IsFiniteSet(1 .. Len(s)) /\ Cardinality(1 .. Len(s)) = Len(s)
  <2>1. /\ IsFiniteSet(1 .. Len(s))
        /\ Cardinality(1 .. Len(s)) = IF 1 > Len(s) THEN 0 ELSE Len(s) - 1 + 1
    BY <1>1, FS_Interval
  <2> QED BY <1>1, <2>1
<1>3. s \in [1 .. Len(s) -> Elems(s)]
  <2>1. s \in [1 .. Len(s) -> Items \ {Base}]
    BY <1>1
  <2> QED BY <2>1 DEF Elems
<1>4. s \in Surjection(1 .. Len(s), Elems(s))
  BY <1>3 DEF Surjection, Elems
<1>5. s \in Injection(1 .. Len(s), Elems(s))
  <2>1. \A a, b \in 1 .. Len(s) : s[a] = s[b] => a = b
    BY DEF IsList, Injective
  <2> QED BY <1>3, <2>1 DEF Injection, IsInjective
<1> QED BY <1>2, <1>4, <1>5, FS_Surjection

\* Without the base there are QueueSize - 1 items, so walks are long enough.
LEMMA ListFits ==
  ASSUME NEW s, IsList(s)
  PROVE  Len(s) < QueueSize
<1> DEFINE All == 1 .. QueueSize - 1
<1>1. All = Items \ {Base} /\ QueueSize - 1 \in Int
  BY Sizes
<1>2. IsFiniteSet(All) /\ Cardinality(All) = QueueSize - 1
  <2>1. /\ IsFiniteSet(All)
        /\ Cardinality(All) = IF 1 > QueueSize - 1 THEN 0 ELSE QueueSize - 1 - 1 + 1
    BY <1>1, FS_Interval
  <2> QED BY <2>1, Sizes
<1>3. Elems(s) \in SUBSET All
  BY <1>1, AtFacts DEF Elems
<1>4. Cardinality(Elems(s)) <= Cardinality(All)
  BY <1>2, <1>3, FS_Subset
<1>5. Len(s) <= QueueSize - 1 /\ Len(s) \in Nat
  BY <1>2, <1>4, ElemsCount, AtFacts
<1> QED BY <1>5, Sizes

\* nx, pv and fl link the ring s and the free list f, which share no item.
Lists(nx, pv, fl, s, f) ==
  /\ Linked(nx, pv)
  /\ IsList(s) /\ IsList(f)
  /\ Forward(nx, s) /\ Backward(pv, s)
  /\ Chain(nx, fl, f)
  /\ Elems(s) \cap Elems(f) = {}

LEMMA ListElems ==
  ASSUME NEW s, IsList(s)
  PROVE  Elems(s) \subseteq Items \ {Base} /\ \A n \in 1 .. Len(s) : s[n] \in Elems(s)
BY AtFacts DEF Elems

\* What walking the links returns.
LEMMA ReadLists ==
  ASSUME NEW nx, NEW pv, NEW fl, NEW s, NEW f, Lists(nx, pv, fl, s, f)
  PROVE  /\ QueueItems(nx) = s
         /\ FreeItems(nx, fl) = Elems(f)
         /\ Steps(nx, fl)[QueueSize] = Null
         /\ fl \in Items \cup {Null}
         /\ (fl = Null) <=> (Len(f) = 0)
<1>1. /\ IsList(s) /\ IsList(f) /\ Forward(nx, s) /\ Chain(nx, fl, f)
      /\ Len(s) < QueueSize /\ Len(f) < QueueSize
  BY ListFits DEF Lists
<1>2. QueueItems(nx) = s
  BY <1>1, QueueItemsIs
<1>3. FreeItems(nx, fl) = Elems(f) /\ Steps(nx, fl)[QueueSize] = Null
  BY <1>1, FreeItemsAre DEF Elems
<1>4. f \in Seq(Items \ {Base})
  BY <1>1 DEF IsList
<1>5. CASE f = << >>
  <2>1. Len(f) = 0 /\ fl = Null
    BY <1>1, <1>5 DEF Chain
  <2> QED BY <1>2, <1>3, <2>1
<1>6. CASE f # << >>
  <2>1. 1 \in 1 .. Len(f) /\ Len(f) # 0
    BY <1>4, <1>6
  <2>2. fl = f[1]
    BY <1>1, <1>6 DEF Chain
  <2>3. fl \in Items /\ fl # Null
    BY <1>1, <2>1, <2>2, AtFacts, Sizes
  <2> QED BY <1>2, <1>3, <2>1, <2>3
<1> QED BY <1>5, <1>6

\* The primitives change the ring and the free list as sequences, and leave
\* the other of the two alone.
LEMMA ListsDeque ==
  ASSUME NEW nx, NEW pv, NEW fl, NEW s, NEW f, Lists(nx, pv, fl, s, f),
         NEW k \in 1 .. Len(s)
  PROVE  \E nx2, pv2 : /\ deque(Rec(nx, pv, fl), s[k]) = Rec(nx2, pv2, fl)
                       /\ Lists(nx2, pv2, fl, RemoveAt(s, k), f)
<1>1. /\ Linked(nx, pv) /\ IsList(s) /\ IsList(f) /\ Forward(nx, s) /\ Backward(pv, s)
      /\ Chain(nx, fl, f) /\ Elems(s) \cap Elems(f) = {}
  BY DEF Lists
<1>2. PICK nx2, pv2 :
           /\ deque(Rec(nx, pv, fl), s[k]) = Rec(nx2, pv2, fl)
           /\ Linked(nx2, pv2)
           /\ Forward(nx2, RemoveAt(s, k)) /\ Backward(pv2, RemoveAt(s, k))
           /\ \A x \in Items : x \notin Elems(s) \cup {Base} => nx2[x] = nx[x]
  BY <1>1, DequeRing, SMTT(20) DEF Relinked
<1>3. IsList(RemoveAt(s, k)) /\ Elems(RemoveAt(s, k)) \subseteq Elems(s)
  BY <1>1, ShorterList
<1>4. \A x \in Elems(f) : nx2[x] = nx[x]
  BY <1>1, <1>2, ListElems
<1>5. Chain(nx2, fl, f)
  BY <1>1, <1>4, ChainKept
<1>6. Lists(nx2, pv2, fl, RemoveAt(s, k), f)
  BY <1>1, <1>2, <1>3, <1>5 DEF Lists
<1> QED BY <1>2, <1>6

LEMMA ListsEnque ==
  ASSUME NEW nx, NEW pv, NEW fl, NEW s, NEW f, Lists(nx, pv, fl, s, f),
         NEW k \in 1 .. Len(s) + 1, NEW i \in Items \ {Base},
         i \notin Elems(s), i \notin Elems(f)
  PROVE  \E nx2, pv2 : /\ enque(Rec(nx, pv, fl), At(s, k), i) = Rec(nx2, pv2, fl)
                       /\ Lists(nx2, pv2, fl, InsertAt(s, k, i), f)
<1>1. /\ Linked(nx, pv) /\ IsList(s) /\ IsList(f) /\ Forward(nx, s) /\ Backward(pv, s)
      /\ Chain(nx, fl, f) /\ Elems(s) \cap Elems(f) = {}
  BY DEF Lists
<1>2. PICK nx2, pv2 :
           /\ enque(Rec(nx, pv, fl), At(s, k), i) = Rec(nx2, pv2, fl)
           /\ Linked(nx2, pv2)
           /\ Forward(nx2, InsertAt(s, k, i)) /\ Backward(pv2, InsertAt(s, k, i))
           /\ \A x \in Items : x \notin Elems(s) \cup {Base, i} => nx2[x] = nx[x]
  <2>1. Relinked(enque(Rec(nx, pv, fl), At(s, k), i), InsertAt(s, k, i), fl, nx,
                 Elems(s) \cup {Base, i})
    BY <1>1, EnqueRing
  <2> QED BY <2>1 DEF Relinked
<1>3. IsList(InsertAt(s, k, i)) /\ Elems(InsertAt(s, k, i)) = Elems(s) \cup {i}
  BY <1>1, LongerList
<1>4. \A x \in Elems(f) : nx2[x] = nx[x]
  BY <1>1, <1>2, ListElems
<1>5. Chain(nx2, fl, f)
  BY <1>1, <1>4, ChainKept
<1>6. Lists(nx2, pv2, fl, InsertAt(s, k, i), f)
  BY <1>1, <1>2, <1>3, <1>5 DEF Lists
<1> QED BY <1>2, <1>6

LEMMA ListsFree ==
  ASSUME NEW nx, NEW pv, NEW fl, NEW s, NEW f, Lists(nx, pv, fl, s, f),
         NEW i \in Items \ {Base}, i \notin Elems(s), i \notin Elems(f)
  PROVE  \E nx2 : /\ free_item(Rec(nx, pv, fl), i) = Rec(nx2, pv, i)
                  /\ Lists(nx2, pv, i, s, InsertAt(f, 1, i))
<1> DEFINE nx2 == [nx EXCEPT ![i] = fl]
           r == InsertAt(f, 1, i)
<1>1. /\ Linked(nx, pv) /\ IsList(s) /\ IsList(f) /\ Forward(nx, s) /\ Backward(pv, s)
      /\ Chain(nx, fl, f) /\ Elems(s) \cap Elems(f) = {}
  BY DEF Lists
<1>2. free_item(Rec(nx, pv, fl), i) = Rec(nx2, pv, i)
  <2> DEFINE l == [next |-> nx, prev |-> pv, freelist |-> fl]
             l1 == [l EXCEPT !.next[i] = fl]
  <2>1. l.freelist = fl /\ l1 = [next |-> nx2, prev |-> pv, freelist |-> fl]
    OBVIOUS
  <2>2. free_item(l, i) = [l EXCEPT !.next[i] = fl, !.freelist = i]
    BY <2>1 DEF free_item
  <2>3. [l EXCEPT !.next[i] = fl, !.freelist = i] = [l1 EXCEPT !.freelist = i]
    OBVIOUS
  <2> HIDE DEF l1, nx2
  <2>4. [l1 EXCEPT !.freelist = i] = [next |-> nx2, prev |-> pv, freelist |-> i]
    BY <2>1
  <2> QED BY <2>2, <2>3, <2>4 DEF Rec
<1>3. Linked(nx2, pv)
  BY <1>1, ReadLists DEF Linked
<1>4. nx2[i] = fl /\ \A x \in Items : x # i => nx2[x] = nx[x]
  BY <1>1 DEF Linked
<1> HIDE DEF nx2
<1>5. Elems(s) \subseteq Items \ {Base} /\ Elems(f) \subseteq Items \ {Base} /\ Base \in Items
  BY <1>1, ListElems, Sizes
<1>6. \A x \in Elems(s) \cup {Base} : nx2[x] = nx[x]
  BY <1>4, <1>5
<1>7. Forward(nx2, s)
  BY <1>1, <1>6, ForwardKept
<1>8. f \in Seq(Items \ {Base}) /\ Len(f) \in Nat /\ 1 \in 1 .. Len(f) + 1
  BY <1>1 DEF IsList
<1>9. IsList(r) /\ Len(r) = Len(f) + 1 /\ Elems(r) = Elems(f) \cup {i}
  BY <1>1, <1>8, LongerList
<1>10. \A n \in 1 .. Len(f) + 1 : r[n] = IF n = 1 THEN i ELSE f[n - 1]
  <2> DEFINE S == Items \ {Base}
  <2>1. f \in Seq(S) /\ i \in S
    BY <1>8
  <2> HIDE DEF S
  <2>2. \A n \in 1 .. Len(f) + 1 : r[n] = IF n < 1 THEN f[n] ELSE IF n = 1 THEN i ELSE f[n - 1]
    BY <1>8, <2>1, InsertAtElements
  <2>3. \A n \in 1 .. Len(f) + 1 : ~ (n < 1)
    BY <1>8
  <2> QED BY <2>2, <2>3
<1> HIDE DEF r
<1>11. Chain(nx2, i, r)
  <2>1. r # << >> /\ r[1] = i
    BY <1>8, <1>9, <1>10
  <2>2. ASSUME NEW n \in 1 .. Len(r)
        PROVE  nx2[r[n]] = IF n = Len(r) THEN Null ELSE r[n + 1]
    <3>1. n \in 1 .. Len(f) + 1
      BY <1>9
    <3>2. CASE n = 1 /\ Len(f) = 0
      <4>1. fl = Null
        BY <3>2, ReadLists
      <4> QED BY <1>4, <1>9, <2>1, <3>2, <4>1
    <3>3. CASE n = 1 /\ Len(f) # 0
      <4>1. 2 \in 1 .. Len(f) + 1 /\ n # Len(r) /\ 2 # 1 /\ 2 - 1 = 1 /\ n + 1 = 2
        BY <1>8, <1>9, <3>3
      <4>2. r[2] = f[1]
        BY <1>10, <4>1
      <4>3. fl = f[1]
        BY <1>1, <3>3 DEF Chain
      <4> QED BY <1>4, <2>1, <3>3, <4>1, <4>2, <4>3
    <3>4. CASE n # 1
      <4>1. n - 1 \in 1 .. Len(f) /\ (n - 1) + 1 = n
        BY <1>8, <3>1, <3>4
      <4>2. r[n] = f[n - 1]
        BY <1>10, <3>1, <3>4
      <4>3. f[n - 1] \in Elems(f)
        BY <4>1 DEF Elems
      <4>4. nx2[f[n - 1]] = nx[f[n - 1]]
        BY <1>4, <1>5, <4>3
      <4>5. nx[f[n - 1]] = IF n - 1 = Len(f) THEN Null ELSE f[n]
        BY <1>1, <4>1 DEF Chain
      <4>6. n - 1 = Len(f) <=> n = Len(r)
        BY <1>8, <1>9, <3>1
      <4>7. CASE n = Len(r)
        BY <4>2, <4>4, <4>5, <4>6, <4>7
      <4>8. CASE n # Len(r)
        <5>1. n + 1 \in 1 .. Len(f) + 1 /\ n + 1 # 1 /\ (n + 1) - 1 = n
          BY <1>8, <1>9, <3>1, <4>8
        <5>2. r[n + 1] = f[n]
          BY <1>10, <5>1
        <5> QED BY <4>2, <4>4, <4>5, <4>6, <4>8, <5>2
      <4> QED BY <4>7, <4>8
    <3> QED BY <3>2, <3>3, <3>4
  <2> QED BY <2>1, <2>2 DEF Chain
<1>12. Elems(s) \cap Elems(r) = {}
  BY <1>1, <1>9
<1>13. Lists(nx2, pv, i, s, r)
  BY <1>1, <1>3, <1>7, <1>9, <1>11, <1>12 DEF Lists
<1> QED BY <1>2, <1>13 DEF r

LEMMA ListsAlloc ==
  ASSUME NEW nx, NEW pv, NEW fl, NEW s, NEW f, Lists(nx, pv, fl, s, f), fl # Null
  PROVE  /\ 1 \in 1 .. Len(f) /\ fl = f[1]
         /\ alloc_item(Rec(nx, pv, fl)) = Rec(nx, pv, nx[fl])
         /\ Lists(nx, pv, nx[fl], s, RemoveAt(f, 1))
<1> DEFINE r == RemoveAt(f, 1)
<1>1. /\ Linked(nx, pv) /\ IsList(s) /\ IsList(f) /\ Forward(nx, s) /\ Backward(pv, s)
      /\ Chain(nx, fl, f) /\ Elems(s) \cap Elems(f) = {}
  BY DEF Lists
<1>2. f \in Seq(Items \ {Base}) /\ Len(f) \in Nat /\ Len(f) # 0
  BY <1>1, ReadLists DEF IsList
<1>3. 1 \in 1 .. Len(f) /\ f # << >>
  BY <1>2
<1>4. fl = f[1]
  BY <1>1, <1>3 DEF Chain
<1>5. alloc_item(Rec(nx, pv, fl)) = Rec(nx, pv, nx[fl])
  BY DEF alloc_item, Rec
<1>6. IsList(r) /\ Len(r) = Len(f) - 1 /\ Elems(r) = Elems(f) \ {f[1]}
  BY <1>1, <1>3, ShorterList
<1>7. \A n \in 1 .. Len(f) - 1 : r[n] = f[n + 1]
  <2>1. \A n \in 1 .. Len(f) - 1 : r[n] = IF n < 1 THEN f[n] ELSE f[n + 1]
    BY <1>2, <1>3, RemoveAtElements
  <2>2. \A n \in 1 .. Len(f) - 1 : ~ (n < 1)
    BY <1>2
  <2> QED BY <2>1, <2>2
<1> HIDE DEF r
<1>8. Chain(nx, nx[fl], r)
  <2>1. nx[fl] = IF 1 = Len(f) THEN Null ELSE f[1 + 1]
    BY <1>1, <1>3, <1>4 DEF Chain
  <2>2. nx[fl] = IF r = << >> THEN Null ELSE r[1]
    <3>1. CASE Len(f) = 1
      <4>1. r = << >>
        <5>1. r \in Seq(Items \ {Base}) /\ Len(r) = 0
          BY <1>6, <3>1 DEF IsList
        <5> QED BY <5>1
      <4> QED BY <2>1, <3>1, <4>1
    <3>2. CASE Len(f) # 1
      <4>1. 1 \in 1 .. Len(f) - 1 /\ r # << >> /\ 1 + 1 = 2
        BY <1>2, <1>6, <3>2
      <4>2. r[1] = f[2]
        BY <1>7, <4>1
      <4> QED BY <2>1, <3>2, <4>1, <4>2
    <3> QED BY <3>1, <3>2
  <2>3. ASSUME NEW n \in 1 .. Len(r)
        PROVE  nx[r[n]] = IF n = Len(r) THEN Null ELSE r[n + 1]
    <3>1. n \in 1 .. Len(f) - 1 /\ n + 1 \in 1 .. Len(f)
      BY <1>2, <1>6
    <3>2. r[n] = f[n + 1]
      BY <1>7, <3>1
    <3>3. nx[f[n + 1]] = IF n + 1 = Len(f) THEN Null ELSE f[(n + 1) + 1]
      BY <1>1, <3>1 DEF Chain
    <3>4. n + 1 = Len(f) <=> n = Len(r)
      BY <1>2, <1>6, <3>1
    <3>5. CASE n = Len(r)
      BY <3>2, <3>3, <3>4, <3>5
    <3>6. CASE n # Len(r)
      <4>1. n + 1 \in 1 .. Len(f) - 1
        BY <1>2, <1>6, <3>1, <3>6
      <4>2. r[n + 1] = f[(n + 1) + 1]
        BY <1>7, <4>1
      <4> QED BY <3>2, <3>3, <3>4, <3>6, <4>2
    <3> QED BY <3>5, <3>6
  <2> QED BY <2>2, <2>3 DEF Chain
<1>9. Lists(nx, pv, nx[fl], s, r)
  BY <1>1, <1>6, <1>8 DEF Lists
<1> QED BY <1>3, <1>4, <1>5, <1>9 DEF r

-----------------------------------------------------------------------------
(***************************************************************************)
(* The queue of NkSched that the ring s of items with these bodies is.     *)
(***************************************************************************)

Bodies(bd, s) == [n \in DOMAIN s |-> bd[s[n]]]

\* The bodies along the ring, and how they change with it.
LEMMA BodiesFacts ==
  ASSUME NEW bd, NEW s, IsList(s), NEW S, \A x \in Elems(s) : bd[x] \in S
  PROVE  /\ Bodies(bd, s) \in Seq(S)
         /\ Len(Bodies(bd, s)) = Len(s) /\ DOMAIN Bodies(bd, s) = 1 .. Len(s)
         /\ \A n \in 1 .. Len(s) : Bodies(bd, s)[n] = bd[s[n]]
<1>1. s \in Seq(Items \ {Base}) /\ Len(s) \in Nat /\ DOMAIN s = 1 .. Len(s)
  BY DEF IsList
<1>2. \A n \in 1 .. Len(s) : bd[s[n]] \in S
  BY ListElems
<1>3. Bodies(bd, s) = [n \in 1 .. Len(s) |-> bd[s[n]]]
  BY <1>1 DEF Bodies
<1>4. [n \in 1 .. Len(s) |-> bd[s[n]]] \in Seq(S)
  BY <1>1, <1>2
<1> QED BY <1>1, <1>3, <1>4

LEMMA BodiesAre ==
  ASSUME NEW bd, NEW s, IsList(s)
  PROVE  /\ Len(s) \in Nat
         /\ Len(Bodies(bd, s)) = Len(s) /\ DOMAIN Bodies(bd, s) = 1 .. Len(s)
         /\ \A n \in 1 .. Len(s) : Bodies(bd, s)[n] = bd[s[n]]
<1>1. s \in Seq(Items \ {Base}) /\ Len(s) \in Nat /\ DOMAIN s = 1 .. Len(s)
  BY DEF IsList
<1> DEFINE q == [n \in 1 .. Len(s) |-> bd[s[n]]]
<1>2. q \in Seq({bd[s[n]] : n \in 1 .. Len(s)})
  BY <1>1
<1>3. Len(q) = Len(s) /\ DOMAIN q = 1 .. Len(s) /\ \A n \in 1 .. Len(s) : q[n] = bd[s[n]]
  BY <1>1, <1>2
<1>4. Bodies(bd, s) = q
  BY <1>1 DEF Bodies
<1> QED BY <1>1, <1>3, <1>4

LEMMA BodiesRemoved ==
  ASSUME NEW bd, NEW bd2, NEW s, IsList(s), NEW k \in 1 .. Len(s),
         \A x \in Elems(s) : x # s[k] => bd2[x] = bd[x]
  PROVE  Bodies(bd2, RemoveAt(s, k)) = RemoveAt(Bodies(bd, s), k)
<1> DEFINE S == {bd[x] : x \in Elems(s)} \cup {bd2[x] : x \in Elems(s)}
           r == RemoveAt(s, k)
           a == Bodies(bd2, r)
           q == Bodies(bd, s)
           b == RemoveAt(q, k)
<1>1. /\ IsList(s) /\ IsList(r) /\ Len(r) = Len(s) - 1
      /\ Elems(r) = Elems(s) \ {s[k]} /\ Len(s) \in Nat
  BY ShorterList, AtFacts
<1>2. (\A x \in Elems(s) : bd[x] \in S) /\ (\A x \in Elems(r) : bd2[x] \in S)
  BY <1>1
<1> HIDE DEF S, r
<1>3. q \in Seq(S) /\ Len(q) = Len(s) /\ \A n \in 1 .. Len(s) : q[n] = bd[s[n]]
  BY ONLY <1>1, <1>2, BodiesFacts, SMTT(20)
<1>4. a \in Seq(S) /\ Len(a) = Len(r) /\ \A n \in 1 .. Len(r) : a[n] = bd2[r[n]]
  BY ONLY <1>1, <1>2, BodiesFacts, SMTT(20)
<1> USE DEF r
<1> HIDE DEF q, a
<1>5. /\ b \in Seq(S) /\ Len(b) = Len(s) - 1
      /\ \A n \in 1 .. Len(s) - 1 : b[n] = IF n < k THEN q[n] ELSE q[n + 1]
  BY <1>3, RemoveAtElements
<1>6. \A n \in 1 .. Len(s) - 1 : r[n] = IF n < k THEN s[n] ELSE s[n + 1]
  BY RemoveAtElements DEF IsList
<1>7. ASSUME NEW n \in 1 .. Len(s) - 1 PROVE a[n] = b[n]
  <2>1. n \in 1 .. Len(r) /\ n \in 1 .. Len(s) /\ n + 1 \in 1 .. Len(s)
    BY <1>1
  <2>2. r[n] \in Elems(r) /\ a[n] = bd2[r[n]]
    BY <1>4, <2>1 DEF Elems
  <2>3. bd2[r[n]] = bd[r[n]]
    BY <1>1, <2>2
  <2> QED BY <1>3, <1>5, <1>6, <2>1, <2>2, <2>3
<1> HIDE DEF b
<1>8. a = b
  BY <1>1, <1>4, <1>5, <1>7, SeqEqual
<1> QED BY <1>8 DEF a, b, q

LEMMA BodiesInserted ==
  ASSUME NEW bd, NEW bd2, NEW s, IsList(s), NEW k \in 1 .. Len(s) + 1,
         NEW i \in Items \ {Base}, i \notin Elems(s),
         \A x \in Elems(s) : bd2[x] = bd[x]
  PROVE  Bodies(bd2, InsertAt(s, k, i)) = InsertAt(Bodies(bd, s), k, bd2[i])
<1> DEFINE S == {bd2[x] : x \in Elems(s) \cup {i}}
           r == InsertAt(s, k, i)
           a == Bodies(bd2, r)
           q == Bodies(bd, s)
           e == bd2[i]
           b == InsertAt(q, k, e)
           I == Items \ {Base}
<1>1. IsList(r) /\ Len(r) = Len(s) + 1 /\ Elems(r) = Elems(s) \cup {i} /\ Len(s) \in Nat
  <2>1. IsList(r) /\ Len(r) = Len(s) + 1 /\ Elems(r) = Elems(s) \cup {i}
    BY LongerList
  <2> QED BY <2>1, AtFacts
<1>2. (\A x \in Elems(s) : bd[x] \in S) /\ (\A x \in Elems(r) : bd2[x] \in S) /\ e \in S
  BY <1>1
<1> HIDE DEF S
<1>3. q \in Seq(S) /\ Len(q) = Len(s) /\ \A n \in 1 .. Len(s) : q[n] = bd[s[n]]
  BY <1>2, BodiesFacts
<1>4. a \in Seq(S) /\ Len(a) = Len(r) /\ \A n \in 1 .. Len(r) : a[n] = bd2[r[n]]
  BY <1>1, <1>2, BodiesFacts
<1>5. s \in Seq(I) /\ i \in I
  BY DEF IsList
<1> HIDE DEF S, q, a, e, I
<1>6. /\ b \in Seq(S) /\ Len(b) = Len(s) + 1
      /\ \A n \in 1 .. Len(s) + 1 : b[n] = IF n < k THEN q[n]
                                           ELSE IF n = k THEN e ELSE q[n - 1]
  <2>1. k \in 1 .. Len(q) + 1
    BY <1>3
  <2>2. /\ b \in Seq(S) /\ Len(b) = Len(q) + 1
        /\ \A n \in 1 .. Len(q) + 1 : b[n] = IF n < k THEN q[n]
                                             ELSE IF n = k THEN e ELSE q[n - 1]
    BY <1>2, <1>3, <2>1, InsertAtElements
  <2> HIDE DEF b
  <2> QED BY <1>3, <2>2
<1>7. \A n \in 1 .. Len(s) + 1 : r[n] = IF n < k THEN s[n]
                                        ELSE IF n = k THEN i ELSE s[n - 1]
  BY LongerElements
<1>8. ASSUME NEW n \in 1 .. Len(s) + 1 PROVE a[n] = b[n]
  <2>1. n \in 1 .. Len(r) /\ a[n] = bd2[r[n]] /\ k \in Nat /\ k <= Len(s) + 1
    BY <1>1, <1>4
  <2>2. CASE n < k
    <3>1. n \in 1 .. Len(s)
      BY <1>1, <2>1, <2>2
    <3>2. r[n] = s[n] /\ b[n] = bd[s[n]] /\ s[n] \in Elems(s)
      BY <1>3, <1>6, <1>7, <2>2, <3>1, ListElems
    <3> QED BY <2>1, <3>2
  <2>3. CASE n = k
    <3>1. ~ (n < k)
      BY <2>1, <2>3
    <3> QED BY <1>6, <1>7, <2>1, <2>3, <3>1 DEF e
  <2>4. CASE n > k
    <3>1. n - 1 \in 1 .. Len(s) /\ ~ (n < k) /\ n # k
      BY <1>1, <2>1, <2>4
    <3>2. r[n] = s[n - 1] /\ b[n] = bd[s[n - 1]] /\ s[n - 1] \in Elems(s)
      BY <1>3, <1>6, <1>7, <3>1, ListElems
    <3> QED BY <2>1, <3>2
  <2> QED BY <1>1, <2>1, <2>2, <2>3, <2>4
<1> HIDE DEF b, r
<1>9. a = b
  BY <1>1, <1>4, <1>6, <1>8, SeqEqual
<1> QED BY <1>9 DEF a, b, q, e, r

-----------------------------------------------------------------------------
(***************************************************************************)
(* The loops that search the ring.                                         *)
(***************************************************************************)

\* The place where a loop over the ring stops at the first hit.
Stop(s, H, p) ==
  /\ p \in 1 .. Len(s) + 1
  /\ p \in 1 .. Len(s) => p \in H
  /\ \A m \in 1 .. p - 1 : m \notin H

FirstHit(s, H) == IF H = {} THEN Base ELSE s[CHOOSE n \in H : \A m \in H : n <= m]

\* A loop stops at the first hit, or at the base behind the last item.
LEMMA ScanStops ==
  ASSUME NEW s, IsList(s), NEW H \in SUBSET (1 .. Len(s))
  PROVE  \E p : Stop(s, H, p) /\ FirstHit(s, H) = At(s, p)
<1> DEFINE q == FirstHit(s, H)
<1>0. q = IF H = {} THEN Base ELSE s[CHOOSE n \in H : \A m \in H : n <= m]
  BY DEF FirstHit
<1> HIDE DEF q
<1>1. Len(s) \in Nat /\ At(s, Len(s) + 1) = Base
  BY AtFacts
<1>2. CASE H = {}
  <2>1. Len(s) + 1 \in 1 .. Len(s) + 1 /\ Len(s) + 1 \notin 1 .. Len(s)
    BY <1>1
  <2>2. Stop(s, H, Len(s) + 1)
    BY <1>2, <2>1 DEF Stop
  <2> QED BY <1>0, <1>1, <1>2, <2>2 DEF q
<1>3. CASE H # {}
  <2> DEFINE p == CHOOSE n \in H : \A m \in H : n <= m
  <2>1. p \in H /\ \A m \in H : p <= m
    <3>1. \E n \in H : \A m \in H : n <= m
      <4>1. H \subseteq Nat
        BY <1>1
      <4> QED BY <1>3, <4>1, LeastNat
    <3> QED BY <3>1
  <2>2. q = s[p]
    BY <1>0, <1>3
  <2> HIDE DEF p
  <2>3. p \in 1 .. Len(s) /\ p \in 1 .. Len(s) + 1 /\ p \in Nat
    BY <1>1, <2>1
  <2>4. \A m \in 1 .. p - 1 : m \notin H
    BY <2>1, <2>3
  <2> QED BY <2>1, <2>2, <2>3, <2>4, AtFacts DEF Stop, q
<1> QED BY <1>2, <1>3

LEMMA StopUnique ==
  ASSUME NEW s, Len(s) \in Nat, NEW H \in SUBSET (1 .. Len(s)), NEW p, NEW r,
         Stop(s, H, p), Stop(s, H, r)
  PROVE  p = r
<1>1. p \in Nat /\ r \in Nat /\ 1 <= p /\ 1 <= r /\ p <= Len(s) + 1 /\ r <= Len(s) + 1
  BY DEF Stop
<1>2. CASE p < r
  <2>1. p \in 1 .. r - 1 /\ p \in 1 .. Len(s)
    BY <1>1, <1>2
  <2> QED BY <2>1 DEF Stop
<1>3. CASE r < p
  <2>1. r \in 1 .. p - 1 /\ r \in 1 .. Len(s)
    BY <1>1, <1>3
  <2> QED BY <2>1 DEF Stop
<1> QED BY <1>1, <1>2, <1>3

\* nk_sched's search for the task id stops where Position says.
LEMMA PositionIs ==
  ASSUME NEW s, IsList(s), NEW bd, NEW tid, NEW p \in 1 .. Len(s),
         Stop(s, {n \in 1 .. Len(s) : bd[s[n]].tid = tid}, p)
  PROVE  Sched!Position(Bodies(bd, s), tid) = p
<1> DEFINE q == Bodies(bd, s)
           H == {n \in 1 .. Len(s) : bd[s[n]].tid = tid}
           Found(n) == n \in DOMAIN q /\ q[n].tid = tid /\ \A k \in 1 .. n - 1 : q[k].tid # tid
<1>1. Len(s) \in Nat /\ DOMAIN q = 1 .. Len(s) /\ \A n \in 1 .. Len(s) : q[n] = bd[s[n]]
  BY BodiesAre
<1> HIDE DEF q
<1>2. \A n : Found(n) <=> n \in 1 .. Len(s) /\ Stop(s, H, n)
  <2>1. ASSUME NEW n \in 1 .. Len(s)
        PROVE  Found(n) <=> Stop(s, H, n)
    <3>1. n \in 1 .. Len(s) + 1 /\ \A k \in 1 .. n - 1 : k \in 1 .. Len(s)
      BY <1>1
    <3> QED BY <1>1, <3>1 DEF Stop
  <2> QED BY <1>1, <2>1
<1>3. Found(p)
  BY <1>2
<1>4. Sched!Position(q, tid) = CHOOSE n : Found(n)
  BY DEF Sched!Position
<1>5. Found(CHOOSE n : Found(n))
  BY <1>3
<1>6. Stop(s, H, CHOOSE n : Found(n))
  BY <1>2, <1>5
<1>7. Stop(s, H, p) /\ H \in SUBSET (1 .. Len(s))
  OBVIOUS
<1> HIDE DEF H, Found
<1>8. (CHOOSE n : Found(n)) = p
  BY <1>1, <1>6, <1>7, StopUnique
<1> QED BY <1>4, <1>8 DEF q

\* The search for the place of a new item stops where InsertPos says.
LEMMA InsertPosIs ==
  ASSUME NEW s, IsList(s), NEW bd, NEW new, NEW p,
         Stop(s, {n \in 1 .. Len(s) : Sched!SignedDiff(bd[s[n]].when, new.when) > 0}, p)
  PROVE  Sched!InsertPos(Bodies(bd, s), new) = p
<1> DEFINE q == Bodies(bd, s)
           H == {n \in 1 .. Len(s) : Sched!SignedDiff(bd[s[n]].when, new.when) > 0}
           Found(n) == /\ n \in 1 .. Len(q) + 1
                       /\ n \in DOMAIN q => Sched!Ahead(new, q[n])
                       /\ \A k \in 1 .. n - 1 : ~ Sched!Ahead(new, q[k])
<1>1. /\ Len(s) \in Nat /\ Len(q) = Len(s) /\ DOMAIN q = 1 .. Len(s)
      /\ \A n \in 1 .. Len(s) : q[n] = bd[s[n]]
  BY BodiesAre
<1> HIDE DEF q
<1>2. \A n : Found(n) <=> Stop(s, H, n)
  <2>0. \A n \in 1 .. Len(s) : n \in H <=> Sched!Ahead(new, q[n])
    BY <1>1 DEF Sched!Ahead
  <2> HIDE DEF H
  <2>1. ASSUME NEW n \in 1 .. Len(s) + 1
        PROVE  Found(n) <=> Stop(s, H, n)
    <3>1. \A k \in 1 .. n - 1 : k \in 1 .. Len(s)
      BY <1>1
    <3> QED BY <1>1, <2>0, <3>1 DEF Stop
  <2> QED BY <1>1, <2>1 DEF Stop
<1>3. Found(p)
  BY <1>2
<1>4. Sched!InsertPos(q, new) = CHOOSE n : Found(n)
  BY DEF Sched!InsertPos
<1>5. Found(CHOOSE n : Found(n))
  BY <1>3
<1>6. Stop(s, H, CHOOSE n : Found(n))
  BY <1>2, <1>5
<1>7. Stop(s, H, p) /\ H \in SUBSET (1 .. Len(s))
  OBVIOUS
<1> HIDE DEF H, Found
<1>8. (CHOOSE n : Found(n)) = p
  BY <1>1, <1>6, <1>7, StopUnique
<1> QED BY <1>4, <1>8 DEF q

-----------------------------------------------------------------------------
(***************************************************************************)
(* The inductive invariant: the links are those of the ring order and of   *)
(* one free list, which holds the items of spare and every item that is    *)
(* not in the ring.                                                        *)
(***************************************************************************)

FreeList(f) ==
  /\ Lists(next, prev, freelist, order, f)
  /\ spare = Elems(f)
  /\ Elems(order) \cup Elems(f) = Items \ {Base}

BodyOfItems == body = [i \in Items |-> body[i]]

ListInv == (\E f : FreeList(f)) /\ BodyOfItems

\* The queue of NkSched.
Queue == Bodies(body, order)

\* SetLinks writes links that are lists.
LEMMA SetLists ==
  ASSUME NEW nx, NEW pv, NEW fl, NEW s, NEW f, Lists(nx, pv, fl, s, f),
         SetLinks(Rec(nx, pv, fl))
  PROVE  /\ next' = nx /\ prev' = pv /\ freelist' = fl
         /\ order' = s /\ spare' = Elems(f)
         /\ (Elems(s) \cup Elems(f) = Items \ {Base}) => FreeList(f)'
<1>1. /\ next' = nx /\ prev' = pv /\ freelist' = fl
      /\ order' = QueueItems(nx) /\ spare' = FreeItems(nx, fl)
  BY DEF SetLinks, Rec
<1>2. order' = s /\ spare' = Elems(f)
  BY <1>1, ReadLists
<1> QED BY <1>1, <1>2 DEF FreeList

\* Insert: the item is filled in and enters the ring where Enque inserts it.
LEMMA InsertStep ==
  ASSUME BodyOfItems, NEW nx, NEW pv, NEW fl, NEW s, NEW f, Lists(nx, pv, fl, s, f),
         NEW i \in Items \ {Base}, i \notin Elems(s), i \notin Elems(f),
         Elems(s) \cup Elems(f) = (Items \ {Base}) \ {i},
         NEW new, Insert(Rec(nx, pv, fl), i, new)
  PROVE  FreeList(f)' /\ BodyOfItems' /\ Queue' = Sched!Enque(Bodies(body, s), new)
<1> DEFINE H == {n \in 1 .. Len(s) : Sched!SignedDiff(body[s[n]].when, new.when) > 0}
           q == FirstHit(s, H)
<1>1. IsList(s) /\ DOMAIN s = 1 .. Len(s)
  BY DEF Lists, IsList
<1>2. QueueItems(nx) = s
  BY ReadLists
<1>3. /\ SetLinks(enque(Rec(nx, pv, fl), q, i))
      /\ body' = [body EXCEPT ![i] = new]
  <2>1. Rec(nx, pv, fl).next = nx
    BY DEF Rec
  <2> QED BY <1>1, <1>2, <2>1 DEF Insert, Scan, SignedDiff, FirstHit
<1>4. H \in SUBSET (1 .. Len(s))
  OBVIOUS
<1>5. PICK p : Stop(s, H, p) /\ q = At(s, p)
  <2> HIDE DEF H
  <2> QED BY <1>1, <1>4, ScanStops
<1>6. Sched!InsertPos(Bodies(body, s), new) = p
  BY <1>1, <1>5, InsertPosIs
<1>7. p \in 1 .. Len(s) + 1
  BY <1>5 DEF Stop
<1> HIDE DEF H, q
<1>8. PICK nx2, pv2 : /\ enque(Rec(nx, pv, fl), At(s, p), i) = Rec(nx2, pv2, fl)
                      /\ Lists(nx2, pv2, fl, InsertAt(s, p, i), f)
  BY <1>7, ListsEnque
<1>9. SetLinks(Rec(nx2, pv2, fl))
  BY <1>3, <1>5, <1>8
<1>10. Elems(InsertAt(s, p, i)) = Elems(s) \cup {i}
  BY <1>1, <1>7, LongerList
<1>11. order' = InsertAt(s, p, i) /\ FreeList(f)'
  <2>1. Elems(InsertAt(s, p, i)) \cup Elems(f) = Items \ {Base}
    BY <1>10
  <2> QED BY <1>8, <1>9, <2>1, SetLists
<1>12. /\ BodyOfItems' /\ body'[i] = new
       /\ \A x \in Items : x # i => body'[x] = body[x]
  <2>1. body' = [x \in Items |-> IF x = i THEN new ELSE body[x]]
    BY <1>3 DEF BodyOfItems
  <2> QED BY <2>1 DEF BodyOfItems
<1>13. \A x \in Elems(s) : body'[x] = body[x]
  BY <1>1, <1>12, ListElems
<1>14. Bodies(body', InsertAt(s, p, i)) = InsertAt(Bodies(body, s), p, body'[i])
  BY <1>1, <1>7, <1>13, BodiesInserted
<1>15. Queue' = InsertAt(Bodies(body, s), p, new)
  BY <1>11, <1>12, <1>14 DEF Queue
<1>16. Sched!Enque(Bodies(body, s), new) = InsertAt(Bodies(body, s), p, new)
  BY <1>6 DEF Sched!Enque, Sched!InsertAt, InsertAt
<1> QED BY <1>11, <1>12, <1>15, <1>16

\* deque and free_item: the item leaves the ring for the free list.
LEMMA RemoveStep ==
  ASSUME ListInv, NEW k \in 1 .. Len(order),
         SetLinks(free_item(deque(Links, order[k]), order[k])), Clear(order[k])
  PROVE  /\ ListInv'
         /\ Queue' = RemoveAt(Queue, k)
         /\ Cardinality(spare') = Cardinality(spare) + 1
<1> DEFINE i == order[k]
           r == RemoveAt(order, k)
<1>1. PICK f : FreeList(f)
  BY DEF ListInv
<1>2. /\ Lists(next, prev, freelist, order, f) /\ spare = Elems(f) /\ IsList(order) /\ IsList(f)
      /\ Elems(order) \cup Elems(f) = Items \ {Base} /\ Elems(order) \cap Elems(f) = {}
  BY <1>1 DEF FreeList, Lists
<1>3. i \in Elems(order) /\ i \in Items \ {Base} /\ i \notin Elems(f)
  BY <1>2, ListElems
<1>4. PICK nx2, pv2 : /\ deque(Rec(next, prev, freelist), i) = Rec(nx2, pv2, freelist)
                      /\ Lists(nx2, pv2, freelist, r, f)
  BY <1>2, ListsDeque
<1>5. Elems(r) = Elems(order) \ {i}
  BY <1>2, ShorterList
<1> HIDE DEF r, i
<1>6. PICK nx3 : /\ free_item(Rec(nx2, pv2, freelist), i) = Rec(nx3, pv2, i)
                 /\ Lists(nx3, pv2, i, r, InsertAt(f, 1, i))
  <2>1. i \notin Elems(r)
    BY <1>5
  <2> QED BY <1>3, <1>4, <2>1, ListsFree
<1>7. SetLinks(Rec(nx3, pv2, i))
  <2>1. Links = Rec(next, prev, freelist)
    BY DEF Links, Rec
  <2> QED BY <1>4, <1>6, <2>1 DEF i
<1>8. f \in Seq(Items \ {Base}) /\ 1 \in 1 .. Len(f) + 1
  BY <1>2 DEF IsList
<1>9. Elems(InsertAt(f, 1, i)) = Elems(f) \cup {i}
  BY <1>2, <1>3, <1>8, LongerList
<1>10. Elems(r) \cup Elems(InsertAt(f, 1, i)) = Items \ {Base}
  BY <1>2, <1>3, <1>5, <1>9
<1>11. order' = r /\ spare' = Elems(f) \cup {i} /\ \E g : FreeList(g)'
  <2>0. PICK g : g = InsertAt(f, 1, i)
    OBVIOUS
  <2>1. Lists(nx3, pv2, i, r, g) /\ Elems(g) = Elems(f) \cup {i}
        /\ Elems(r) \cup Elems(g) = Items \ {Base}
    BY <1>6, <1>9, <1>10, <2>0
  <2>2. order' = r /\ spare' = Elems(g) /\ FreeList(g)'
    BY <1>7, <2>1, SetLists
  <2> QED BY <2>1, <2>2
<1>12. BodyOfItems' /\ \A x \in Items : x # i => body'[x] = body[x]
  <2>1. body' = [body EXCEPT ![i] = NoBody]
    BY DEF Clear, i
  <2>2. body' = [x \in Items |-> IF x = i THEN NoBody ELSE body[x]]
    BY <2>1 DEF BodyOfItems, ListInv
  <2> QED BY <2>2 DEF BodyOfItems
<1>13. ListInv'
  BY <1>11, <1>12 DEF ListInv
<1>14. \A x \in Elems(order) : x # order[k] => body'[x] = body[x]
  BY <1>2, <1>12, ListElems DEF i
<1>15. Bodies(body', RemoveAt(order, k)) = RemoveAt(Bodies(body, order), k)
  BY <1>2, <1>14, BodiesRemoved
<1>16. Queue' = RemoveAt(Queue, k)
  BY <1>11, <1>15 DEF Queue, r
<1>17. Cardinality(spare') = Cardinality(spare) + 1
  BY <1>2, <1>3, <1>11, ElemsCount, FS_AddElement
<1> QED BY <1>13, <1>16, <1>17

\* deque and Insert: the item of a task that is queued moves.
LEMMA MoveStep ==
  ASSUME ListInv, NEW k \in 1 .. Len(order), NEW new,
         Insert(deque(Links, order[k]), order[k], new)
  PROVE  /\ ListInv'
         /\ Queue' = Sched!Enque(RemoveAt(Queue, k), new)
         /\ Cardinality(spare') = Cardinality(spare)
<1> DEFINE i == order[k]
           r == RemoveAt(order, k)
<1>1. PICK f : FreeList(f)
  BY DEF ListInv
<1>2. /\ Lists(next, prev, freelist, order, f) /\ spare = Elems(f) /\ IsList(order) /\ IsList(f)
      /\ Elems(order) \cup Elems(f) = Items \ {Base} /\ Elems(order) \cap Elems(f) = {}
      /\ BodyOfItems
  BY <1>1 DEF FreeList, Lists, ListInv
<1>3. i \in Elems(order) /\ i \in Items \ {Base} /\ i \notin Elems(f)
  BY <1>2, ListElems
<1>4. PICK nx2, pv2 : /\ deque(Rec(next, prev, freelist), i) = Rec(nx2, pv2, freelist)
                      /\ Lists(nx2, pv2, freelist, r, f)
  BY <1>2, ListsDeque
<1>5. Elems(r) = Elems(order) \ {i}
  BY <1>2, ShorterList
<1>6. Bodies(body, r) = RemoveAt(Bodies(body, order), k)
  BY <1>2, BodiesRemoved
<1> HIDE DEF r, i
<1>7. Insert(Rec(nx2, pv2, freelist), i, new)
  <2>1. Links = Rec(next, prev, freelist)
    BY DEF Links, Rec
  <2> QED BY <1>4, <2>1 DEF i
<1>8. i \notin Elems(r) /\ Elems(r) \cup Elems(f) = (Items \ {Base}) \ {i}
  BY <1>2, <1>3, <1>5
<1>9. FreeList(f)' /\ BodyOfItems' /\ Queue' = Sched!Enque(Bodies(body, r), new)
  BY <1>2, <1>3, <1>4, <1>7, <1>8, InsertStep
<1> QED BY <1>2, <1>6, <1>9 DEF ListInv, FreeList, Queue

\* alloc_item and Insert: an item of the free list enters the ring.
LEMMA AllocStep ==
  ASSUME ListInv, freelist # Null, NEW new,
         Insert(alloc_item(Links), freelist, new)
  PROVE  /\ ListInv'
         /\ Queue' = Sched!Enque(Queue, new)
         /\ Cardinality(spare') = Cardinality(spare) - 1
         /\ Cardinality(spare) > 0
<1>1. PICK f : FreeList(f)
  BY DEF ListInv
<1>2. /\ Lists(next, prev, freelist, order, f) /\ spare = Elems(f) /\ IsList(order) /\ IsList(f)
      /\ Elems(order) \cup Elems(f) = Items \ {Base} /\ Elems(order) \cap Elems(f) = {}
      /\ BodyOfItems
  BY <1>1 DEF FreeList, Lists, ListInv
<1> DEFINE i == freelist
           r == RemoveAt(f, 1)
           fl == next[freelist]
<1>3. /\ 1 \in 1 .. Len(f) /\ i = f[1]
      /\ alloc_item(Rec(next, prev, freelist)) = Rec(next, prev, fl)
      /\ Lists(next, prev, fl, order, r)
  BY <1>2, ListsAlloc
<1>4. i \in Elems(f) /\ i \in Items \ {Base} /\ i \notin Elems(order)
  BY <1>2, <1>3, ListElems
<1>5. Elems(r) = Elems(f) \ {i}
  BY <1>2, <1>3, ShorterList
<1> HIDE DEF r, i, fl
<1>6. Insert(Rec(next, prev, fl), i, new)
  <2>1. Links = Rec(next, prev, freelist)
    BY DEF Links, Rec
  <2> QED BY <1>3, <2>1 DEF i
<1>7. i \notin Elems(r) /\ Elems(order) \cup Elems(r) = (Items \ {Base}) \ {i}
  BY <1>2, <1>4, <1>5
<1>8. FreeList(r)' /\ BodyOfItems' /\ Queue' = Sched!Enque(Bodies(body, order), new)
  BY <1>2, <1>3, <1>4, <1>6, <1>7, InsertStep
<1>9. ListInv' /\ spare' = Elems(f) \ {i}
  BY <1>5, <1>8 DEF ListInv, FreeList
<1>10. IsFiniteSet(Elems(f)) /\ Cardinality(Elems(f)) = Len(f) /\ Len(f) \in Nat
  BY <1>2, ElemsCount, AtFacts
<1>11. Cardinality(spare') = Cardinality(spare) - 1
  BY <1>2, <1>4, <1>9, <1>10, FS_RemoveElement
<1>12. Cardinality(spare) > 0
  BY <1>2, <1>3, <1>10
<1> QED BY <1>8, <1>9, <1>11, <1>12 DEF Queue

-----------------------------------------------------------------------------
(***************************************************************************)
(* The initial state, the steps, and what the invariant says.              *)
(***************************************************************************)

\* nk_init_sched: an empty ring, and all items on the free list.
LEMMA InitLists == Init => ListInv
<1>1. SUFFICES ASSUME Init PROVE ListInv
  OBVIOUS
<1> DEFINE N == QueueSize - 1
           f == [n \in 1 .. N |-> QueueSize - n]
<1>2. N \in Nat /\ QueueSize \in Nat /\ Items = 0 .. N /\ QueueSize = N + 1 /\ Base = 0 /\ Null = -1
  BY Sizes
<1>3. f \in Seq(Items \ {Base}) /\ Len(f) = N /\ \A n \in 1 .. N : f[n] = QueueSize - n
  <2>1. \A n \in 1 .. N : QueueSize - n \in Items \ {Base}
    BY <1>2
  <2>2. f \in [1 .. N -> Items \ {Base}]
    BY <2>1
  <2>3. f \in Seq(Items \ {Base}) /\ Len(f) = N
    BY <1>2, <2>2
  <2> QED BY <2>3
<1> HIDE DEF f, N
<1>4. IsList(f)
  <2>1. \A a, b \in 1 .. Len(f) : f[a] = f[b] => a = b
    BY <1>2, <1>3
  <2> QED BY <1>3, <2>1 DEF IsList, Injective
<1>5. Elems(f) = Items \ {Base}
  <2>1. ASSUME NEW x \in Items \ {Base} PROVE x \in Elems(f)
    <3>1. QueueSize - x \in 1 .. N /\ QueueSize - (QueueSize - x) = x
      BY <1>2
    <3>2. f[QueueSize - x] = x
      BY <1>3, <3>1
    <3> QED BY <1>3, <3>1, <3>2 DEF Elems
  <2> QED BY <1>4, <2>1, ListElems
<1>6. IsList(<< >>) /\ Len(<< >>) = 0 /\ Elems(<< >>) = {} /\ \A n : At(<< >>, n) = Base
  BY DEF IsList, Injective, Elems, At
<1>7. /\ next = [i \in Items |-> IF i = Base THEN Base ELSE IF i = 1 THEN Null ELSE i - 1]
      /\ prev = [i \in Items |-> Base]
      /\ freelist = IF QueueSize = 1 THEN Null ELSE QueueSize - 1
      /\ order = << >> /\ spare = Items \ {Base}
      /\ body = [i \in Items |-> NoBody]
  BY <1>1 DEF Init
<1>8. Linked(next, prev)
  <2>1. \A i \in Items : i # Base /\ i # 1 => i - 1 \in Items
    BY <1>2
  <2>2. Base \in Items
    BY Sizes
  <2> QED BY <1>7, <2>1, <2>2 DEF Linked
<1>9. Forward(next, order) /\ Backward(prev, order)
  <2>1. next[Base] = Base /\ prev[Base] = Base
    BY <1>7, Sizes
  <2> QED BY <1>6, <1>7, <2>1 DEF Forward, Backward
<1>10. Chain(next, freelist, f)
  <2>1. freelist = IF f = << >> THEN Null ELSE f[1]
    <3>1. CASE N = 0
      <4>1. f = << >> /\ QueueSize = 1
        BY <1>2, <1>3, <3>1
      <4> QED BY <1>7, <4>1
    <3>2. CASE N # 0
      <4>1. 1 \in 1 .. N /\ f # << >> /\ QueueSize # 1
        BY <1>2, <1>3, <3>2
      <4>2. f[1] = QueueSize - 1
        BY <1>3, <4>1
      <4> QED BY <1>7, <4>1, <4>2
    <3> QED BY <3>1, <3>2
  <2>2. ASSUME NEW n \in 1 .. Len(f)
        PROVE  next[f[n]] = IF n = Len(f) THEN Null ELSE f[n + 1]
    <3>1. n \in 1 .. N /\ f[n] = QueueSize - n
      BY <1>3
    <3>2. f[n] \in Items /\ f[n] # Base
      BY <1>4, AtFacts
    <3>3. next[f[n]] = IF f[n] = 1 THEN Null ELSE f[n] - 1
      BY <1>7, <3>2
    <3>4. CASE n = Len(f)
      <4>1. f[n] = 1
        BY <1>2, <1>3, <3>1, <3>4
      <4> QED BY <3>3, <3>4, <4>1
    <3>5. CASE n # Len(f)
      <4>1. n + 1 \in 1 .. N /\ f[n] # 1
        BY <1>2, <1>3, <3>1, <3>5
      <4>2. f[n + 1] = QueueSize - (n + 1)
        BY <1>3, <4>1
      <4>3. f[n] - 1 = f[n + 1]
        BY <1>2, <3>1, <4>2
      <4> QED BY <3>3, <3>5, <4>1, <4>3
    <3> QED BY <3>4, <3>5
  <2> QED BY <2>1, <2>2 DEF Chain
<1>11. Lists(next, prev, freelist, order, f)
  BY <1>4, <1>6, <1>7, <1>8, <1>9, <1>10 DEF Lists
<1>12. FreeList(f)
  BY <1>5, <1>6, <1>7, <1>11 DEF FreeList
<1>13. BodyOfItems
  BY <1>7 DEF BodyOfItems
<1> QED BY <1>12, <1>13 DEF ListInv

\* Find returns the item of the first place with the task id, the base if
\* there is none.
LEMMA FindIs ==
  ASSUME ListInv, NEW tid
  PROVE  /\ (Find(tid) = Base) <=> ~ Sched!Queued(tid)
         /\ Find(tid) # Base =>
              \E k \in 1 .. Len(order) :
                Find(tid) = order[k] /\ Sched!Position(Queue, tid) = k
<1> DEFINE H == {n \in 1 .. Len(order) : body[order[n]].tid = tid}
<1>1. IsList(order) /\ DOMAIN order = 1 .. Len(order) /\ Len(order) \in Nat
  BY DEF ListInv, FreeList, Lists, IsList
<1>2. Find(tid) = FirstHit(order, H)
  BY <1>1 DEF Find, Scan, FirstHit
<1>3. H \in SUBSET (1 .. Len(order))
  OBVIOUS
<1>4. PICK p : Stop(order, H, p) /\ Find(tid) = At(order, p)
  <2> HIDE DEF H
  <2> QED BY <1>1, <1>2, <1>3, ScanStops
<1>5. p \in 1 .. Len(order) + 1
  BY <1>4 DEF Stop
<1>6. Find(tid) # Base <=> p \in 1 .. Len(order)
  BY <1>1, <1>4, AtFacts DEF At
<1>7. Sched!Queued(tid) <=> H # {}
  BY <1>1 DEF Sched!Queued, Sched!Tids
<1>8. H # {} <=> p \in 1 .. Len(order)
  <2>1. p \in 1 .. Len(order) => H # {}
    BY <1>4 DEF Stop
  <2>2. ASSUME p \notin 1 .. Len(order) PROVE H = {}
    <3>1. p = Len(order) + 1
      BY <1>1, <1>5, <2>2
    <3>2. \A m \in 1 .. Len(order) : m \in 1 .. p - 1
      BY <1>1, <3>1
    <3> QED BY <1>4, <3>2 DEF Stop
  <2> QED BY <2>1, <2>2
<1>9. ASSUME Find(tid) # Base
      PROVE  \E k \in 1 .. Len(order) :
                Find(tid) = order[k] /\ Sched!Position(Queue, tid) = k
  <2>1. p \in 1 .. Len(order)
    BY <1>6, <1>9
  <2>2. Sched!Position(Bodies(body, order), tid) = p
    BY <1>1, <1>4, <2>1, PositionIs
  <2>3. Find(tid) = order[p]
    BY <1>1, <1>4, <2>1, AtFacts
  <2> QED BY <2>1, <2>2, <2>3 DEF Queue
<1> QED BY <1>6, <1>7, <1>8, <1>9

LEMMA DequeIs ==
  ASSUME NEW q, NEW tid, NEW k, Sched!Position(q, tid) = k
  PROVE  Sched!Deque(q, tid) = RemoveAt(q, k)
BY DEF Sched!Deque, Sched!RemoveAt, RemoveAt

\* Submitting a task that is queued, and cancelling it.
LEMMA MoveFound ==
  ASSUME ListInv, NEW tid, Find(tid) # Base, NEW new,
         Insert(deque(Links, Find(tid)), Find(tid), new)
  PROVE  /\ ListInv' /\ Sched!Queued(tid)
         /\ Queue' = Sched!Enque(Sched!Deque(Queue, tid), new)
         /\ Cardinality(spare') = Cardinality(spare)
<1>1. PICK k \in 1 .. Len(order) : Find(tid) = order[k] /\ Sched!Position(Queue, tid) = k
  BY FindIs
<1>2. /\ ListInv' /\ Queue' = Sched!Enque(RemoveAt(Queue, k), new)
      /\ Cardinality(spare') = Cardinality(spare)
  <2>1. Insert(deque(Links, order[k]), order[k], new)
    BY <1>1
  <2> QED BY <2>1, MoveStep
<1>3. Sched!Deque(Queue, tid) = RemoveAt(Queue, k)
  BY <1>1, DequeIs
<1>4. Sched!Queued(tid)
  BY FindIs
<1> QED BY <1>2, <1>3, <1>4

LEMMA RemoveFound ==
  ASSUME ListInv, NEW tid, Find(tid) # Base,
         SetLinks(free_item(deque(Links, Find(tid)), Find(tid))), Clear(Find(tid))
  PROVE  /\ ListInv' /\ Sched!Queued(tid)
         /\ Queue' = Sched!Deque(Queue, tid)
         /\ Cardinality(spare') = Cardinality(spare) + 1
<1>1. PICK k \in 1 .. Len(order) : Find(tid) = order[k] /\ Sched!Position(Queue, tid) = k
  BY FindIs
<1>2. /\ ListInv' /\ Queue' = RemoveAt(Queue, k)
      /\ Cardinality(spare') = Cardinality(spare) + 1
  <2>1. SetLinks(free_item(deque(Links, order[k]), order[k])) /\ Clear(order[k])
    BY <1>1
  <2> QED BY <2>1, RemoveStep
<1>3. Sched!Deque(Queue, tid) = RemoveAt(Queue, k)
  BY <1>1, DequeIs
<1>4. Sched!Queued(tid)
  BY FindIs
<1> QED BY <1>2, <1>3, <1>4

\* Nothing that the invariant reads changes.
LEMMA KeptLists ==
  ASSUME ListInv, UNCHANGED <<links, body>>
  PROVE  /\ ListInv' /\ Queue' = Queue /\ Cardinality(spare') = Cardinality(spare)
BY DEF links, ListInv, FreeList, BodyOfItems, Queue

\* alloc_item finds nothing exactly when the number of free items is 0.
LEMMA NoFree ==
  ASSUME ListInv, freelist = Null
  PROVE  Cardinality(spare) = 0
<1>1. PICK f : FreeList(f)
  BY DEF ListInv
<1>2. Lists(next, prev, freelist, order, f) /\ spare = Elems(f) /\ IsList(f)
  BY <1>1 DEF FreeList, Lists
<1>3. Len(f) = 0
  BY <1>2, ReadLists
<1> QED BY <1>2, <1>3, ElemsCount

\* The queue of NkSched under the refinement mapping.
LEMMA QueueIs == Queue = [n \in DOMAIN order |-> body[order[n]]]
BY DEF Queue, Bodies

LEMMA QueueIsNext == (Queue = [n \in DOMAIN order |-> body[order[n]]])'
BY QueueIs, PTL

\* Each call is the same call of NkSched.
LEMMA SchedStep ==
  ASSUME ListInv, NEW tid, NEW job, NEW delay, nk_sched(tid, job, delay)
  PROVE  ListInv' /\ Sched!nk_sched(tid, job, delay)
<1> DEFINE new == NewItem(tid, job, delay)
<1>0. new = Sched!NewItem(tid, job, delay)
  BY DEF NewItem
<1> HIDE DEF new
<1>1. tid \in 1 .. next_tid /\ UNCHANGED <<now, next_tid, current_tid, main>>
  BY DEF nk_sched
<1>2. CASE /\ Find(tid) # Base
           /\ Insert(deque(Links, Find(tid)), Find(tid), new)
           /\ Sched!Returns("sched", tid, 0)
  <2>1. /\ ListInv' /\ Sched!Queued(tid)
        /\ Queue' = Sched!Enque(Sched!Deque(Queue, tid), new)
        /\ Cardinality(spare') = Cardinality(spare)
    BY <1>2, MoveFound
  <2>2. Sched!SchedQueued(tid, job, delay)
    BY <1>0, <1>2, <2>1, QueueIs, QueueIsNext DEF Sched!SchedQueued
  <2> QED BY <1>1, <2>1, <2>2 DEF Sched!nk_sched
<1>3. CASE /\ Find(tid) = Base
           /\ freelist # Null
           /\ Insert(alloc_item(Links), freelist, new)
           /\ Sched!Returns("sched", tid, 1)
  <2>1. /\ ListInv' /\ ~ Sched!Queued(tid)
        /\ Queue' = Sched!Enque(Queue, new)
        /\ Cardinality(spare') = Cardinality(spare) - 1 /\ Cardinality(spare) > 0
    BY <1>3, AllocStep, FindIs
  <2>2. Sched!SchedNew(tid, job, delay)
    BY <1>0, <1>3, <2>1, QueueIs, QueueIsNext DEF Sched!SchedNew
  <2> QED BY <1>1, <2>1, <2>2 DEF Sched!nk_sched
<1>4. CASE /\ Find(tid) = Base
           /\ freelist = Null
           /\ Sched!Returns("sched", tid, 1)
           /\ UNCHANGED <<links, body>>
  <2>1. /\ ListInv' /\ ~ Sched!Queued(tid) /\ Queue' = Queue
        /\ Cardinality(spare') = Cardinality(spare) /\ Cardinality(spare) = 0
    BY <1>4, KeptLists, NoFree, FindIs
  <2>2. Sched!SchedFull(tid)
    BY <1>4, <2>1, QueueIs, QueueIsNext DEF Sched!SchedFull
  <2> QED BY <1>1, <2>1, <2>2 DEF Sched!nk_sched
<1> QED BY <1>2, <1>3, <1>4 DEF nk_sched, new

LEMMA ReschedStep ==
  ASSUME ListInv, NEW tid, NEW job, NEW delay, nk_resched(tid, job, delay)
  PROVE  ListInv' /\ Sched!nk_resched(tid, job, delay)
<1> DEFINE new == NewItem(tid, job, delay)
<1>0. new = Sched!NewItem(tid, job, delay)
  BY DEF NewItem
<1> HIDE DEF new
<1>1. tid \in 1 .. next_tid /\ UNCHANGED <<now, next_tid, current_tid, main>>
  BY DEF nk_resched
<1>2. CASE /\ Find(tid) # Base
           /\ Insert(deque(Links, Find(tid)), Find(tid), new)
           /\ Sched!Returns("resched", tid, 1)
  <2>1. /\ ListInv' /\ Sched!Queued(tid)
        /\ Queue' = Sched!Enque(Sched!Deque(Queue, tid), new)
        /\ Cardinality(spare') = Cardinality(spare)
    BY <1>2, MoveFound
  <2> QED BY <1>0, <1>1, <1>2, <2>1, QueueIs, QueueIsNext DEF Sched!nk_resched
<1>3. CASE /\ Find(tid) = Base
           /\ Sched!Returns("resched", tid, 0)
           /\ UNCHANGED <<links, body>>
  <2>1. /\ ListInv' /\ ~ Sched!Queued(tid) /\ Queue' = Queue
        /\ Cardinality(spare') = Cardinality(spare)
    BY <1>3, KeptLists, FindIs
  <2> QED BY <1>1, <1>3, <2>1, QueueIs, QueueIsNext DEF Sched!nk_resched
<1> QED BY <1>2, <1>3 DEF nk_resched, new

LEMMA UnschedStep ==
  ASSUME ListInv, NEW tid, nk_unsched(tid)
  PROVE  ListInv' /\ Sched!nk_unsched(tid)
<1>1. /\ ListInv' /\ Sched!Queued(tid)
      /\ Queue' = Sched!Deque(Queue, tid)
      /\ Cardinality(spare') = Cardinality(spare) + 1
  BY RemoveFound DEF nk_unsched
<1> QED BY <1>1, QueueIs, QueueIsNext DEF nk_unsched, Sched!nk_unsched

\* The main loop takes the first item: the queue loses its head.
LEMMA DispatchStep ==
  ASSUME ListInv, Dispatch
  PROVE  ListInv' /\ Sched!Dispatch
<1>1. /\ main = "loop" /\ next[Base] # Base
      /\ Sched!SignedDiff(now, body[next[Base]].when) >= 0
      /\ SetLinks(free_item(deque(Links, next[Base]), next[Base]))
      /\ current_tid' = body[next[Base]].tid
      /\ main' = "task" /\ Clear(next[Base]) /\ call' = Sched!NoCall
      /\ UNCHANGED <<now, next_tid>>
  BY DEF Dispatch, SignedDiff
<1>2. IsList(order) /\ Forward(next, order) /\ Len(order) \in Nat
  BY DEF ListInv, FreeList, Lists, IsList
<1>3. next[Base] = order[1] /\ 1 \in 1 .. Len(order)
  <2>1. next[At(order, 0)] = At(order, 0 + 1) /\ 0 + 1 = 1
    BY <1>2 DEF Forward
  <2>2. next[Base] = At(order, 1)
    BY <1>2, <2>1, AtFacts
  <2> QED BY <1>1, <2>2 DEF At
<1>4. /\ ListInv' /\ Queue' = RemoveAt(Queue, 1)
      /\ Cardinality(spare') = Cardinality(spare) + 1
  BY <1>1, <1>3, RemoveStep
<1> DEFINE S == {body[x] : x \in Elems(order)}
<1>5. \A x \in Elems(order) : body[x] \in S
  OBVIOUS
<1> HIDE DEF S
<1>6. Bodies(body, order) \in Seq(S)
  BY <1>2, <1>5, BodiesFacts
<1>7. Len(Bodies(body, order)) = Len(order) /\ Bodies(body, order)[1] = body[order[1]]
  BY <1>2, <1>3, BodiesAre
<1>8. Queue \in Seq(S) /\ Len(Queue) = Len(order) /\ Queue[1] = body[order[1]]
  BY <1>6, <1>7 DEF Queue
<1>9. Queue # << >> /\ Head(Queue) = body[order[1]]
  BY <1>2, <1>3, <1>8
<1>10. RemoveAt(Queue, 1) = Tail(Queue)
  <2>1. PICK q \in Seq(S) : q = Queue
    BY <1>8
  <2>2. Len(q) \in Nat /\ 1 \in 1 .. Len(q) /\ q # << >>
    BY <1>2, <1>3, <1>8, <2>1
  <2>3. /\ RemoveAt(q, 1) \in Seq(S) /\ Len(RemoveAt(q, 1)) = Len(q) - 1
        /\ \A n \in 1 .. Len(q) - 1 : RemoveAt(q, 1)[n] = IF n < 1 THEN q[n] ELSE q[n + 1]
    BY <2>2, RemoveAtElements
  <2>4. Tail(q) \in Seq(S) /\ Len(Tail(q)) = Len(q) - 1 /\ \A n \in 1 .. Len(q) - 1 : Tail(q)[n] = q[n + 1]
    BY <2>2
  <2>5. \A n \in 1 .. Len(q) - 1 : ~ (n < 1)
    BY <2>2
  <2>6. \A n \in 1 .. Len(q) - 1 : RemoveAt(q, 1)[n] = Tail(q)[n]
    BY <2>3, <2>4, <2>5
  <2>7. RemoveAt(q, 1) = Tail(q)
    BY <2>3, <2>4, <2>6, SeqEqual
  <2> QED BY <2>1, <2>7
<1> QED BY <1>1, <1>3, <1>4, <1>9, <1>10, QueueIs, QueueIsNext
        DEF Sched!Dispatch, Sched!Due

\* The ghosts of the items in the ring count down as those of the queue.
LEMMA TickStep ==
  ASSUME ListInv, Tick
  PROVE  ListInv' /\ Sched!Tick
<1>1. /\ \A i \in {order[n] : n \in DOMAIN order} : body[i].left > - MaxLate
      /\ now' = (now + 1) % Sched!Modulus
      /\ body' = [i \in Items |->
                    IF i \in {order[n] : n \in DOMAIN order}
                      THEN [body[i] EXCEPT !.left = body[i].left - 1]
                      ELSE body[i]]
      /\ call' = Sched!NoCall
      /\ UNCHANGED <<links, next_tid, current_tid, main>>
  BY DEF Tick
<1>2. IsList(order) /\ DOMAIN order = 1 .. Len(order)
  BY DEF ListInv, FreeList, Lists, IsList
<1>3. ListInv'
  BY <1>1 DEF links, ListInv, FreeList, BodyOfItems
<1>4. order' = order /\ spare' = spare
  BY <1>1 DEF links
<1>5. \A n \in DOMAIN order : body'[order[n]] = [body[order[n]] EXCEPT !.left = body[order[n]].left - 1]
  <2>1. \A n \in DOMAIN order : order[n] \in Items
    BY <1>2, AtFacts
  <2> QED BY <1>1, <2>1
<1>6. DOMAIN Queue = DOMAIN order /\ \A n \in DOMAIN order : Queue[n] = body[order[n]]
  BY QueueIs
<1>7. \A n \in DOMAIN Queue : Queue[n].left > - MaxLate
  BY <1>1, <1>6
<1>8. Queue' = [n \in DOMAIN Queue |-> [Queue[n] EXCEPT !.left = Queue[n].left - 1]]
  <2>1. Queue' = [n \in DOMAIN order |-> body'[order[n]]]
    BY <1>4, QueueIsNext
  <2> QED BY <1>5, <1>6, <2>1
<1> QED BY <1>1, <1>3, <1>4, <1>7, <1>8, QueueIs, QueueIsNext DEF Sched!Tick

\* Every step keeps the lists, and is a step of NkSched or changes nothing.
LEMMA ListNext ==
  ASSUME ListInv, [Next]_vars
  PROVE  ListInv' /\ [Sched!Next]_Sched!vars
<1>1. ASSUME NEW tid \in Sched!Tid, NEW job \in Job, NEW delay \in Delay,
             nk_sched(tid, job, delay)
      PROVE  ListInv' /\ Sched!Next
  <2>1. ListInv' /\ Sched!nk_sched(tid, job, delay)
    BY <1>1, SchedStep
  <2> QED BY <2>1 DEF Sched!Next, Sched!Submit
<1>2. ASSUME NEW tid \in Sched!Tid, NEW job \in Job, NEW delay \in Delay,
             nk_resched(tid, job, delay)
      PROVE  ListInv' /\ Sched!Next
  <2>1. ListInv' /\ Sched!nk_resched(tid, job, delay)
    BY <1>2, ReschedStep
  <2> QED BY <2>1 DEF Sched!Next, Sched!Submit
<1>3. ASSUME NEW tid \in Sched!Tid, nk_unsched(tid)
      PROVE  ListInv' /\ Sched!Next
  <2>1. ListInv' /\ Sched!nk_unsched(tid)
    BY <1>3, UnschedStep
  <2> QED BY <2>1 DEF Sched!Next
<1>4. CASE Dispatch
  BY <1>4, DispatchStep DEF Sched!Next
<1>5. CASE Tick
  BY <1>5, TickStep DEF Sched!Next
<1>6. CASE nk_alloc_tid
  <2>1. ListInv' /\ Queue' = Queue /\ spare' = spare
    BY <1>6, KeptLists DEF nk_alloc_tid, links
  <2>2. Sched!nk_alloc_tid
    BY <1>6, <2>1, QueueIs, QueueIsNext DEF nk_alloc_tid, Sched!nk_alloc_tid
  <2> QED BY <2>1, <2>2 DEF Sched!Next
<1>7. CASE EnterLoop
  <2>1. ListInv' /\ Queue' = Queue /\ spare' = spare
    BY <1>7, KeptLists DEF EnterLoop, links
  <2>2. Sched!EnterLoop
    BY <1>7, <2>1, QueueIs, QueueIsNext DEF EnterLoop, Sched!EnterLoop
  <2> QED BY <2>1, <2>2 DEF Sched!Next
<1>8. CASE TaskReturn
  <2>1. ListInv' /\ Queue' = Queue /\ spare' = spare
    BY <1>8, KeptLists DEF TaskReturn, links
  <2>2. Sched!TaskReturn
    BY <1>8, <2>1, QueueIs, QueueIsNext DEF TaskReturn, Sched!TaskReturn
  <2> QED BY <2>1, <2>2 DEF Sched!Next
<1>9. CASE UNCHANGED vars
  <2>1. ListInv' /\ Queue' = Queue /\ spare' = spare
    BY <1>9, KeptLists DEF vars, links
  <2>2. UNCHANGED Sched!vars
    BY <1>9, <2>1, QueueIs, QueueIsNext DEF vars, Sched!vars
  <2> QED BY <2>1, <2>2
<1> QED BY <1>1, <1>2, <1>3, <1>4, <1>5, <1>6, <1>7, <1>8, <1>9 DEF Next

\* The invariant says what the run checks of the pointers.
LEMMA ListInvRing == ListInv => RingAndFreeList
<1> SUFFICES ASSUME ListInv PROVE RingAndFreeList
  OBVIOUS
<1> DEFINE ring == {order[n] : n \in DOMAIN order} \cup {Base}
<1>1. PICK f : FreeList(f)
  BY DEF ListInv
<1>2. /\ Lists(next, prev, freelist, order, f) /\ spare = Elems(f)
      /\ IsList(order) /\ IsList(f) /\ Forward(next, order) /\ Backward(prev, order)
      /\ Elems(order) \cup Elems(f) = Items \ {Base} /\ Elems(order) \cap Elems(f) = {}
  BY <1>1 DEF FreeList, Lists
<1>3. ring = Elems(order) \cup {Base} /\ Len(order) \in Nat
  BY <1>2 DEF Elems, IsList
<1>4. Steps(next, freelist)[QueueSize] = Null
  BY <1>2, ReadLists
<1>5. ring \cap spare = {} /\ ring \cup spare = Items
  <2>1. Elems(f) \subseteq Items \ {Base} /\ Base \in Items
    BY <1>2, ListElems, Sizes
  <2> QED BY <1>2, <1>3, <2>1
<1>6. ASSUME NEW n \in 0 .. Len(order)
      PROVE  prev[next[At(order, n)]] = At(order, n) /\ next[prev[At(order, n + 1)]] = At(order, n + 1)
  <2>1. next[At(order, n)] = At(order, n + 1) /\ prev[At(order, n + 1)] = At(order, n)
    BY <1>2 DEF Forward, Backward
  <2> QED BY <2>1
<1>7. ASSUME NEW i \in ring
      PROVE  next[prev[i]] = i /\ prev[next[i]] = i
  <2>1. CASE i = Base
    <3>1. /\ At(order, 0) = i /\ At(order, Len(order) + 1) = i
          /\ 0 \in 0 .. Len(order) /\ Len(order) \in 0 .. Len(order)
      BY <1>2, <1>3, <2>1, AtFacts
    <3> QED BY <1>6, <3>1
  <2>2. CASE i # Base
    <3>1. PICK n \in 1 .. Len(order) : i = order[n]
      BY <1>3, <2>2 DEF Elems
    <3>2. At(order, n) = i
      BY <1>2, <3>1, AtFacts
    <3>3. n \in 0 .. Len(order) /\ n - 1 \in 0 .. Len(order) /\ (n - 1) + 1 = n
      BY <1>3
    <3>4. prev[next[At(order, n)]] = At(order, n) /\ next[prev[At(order, n)]] = At(order, n)
      <4>1. next[prev[At(order, (n - 1) + 1)]] = At(order, (n - 1) + 1)
        BY <1>6, <3>3
      <4> QED BY <1>6, <3>3, <4>1
    <3> QED BY <3>2, <3>4
  <2> QED BY <2>1, <2>2
<1> QED BY <1>4, <1>5, <1>7 DEF RingAndFreeList

\* The pointers always form one ring through the base and one free list that
\* ends, and every item is in exactly one of them, whatever the calls and for
\* every number of items (deque, enque, alloc_item, free_item).
THEOREM PointersSound == Spec => []RingAndFreeList
<1>1. Init => ListInv
  BY InitLists
<1>2. ListInv /\ [Next]_vars => ListInv'
  BY ListNext
<1>3. ListInv => RingAndFreeList
  BY ListInvRing
<1> QED BY <1>1, <1>2, <1>3, PTL DEF Spec

\* The pointer program of nksched.c implements the queue of NkSched: its
\* searches stop where the sequence's do and its links change as the sequence
\* does, for every number of items, so what is proved of NkSched holds of it.
THEOREM ListImplementsQueue == Spec => ImplementsNkSched
<1>1. Init => ListInv
  BY InitLists
<1>2. ListInv /\ [Next]_vars => ListInv' /\ [Sched!Next]_Sched!vars
  BY ListNext
<1>3. Init => Sched!Init
  <2>1. SUFFICES ASSUME Init PROVE Sched!Init
    OBVIOUS
  <2>2. order = << >> /\ spare = Items \ {Base}
    BY <2>1 DEF Init
  <2>3. [n \in DOMAIN order |-> body[order[n]]] = << >>
    BY <2>2
  <2>4. Cardinality(spare) = QueueSize - 1
    <3> DEFINE All == 1 .. QueueSize - 1
    <3>1. All = Items \ {Base} /\ QueueSize - 1 \in Int
      BY Sizes
    <3>2. Cardinality(All) = IF 1 > QueueSize - 1 THEN 0 ELSE QueueSize - 1 - 1 + 1
      BY <3>1, FS_Interval
    <3> HIDE DEF All
    <3>3. Cardinality(All) = QueueSize - 1
      BY <3>2, Sizes
    <3> QED BY <2>2, <3>1, <3>3
  <2> QED BY <2>1, <2>3, <2>4 DEF Init, Sched!Init
<1> QED BY <1>1, <1>2, <1>3, PTL DEF Spec, ImplementsNkSched, Sched!Spec

-----------------------------------------------------------------------------
(***************************************************************************)
(* What is proved of NkSched, carried over to the pointer program.         *)
(***************************************************************************)

SchedProofs ==
  INSTANCE NkSched_proofs WITH
    queue <- [n \in DOMAIN order |-> body[order[n]]],
    free <- Cardinality(spare),
    log <- << >>  \* no history is kept of the pointers

\* The two instances are the same specification.
LEMMA SameSteps ==
  (Sched!Next <=> SchedProofs!Next) /\ Sched!vars = SchedProofs!vars
BY DEF
     Sched!Modulus, SchedProofs!Modulus, Sched!Time, SchedProofs!Time,
     Sched!Tid, SchedProofs!Tid, Sched!NoCall, SchedProofs!NoCall,
     Sched!nk_convert_delay, SchedProofs!nk_convert_delay,
     Sched!SignedDiff, SchedProofs!SignedDiff, Sched!Tids,
     SchedProofs!Tids, Sched!Queued, SchedProofs!Queued, Sched!Position,
     SchedProofs!Position, Sched!Deque, SchedProofs!Deque,
     Sched!RemoveAt, SchedProofs!RemoveAt, Sched!Ahead,
     SchedProofs!Ahead, Sched!InsertPos, SchedProofs!InsertPos,
     Sched!Enque, SchedProofs!Enque, Sched!InsertAt,
     SchedProofs!InsertAt, Sched!NewItem, SchedProofs!NewItem,
     Sched!Returns, SchedProofs!Returns, Sched!nk_alloc_tid,
     SchedProofs!nk_alloc_tid, Sched!SchedQueued,
     SchedProofs!SchedQueued, Sched!SchedNew, SchedProofs!SchedNew,
     Sched!SchedFull, SchedProofs!SchedFull, Sched!nk_sched,
     SchedProofs!nk_sched, Sched!nk_resched, SchedProofs!nk_resched,
     Sched!nk_unsched, SchedProofs!nk_unsched, Sched!EnterLoop,
     SchedProofs!EnterLoop, Sched!Due, SchedProofs!Due, Sched!Dispatch,
     SchedProofs!Dispatch, Sched!TaskReturn, SchedProofs!TaskReturn,
     Sched!Tick, SchedProofs!Tick, Sched!Submit, SchedProofs!Submit,
     Sched!Next, SchedProofs!Next, Sched!vars, SchedProofs!vars

LEMMA SameSpec == Sched!Spec => SchedProofs!Spec
<1>1. Sched!Init => SchedProofs!Init
  BY DEF Sched!Init, SchedProofs!Init, Sched!Time, SchedProofs!Time,
     Sched!Modulus, SchedProofs!Modulus, Sched!NoCall, SchedProofs!NoCall
<1>2. [Sched!Next]_Sched!vars => [SchedProofs!Next]_SchedProofs!vars
  BY SameSteps DEF Sched!vars, SchedProofs!vars
<1> QED BY <1>1, <1>2, PTL DEF Sched!Spec, SchedProofs!Spec

\* What the queue promises (one item for each task id, the order of the true
\* due times, nothing called before its delay has passed) the pointer program
\* of nksched.c promises, because it implements the queue.
THEOREM PointersInherit ==
  ASSUME Sched!ShortDelays
  PROVE  Spec => []Sched!UniqueTids /\ []Sched!Sorted /\ Sched!NeverEarly
<1>1. SchedProofs!ShortDelays
  BY DEF Sched!ShortDelays, SchedProofs!ShortDelays
<1>2. SchedProofs!SchedAssumption
  BY ListAssumption DEF SchedProofs!SchedAssumption
<1>3. SchedProofs!Spec => []SchedProofs!UniqueTids
  BY <1>2, SchedProofs!OneItemPerTask
<1>4. SchedProofs!Spec => []SchedProofs!Sorted
  BY <1>1, <1>2, SchedProofs!QueueInTrueOrder
<1>5. SchedProofs!Spec => SchedProofs!NeverEarly
  BY <1>1, <1>2, SchedProofs!NothingEarly
<1>6. SchedProofs!UniqueTids => Sched!UniqueTids
  BY DEF SchedProofs!UniqueTids, Sched!UniqueTids
<1>7. SchedProofs!Sorted => Sched!Sorted
  BY DEF SchedProofs!Sorted, Sched!Sorted
<1>8. SchedProofs!NeverEarly => Sched!NeverEarly
  BY DEF SchedProofs!NeverEarly, Sched!NeverEarly, Sched!vars, SchedProofs!vars
<1> QED BY <1>3, <1>4, <1>5, <1>6, <1>7, <1>8, SameSpec, ListImplementsQueue, PTL
        DEF ImplementsNkSched

=============================================================================
