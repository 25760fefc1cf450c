---------------------------- MODULE SharedLemmas ----------------------------
(***************************************************************************)
(* Lemmas about the operators that several components are built from: the  *)
(* operations of a queue (QueueOps), the items a queue holds of a stream,  *)
(* the arithmetic of counters that wrap around (Wraparound), the least and *)
(* greatest element of a set of numbers, sorted lists, and recursion: that *)
(* a function defined by recursion exists, and is the only one.            *)
(***************************************************************************)
EXTENDS QueueOps, Wraparound, SequenceTheorems, FiniteSetTheorems, WellFoundedInduction,
        TLAPS

-----------------------------------------------------------------------------
(* What a queue operation does to the items and to the closed flag.        *)

\* Enqueueing appends to the items and leaves the closed flag alone.
LEMMA EnqueuedItems ==
    ASSUME NEW S, NEW q \in QueueOf(S), NEW x \in S
    PROVE  /\ Enqueued(q, x) \in QueueOf(S)
           /\ Enqueued(q, x).items = Append(q.items, x)
           /\ Enqueued(q, x).closed = q.closed
<1> DEFINE pk == IF Len(q.items) + 1 > q.peak THEN Len(q.items) + 1 ELSE q.peak
           s  == Append(q.items, x)
<1>1. q.items \in Seq(S) /\ q.peak \in Nat
  BY DEF QueueOf
<1>2. Len(q.items) \in Nat
  BY <1>1, LenProperties
<1>3. pk \in Nat /\ s \in Seq(S)
  BY <1>1, <1>2, AppendProperties
<1>4. Enqueued(q, x) = [q EXCEPT !.items = s, !.peak = pk]
  BY DEF Enqueued
<1> HIDE DEF pk, s
<1>5. /\ Enqueued(q, x) \in QueueOf(S)
      /\ Enqueued(q, x).items = s
      /\ Enqueued(q, x).closed = q.closed
  BY <1>3, <1>4 DEF QueueOf
<1> QED
  BY <1>5 DEF s

\* Dequeueing takes the first item, and leaves the closed flag alone.
LEMMA DequeuedItems ==
    ASSUME NEW S, NEW q \in QueueOf(S), q.items # <<>>
    PROVE  /\ Head(q.items) \in S
           /\ Dequeued(q) \in QueueOf(S)
           /\ Dequeued(q).items = Tail(q.items)
           /\ Dequeued(q).closed = q.closed
<1>1. q.items \in Seq(S)
  BY DEF QueueOf
<1>2. Head(q.items) \in S /\ Tail(q.items) \in Seq(S)
  BY <1>1, HeadTailProperties
<1> QED
  BY <1>2 DEF QueueOf, Dequeued

\* Closing leaves the items alone.
LEMMA ClosedItems ==
    ASSUME NEW S, NEW q \in QueueOf(S)
    PROVE  /\ Closed(q) \in QueueOf(S)
           /\ Closed(q).items = q.items
           /\ Closed(q).closed = TRUE
  BY DEF QueueOf, Closed

-----------------------------------------------------------------------------
(* A queue that carries 1, 2, 3, ... in order.                             *)

\* s holds the last Len(s) items of a stream of n accepted items, in order.
EndsAt(s, n) ==
    /\ s \in Seq(Nat)
    /\ Len(s) <= n
    /\ \A i \in 1 .. Len(s) : s[i] = n - Len(s) + i

\* Appending the next item of the stream keeps the sequence in that form.
LEMMA AppendEndsAt ==
    ASSUME NEW s, NEW n \in Nat, EndsAt(s, n)
    PROVE  EndsAt(Append(s, n + 1), n + 1) /\ Len(Append(s, n + 1)) = Len(s) + 1
<1> DEFINE r == Append(s, n + 1)
<1>1. s \in Seq(Nat) /\ Len(s) \in Nat
  BY DEF EndsAt
<1>2. /\ r \in Seq(Nat)
      /\ Len(r) = Len(s) + 1
      /\ \A i \in 1 .. Len(s) : r[i] = s[i]
      /\ r[Len(s) + 1] = n + 1
  BY <1>1, AppendProperties
<1> HIDE DEF r
<1>3. ASSUME NEW i \in 1 .. Len(r) PROVE r[i] = (n + 1) - Len(r) + i
  <2>1. CASE i \in 1 .. Len(s)
    BY <2>1, <1>1, <1>2 DEF EndsAt
  <2>2. CASE i = Len(s) + 1
    BY <2>2, <1>1, <1>2
  <2>3. QED
    BY <2>1, <2>2, <1>1, <1>2
<1>4. QED
  BY <1>1, <1>2, <1>3 DEF EndsAt, r

\* So does removing the front item, which is the oldest one held.
LEMMA TailEndsAt ==
    ASSUME NEW s, NEW n \in Nat, EndsAt(s, n), s # <<>>
    PROVE  /\ EndsAt(Tail(s), n)
           /\ Len(s) \in Nat \ {0}
           /\ Len(Tail(s)) = Len(s) - 1
           /\ Head(s) = (n - Len(s)) + 1
<1> DEFINE r == Tail(s)
<1>1. s \in Seq(Nat) /\ Len(s) \in Nat \ {0}
  BY EmptySeq DEF EndsAt
<1>2. /\ r \in Seq(Nat)
      /\ Len(r) = Len(s) - 1
      /\ \A i \in 1 .. Len(r) : r[i] = s[i + 1]
      /\ Head(s) = s[1]
  BY <1>1, HeadTailProperties
<1> HIDE DEF r
<1>3. ASSUME NEW i \in 1 .. Len(r) PROVE r[i] = n - Len(r) + i
  BY <1>1, <1>2 DEF EndsAt
<1>4. QED
  BY <1>1, <1>2, <1>3 DEF EndsAt, r

-----------------------------------------------------------------------------
(* Remainders and signed distances.                                        *)

\* A number has one remainder.
LEMMA UniqueRemainder ==
    ASSUME NEW m \in Nat \ {0}, NEW q \in Int, NEW r \in 0 .. m - 1
    PROVE  (q * m + r) % m = r
<1> DEFINE d == q * m + r
           p == d \div m
           s == d % m
<1>1. d \in Int /\ p \in Int /\ s \in 0 .. m - 1 /\ d = p * m + s
  OBVIOUS
<1> HIDE DEF d, p, s
<1>2. (q - p) * m = s - r
  <2>1. d = q * m + r
    BY DEF d
  <2>2. (q - p) * m = q * m - p * m
    BY <1>1
  <2>3. q * m \in Int /\ p * m \in Int
    BY <1>1
  <2> QED
    BY <1>1, <2>1, <2>2, <2>3
<1>3. CASE q = p
  <2>1. (q - p) * m = 0
    BY <1>3, <1>1
  <2> QED
    BY <1>1, <1>2, <2>1 DEF s, d
<1>4. CASE q - p >= 1
  <2>1. (q - p) * m >= m
    BY <1>1, <1>4
  <2> QED
    BY <1>1, <1>2, <2>1
<1>5. CASE q - p <= -1
  <2>1. (q - p) * m <= -m
    BY <1>1, <1>5
  <2> QED
    BY <1>1, <1>2, <2>1
<1> QED
  BY <1>1, <1>3, <1>4, <1>5

\* A number below the modulus is its own remainder.
LEMMA SmallRemainder ==
    ASSUME NEW m \in Nat \ {0}, NEW r \in 0 .. m - 1
    PROVE  r % m = r
<1>1. (0 * m + r) % m = r
  BY UniqueRemainder
<1> QED
  BY <1>1

\* The signed distance of two ids is the distance of the numbers, if that is less
\* than half the id space.
LEMMA SignedDistance ==
    ASSUME NEW m \in Nat \ {0}, NEW a \in Nat, NEW b \in Nat,
           2 * (a - b) < m, 2 * (b - a) < m
    PROVE  Signed((a % m) - (b % m), m) = a - b
<1> DEFINE p == a \div m
           q == b \div m
           r == a % m
           s == b % m
           e == r - s
<1>1. /\ p \in Int /\ q \in Int /\ r \in 0 .. m - 1 /\ s \in 0 .. m - 1
      /\ a = p * m + r /\ b = q * m + s /\ e = r - s
  OBVIOUS
<1> HIDE DEF p, q, r, s, e
<1>2. e = (q - p) * m + (a - b)
  <2>1. (q - p) * m = q * m - p * m
    BY <1>1
  <2>2. q * m \in Int /\ p * m \in Int
    BY <1>1
  <2> QED
    BY <1>1, <2>1, <2>2
<1>3. CASE a >= b
  <2>1. a - b \in 0 .. m - 1 /\ q - p \in Int
    BY <1>1, <1>3
  <2>2. e % m = a - b
    <3>1. ((q - p) * m + (a - b)) % m = a - b
      BY <2>1, UniqueRemainder
    <3> QED
      BY <1>2, <3>1
  <2>3. Signed(e, m) = a - b
    BY <2>2 DEF Signed
  <2> QED
    BY <2>3 DEF e, r, s
<1>4. CASE a < b
  <2>1. (a - b) + m \in 0 .. m - 1 /\ (q - p) - 1 \in Int
    BY <1>1, <1>4
  <2>2. e = ((q - p) - 1) * m + ((a - b) + m)
    <3>1. ((q - p) - 1) * m = (q - p) * m - m
      BY <1>1
    <3>2. (q - p) * m \in Int
      BY <1>1
    <3> QED
      BY <1>2, <3>1, <3>2
  <2>3. e % m = (a - b) + m
    <3>1. (((q - p) - 1) * m + ((a - b) + m)) % m = (a - b) + m
      BY <2>1, UniqueRemainder
    <3> QED
      BY <2>2, <3>1
  <2>4. ~(2 * ((a - b) + m) < m)
    OBVIOUS
  <2>5. Signed(e, m) = a - b
    BY <2>3, <2>4 DEF Signed
  <2> QED
    BY <2>5 DEF e, r, s
<1> QED
  BY <1>3, <1>4

\* A difference may be taken before or after the remainder.
LEMMA RemainderMinus ==
    ASSUME NEW m \in Nat \ {0}, NEW a \in Int, NEW d \in Int
    PROVE  ((a % m) - d) % m = (a - d) % m
<1> DEFINE p == a \div m
           q == (a - d) \div m
           r == a % m
           t == (a - d) % m
<1>1. /\ p \in Int /\ q \in Int /\ r \in 0 .. m - 1 /\ t \in 0 .. m - 1
      /\ a = p * m + r /\ a - d = q * m + t
  OBVIOUS
<1> HIDE DEF p, q, r, t
<1>2. (q - p) * m + t = r - d
  <2>1. (q - p) * m = q * m - p * m
    BY <1>1
  <2>2. q * m \in Int /\ p * m \in Int
    BY <1>1
  <2> QED
    BY <1>1, <2>1, <2>2
<1>3. ((q - p) * m + t) % m = t
  <2>1. q - p \in Int
    BY <1>1
  <2> QED
    BY <1>1, <2>1, UniqueRemainder
<1>4. (r - d) % m = t
  BY <1>2, <1>3
<1> QED
  BY <1>4 DEF r, t

\* The unsigned distance of two numbers that are less than a lap apart.
LEMMA UnsignedDistance ==
    ASSUME NEW m \in Nat \ {0}, NEW a \in Int, NEW b \in Int, a - b \in 0 .. m - 1
    PROVE  ((a % m) - (b % m)) % m = a - b
<1> DEFINE p == a \div m
           q == b \div m
           r == a % m
           s == b % m
<1>1. /\ p \in Int /\ q \in Int /\ r \in 0 .. m - 1 /\ s \in 0 .. m - 1
      /\ a = p * m + r /\ b = q * m + s
  OBVIOUS
<1> HIDE DEF p, q, r, s
<1>2. (q - p) * m + (a - b) = r - s
  <2>1. (q - p) * m = q * m - p * m
    BY <1>1
  <2>2. q * m \in Int /\ p * m \in Int
    BY <1>1
  <2> QED
    BY <1>1, <2>1, <2>2
<1>3. ((q - p) * m + (a - b)) % m = a - b
  <2>1. q - p \in Int
    BY <1>1
  <2> QED
    BY <2>1, UniqueRemainder
<1>4. (r - s) % m = a - b
  BY <1>2, <1>3
<1> QED
  BY <1>4 DEF r, s

\* A distance in the ring of numbers leads back to the number.
LEMMA RemainderBack ==
    ASSUME NEW m \in Nat \ {0}, NEW h \in Int, NEW a \in 0 .. m - 1
    PROVE  /\ (h - ((h - a) % m)) % m = a
           /\ (h + ((a - h) % m)) % m = a
<1>1. (h - ((h - a) % m)) % m = a
  <2> DEFINE q == (h - a) \div m
             r == (h - a) % m
  <2>1. q \in Int /\ r \in Int /\ h - a = q * m + r
    OBVIOUS
  <2> HIDE DEF q, r
  <2>2. q * m \in Int
    BY <2>1
  <2>3. h - r = q * m + a
    BY <2>1, <2>2
  <2>4. (q * m + a) % m = a
    BY <2>1, UniqueRemainder
  <2> QED
    BY <2>3, <2>4 DEF r
<1>2. (h + ((a - h) % m)) % m = a
  <2> DEFINE q == (a - h) \div m
             r == (a - h) % m
  <2>1. q \in Int /\ r \in Int /\ a - h = q * m + r
    OBVIOUS
  <2> HIDE DEF q, r
  <2>2. q * m \in Int /\ (-q) * m = -(q * m) /\ -q \in Int
    BY <2>1
  <2>3. h + r = (-q) * m + a
    BY <2>1, <2>2
  <2>4. ((-q) * m + a) % m = a
    BY <2>2, UniqueRemainder
  <2> QED
    BY <2>3, <2>4 DEF r
<1> QED
  BY <1>1, <1>2

\* A sum may be taken before or after the remainder.
LEMMA RemainderPlus ==
    ASSUME NEW m \in Nat \ {0}, NEW a \in Int, NEW d \in Int
    PROVE  ((a % m) + d) % m = (a + d) % m
<1>1. -d \in Int
  OBVIOUS
<1>2. ((a % m) - (-d)) % m = (a - (-d)) % m
  BY <1>1, RemainderMinus
<1>3. a % m \in Int
  OBVIOUS
<1> DEFINE r == a % m
<1> HIDE DEF r
<1>4. r - (-d) = r + d /\ a - (-d) = a + d
  BY <1>3 DEF r
<1> QED
  BY <1>2, <1>4 DEF r

-----------------------------------------------------------------------------
(* Numbers.                                                                *)

\* A set of numbers that is not empty has a least one.
LEMMA LeastNatural ==
    ASSUME NEW T, T \subseteq Nat, T # {}
    PROVE  \E x \in T : \A y \in T : x <= y
<1> DEFINE R == {ss \in Nat \X Nat : ss[1] < ss[2]}
<1>1. IsWellFoundedOn(R, Nat)
  BY NatLessThanWellFounded DEF OpToRel
<1> HIDE DEF R
<1>2. PICK x \in T : \A y \in T : ~(<<y, x>> \in R)
  BY <1>1, WFMin
<1>3. ASSUME NEW y \in T PROVE x <= y
  <2>1. ~(y < x)
    BY <1>2, <1>3 DEF R
  <2> QED
    BY <2>1
<1> QED
  BY <1>3

\* Induction over an initial segment of the numbers.
LEMMA InitialInduction ==
    ASSUME NEW n \in Nat, NEW S, 0 \in S, \A k \in 1 .. n : k - 1 \in S => k \in S
    PROVE  \A k \in 0 .. n : k \in S
<1> DEFINE Bad == {k \in 0 .. n : k \notin S}
<1>1. SUFFICES ASSUME Bad # {} PROVE FALSE
  OBVIOUS
<1>2. PICK m \in Bad : \A j \in Bad : m <= j
  <2>1. Bad \subseteq Nat
    OBVIOUS
  <2> QED
    BY <1>1, <2>1, LeastNatural
<1>3. m \in 1 .. n /\ m - 1 \in 0 .. n /\ m - 1 \notin Bad
  BY <1>2
<1> QED
  BY <1>2, <1>3

\* A bounded set of numbers that is not empty has a greatest one.
LEMMA GreatestNatural ==
    ASSUME NEW n \in Nat, NEW T, T \subseteq 0 .. n, T # {}
    PROVE  \E x \in T : \A y \in T : x >= y
<1> DEFINE R == {n - x : x \in T}
<1>1. R \subseteq Nat
  OBVIOUS
<1>5. R # {}
  <2>1. PICK x \in T : TRUE
    OBVIOUS
  <2>2. n - x \in R
    BY <2>1
  <2> QED
    BY <2>2
<1>2. PICK m \in R : \A y \in R : m <= y
  BY <1>1, <1>5, LeastNatural
<1>3. PICK x \in T : m = n - x
  BY <1>2
<1>4. ASSUME NEW y \in T PROVE x >= y
  <2>1. m <= n - y
    BY <1>2
  <2> QED
    BY <1>3, <2>1
<1> QED
  BY <1>4

\* A finite set whose elements have different keys can be listed, largest key first.
LEMMA SortedListExists ==
    ASSUME NEW U, NEW key \in [U -> Nat], \A x, y \in U : key[x] = key[y] => x = y,
           NEW S, S \subseteq U, IsFiniteSet(S)
    PROVE  \E list \in [1 .. Cardinality(S) -> S] :
              \A i, j \in DOMAIN list : i < j => key[list[i]] > key[list[j]]
<1> DEFINE Sorted(list) == \A i, j \in DOMAIN list : i < j => key[list[i]] > key[list[j]]
           Listed(V) == \E list \in [1 .. Cardinality(V) -> V] : Sorted(list)
           Bad == {n \in Nat : \E V \in SUBSET U :
                      IsFiniteSet(V) /\ Cardinality(V) = n /\ ~Listed(V)}
<1>1. SUFFICES ASSUME Bad # {} PROVE FALSE
  <2>1. S \in SUBSET U /\ Cardinality(S) \in Nat
    BY FS_CardinalityType
  <2>2. Cardinality(S) \notin Bad
    BY <1>1
  <2>3. Listed(S)
    BY <2>1, <2>2
  <2> QED
    BY <2>3
<1>2. PICK n \in Bad : \A m \in Bad : n <= m
  BY <1>1, LeastNatural
<1>3. PICK V \in SUBSET U : IsFiniteSet(V) /\ Cardinality(V) = n /\ ~Listed(V)
  BY <1>2
<1>4. n \in Nat
  BY <1>2
<1>5. n # 0
  <2> SUFFICES ASSUME n = 0 PROVE FALSE
    OBVIOUS
  <2> DEFINE list == [i \in 1 .. 0 |-> i]
  <2>1. list \in [1 .. 0 -> V] /\ Sorted(list)
    OBVIOUS
  <2> QED
    BY <1>3, <2>1
<1>6. PICK x \in V : \A y \in V : key[x] <= key[y]
  <2> DEFINE K == {key[y] : y \in V}
  <2>1. K \subseteq Nat /\ K # {}
    BY <1>3, <1>5, FS_EmptySet
  <2>2. PICK m \in K : \A y \in K : m <= y
    BY <2>1, LeastNatural
  <2> QED
    BY <2>2
<1> DEFINE W == V \ {x}
<1>7. IsFiniteSet(W) /\ Cardinality(W) = n - 1
  BY <1>3, <1>4, FS_RemoveElement
<1>8. n - 1 \in Nat /\ n - 1 \notin Bad
  BY <1>2, <1>4, <1>5
<1>9. Listed(W)
  <2>1. W \in SUBSET U
    BY <1>3
  <2> HIDE DEF W, Listed
  <2> QED
    BY <1>7, <1>8, <2>1
<1>10. PICK list \in [1 .. n - 1 -> W] : Sorted(list)
  BY <1>7, <1>9
<1> DEFINE longer == [i \in 1 .. n |-> IF i = n THEN x ELSE list[i]]
<1>11. longer \in [1 .. n -> V]
  <2>1. \A i \in 1 .. n : i # n => i \in 1 .. n - 1
    BY <1>4
  <2> QED
    BY <1>10, <2>1
<1>12. ASSUME NEW i \in 1 .. n, NEW j \in 1 .. n, i < j
       PROVE  key[longer[i]] > key[longer[j]]
  <2>1. i \in 1 .. n - 1 /\ longer[i] = list[i]
    BY <1>4, <1>12
  <2>2. CASE j = n
    <3>1. list[i] \in V /\ list[i] # x
      BY <1>10, <2>1
    <3>2. key[list[i]] # key[x] /\ key[list[i]] \in Nat /\ key[x] \in Nat
      BY <1>3, <3>1
    <3>3. key[x] <= key[list[i]]
      BY <1>6, <3>1
    <3>4. longer[j] = x
      BY <2>2
    <3> HIDE DEF longer
    <3> QED
      BY <2>1, <3>2, <3>3, <3>4
  <2>3. CASE j # n
    <3>1. j \in 1 .. n - 1 /\ longer[j] = list[j]
      BY <1>4, <2>3
    <3> HIDE DEF longer
    <3> QED
      BY <1>10, <1>12, <2>1, <3>1
  <2> QED
    BY <2>2, <2>3
<1>13. Sorted(longer)
  <2>1. DOMAIN longer = 1 .. n
    OBVIOUS
  <2> HIDE DEF longer
  <2> QED
    BY <1>12, <2>1
<1> HIDE DEF longer, Sorted
<1> QED
  BY <1>3, <1>11, <1>13

-----------------------------------------------------------------------------
(* Functions that are defined by recursion.                                *)

\* g starts at a and goes on by step.
Follows(g, a, step, n) == g[0] = a /\ \A k \in 1 .. n : g[k] = step[<<k, g[k - 1]>>]

\* g and h go on alike.
GoAlike(g, h, n) == \A k \in 1 .. n : g[k - 1] = h[k - 1] => g[k] = h[k]

\* A recursion over an initial segment of the numbers has a solution.
LEMMA RecursionExists ==
    ASSUME NEW A, NEW a \in A, NEW n \in Nat, NEW step \in [(1 .. n) \X A -> A]
    PROVE  \E g \in [0 .. n -> A] : Follows(g, a, step, n)
<1> DEFINE Ok(g, m) == Follows(g, a, step, m)
           Bad == {m \in 0 .. n : ~\E g \in [0 .. m -> A] : Ok(g, m)}
<1>1. SUFFICES ASSUME Bad # {} PROVE FALSE
  <2>1. n \notin Bad
    BY <1>1
  <2> QED
    BY <2>1
<1>2. Bad \subseteq Nat
  OBVIOUS
<1>3. PICK m \in Bad : \A j \in Bad : m <= j
  BY <1>1, <1>2, LeastNatural
<1>4. CASE m = 0
  <2> DEFINE g == [k \in 0 .. 0 |-> a]
  <2>1. g \in [0 .. 0 -> A] /\ Ok(g, 0)
    BY DEF Follows
  <2> QED
    BY <1>4, <2>1
<1>5. CASE m # 0
  <2>1. m \in 1 .. n /\ m - 1 \in 0 .. n
    BY <1>5
  <2>2. m - 1 \notin Bad
    BY <2>1, <1>3
  <2>3. PICK g \in [0 .. m - 1 -> A] : Ok(g, m - 1)
    BY <2>1, <2>2
  <2> DEFINE h == [k \in 0 .. m |-> IF k = m THEN step[<<m, g[m - 1]>>] ELSE g[k]]
  <2>4. step[<<m, g[m - 1]>>] \in A
    BY <2>1, <2>3
  <2>5. h \in [0 .. m -> A]
    BY <2>1, <2>3, <2>4
  <2>6. \A k \in 0 .. m - 1 : h[k] = g[k]
    BY <2>1
  <2>7. h[m] = step[<<m, h[m - 1]>>]
    <3>1. m \in 0 .. m /\ m - 1 \in 0 .. m - 1
      BY <2>1
    <3>2. h[m] = step[<<m, g[m - 1]>>]
      BY <3>1
    <3>3. h[m - 1] = g[m - 1]
      BY <3>1, <2>6
    <3> HIDE DEF h
    <3> QED
      BY <3>2, <3>3
  <2>8. Ok(h, m)
    <3>1. h[0] = a
      BY <2>1, <2>3, <2>6 DEF Follows
    <3>2. ASSUME NEW k \in 1 .. m PROVE h[k] = step[<<k, h[k - 1]>>]
      <4>1. CASE k = m
        BY <4>1, <2>7
      <4>2. CASE k # m
        <5>1. k \in 1 .. m - 1 /\ k \in 0 .. m - 1 /\ k - 1 \in 0 .. m - 1
          BY <2>1, <4>2
        <5>2. g[k] = step[<<k, g[k - 1]>>]
          BY <5>1, <2>3 DEF Follows
        <5> QED
          BY <5>1, <5>2, <2>6
      <4> QED
        BY <4>1, <4>2
    <3> HIDE DEF h
    <3> QED
      BY <3>1, <3>2 DEF Follows
  <2> HIDE DEF h
  <2> QED
    BY <2>5, <2>8
<1> QED
  BY <1>4, <1>5

\* Two functions that start alike and go on alike are alike.
LEMMA SameRecursion ==
    ASSUME NEW n \in Nat, NEW g, NEW h, g[0] = h[0], GoAlike(g, h, n)
    PROVE  \A k \in 0 .. n : g[k] = h[k]
<1> DEFINE Bad == {k \in 0 .. n : g[k] # h[k]}
<1>1. SUFFICES ASSUME Bad # {} PROVE FALSE
  OBVIOUS
<1>2. Bad \subseteq Nat
  OBVIOUS
<1>3. PICK m \in Bad : \A j \in Bad : m <= j
  BY <1>1, <1>2, LeastNatural
<1>4. m \in 1 .. n /\ m - 1 \in 0 .. n /\ m - 1 \notin Bad
  BY <1>3
<1>5. g[m - 1] = h[m - 1]
  BY <1>4
<1> QED
  BY <1>4, <1>5 DEF GoAlike

=============================================================================
