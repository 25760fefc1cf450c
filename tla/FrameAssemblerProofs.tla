------------------------ MODULE FrameAssemblerProofs ------------------------
(***************************************************************************)
(* The assembler delivers whole frames, none twice, keeps its table ahead  *)
(* of the watermark, accounts for every frame begun and never overstates   *)
(* the loss, for all table sizes, fragment counts and id spaces.           *)
(*                                                                         *)
(* The code sees ids, the argument is about frame numbers.  The table lies *)
(* between the watermark w and the newest frame, and it is dense: every    *)
(* step of the newest frame, at most Ahead long, began an entry, and only  *)
(* the oldest entry ever leaves, so between x and the newest frame there   *)
(* are enough entries for the distance (Dense).  The table is bounded, so  *)
(* everything the assembler compares is less than half of the id space     *)
(* apart and the order of the ids is the order of the numbers.             *)
(*                                                                         *)
(* Offer() is taken apart into what it does to the table: evict, begin an  *)
(* entry, store a fragment.  Each keeps Good.                              *)
(***************************************************************************)
EXTENDS FrameAssembler, FiniteSetTheorems, SequenceTheorems, TLAPS

Lib == INSTANCE SharedLemmas

-----------------------------------------------------------------------------
(* The inductive invariant.                                                *)

Numbers   == First .. Last
Ids       == 0 .. IdMod - 1
FromTable == UNION {[S -> Numbers] : S \in SUBSET (0 .. Frags)}
EntryType == [n: Nat, count: Nat, from: FromTable, received: Nat, completed: BOOLEAN]
FrameType == [n: Nat, from: FromTable, count: Nat]
StatsType ==
    [started: BOOLEAN, baseSeq: Nat, highestSeq: Nat, packetsReceived: Nat,
     packetsMalformed: Nat, packetsDuplicate: Nat, packetsTooLate: Nat,
     framesCompleted: Nat, framesDropped: Nat]

\* An entry holds fragments of its own frame only, and counts them.
Sound(id, e) ==
    /\ e \in EntryType /\ e.n \in Numbers /\ id = Id(e.n)
    /\ e.count \in {Frags, Frags + 1}
    /\ DOMAIN e.from \subseteq 0 .. e.count - 1
    /\ \A i \in DOMAIN e.from : e.from[i] = e.n
    /\ e.received = Cardinality(DOMAIN e.from)
    /\ e.completed <=> e.received = e.count

\* Parts of a table.
Above(tab, x)   == {id \in DOMAIN tab : tab[id].n > x}
Incomplete(tab) == {id \in DOMAIN tab : ~tab[id].completed}

\* Between x and the newest frame nw the table has enough entries.
Dense(tab, w, nw) ==
    \A x \in First .. nw : x >= w => nw - x <= Ahead * Cardinality(Above(tab, x))

\* The table tab between the watermark w and the newest frame nw; done are the
\* frames completed, comp as many, drop the frames dropped, b the frames begun.
Good(tab, w, nw, done, comp, drop, b) ==
    /\ DOMAIN tab \subseteq Ids /\ \A id \in DOMAIN tab : Sound(id, tab[id])
    /\ Cardinality(DOMAIN tab) <= MaxPending
    /\ nw \in Numbers /\ w \in (First - 1) .. nw
    /\ \A id \in DOMAIN tab : tab[id].n \in (w + 1) .. nw
    /\ Dense(tab, w, nw)
    /\ done \subseteq Numbers
    /\ \A d \in done : d <= w \/ \E id \in DOMAIN tab : tab[id].completed /\ tab[id].n = d
    /\ comp = Cardinality(done) /\ drop \in Nat
    /\ b = comp + drop + Cardinality(Incomplete(tab))

TableInv ==
    \E w \in (First - 1) .. newest :
        /\ retired = IF w < First THEN {} ELSE {Id(w)}
        /\ Good(pending, w, newest, delivered,
                stats.framesCompleted, stats.framesDropped, begun)

TypeOK == ready \in Seq(FrameType) /\ stats \in StatsType

IInv == TypeOK /\ TableInv /\ DeliveredWhole

\* The statistics of the packet stream, as positions in it.
Positions == Position(First, 0) .. Position(Last, Frags)

LossInv ==
    /\ stats \in StatsType /\ arrived \subseteq Positions
    /\ Cardinality(arrived) <= stats.packetsReceived
    /\ IF stats.started
       THEN \E b, h \in arrived :
                /\ \A a \in arrived : a <= h
                /\ stats.baseSeq = b % SeqMod /\ stats.highestSeq = h % SeqMod
       ELSE arrived = {}

-----------------------------------------------------------------------------
(* Frame numbers and ids.                                                  *)

\* The constants are numbers.
LEMMA Constants ==
    /\ MaxPending \in Nat \ {0} /\ Frags \in Nat \ {0}
    /\ First \in Nat /\ Last \in Nat /\ First <= Last /\ Ahead \in Nat /\ Back \in Nat
    /\ IdMod \in Nat \ {0} /\ SeqMod \in Nat \ {0}
    /\ 2 * (MaxPending * Ahead + Ahead + Back) < IdMod
    /\ 2 * (Last + 1 - First) * Frags < SeqMod
<1>1. /\ MaxPending \in Nat \ {0} /\ Frags \in Nat \ {0}
      /\ First \in Nat /\ Last \in Nat /\ First <= Last /\ Ahead \in Nat /\ Back \in Nat
      /\ IdMod \in Nat /\ SeqMod \in Nat
      /\ 2 * ((MaxPending + 1) * Ahead + Back) < IdMod
      /\ 2 * (Last + 1 - First) * Frags < SeqMod
  BY AssemblerAssumption, StreamAssumption
<1> DEFINE p == MaxPending * Ahead
<1>2. p \in Nat /\ (MaxPending + 1) * Ahead = p + Ahead
  BY <1>1
<1> HIDE DEF p
<1>3. 2 * (p + Ahead + Back) < IdMod /\ IdMod # 0
  BY <1>1, <1>2
<1>4. SeqMod # 0
  <2>1. Last + 1 - First \in Nat
    BY <1>1
  <2>2. (Last + 1 - First) * Frags \in Nat
    BY <1>1, <2>1
  <2>3. 2 * (Last + 1 - First) * Frags \in Nat
    BY <1>1, <2>1
  <2> QED
    BY <1>1, <2>3
<1> QED
  BY <1>1, <1>3, <1>4 DEF p

\* Every frame has an id.
LEMMA IdIsId ==
    ASSUME NEW n \in Nat
    PROVE  Id(n) \in Ids
<1>1. IdMod \in Nat \ {0}
  BY Constants
<1> QED
  BY <1>1 DEF Id, Ids

\* Within half of the id space the order of the ids is the order of the numbers.
LEMMA IdOrder ==
    ASSUME NEW a \in Nat, NEW b \in Nat, 2 * (a - b) < IdMod, 2 * (b - a) < IdMod
    PROVE  /\ Id(a) \in Ids
           /\ Newer(Id(a), Id(b)) <=> a > b
           /\ Id(a) = Id(b) => a = b
<1>1. IdMod \in Nat \ {0}
  BY Constants
<1>2. Id(a) \in Ids /\ Id(b) \in Ids
  BY <1>1 DEF Id, Ids
<1>3. Signed(Id(a) - Id(b), IdMod) = a - b
  <2>1. Lib!Signed((a % IdMod) - (b % IdMod), IdMod) = a - b
    BY <1>1, Lib!SignedDistance
  <2> QED
    BY <2>1 DEF Lib!Signed, Signed, Id
<1>4. Newer(Id(a), Id(b)) <=> a > b
  BY <1>3 DEF Newer, seqNewerThan
<1>5. ASSUME Id(a) = Id(b) PROVE a = b
  <2>1. Signed(0, IdMod) = 0
    BY <1>1 DEF Signed
  <2>2. Id(a) - Id(b) = 0
    BY <1>2, <1>5 DEF Ids
  <2> QED
    BY <1>3, <2>1, <2>2
<1> QED
  BY <1>2, <1>4, <1>5

\* Sets of ids are finite.
LEMMA IdsAreFinite ==
    ASSUME NEW S, S \subseteq Ids
    PROVE  IsFiniteSet(S) /\ Cardinality(S) \in Nat
<1>1. 0 \in Int /\ IdMod - 1 \in Int
  BY Constants
<1>2. IsFiniteSet(Ids)
  BY <1>1, FS_Interval DEF Ids
<1> QED
  BY <1>2, FS_Subset, FS_CardinalityType

\* The table is never further from the newest frame than the ids can tell.
LEMMA WithinReach ==
    ASSUME NEW tab, NEW w \in Int, NEW nw \in Numbers,
           DOMAIN tab \subseteq Ids, Cardinality(DOMAIN tab) <= MaxPending,
           Dense(tab, w, nw),
           NEW x \in First .. nw, x >= w
    PROVE  nw - x <= MaxPending * Ahead
<1>1. /\ MaxPending \in Nat /\ Ahead \in Nat
  BY Constants
<1> DEFINE c == Cardinality(Above(tab, x))
           k == Cardinality(DOMAIN tab)
<1>2. c \in Nat /\ c <= k /\ k \in Nat
  <2>1. Above(tab, x) \subseteq DOMAIN tab
    BY DEF Above
  <2> QED
    BY <2>1, IdsAreFinite, FS_Subset
<1>3. nw - x <= Ahead * c
  BY DEF Dense
<1> HIDE DEF c, k
<1>4. c <= MaxPending
  BY <1>1, <1>2 DEF k
<1>5. Ahead * c <= Ahead * MaxPending
  BY <1>1, <1>2, <1>4
<1>6. Ahead * MaxPending = MaxPending * Ahead /\ Ahead * c \in Nat
      /\ MaxPending * Ahead \in Nat /\ nw - x \in Int
  BY <1>1, <1>2, Constants DEF Numbers
<1> QED
  BY <1>3, <1>5, <1>6

\* Nor is a frame the network can hand over now.
LEMMA PacketWithinReach ==
    ASSUME NEW tab, NEW w \in Int, NEW nw \in Numbers,
           DOMAIN tab \subseteq Ids, Cardinality(DOMAIN tab) <= MaxPending,
           Dense(tab, w, nw),
           NEW x \in First .. nw, x >= w,
           NEW n \in Nat, n >= nw - Back, n <= nw + Ahead
    PROVE  2 * (n - x) < IdMod /\ 2 * (x - n) < IdMod
<1> DEFINE p == MaxPending * Ahead
<1>1. nw - x <= p
  BY WithinReach
<1>2. /\ Ahead \in Nat /\ Back \in Nat /\ nw \in Nat /\ x \in Nat /\ x <= nw
      /\ IdMod \in Nat /\ p \in Nat /\ 2 * (p + Ahead + Back) < IdMod
  BY Constants DEF Numbers
<1> HIDE DEF p
<1> QED
  BY <1>1, <1>2

\* Two frames between the watermark and the newest frame.
LEMMA TableWithinReach ==
    ASSUME NEW tab, NEW w \in Int, NEW nw \in Numbers,
           DOMAIN tab \subseteq Ids, Cardinality(DOMAIN tab) <= MaxPending,
           Dense(tab, w, nw),
           NEW x \in First .. nw, x >= w, NEW y \in First .. nw, y >= w
    PROVE  2 * (y - x) < IdMod /\ 2 * (x - y) < IdMod
<1> DEFINE p == MaxPending * Ahead
<1>1. nw - x <= p /\ nw - y <= p
  BY WithinReach
<1>2. /\ Ahead \in Nat /\ Back \in Nat /\ nw \in Nat
      /\ x \in Nat /\ x <= nw /\ y \in Nat /\ y <= nw
      /\ IdMod \in Nat /\ p \in Nat /\ 2 * (p + Ahead + Back) < IdMod
  BY Constants DEF Numbers
<1> HIDE DEF p
<1> QED
  BY <1>1, <1>2

-----------------------------------------------------------------------------
(* What may happen to the table.                                           *)

Without(tab, id)     == Restrict(tab, DOMAIN tab \ {id})
Extended(tab, id, e) == [i \in DOMAIN tab \cup {id} |-> IF i = id THEN e ELSE tab[i]]

\* What Good says of one entry.
LEMMA EntryFacts ==
    ASSUME NEW tab, NEW w, NEW nw, NEW done, NEW comp, NEW drop, NEW b,
           Good(tab, w, nw, done, comp, drop, b), NEW id \in DOMAIN tab
    PROVE  /\ Sound(id, tab[id]) /\ id = Id(tab[id].n) /\ id \in Ids
           /\ tab[id].n \in Numbers /\ tab[id].n \in (w + 1) .. nw
           /\ tab[id].completed \in BOOLEAN
<1>1. Sound(id, tab[id]) /\ id \in Ids /\ tab[id].n \in (w + 1) .. nw
  BY DEF Good
<1>2. tab[id] \in EntryType /\ tab[id].n \in Numbers /\ id = Id(tab[id].n)
  BY <1>1 DEF Sound
<1>3. tab[id].completed \in BOOLEAN
  BY <1>2, Zenon DEF EntryType
<1> QED
  BY <1>1, <1>2, <1>3

\* The parts of Good that are about numbers.
LEMMA GoodFacts ==
    ASSUME NEW tab, NEW w, NEW nw, NEW done, NEW comp, NEW drop, NEW b,
           Good(tab, w, nw, done, comp, drop, b)
    PROVE  /\ First \in Nat /\ nw \in Numbers /\ nw \in Nat /\ w \in (First - 1) .. nw
           /\ w \in Int /\ comp \in Nat /\ drop \in Nat /\ b \in Nat
           /\ IsFiniteSet(DOMAIN tab) /\ Cardinality(DOMAIN tab) \in Nat
           /\ IsFiniteSet(Incomplete(tab)) /\ Cardinality(Incomplete(tab)) \in Nat
           /\ IsFiniteSet(done)
<1>1. /\ First \in Nat /\ Last \in Nat /\ nw \in Numbers /\ w \in (First - 1) .. nw
      /\ DOMAIN tab \subseteq Ids /\ done \subseteq Numbers
      /\ comp = Cardinality(done) /\ drop \in Nat
      /\ b = comp + drop + Cardinality(Incomplete(tab))
  BY Constants DEF Good
<1>2. nw \in Nat /\ w \in Int
  BY <1>1 DEF Numbers
<1>3. Incomplete(tab) \subseteq Ids
  BY <1>1 DEF Incomplete
<1>4. IsFiniteSet(done) /\ comp \in Nat
  <2>1. IsFiniteSet(Numbers)
    BY <1>1, FS_Interval DEF Numbers
  <2> QED
    BY <1>1, <2>1, FS_Subset, FS_CardinalityType
<1>5. /\ IsFiniteSet(DOMAIN tab) /\ Cardinality(DOMAIN tab) \in Nat
      /\ IsFiniteSet(Incomplete(tab)) /\ Cardinality(Incomplete(tab)) \in Nat
  BY <1>1, <1>3, IdsAreFinite
<1>6. b \in Nat
  BY <1>1, <1>4, <1>5
<1> QED
  BY <1>1, <1>2, <1>4, <1>5, <1>6

\* The oldest entry leaves: the watermark moves up to it, and nothing above the
\* watermark has gone.
LEMMA EvictStage ==
    ASSUME NEW tab, NEW w, NEW nw, NEW done, NEW comp, NEW drop, NEW b,
           Good(tab, w, nw, done, comp, drop, b),
           NEW o \in DOMAIN tab, \A id \in DOMAIN tab : tab[o].n <= tab[id].n
    PROVE  /\ Good(Without(tab, o), tab[o].n, nw, done, comp,
                   drop + (IF tab[o].completed THEN 0 ELSE 1), b)
           /\ Cardinality(DOMAIN Without(tab, o)) = Cardinality(DOMAIN tab) - 1
<1> DEFINE R == Without(tab, o)
           D == DOMAIN tab
           v == tab[o].n
           drop2 == drop + (IF tab[o].completed THEN 0 ELSE 1)
<1>1. DOMAIN R = D \ {o} /\ \A id \in DOMAIN R : R[id] = tab[id]
  BY DEF Without, Restrict
<1> HIDE DEF R
<1>2. \A id \in D : /\ Sound(id, tab[id]) /\ id = Id(tab[id].n) /\ id \in Ids
                    /\ tab[id].n \in Numbers /\ tab[id].n \in (w + 1) .. nw
                    /\ tab[id].completed \in BOOLEAN
  BY EntryFacts
<1>3. /\ First \in Nat /\ nw \in Numbers /\ nw \in Nat /\ w \in (First - 1) .. nw
      /\ w \in Int /\ comp \in Nat /\ drop \in Nat /\ b \in Nat
      /\ IsFiniteSet(D) /\ Cardinality(D) \in Nat
      /\ IsFiniteSet(Incomplete(tab)) /\ Cardinality(Incomplete(tab)) \in Nat
  BY GoodFacts
<1>4. v \in Numbers /\ v \in (w + 1) .. nw /\ v \in Nat /\ v >= w /\ First <= v
  BY <1>2, <1>3, Constants DEF Numbers
<1>5. Cardinality(DOMAIN R) = Cardinality(D) - 1
  <2>1. Cardinality(D \ {o}) = Cardinality(D) - 1
    BY <1>3, FS_RemoveElement
  <2> QED
    BY <1>1, <2>1
<1>6. DOMAIN R \subseteq Ids /\ \A id \in DOMAIN R : Sound(id, R[id])
  BY <1>1, <1>2
<1>7. Cardinality(DOMAIN R) <= MaxPending
  BY <1>3, <1>5, Constants DEF Good
<1>8. \A id \in DOMAIN R : R[id].n \in (v + 1) .. nw
  <2> TAKE id \in DOMAIN R
  <2>1. id \in D /\ id # o /\ R[id] = tab[id]
    BY <1>1
  <2>2. tab[id].n # v /\ v <= tab[id].n /\ tab[id].n \in (w + 1) .. nw
    BY <1>2, <2>1
  <2> QED
    BY <1>3, <1>4, <2>1, <2>2
<1>9. Dense(R, v, nw)
  <2> SUFFICES ASSUME NEW x \in First .. nw, x >= v
               PROVE  nw - x <= Ahead * Cardinality(Above(R, x))
    BY DEF Dense
  <2>1. x >= w
    BY <1>3, <1>4
  <2>2. ~(v > x)
    BY <1>3, <1>4
  <2>3. Above(R, x) = Above(tab, x)
    BY <1>1, <2>2 DEF Above
  <2> QED
    BY <2>1, <2>3 DEF Good, Dense
<1>10. ASSUME NEW d \in done
       PROVE  d <= v \/ \E id \in DOMAIN R : R[id].completed /\ R[id].n = d
  <2>1. d \in Nat
    BY Constants DEF Good, Numbers
  <2>2. CASE d <= w
    BY <1>3, <1>4, <2>1, <2>2
  <2>3. ASSUME NEW id \in D, tab[id].completed, tab[id].n = d
        PROVE  d <= v \/ \E i \in DOMAIN R : R[i].completed /\ R[i].n = d
    <3>1. CASE id = o
      BY <1>4, <2>1, <2>3, <3>1
    <3>2. CASE id # o
      BY <1>1, <2>3, <3>2
    <3> QED
      BY <3>1, <3>2
  <2> QED
    BY <2>2, <2>3 DEF Good
<1>11. drop2 \in Nat /\ b = comp + drop2 + Cardinality(Incomplete(R))
  <2>1. Incomplete(R) = Incomplete(tab) \ {o}
    BY <1>1 DEF Incomplete
  <2> DEFINE c == Cardinality(Incomplete(tab))
             e == Cardinality(Incomplete(tab) \ {o})
  <2>2. e = IF o \in Incomplete(tab) THEN c - 1 ELSE c
    BY <1>3, FS_RemoveElement
  <2>3. c \in Nat /\ b = comp + drop + c
    BY <1>3 DEF Good
  <2>4. o \in Incomplete(tab) <=> ~tab[o].completed
    BY DEF Incomplete
  <2> HIDE DEF c, e
  <2>5. CASE tab[o].completed
    <3>1. drop2 = drop /\ e = c
      BY <1>3, <2>2, <2>4, <2>5
    <3> HIDE DEF drop2
    <3>2. b = comp + drop2 + e
      BY <2>3, <3>1
    <3> QED
      BY <1>3, <2>1, <3>1, <3>2 DEF e
  <2>6. CASE ~tab[o].completed
    <3>1. drop2 = drop + 1 /\ e = c - 1
      BY <1>3, <2>2, <2>4, <2>6
    <3> HIDE DEF drop2
    <3>2. b = comp + drop2 + e /\ drop2 \in Nat
      BY <1>3, <2>3, <3>1
    <3> QED
      BY <2>1, <3>2 DEF e
  <2> QED
    BY <2>5, <2>6
<1>12. v \in (First - 1) .. nw
  BY <1>3, <1>4
<1> HIDE DEF drop2
<1>13. Good(R, v, nw, done, comp, drop2, b)
  BY <1>3, <1>6, <1>7, <1>8, <1>9, <1>10, <1>11, <1>12 DEF Good
<1> QED
  BY <1>5, <1>13 DEF R, drop2

\* A new entry above the watermark: if it is the newest frame, the table stays
\* dense because the frame is not too far ahead.
LEMMA BeginStage ==
    ASSUME NEW tab, NEW w, NEW nw, NEW done, NEW comp, NEW drop, NEW b,
           Good(tab, w, nw, done, comp, drop, b),
           Cardinality(DOMAIN tab) < MaxPending,
           NEW n \in Numbers, n > w, n <= nw + Ahead, Id(n) \notin DOMAIN tab,
           NEW e, Sound(Id(n), e), e.n = n, ~e.completed
    PROVE  Good(Extended(tab, Id(n), e), w, IF n > nw THEN n ELSE nw,
                done, comp, drop, b + 1)
<1> DEFINE R == Extended(tab, Id(n), e)
           D == DOMAIN tab
           nw2 == IF n > nw THEN n ELSE nw
<1>1. /\ DOMAIN R = D \cup {Id(n)} /\ R[Id(n)] = e
      /\ \A id \in D : R[id] = tab[id]
  BY DEF Extended
<1> HIDE DEF R
<1>2. \A id \in D : /\ Sound(id, tab[id]) /\ id = Id(tab[id].n) /\ id \in Ids
                    /\ tab[id].n \in Numbers /\ tab[id].n \in (w + 1) .. nw
                    /\ tab[id].completed \in BOOLEAN
  BY EntryFacts
<1>3. /\ First \in Nat /\ nw \in Numbers /\ nw \in Nat /\ w \in (First - 1) .. nw
      /\ w \in Int /\ comp \in Nat /\ drop \in Nat /\ b \in Nat
      /\ IsFiniteSet(D) /\ Cardinality(D) \in Nat
      /\ IsFiniteSet(Incomplete(tab)) /\ Cardinality(Incomplete(tab)) \in Nat
  BY GoodFacts
<1>4. /\ n \in Nat /\ First <= n /\ Ahead \in Nat /\ MaxPending \in Nat
      /\ Last \in Nat /\ n <= Last
  BY Constants DEF Numbers
<1>5. nw2 \in Numbers /\ nw2 \in Nat /\ n <= nw2 /\ nw <= nw2 /\ w \in (First - 1) .. nw2
  BY <1>3, <1>4
<1>6. Id(n) \in Ids
  BY <1>4, IdIsId
<1>7. DOMAIN R \subseteq Ids /\ \A id \in DOMAIN R : Sound(id, R[id])
  BY <1>1, <1>2, <1>6
<1>8. Cardinality(DOMAIN R) <= MaxPending
  <2>1. Cardinality(D \cup {Id(n)}) = Cardinality(D) + 1
    BY <1>3, FS_AddElement
  <2> QED
    BY <1>1, <1>3, <1>4, <2>1
<1>9. \A id \in DOMAIN R : R[id].n \in (w + 1) .. nw2
  <2>1. n \in (w + 1) .. nw2
    BY <1>3, <1>4, <1>5
  <2>2. \A id \in D : tab[id].n \in (w + 1) .. nw2
    BY <1>2, <1>3, <1>5
  <2> HIDE DEF nw2
  <2> QED
    BY <1>1, <2>1, <2>2
<1>10. Dense(R, w, nw2)
  <2> SUFFICES ASSUME NEW x \in First .. nw2, x >= w
               PROVE  nw2 - x <= Ahead * Cardinality(Above(R, x))
    BY DEF Dense
  <2> DEFINE A == Above(tab, x)
             B == Above(R, x)
             c == Cardinality(A)
             k == Cardinality(B)
  <2>1. x \in Nat /\ First <= x /\ x <= nw2
    BY <1>3, <1>5
  <2>2. B = IF n > x THEN A \cup {Id(n)} ELSE A
    BY <1>1 DEF Above
  <2>3. Id(n) \notin A /\ A \subseteq Ids
    BY <1>2 DEF Above
  <2>4. IsFiniteSet(A) /\ c \in Nat
    BY <2>3, IdsAreFinite
  <2>5. k = IF n > x THEN c + 1 ELSE c
    <3>1. Cardinality(A \cup {Id(n)}) = c + 1
      BY <2>3, <2>4, FS_AddElement
    <3> QED
      BY <2>2, <3>1
  <2>6. x <= nw => nw - x <= Ahead * c
    <3>1. ASSUME x <= nw PROVE x \in First .. nw
      BY <1>3, <2>1, <3>1
    <3> QED
      BY <3>1 DEF Good, Dense
  <2> HIDE DEF A, B, c, k
  <2>7. Ahead * c \in Nat /\ Ahead * (c + 1) = Ahead * c + Ahead
    BY <1>4, <2>4
  <2>8. nw2 - x <= Ahead * k
    <3>1. CASE x <= nw /\ n > nw
      <4>1. k = c + 1 /\ nw2 = n
        BY <1>3, <1>4, <2>1, <2>5, <3>1
      <4>2. n - x <= Ahead * c + Ahead
        BY <1>3, <1>4, <2>1, <2>6, <2>7, <3>1
      <4> QED
        BY <2>7, <4>1, <4>2
    <3>2. CASE x <= nw /\ ~(n > nw)
      <4>1. nw2 = nw /\ nw - x <= Ahead * c
        BY <2>6, <3>2
      <4>2. k = c \/ k = c + 1
        BY <2>5
      <4> QED
        BY <1>3, <1>4, <2>1, <2>7, <4>1, <4>2
    <3>3. CASE x > nw
      <4>1. nw2 = n /\ n - x <= Ahead
        BY <1>3, <1>4, <2>1, <3>3
      <4>2. CASE n > x
        <5>1. k = c + 1
          BY <2>5, <4>2
        <5> QED
          BY <1>4, <2>1, <2>7, <4>1, <5>1
      <4>3. CASE ~(n > x)
        <5>1. k = c /\ n - x <= 0
          BY <1>4, <2>1, <2>5, <4>3
        <5> QED
          BY <1>4, <2>1, <2>7, <4>1, <5>1
      <4> QED
        BY <4>2, <4>3
    <3> QED
      BY <1>3, <2>1, <3>1, <3>2, <3>3
  <2> QED
    BY <2>8 DEF k, B
<1>11. ASSUME NEW d \in done
       PROVE  d <= w \/ \E id \in DOMAIN R : R[id].completed /\ R[id].n = d
  BY <1>1 DEF Good
<1>12. b + 1 = comp + drop + Cardinality(Incomplete(R))
  <2>1. Incomplete(R) = Incomplete(tab) \cup {Id(n)}
    BY <1>1 DEF Incomplete
  <2>2. Id(n) \notin Incomplete(tab)
    BY DEF Incomplete
  <2> DEFINE c == Cardinality(Incomplete(tab))
             k == Cardinality(Incomplete(R))
  <2>3. k = c + 1
    BY <1>3, <2>1, <2>2, FS_AddElement
  <2>4. c \in Nat /\ b = comp + drop + c
    BY <1>3 DEF Good
  <2> HIDE DEF c, k
  <2>5. b + 1 = comp + drop + k
    BY <1>3, <2>3, <2>4
  <2> QED
    BY <2>5 DEF k
<1> HIDE DEF nw2
<1>13. done \subseteq Numbers /\ comp = Cardinality(done)
  BY DEF Good
<1>14. Good(R, w, nw2, done, comp, drop, b + 1)
  BY <1>3, <1>5, <1>7, <1>8, <1>9, <1>10, <1>11, <1>12, <1>13 DEF Good
<1> QED
  BY <1>14 DEF R, nw2

\* A fragment goes into an entry that is not complete: either the entry is still
\* not complete, or its frame is done, for the first time.
LEMMA StoreStage ==
    ASSUME NEW tab, NEW w, NEW nw, NEW done, NEW comp, NEW drop, NEW b,
           Good(tab, w, nw, done, comp, drop, b),
           NEW id \in DOMAIN tab, ~tab[id].completed,
           NEW e, Sound(id, e), e.n = tab[id].n
    PROVE  /\ ~e.completed => Good(Extended(tab, id, e), w, nw, done, comp, drop, b)
           /\ e.completed => Good(Extended(tab, id, e), w, nw, done \cup {e.n},
                                  comp + 1, drop, b)
<1> DEFINE R == Extended(tab, id, e)
           D == DOMAIN tab
           n == e.n
<1>1. DOMAIN R = D /\ R[id] = e /\ \A i \in D : i # id => R[i] = tab[i]
  BY DEF Extended
<1> HIDE DEF R
<1>2. \A i \in D : /\ Sound(i, tab[i]) /\ i = Id(tab[i].n) /\ i \in Ids
                   /\ tab[i].n \in Numbers /\ tab[i].n \in (w + 1) .. nw
                   /\ tab[i].completed \in BOOLEAN
  BY EntryFacts
<1>3. /\ First \in Nat /\ nw \in Numbers /\ nw \in Nat /\ w \in (First - 1) .. nw
      /\ w \in Int /\ comp \in Nat /\ drop \in Nat /\ b \in Nat
      /\ IsFiniteSet(D) /\ Cardinality(D) \in Nat /\ IsFiniteSet(done)
      /\ IsFiniteSet(Incomplete(tab)) /\ Cardinality(Incomplete(tab)) \in Nat
  BY GoodFacts
<1>4. \A i \in D : R[i].n = tab[i].n
  BY <1>1
<1>5. /\ DOMAIN R \subseteq Ids /\ \A i \in DOMAIN R : Sound(i, R[i])
      /\ Cardinality(DOMAIN R) <= MaxPending
      /\ \A i \in DOMAIN R : R[i].n \in (w + 1) .. nw
  BY <1>1, <1>2, <1>4 DEF Good
<1>6. Dense(R, w, nw)
  <2>1. \A x : Above(R, x) = Above(tab, x)
    BY <1>1, <1>4 DEF Above
  <2> QED
    BY <2>1 DEF Good, Dense
<1>7. /\ \A d \in done : d <= w \/ \E i \in D : tab[i].completed /\ tab[i].n = d
      /\ done \subseteq Numbers /\ comp = Cardinality(done)
      /\ b = comp + drop + Cardinality(Incomplete(tab))
  BY DEF Good
<1>8. n \notin done
  <2> SUFFICES ASSUME n \in done PROVE FALSE
    OBVIOUS
  <2>1. n \in (w + 1) .. nw /\ id = Id(n)
    BY <1>2
  <2>2. ~(n <= w)
    BY <1>3, <2>1
  <2>3. PICK i \in D : tab[i].completed /\ tab[i].n = n
    BY <1>7, <2>2
  <2>4. i = id
    BY <1>2, <2>1, <2>3
  <2> QED
    BY <2>3, <2>4
<1>9. \A d \in done : d <= w \/ \E i \in DOMAIN R : R[i].completed /\ R[i].n = d
  <2> TAKE d \in done
  <2>1. ASSUME NEW i \in D, tab[i].completed, tab[i].n = d
        PROVE  i \in DOMAIN R /\ R[i].completed /\ R[i].n = d
    BY <1>1, <2>1
  <2> QED
    BY <1>7, <2>1
<1>10. ASSUME ~e.completed PROVE Good(R, w, nw, done, comp, drop, b)
  <2>1. Incomplete(R) = Incomplete(tab)
    BY <1>1, <1>10 DEF Incomplete
  <2> QED
    BY <1>3, <1>5, <1>6, <1>7, <1>9, <2>1 DEF Good
<1>11. ASSUME e.completed PROVE Good(R, w, nw, done \cup {n}, comp + 1, drop, b)
  <2>1. Incomplete(R) = Incomplete(tab) \ {id} /\ id \in Incomplete(tab)
    BY <1>1, <1>11 DEF Incomplete
  <2> DEFINE c == Cardinality(Incomplete(tab))
             k == Cardinality(Incomplete(R))
  <2>2. k = c - 1
    BY <1>3, <2>1, FS_RemoveElement
  <2>3. c \in Nat /\ b = comp + drop + c
    BY <1>3, <1>7
  <2> HIDE DEF c, k
  <2>4. b = (comp + 1) + drop + k
    BY <1>3, <2>2, <2>3
  <2>5. comp + 1 = Cardinality(done \cup {n})
    BY <1>3, <1>7, <1>8, FS_AddElement
  <2>6. done \cup {n} \subseteq Numbers
    BY <1>2, <1>7
  <2>7. \A d \in done \cup {n} : d <= w \/ \E i \in DOMAIN R : R[i].completed /\ R[i].n = d
    BY <1>1, <1>9, <1>11
  <2> HIDE DEF n
  <2> QED
    BY <1>3, <1>5, <1>6, <2>4, <2>5, <2>6, <2>7 DEF Good, k
<1> QED
  BY <1>10, <1>11 DEF R

-----------------------------------------------------------------------------
(* A packet.                                                               *)

\* Storing a fragment that is missing keeps the entry sound; an entry that is
\* complete has every fragment.
LEMMA StoredIsSound ==
    ASSUME NEW p \in Packets, NEW e, Sound(Id(p.n), e), ~e.completed, e.n = p.n,
           e.count = p.count, p.idx < p.count, p.idx \notin DOMAIN e.from
    PROVE  LET now == Stored(e, p)
           IN  /\ Sound(Id(p.n), now) /\ now.n = p.n /\ now.count = p.count
               /\ now.from \in FromTable
               /\ now.completed =>
                     /\ DOMAIN now.from = 0 .. now.count - 1
                     /\ \A k \in DOMAIN now.from : now.from[k] = p.n
<1> DEFINE D == DOMAIN e.from
           F == [i \in D \cup {p.idx} |-> IF i = p.idx THEN p.n ELSE e.from[i]]
           I == 0 .. p.count - 1
           now == Stored(e, p)
<1>1. /\ Frags \in Nat \ {0} /\ First \in Nat /\ Last \in Nat
      /\ p.n \in Numbers /\ p.n \in Nat /\ p.idx \in Nat
      /\ p.count \in Nat \ {0} /\ p.count \in {Frags, Frags + 1}
  BY Constants DEF Packets, Numbers
<1>2. /\ e \in EntryType /\ D \subseteq I /\ \A i \in D : e.from[i] = p.n
      /\ e.received = Cardinality(D) /\ ~(e.received = p.count)
  BY DEF Sound
<1>3. /\ e.received \in Nat /\ e.from \in FromTable /\ Id(p.n) = Id(e.n)
  BY <1>2 DEF EntryType
<1>4. p.idx \in I
  BY <1>1
<1>5. IsFiniteSet(I) /\ Cardinality(I) = p.count
  <2>1. 0 \in Int /\ p.count - 1 \in Int
    BY <1>1
  <2>2. IsFiniteSet(I) /\ Cardinality(I) = IF 0 > p.count - 1 THEN 0 ELSE (p.count - 1) - 0 + 1
    BY <2>1, FS_Interval
  <2> HIDE DEF I
  <2> QED
    BY <1>1, <2>2
<1>6. IsFiniteSet(D) /\ Cardinality(D \cup {p.idx}) = Cardinality(D) + 1
  <2>1. IsFiniteSet(D)
    BY <1>2, <1>5, FS_Subset
  <2> QED
    BY <2>1, FS_AddElement
<1>7. D \cup {p.idx} \subseteq I /\ I \subseteq 0 .. Frags
  BY <1>1, <1>2, <1>4
<1>8. /\ DOMAIN F = D \cup {p.idx} /\ \A i \in DOMAIN F : F[i] = p.n
  BY <1>2
<1>9. F \in FromTable
  <2>1. F \in [D \cup {p.idx} -> Numbers]
    BY <1>1, <1>2
  <2>2. D \cup {p.idx} \in SUBSET (0 .. Frags)
    BY <1>7
  <2> HIDE DEF D, F
  <2> QED
    BY <2>1, <2>2 DEF FromTable
<1> DEFINE full == e.received + 1 = e.count
           r == e.received + 1
<1>10. now = [e EXCEPT !.from = F, !.received = r, !.completed = full]
  BY DEF Stored
<1>11. /\ full \in BOOLEAN /\ (full <=> r = p.count)
       /\ r \in Nat /\ r = Cardinality(D) + 1
  BY <1>2, <1>3
<1> HIDE DEF F, I, D, now, full, r
<1>12. /\ now \in EntryType /\ now.n = p.n /\ now.count = p.count /\ now.from = F
       /\ now.received = r /\ now.completed = full
  BY <1>2, <1>9, <1>10, <1>11 DEF EntryType
<1>13. now.completed <=> now.received = now.count
  BY <1>11, <1>12
<1>14. now.received = Cardinality(DOMAIN now.from)
  BY <1>6, <1>8, <1>11, <1>12
<1>15. Sound(Id(p.n), now)
  BY <1>1, <1>7, <1>8, <1>12, <1>13, <1>14 DEF Sound, I
<1>16. ASSUME now.completed
       PROVE  /\ DOMAIN now.from = 0 .. now.count - 1
              /\ \A k \in DOMAIN now.from : now.from[k] = p.n
  <2>1. Cardinality(DOMAIN F) = Cardinality(I)
    BY <1>5, <1>12, <1>13, <1>14, <1>16
  <2>2. DOMAIN F \in SUBSET I
    BY <1>7, <1>8
  <2>3. DOMAIN F = I
    BY <1>5, <2>1, <2>2, FS_Subset
  <2> QED
    BY <1>8, <1>12, <2>3 DEF I
<1> QED
  BY <1>9, <1>12, <1>15, <1>16 DEF now

\* A new entry is sound and not complete.
LEMMA NewIsSound ==
    ASSUME NEW p \in Packets
    PROVE  LET e == NewEntry(p)
           IN  /\ Sound(Id(p.n), e) /\ e.n = p.n /\ e.count = p.count
               /\ ~e.completed /\ DOMAIN e.from = {}
<1>1. /\ Frags \in Nat \ {0} /\ First \in Nat /\ Last \in Nat
      /\ p.n \in Numbers /\ p.n \in Nat /\ p.count \in Nat \ {0}
      /\ p.count \in {Frags, Frags + 1}
  BY Constants DEF Packets, Numbers
<1>2. DOMAIN <<>> = {} /\ <<>> \in [{} -> Numbers]
  OBVIOUS
<1>3. <<>> \in FromTable
  BY <1>2 DEF FromTable
<1>4. NewEntry(p) \in EntryType
  BY <1>1, <1>3 DEF NewEntry, EntryType
<1>5. Cardinality({}) = 0
  BY FS_EmptySet
<1> QED
  BY <1>1, <1>2, <1>4, <1>5 DEF NewEntry, Sound

\* What offer() finds out from the ids, as facts about frame numbers.
LEMMA PacketFacts ==
    ASSUME NEW w, NEW done, NEW comp, NEW drop, NEW b,
           Good(pending, w, newest, done, comp, drop, b),
           retired = IF w < First THEN {} ELSE {Id(w)},
           NEW p \in Packets, p.n >= newest - Back, p.n <= newest + Ahead
    PROVE  LET id == Id(p.n)
           IN  /\ IsRetired(id) <=> p.n <= w
               /\ id \in DOMAIN pending => pending[id].n = p.n
               /\ DOMAIN pending # {} =>
                     /\ OldestId \in DOMAIN pending
                     /\ \A i \in DOMAIN pending : pending[OldestId].n <= pending[i].n
                     /\ Newer(id, OldestId) <=> p.n > pending[OldestId].n
<1> DEFINE D == DOMAIN pending
           n == p.n
           id == Id(p.n)
<1>1. \A i \in D : /\ i = Id(pending[i].n) /\ pending[i].n \in (w + 1) .. newest
                   /\ pending[i].n \in Numbers
  BY EntryFacts
<1>2. /\ First \in Nat /\ newest \in Numbers /\ newest \in Nat
      /\ w \in (First - 1) .. newest /\ w \in Int
  BY GoodFacts
<1>3. /\ D \subseteq Ids /\ Cardinality(D) <= MaxPending /\ Dense(pending, w, newest)
  BY DEF Good
<1>4. n \in Numbers /\ n \in Nat /\ First <= n
  BY Constants DEF Packets, Numbers
<1>5. \A i \in D : /\ pending[i].n \in First .. newest /\ pending[i].n >= w
                   /\ pending[i].n \in Nat
  BY <1>1, <1>2
<1>6. ASSUME NEW x \in First .. newest, x >= w
      PROVE  /\ Newer(id, Id(x)) <=> n > x
             /\ id = Id(x) => n = x
  <2>1. 2 * (n - x) < IdMod /\ 2 * (x - n) < IdMod
    BY <1>2, <1>3, <1>4, <1>6, PacketWithinReach
  <2>2. x \in Nat
    BY <1>2
  <2> QED
    BY <1>4, <2>1, <2>2, IdOrder
<1>7. IsRetired(id) <=> n <= w
  <2>1. CASE w < First
    BY <1>2, <1>4, <2>1 DEF IsRetired
  <2>2. CASE ~(w < First)
    <3>1. w \in First .. newest /\ w >= w /\ retired = {Id(w)}
      BY <1>2, <2>2
    <3>2. IsRetired(id) <=> ~(n > w)
      BY <1>6, <3>1 DEF IsRetired
    <3> QED
      BY <1>2, <1>4, <3>2
  <2> QED
    BY <2>1, <2>2
<1>8. id \in D => pending[id].n = n
  BY <1>1, <1>5, <1>6
<1>9. ASSUME D # {}
      PROVE  /\ OldestId \in D
             /\ \A i \in D : pending[OldestId].n <= pending[i].n
             /\ Newer(id, OldestId) <=> n > pending[OldestId].n
  <2>1. ASSUME NEW i \in D, NEW j \in D
        PROVE  Newer(i, j) <=> pending[i].n > pending[j].n
    <3> DEFINE x == pending[i].n
               y == pending[j].n
    <3>1. /\ x \in First .. newest /\ x >= w /\ y \in First .. newest /\ y >= w
          /\ x \in Nat /\ y \in Nat /\ i = Id(x) /\ j = Id(y)
      BY <1>1, <1>5
    <3> HIDE DEF x, y
    <3>2. 2 * (x - y) < IdMod /\ 2 * (y - x) < IdMod
      BY <1>2, <1>3, <3>1, TableWithinReach
    <3>3. Newer(Id(x), Id(y)) <=> x > y
      BY <3>1, <3>2, IdOrder
    <3> QED
      BY <3>1, <3>3 DEF x, y
  <2> DEFINE S == {pending[i].n : i \in D}
  <2>2. S \subseteq Nat /\ S # {}
    BY <1>5, <1>9
  <2>3. PICK x \in S : \A y \in S : x <= y
    BY <2>2, Lib!LeastNatural
  <2>4. PICK o \in D : pending[o].n = x
    BY <2>3
  <2>5. \A i \in D : ~Newer(o, i)
    <3> TAKE i \in D
    <3>1. x <= pending[i].n
      BY <2>3
    <3> QED
      BY <1>5, <2>1, <2>4, <3>1
  <2>6. OldestId \in D /\ \A i \in D : ~Newer(OldestId, i)
    BY <2>5, Zenon DEF OldestId
  <2> HIDE DEF D
  <2>7. \A i \in D : pending[OldestId].n <= pending[i].n
    <3> TAKE i \in D
    <3>1. ~(pending[OldestId].n > pending[i].n)
      BY <2>1, <2>6
    <3> QED
      BY <1>5, <2>6, <3>1
  <2>8. Newer(id, OldestId) <=> n > pending[OldestId].n
    BY <1>1, <1>5, <1>6, <2>6
  <2> QED
    BY <2>6, <2>7, <2>8
<1> QED
  BY <1>7, <1>8, <1>9

\* The frame counters are left alone by the sequence statistics.
LEMMA TrackedStats ==
    ASSUME NEW seq \in Nat, stats \in StatsType
    PROVE  LET st == Tracked([stats EXCEPT !.packetsReceived = @ + 1], seq)
           IN  /\ st \in StatsType
               /\ st.framesCompleted = stats.framesCompleted
               /\ st.framesDropped = stats.framesDropped
               /\ st.packetsReceived = stats.packetsReceived + 1
<1> DEFINE s1 == [stats EXCEPT !.packetsReceived = @ + 1]
<1>1. /\ s1 \in StatsType /\ s1.packetsReceived = stats.packetsReceived + 1
      /\ s1.framesCompleted = stats.framesCompleted
      /\ s1.framesDropped = stats.framesDropped
  <2>1. stats.packetsReceived + 1 \in Nat
    BY DEF StatsType
  <2> QED
    BY <2>1 DEF StatsType
<1> HIDE DEF s1
<1>2. Tracked(s1, seq) \in
          {[s1 EXCEPT !.started = TRUE, !.baseSeq = seq, !.highestSeq = seq],
           [s1 EXCEPT !.highestSeq = seq], s1}
  BY DEF Tracked
<1> QED
  BY <1>1, <1>2 DEF StatsType, s1

\* Keep(): tab is the table with the entry in it, now the entry it leaves there.
LEMMA KeepStep ==
    ASSUME NEW p \in Packets, NEW st \in StatsType, NEW entry,
           NEW tab, NEW w, NEW nw, NEW b,
           Good(tab, w, nw, delivered, st.framesCompleted, st.framesDropped, b),
           Id(p.n) \in DOMAIN tab, tab[Id(p.n)] = entry,
           ~entry.completed, entry.n = p.n, entry.count = p.count,
           p.idx < p.count, p.idx \notin DOMAIN entry.from,
           ready \in Seq(FrameType), DeliveredWhole,
           NEW now, now = Stored(entry, p), pending' = Extended(tab, Id(p.n), now),
           now.completed =>
               /\ ready' = Append(ready, [n |-> p.n, from |-> now.from,
                                          count |-> now.count])
               /\ delivered' = delivered \cup {p.n}
               /\ stats' = [st EXCEPT !.framesCompleted = @ + 1],
           ~now.completed => stats' = st /\ ready' = ready /\ delivered' = delivered
    PROVE  /\ Good(pending', w, nw, delivered', stats'.framesCompleted,
                   stats'.framesDropped, b)
           /\ stats' \in StatsType /\ ready' \in Seq(FrameType) /\ DeliveredWhole'
<1> DEFINE id == Id(p.n)
           st2 == [st EXCEPT !.framesCompleted = @ + 1]
           frame == [n |-> p.n, from |-> now.from, count |-> now.count]
<1>1. id \in DOMAIN tab /\ Sound(id, entry)
  BY EntryFacts
<1>2. /\ Sound(id, now) /\ now.n = p.n /\ now.count = p.count /\ now.from \in FromTable
      /\ now.completed =>
            /\ DOMAIN now.from = 0 .. now.count - 1
            /\ \A k \in DOMAIN now.from : now.from[k] = p.n
  BY <1>1, StoredIsSound
<1>4. /\ ~now.completed =>
            Good(pending', w, nw, delivered, st.framesCompleted, st.framesDropped, b)
      /\ now.completed =>
            Good(pending', w, nw, delivered \cup {p.n}, st.framesCompleted + 1,
                 st.framesDropped, b)
  <2> DEFINE c == st.framesCompleted
             d == st.framesDropped
             T == Extended(tab, id, now)
  <2>1. /\ Good(tab, w, nw, delivered, c, d, b) /\ id \in DOMAIN tab
        /\ ~tab[id].completed /\ Sound(id, now) /\ now.n = tab[id].n /\ now.n = p.n
        /\ pending' = T
    BY <1>1, <1>2
  <2> HIDE DEF c, d, id
  <2>2. /\ ~now.completed => Good(T, w, nw, delivered, c, d, b)
        /\ now.completed => Good(T, w, nw, delivered \cup {now.n}, c + 1, d, b)
    BY <2>1, StoreStage
  <2> QED
    BY <2>1, <2>2 DEF c, d
<1>5. CASE ~now.completed
  <2>1. stats' = st /\ ready' = ready /\ delivered' = delivered
    BY <1>5
  <2> QED
    BY <1>4, <1>5, <2>1 DEF DeliveredWhole
<1>6. CASE now.completed
  <2>1. ready' = Append(ready, frame) /\ delivered' = delivered \cup {p.n} /\ stats' = st2
    BY <1>6
  <2>2. /\ st2 \in StatsType /\ st2.framesCompleted = st.framesCompleted + 1
        /\ st2.framesDropped = st.framesDropped
    <3>1. st.framesCompleted + 1 \in Nat
      BY DEF StatsType
    <3> QED
      BY <3>1 DEF StatsType
  <2>3. frame \in FrameType
    <3>1. now.count \in Nat /\ p.n \in Nat
      <4>1. Frags \in Nat /\ First \in Nat /\ Last \in Nat
        BY Constants
      <4>2. now.count = p.count
        BY <1>2
      <4> QED
        BY <4>1, <4>2 DEF Packets
    <3> QED
      BY <1>2, <3>1 DEF FrameType
  <2>4. /\ frame.n = p.n /\ DOMAIN frame.from = 0 .. frame.count - 1
        /\ \A k \in DOMAIN frame.from : frame.from[k] = frame.n
    BY <1>2, <1>6
  <2> HIDE DEF frame, st2
  <2>5. /\ ready' \in Seq(FrameType) /\ Len(ready') = Len(ready) + 1
        /\ Len(ready) \in Nat
        /\ \A i \in 1 .. Len(ready) : ready'[i] = ready[i]
        /\ ready'[Len(ready) + 1] = frame
    BY <2>1, <2>3, AppendProperties, LenProperties
  <2>6. DeliveredWhole'
    <3> SUFFICES ASSUME NEW i \in 1 .. Len(ready')
                 PROVE  /\ DOMAIN ready'[i].from = 0 .. ready'[i].count - 1
                        /\ \A k \in DOMAIN ready'[i].from :
                              ready'[i].from[k] = ready'[i].n
      BY DEF DeliveredWhole
    <3>1. CASE i \in 1 .. Len(ready)
      BY <2>5, <3>1 DEF DeliveredWhole
    <3>2. CASE i = Len(ready) + 1
      BY <2>4, <2>5, <3>2
    <3> QED
      BY <2>5, <3>1, <3>2
  <2> QED
    BY <1>4, <1>6, <2>1, <2>2, <2>5, <2>6
<1> QED
  BY <1>5, <1>6

\* What is in a new entry's place does not matter.
LEMMA ExtendedTwice ==
    ASSUME NEW tab, NEW id, NEW e, NEW now
    PROVE  Extended(tab, id, now) = Extended(Extended(tab, id, e), id, now)
<1> DEFINE X == Extended(tab, id, e)
           D == DOMAIN tab \cup {id}
<1>1. DOMAIN X = D /\ D \cup {id} = D /\ \A i \in D : i # id => X[i] = tab[i]
  BY DEF Extended
<1> HIDE DEF X
<1>2. \A i \in D :
          (IF i = id THEN now ELSE tab[i]) = (IF i = id THEN now ELSE X[i])
  BY <1>1
<1>3. Extended(X, id, now) = [i \in D |-> IF i = id THEN now ELSE X[i]]
  BY <1>1 DEF Extended
<1>4. Extended(tab, id, now) = [i \in D |-> IF i = id THEN now ELSE tab[i]]
  BY DEF Extended
<1> QED
  BY <1>2, <1>3, <1>4 DEF X

\* A packet of a frame that has no entry yet.
LEMMA BeginStep ==
    ASSUME TypeOK, DeliveredWhole, NEW w,
           retired = IF w < First THEN {} ELSE {Id(w)},
           Good(pending, w, newest, delivered,
                stats.framesCompleted, stats.framesDropped, begun),
           NEW p \in Packets, p.n >= newest - Back, p.n <= newest + Ahead,
           p.idx < p.count,
           NEW st \in StatsType, st.framesCompleted = stats.framesCompleted,
           st.framesDropped = stats.framesDropped,
           Begin(st, p), Id(p.n) \notin DOMAIN pending, p.n > w,
           ~IsTooOld(Id(p.n)),
           newest' = IF p.n > newest THEN p.n ELSE newest
    PROVE  IInv'
<1> DEFINE id == Id(p.n)
           D == DOMAIN pending
           e == NewEntry(p)
<1>1. /\ First \in Nat /\ newest \in Numbers /\ newest \in Nat
      /\ w \in (First - 1) .. newest /\ w \in Int /\ Cardinality(D) \in Nat
      /\ p.n \in Numbers /\ p.n \in Nat /\ MaxPending \in Nat \ {0}
      /\ ready \in Seq(FrameType) /\ Cardinality(D) <= MaxPending
  <2>1. /\ newest \in Numbers /\ newest \in Nat /\ w \in (First - 1) .. newest
        /\ w \in Int /\ Cardinality(D) \in Nat
    BY GoodFacts
  <2>2. First \in Nat /\ Last \in Nat /\ MaxPending \in Nat \ {0}
    BY Constants
  <2>3. p.n \in Numbers /\ p.n \in Nat
    BY <2>2 DEF Packets, Numbers
  <2>4. ready \in Seq(FrameType)
    BY DEF TypeOK
  <2>5. Cardinality(D) <= MaxPending
    BY DEF Good
  <2> QED
    BY <2>1, <2>2, <2>3, <2>4, <2>5
<1>2. /\ Sound(id, e) /\ e.n = p.n /\ e.count = p.count /\ ~e.completed
      /\ DOMAIN e.from = {}
  BY NewIsSound
<1> HIDE DEF e
<1>3. begun' = begun + 1
  BY DEF Begin
<1>4. CASE ~IsFull
  <2> DEFINE tab == Extended(pending, id, e)
  <2>1. Cardinality(D) < MaxPending
    BY <1>1, <1>4 DEF IsFull
  <2>2. Good(tab, w, newest', delivered, st.framesCompleted, st.framesDropped, begun')
    BY <1>1, <1>2, <1>3, <2>1, BeginStage
  <2>3. Keep(st, p, pending, e) /\ retired' = retired
    BY <1>4 DEF Begin, e
  <2>4. Id(p.n) \in DOMAIN tab /\ tab[Id(p.n)] = e
    BY DEF Extended
  <2> HIDE DEF tab
  <2>5. /\ Good(pending', w, newest', delivered', stats'.framesCompleted,
                stats'.framesDropped, begun')
        /\ stats' \in StatsType /\ ready' \in Seq(FrameType) /\ DeliveredWhole'
    <3>1. p.idx \notin DOMAIN e.from
      BY <1>2
    <3>2. PICK nw : nw = newest'
      OBVIOUS
    <3>3. PICK b : b = begun'
      OBVIOUS
    <3>4. Good(tab, w, nw, delivered, st.framesCompleted, st.framesDropped, b)
      BY <2>2, <3>2, <3>3
    <3>5. PICK now : now = Stored(e, p)
      OBVIOUS
    <3>6. pending' = Extended(tab, Id(p.n), now)
      <4>1. pending' = Extended(pending, Id(p.n), now)
        BY <2>3, <3>5 DEF Keep, Extended
      <4>2. Extended(pending, Id(p.n), now)
                = Extended(Extended(pending, Id(p.n), e), Id(p.n), now)
        BY ExtendedTwice
      <4> QED
        BY <4>1, <4>2 DEF tab
    <3>7. /\ now.completed =>
                /\ ready' = Append(ready, [n |-> p.n, from |-> now.from,
                                           count |-> now.count])
                /\ delivered' = delivered \cup {p.n}
                /\ stats' = [st EXCEPT !.framesCompleted = @ + 1]
          /\ ~now.completed => stats' = st /\ ready' = ready /\ delivered' = delivered
      BY <2>3, <3>5 DEF Keep
    <3>8. /\ Good(pending', w, nw, delivered', stats'.framesCompleted,
                  stats'.framesDropped, b)
          /\ stats' \in StatsType /\ ready' \in Seq(FrameType) /\ DeliveredWhole'
      BY <1>1, <1>2, <2>4, <3>1, <3>4, <3>5, <3>6, <3>7, KeepStep
    <3> QED
      BY <3>2, <3>3, <3>8
  <2>6. w \in (First - 1) .. newest'
    BY <1>1
  <2> QED
    BY <2>3, <2>5, <2>6 DEF IInv, TypeOK, TableInv
<1>5. CASE IsFull
  <2> DEFINE o == OldestId
             T == Without(pending, o)
             v == pending[o].n
             s2 == [st EXCEPT !.framesDropped = @ + (IF o \in Partial THEN 1 ELSE 0)]
             tab == Extended(T, id, e)
  <2>1. D # {}
    <3>1. Cardinality(D) # 0
      BY <1>1, <1>5 DEF IsFull
    <3> QED
      BY <3>1, FS_EmptySet
  <2>2. /\ o \in D /\ \A i \in D : v <= pending[i].n
        /\ Newer(id, o) <=> p.n > v
    BY <2>1, PacketFacts
  <2>3. p.n > v
    BY <1>5, <2>2 DEF IsTooOld
  <2>4. /\ retired' = {o} /\ Keep(s2, p, T, e)
    BY <1>5 DEF Begin, Evict, Without, e
  <2>5. /\ v \in (w + 1) .. newest /\ o = Id(v) /\ v \in Numbers
        /\ pending[o].completed \in BOOLEAN
    BY <2>2, EntryFacts
  <2> HIDE DEF o, T
  <2>6. /\ s2 \in StatsType /\ s2.framesCompleted = stats.framesCompleted
        /\ s2.framesDropped
               = stats.framesDropped + (IF pending[o].completed THEN 0 ELSE 1)
    <3> DEFINE k == IF o \in Partial THEN 1 ELSE 0
    <3>1. k = (IF pending[o].completed THEN 0 ELSE 1) /\ k \in Nat
      BY <2>2 DEF Partial
    <3> HIDE DEF k
    <3>2. st.framesDropped + k \in Nat /\ s2 = [st EXCEPT !.framesDropped = @ + k]
      BY <3>1 DEF StatsType, k
    <3> HIDE DEF s2
    <3>3. /\ s2 \in StatsType /\ s2.framesCompleted = st.framesCompleted
          /\ s2.framesDropped = st.framesDropped + k
      BY <3>2 DEF StatsType
    <3> QED
      BY <3>1, <3>3
  <2> HIDE DEF s2
  <2>7. /\ Good(T, v, newest, delivered, s2.framesCompleted, s2.framesDropped, begun)
        /\ Cardinality(DOMAIN T) = Cardinality(D) - 1
        /\ DOMAIN T \subseteq D
    <3>1. /\ Good(T, v, newest, delivered, stats.framesCompleted,
                  stats.framesDropped + (IF pending[o].completed THEN 0 ELSE 1), begun)
          /\ Cardinality(DOMAIN T) = Cardinality(D) - 1
      BY <2>2, EvictStage DEF T
    <3>2. DOMAIN T \subseteq D
      BY DEF T, Without, Restrict
    <3> QED
      BY <2>6, <3>1, <3>2
  <2>8. Cardinality(DOMAIN T) < MaxPending
    BY <1>1, <2>7
  <2>9. Good(tab, v, newest', delivered, s2.framesCompleted, s2.framesDropped, begun')
    <3>1. id \notin DOMAIN T
      BY <2>7
    <3> HIDE DEF v
    <3> QED
      BY <1>1, <1>2, <1>3, <2>3, <2>7, <2>8, <3>1, BeginStage
  <2>10. Id(p.n) \in DOMAIN tab /\ tab[Id(p.n)] = e
    BY DEF Extended
  <2> HIDE DEF tab
  <2>11. /\ Good(pending', v, newest', delivered', stats'.framesCompleted,
                 stats'.framesDropped, begun')
         /\ stats' \in StatsType /\ ready' \in Seq(FrameType) /\ DeliveredWhole'
    <3>1. p.idx \notin DOMAIN e.from
      BY <1>2
    <3>2. PICK nw : nw = newest'
      OBVIOUS
    <3>3. PICK b : b = begun'
      OBVIOUS
    <3>4. Good(tab, v, nw, delivered, s2.framesCompleted, s2.framesDropped, b)
      BY <2>9, <3>2, <3>3
    <3> HIDE DEF v
    <3>5. PICK now : now = Stored(e, p)
      OBVIOUS
    <3>6. pending' = Extended(tab, Id(p.n), now)
      <4>1. pending' = Extended(T, Id(p.n), now)
        BY <2>4, <3>5 DEF Keep, Extended
      <4>2. Extended(T, Id(p.n), now)
                = Extended(Extended(T, Id(p.n), e), Id(p.n), now)
        BY ExtendedTwice
      <4> QED
        BY <4>1, <4>2 DEF tab
    <3>7. /\ now.completed =>
                /\ ready' = Append(ready, [n |-> p.n, from |-> now.from,
                                           count |-> now.count])
                /\ delivered' = delivered \cup {p.n}
                /\ stats' = [s2 EXCEPT !.framesCompleted = @ + 1]
          /\ ~now.completed => stats' = s2 /\ ready' = ready /\ delivered' = delivered
      BY <2>4, <3>5 DEF Keep
    <3>8. /\ Good(pending', v, nw, delivered', stats'.framesCompleted,
                  stats'.framesDropped, b)
          /\ stats' \in StatsType /\ ready' \in Seq(FrameType) /\ DeliveredWhole'
      BY <1>1, <1>2, <2>6, <2>10, <3>1, <3>4, <3>5, <3>6, <3>7, KeepStep
    <3> QED
      BY <3>2, <3>3, <3>8
  <2>12. /\ v \in (First - 1) .. newest' /\ ~(v < First)
    <3> HIDE DEF v
    <3>1. /\ v \in Nat /\ First <= v /\ v <= newest /\ newest \in Nat /\ First \in Nat
      BY <1>1, <2>5, Constants DEF Numbers
    <3>2. newest <= newest' /\ newest' \in Nat
      BY <1>1
    <3> QED
      BY <3>1, <3>2
  <2> HIDE DEF v
  <2> QED
    BY <2>4, <2>5, <2>11, <2>12 DEF IInv, TypeOK, TableInv
<1> QED
  BY <1>4, <1>5

\* A refused packet moves one of the counters that frames have no part in.
LEMMA Refused ==
    ASSUME NEW st \in StatsType,
           NEW c \in {"packetsTooLate", "packetsDuplicate", "packetsMalformed"}
    PROVE  LET s == [st EXCEPT ![c] = @ + 1]
           IN  /\ s \in StatsType /\ s.framesCompleted = st.framesCompleted
               /\ s.framesDropped = st.framesDropped
               /\ s.packetsReceived = st.packetsReceived /\ s.started = st.started
               /\ s.baseSeq = st.baseSeq /\ s.highestSeq = st.highestSeq
<1>1. CASE c = "packetsTooLate"
  <2>1. st.packetsTooLate + 1 \in Nat
    BY DEF StatsType
  <2> QED
    BY <1>1, <2>1 DEF StatsType
<1>2. CASE c = "packetsDuplicate"
  <2>1. st.packetsDuplicate + 1 \in Nat
    BY DEF StatsType
  <2> QED
    BY <1>2, <2>1 DEF StatsType
<1>3. CASE c = "packetsMalformed"
  <2>1. st.packetsMalformed + 1 \in Nat
    BY DEF StatsType
  <2> QED
    BY <1>3, <2>1 DEF StatsType
<1> QED
  BY <1>1, <1>2, <1>3

\* Every packet keeps the invariant: it is refused, begins an entry, or is stored
\* in the one that is there.
LEMMA ReceiveStep ==
    ASSUME IInv, NEW p \in Packets, Receive(p)
    PROVE  IInv'
<1> DEFINE id == Id(p.n)
           seq == Position(p.n, p.idx) % SeqMod
           st == Tracked([stats EXCEPT !.packetsReceived = @ + 1], seq)
           D == DOMAIN pending
<1>1. PICK w \in (First - 1) .. newest :
          /\ retired = IF w < First THEN {} ELSE {Id(w)}
          /\ Good(pending, w, newest, delivered,
                  stats.framesCompleted, stats.framesDropped, begun)
  BY DEF IInv, TableInv
<1>2. /\ p.idx < p.count /\ p.n >= newest - Back /\ p.n <= newest + Ahead
      /\ newest' = IF p.n > newest THEN p.n ELSE newest
  BY DEF Receive
<1>3. TypeOK /\ DeliveredWhole /\ stats \in StatsType /\ ready \in Seq(FrameType)
  BY DEF IInv, TypeOK
<1>4. /\ First \in Nat /\ newest \in Numbers /\ newest \in Nat /\ w \in Int /\ w <= newest
      /\ p.n \in Nat
  <2>1. First \in Nat /\ Last \in Nat
    BY Constants
  <2> QED
    BY <1>1, <2>1, GoodFacts DEF Packets
<1>5. seq \in Nat
  <2>1. p.n * Frags + p.idx \in Nat /\ SeqMod \in Nat \ {0}
    <3>1. Frags \in Nat /\ SeqMod \in Nat \ {0} /\ First \in Nat /\ Last \in Nat
      BY Constants
    <3>2. p.n * Frags \in Nat /\ p.idx \in Nat
      BY <1>4, <3>1 DEF Packets
    <3> QED
      BY <3>1, <3>2
  <2> QED
    BY <2>1 DEF Position
<1> HIDE DEF seq
<1>6. /\ st \in StatsType /\ st.framesCompleted = stats.framesCompleted
      /\ st.framesDropped = stats.framesDropped
  BY <1>3, <1>5, TrackedStats
<1>7. /\ IsRetired(id) <=> p.n <= w
      /\ id \in D => pending[id].n = p.n
      /\ D # {} =>
            /\ OldestId \in D
            /\ Newer(id, OldestId) <=> p.n > pending[OldestId].n
  BY <1>1, <1>2, PacketFacts
<1>8. \A i \in D : Sound(i, pending[i]) /\ pending[i].n \in (w + 1) .. newest
  BY <1>1, EntryFacts
<1>9. Offer(p) <=>
          IF IsRetired(id) \/ IsTooOld(id) THEN Refuse(st, "packetsTooLate")
          ELSE IF IsDelivered(id)    THEN Refuse(st, "packetsDuplicate")
          ELSE IF Contradicts(p, id) THEN Refuse(st, "packetsMalformed")
          ELSE IF Repeats(p, id)     THEN Refuse(st, "packetsDuplicate")
          ELSE IF id \notin D        THEN Begin(st, p)
          ELSE Keep(st, p, pending, pending[id]) /\ UNCHANGED <<retired, begun>>
  BY DEF Offer, IsLate, seq
<1> HIDE DEF st
<1>10. Offer(p)
  BY DEF Receive
<1>11. ASSUME NEW c \in {"packetsTooLate", "packetsDuplicate", "packetsMalformed"},
              Refuse(st, c), newest' = newest
       PROVE  IInv'
  <2>1. /\ stats' = [st EXCEPT ![c] = @ + 1] /\ pending' = pending /\ ready' = ready
        /\ retired' = retired /\ begun' = begun /\ delivered' = delivered
    BY <1>11 DEF Refuse
  <2>2. /\ stats' \in StatsType /\ stats'.framesCompleted = stats.framesCompleted
        /\ stats'.framesDropped = stats.framesDropped
    BY <1>6, <2>1, Refused
  <2> QED
    BY <1>1, <1>3, <1>11, <2>1, <2>2 DEF IInv, TypeOK, TableInv, DeliveredWhole
<1>12. IsRetired(id) \/ IsTooOld(id) \/ id \in D => newest' = newest
  <2>1. CASE p.n <= w
    BY <1>2, <1>4, <2>1
  <2>2. CASE id \in D
    <3>1. pending[id].n = p.n /\ pending[id].n \in (w + 1) .. newest
      BY <1>7, <1>8, <2>2
    <3> QED
      BY <1>2, <1>4, <3>1
  <2>3. CASE IsTooOld(id)
    <3>1. D # {}
      <4>1. Cardinality(D) >= MaxPending /\ MaxPending \in Nat \ {0}
        BY <2>3, Constants DEF IsTooOld, IsFull
      <4>2. Cardinality(D) # 0
        BY <4>1
      <4> QED
        BY <4>2, FS_EmptySet
    <3>2. OldestId \in D /\ ~(p.n > pending[OldestId].n)
      BY <1>7, <2>3, <3>1 DEF IsTooOld
    <3>3. pending[OldestId].n \in (w + 1) .. newest
      BY <1>8, <3>2
    <3> QED
      BY <1>2, <1>4, <3>2, <3>3
  <2> QED
    BY <1>7, <2>1, <2>2, <2>3
<1>13. CASE IsRetired(id) \/ IsTooOld(id)
  BY <1>9, <1>10, <1>11, <1>12, <1>13
<1>14. CASE ~IsRetired(id) /\ ~IsTooOld(id)
  <2>1. CASE IsDelivered(id) \/ Contradicts(p, id) \/ Repeats(p, id)
    <3>1. id \in D
      BY <2>1 DEF IsDelivered, Contradicts, Repeats
    <3> QED
      BY <1>9, <1>10, <1>11, <1>12, <1>14, <2>1, <3>1
  <2>2. CASE ~IsDelivered(id) /\ ~Contradicts(p, id) /\ ~Repeats(p, id) /\ id \in D
    <3> DEFINE e == pending[id]
    <3>1. /\ Keep(st, p, pending, e) /\ retired' = retired /\ begun' = begun
      BY <1>9, <1>10, <1>14, <2>2
    <3>2. newest' = newest
      BY <1>12, <2>2
    <3>3. /\ ~e.completed /\ e.n = p.n /\ e.count = p.count
          /\ p.idx \notin DOMAIN e.from /\ Sound(id, e)
      BY <1>7, <1>8, <2>2 DEF IsDelivered, Contradicts, Repeats
    <3>4. PICK now : now = Stored(e, p)
      OBVIOUS
    <3>5. pending' = Extended(pending, Id(p.n), now)
      BY <3>1, <3>4 DEF Keep, Extended
    <3>6. /\ now.completed =>
                /\ ready' = Append(ready, [n |-> p.n, from |-> now.from,
                                           count |-> now.count])
                /\ delivered' = delivered \cup {p.n}
                /\ stats' = [st EXCEPT !.framesCompleted = @ + 1]
          /\ ~now.completed => stats' = st /\ ready' = ready /\ delivered' = delivered
      BY <3>1, <3>4 DEF Keep
    <3>7. Good(pending, w, newest, delivered, st.framesCompleted, st.framesDropped, begun)
      BY <1>1, <1>6
    <3>8. Id(p.n) \in DOMAIN pending /\ pending[Id(p.n)] = e
      BY <2>2
    <3> HIDE DEF e
    <3>9. /\ Good(pending', w, newest, delivered', stats'.framesCompleted,
                  stats'.framesDropped, begun)
          /\ stats' \in StatsType /\ ready' \in Seq(FrameType) /\ DeliveredWhole'
      BY <1>2, <1>3, <1>6, <3>3, <3>4, <3>5, <3>6, <3>7, <3>8, KeepStep
    <3> QED
      BY <1>1, <3>1, <3>2, <3>9 DEF IInv, TypeOK, TableInv
  <2>3. CASE id \notin D
    <3>1. ~IsDelivered(id) /\ ~Contradicts(p, id) /\ ~Repeats(p, id)
      BY <2>3 DEF IsDelivered, Contradicts, Repeats
    <3>2. Begin(st, p)
      BY <1>9, <1>10, <1>14, <2>3, <3>1
    <3>3. p.n > w
      BY <1>4, <1>7, <1>14
    <3> QED
      BY <1>1, <1>2, <1>3, <1>6, <1>14, <2>3, <3>2, <3>3, BeginStep
  <2> QED
    BY <2>1, <2>2, <2>3
<1> QED
  BY <1>13, <1>14

\* pop(): the frame at the head goes to the jitter buffer.
LEMMA PopStep ==
    ASSUME IInv, Pop
    PROVE  IInv'
<1>1. /\ ready \in Seq(FrameType) /\ ready # <<>> /\ ready' = Tail(ready)
      /\ pending' = pending /\ retired' = retired /\ stats' = stats
      /\ newest' = newest /\ begun' = begun /\ delivered' = delivered
  BY DEF IInv, TypeOK, Pop, history
<1>2. /\ ready' \in Seq(FrameType) /\ Len(ready) \in Nat \ {0}
      /\ Len(ready') = Len(ready) - 1
      /\ \A i \in 1 .. Len(ready') : ready'[i] = ready[i + 1]
  BY <1>1, HeadTailProperties, EmptySeq, LenProperties
<1>3. DeliveredWhole'
  <2> SUFFICES ASSUME NEW i \in 1 .. Len(ready')
               PROVE  /\ DOMAIN ready'[i].from = 0 .. ready'[i].count - 1
                      /\ \A k \in DOMAIN ready'[i].from : ready'[i].from[k] = ready'[i].n
    BY DEF DeliveredWhole
  <2>1. i + 1 \in 1 .. Len(ready) /\ ready'[i] = ready[i + 1]
    BY <1>2
  <2> QED
    BY <2>1 DEF IInv, DeliveredWhole
<1>4. TypeOK' /\ TableInv'
  BY <1>1, <1>2 DEF IInv, TypeOK, TableInv
<1> QED
  BY <1>3, <1>4 DEF IInv

\* An empty table is good: nothing has arrived of the stream yet.
LEMMA EmptyIsGood == Good(<<>>, First - 1, First, {}, 0, 0, 0)
<1>1. /\ First \in Nat /\ Last \in Nat /\ First <= Last /\ Ahead \in Nat
      /\ MaxPending \in Nat
  BY Constants
<1>2. DOMAIN <<>> = {}
  OBVIOUS
<1>3. Incomplete(<<>>) = {} /\ \A x : Above(<<>>, x) = {}
  BY <1>2 DEF Incomplete, Above
<1>4. Cardinality({}) = 0
  BY FS_EmptySet
<1>5. Dense(<<>>, First - 1, First)
  <2> SUFFICES ASSUME NEW x \in First .. First
               PROVE  First - x <= Ahead * Cardinality(Above(<<>>, x))
    BY DEF Dense
  <2>1. x = First /\ Cardinality(Above(<<>>, x)) = 0
    BY <1>1, <1>3, <1>4
  <2> QED
    BY <1>1, <2>1
<1>6. First \in Numbers /\ First - 1 \in (First - 1) .. First
  BY <1>1 DEF Numbers
<1>7. 0 <= MaxPending /\ 0 \in Nat /\ 0 = 0 + 0 + 0
  BY <1>1
<1> QED
  BY <1>2, <1>3, <1>4, <1>5, <1>6, <1>7 DEF Good

\* A fresh assembler.
LEMMA FreshInv ==
    ASSUME pending = <<>>, ready = <<>>, retired = {}, stats = NoStats,
           newest = First, begun = 0, delivered = {}
    PROVE  IInv
<1>1. First \in Nat
  BY Constants
<1>2. stats \in StatsType /\ stats.framesCompleted = 0 /\ stats.framesDropped = 0
  BY DEF StatsType, NoStats
<1>3. TypeOK
  BY <1>2 DEF TypeOK
<1>4. Good(pending, First - 1, newest, delivered,
           stats.framesCompleted, stats.framesDropped, begun)
  BY <1>2, EmptyIsGood
<1>5. First - 1 \in (First - 1) .. newest /\ First - 1 < First
  BY <1>1
<1>6. TableInv
  BY <1>4, <1>5 DEF TableInv
<1>7. DeliveredWhole
  <2>1. Len(ready) = 0
    OBVIOUS
  <2> QED
    BY <2>1 DEF DeliveredWhole
<1> QED
  BY <1>3, <1>6, <1>7 DEF IInv

\* The invariant is inductive, so every behaviour has it.
THEOREM Invariance == Spec => []IInv
<1>1. Init => IInv
  BY FreshInv DEF Init
<1>2. IInv /\ [Next]_vars => IInv'
  <2> SUFFICES ASSUME IInv, [Next]_vars PROVE IInv'
    OBVIOUS
  <2>1. ASSUME NEW p \in Packets, Receive(p) PROVE IInv'
    BY <2>1, ReceiveStep
  <2>2. CASE Pop
    BY <2>2, PopStep
  <2>3. CASE Reset
    <3>1. /\ pending' = <<>> /\ ready' = <<>> /\ retired' = {} /\ stats' = NoStats
          /\ newest' = First /\ begun' = 0 /\ delivered' = {}
      BY <2>3 DEF Reset
    <3>2. stats' \in StatsType /\ stats'.framesCompleted = 0 /\ stats'.framesDropped = 0
      BY <3>1 DEF StatsType, NoStats
    <3>3. TypeOK'
      BY <3>1, <3>2 DEF TypeOK
    <3>4. Good(pending', First - 1, newest', delivered',
               stats'.framesCompleted, stats'.framesDropped, begun')
      BY <3>1, <3>2, EmptyIsGood
    <3>5. First - 1 \in (First - 1) .. newest' /\ First - 1 < First
      BY <3>1, Constants
    <3>6. TableInv'
      BY <3>1, <3>4, <3>5 DEF TableInv
    <3>7. DeliveredWhole'
      <4>1. Len(ready') = 0
        BY <3>1
      <4> QED
        BY <4>1 DEF DeliveredWhole
    <3> QED
      BY <3>3, <3>6, <3>7 DEF IInv
  <2>4. CASE UNCHANGED vars
    BY <2>4 DEF IInv, TypeOK, TableInv, DeliveredWhole, vars, code, history
  <2> QED
    BY <2>1, <2>2, <2>3, <2>4 DEF Next
<1> QED
  BY <1>1, <1>2, PTL DEF Spec

-----------------------------------------------------------------------------
(* What follows from the invariant.                                        *)

\* The order of the ids of the table and of the watermark is that of the frames.
LEMMA TableIsNewer == IInv => TableIsAhead
<1> SUFFICES ASSUME IInv PROVE TableIsAhead
  OBVIOUS
<1>1. PICK w \in (First - 1) .. newest :
          /\ retired = IF w < First THEN {} ELSE {Id(w)}
          /\ Good(pending, w, newest, delivered,
                  stats.framesCompleted, stats.framesDropped, begun)
  BY DEF IInv, TableInv
<1>2. /\ DOMAIN pending \subseteq Ids /\ Cardinality(DOMAIN pending) <= MaxPending
      /\ Dense(pending, w, newest)
  BY <1>1 DEF Good
<1>3. First \in Nat /\ newest \in Numbers /\ newest \in Nat /\ w \in Int /\ w <= newest
  <2>1. First \in Nat
    BY Constants
  <2> QED
    BY <1>1, <2>1, GoodFacts
<1>4. ASSUME NEW id \in DOMAIN pending, NEW r \in retired
      PROVE  Newer(id, r)
  <2> DEFINE v == pending[id].n
  <2>1. w \in First .. newest /\ w \in Nat /\ w >= w /\ r = Id(w)
    BY <1>1, <1>3, <1>4
  <2>2. id = Id(v) /\ v \in (w + 1) .. newest
    BY <1>1, EntryFacts
  <2> HIDE DEF v
  <2>3. v \in First .. newest /\ v \in Nat /\ v >= w /\ v > w
    BY <1>3, <2>1, <2>2
  <2>4. 2 * (v - w) < IdMod /\ 2 * (w - v) < IdMod
    BY <1>2, <1>3, <2>1, <2>3, TableWithinReach
  <2>5. Newer(Id(v), Id(w)) <=> v > w
    BY <2>1, <2>3, <2>4, IdOrder
  <2> QED
    BY <2>1, <2>2, <2>3, <2>5
<1> QED
  BY <1>2, <1>4 DEF TableIsAhead

\* Every frame that leaves the assembler has all its fragments and no other
\* frame's: offer() refuses what repeats, contradicts or belongs to a frame that
\* has been pushed out.
THEOREM FramesAreWhole == Spec => []DeliveredWhole
<1>1. IInv => DeliveredWhole
  BY DEF IInv
<1> QED
  BY <1>1, Invariance, PTL

\* No frame completes twice: it stays in the table until it is evicted, and then
\* the watermark refuses it.
THEOREM CompletedOnce == Spec => []DeliveredOnce
<1>1. IInv => DeliveredOnce
  BY DEF IInv, TableInv, Good, DeliveredOnce
<1> QED
  BY <1>1, Invariance, PTL

\* evictOldest() takes the oldest frame, so the table is never behind the
\* watermark, nor larger than maxPendingFrames_.
THEOREM TableStaysAhead == Spec => []TableIsAhead
  BY TableIsNewer, Invariance, PTL

\* framesCompleted and framesDropped leave out no frame and count none twice.
THEOREM FramesAddUp == Spec => []FramesAccounted
<1>1. IInv => FramesAccounted
  <2>1. Incomplete(pending) = Partial
    BY DEF Incomplete, Partial
  <2> QED
    BY <2>1 DEF IInv, TableInv, Good, FramesAccounted
<1> QED
  BY <1>1, Invariance, PTL

-----------------------------------------------------------------------------
(* The loss.  The assembler only knows sequence numbers; all positions that  *)
(* arrive between two resets are within half of their range.                 *)

\* The positions a packet can have.
LEMMA PacketPosition ==
    ASSUME NEW p \in Packets
    PROVE  Position(p.n, p.idx) \in Positions
<1> DEFINE x == First * Frags
           y == p.n * Frags
           z == Last * Frags
<1>1. /\ Frags \in Nat /\ First \in Nat /\ Last \in Nat
  BY Constants
<1>2. /\ p.n \in Nat /\ First <= p.n /\ p.n <= Last /\ p.idx \in Nat /\ p.idx <= Frags
  BY <1>1 DEF Packets
<1>3. x \in Nat /\ y \in Nat /\ z \in Nat
  BY <1>1, <1>2
<1>4. x <= y
  <2>1. PICK d \in Nat : p.n = First + d
    <3>1. p.n - First \in Nat /\ p.n = First + (p.n - First)
      BY <1>1, <1>2
    <3> QED
      BY <3>1
  <2>2. y = x + d * Frags /\ d * Frags \in Nat
    BY <1>1, <2>1
  <2> QED
    BY <1>3, <2>2
<1>5. y <= z
  <2>1. PICK d \in Nat : Last = p.n + d
    <3>1. Last - p.n \in Nat /\ Last = p.n + (Last - p.n)
      BY <1>1, <1>2
    <3> QED
      BY <3>1
  <2>2. z = y + d * Frags /\ d * Frags \in Nat
    BY <1>1, <1>2, <2>1
  <2> QED
    BY <1>3, <2>2
<1> HIDE DEF x, y, z
<1>6. y + p.idx \in (x + 0) .. (z + Frags)
  BY <1>1, <1>2, <1>3, <1>4, <1>5
<1> QED
  BY <1>6 DEF x, y, z, Position, Positions

\* Between two positions the sequence numbers tell the order and the distance.
LEMMA SeqOrder ==
    ASSUME NEW a \in Positions, NEW b \in Positions
    PROVE  /\ a \in Nat /\ b \in Nat
           /\ seqNewerThan(a % SeqMod, b % SeqMod, SeqMod) <=> a > b
           /\ a % SeqMod = b % SeqMod => a = b
           /\ a >= b => ((a % SeqMod) - (b % SeqMod)) % SeqMod = a - b
<1> DEFINE x == First * Frags
           z == Last * Frags
           s == (Last + 1 - First) * Frags
<1>1. /\ Frags \in Nat /\ First \in Nat /\ Last \in Nat /\ SeqMod \in Nat \ {0}
      /\ 2 * (Last + 1 - First) * Frags < SeqMod /\ First <= Last
  BY Constants
<1>2. x \in Nat /\ z \in Nat
  BY <1>1
<1>3. s = (z + Frags) - x /\ 2 * (Last + 1 - First) * Frags = 2 * s
  BY <1>1
<1>4. a \in x .. (z + Frags) /\ b \in x .. (z + Frags)
  BY <1>1, <1>2 DEF Positions, Position
<1>5. 2 * s < SeqMod
  BY <1>1, <1>3
<1> HIDE DEF x, z, s
<1>6. /\ a \in Nat /\ b \in Nat /\ 2 * (a - b) < SeqMod /\ 2 * (b - a) < SeqMod
      /\ a >= b => a - b \in 0 .. SeqMod - 1
  BY <1>1, <1>2, <1>3, <1>4, <1>5
<1>7. Signed((a % SeqMod) - (b % SeqMod), SeqMod) = a - b
  <2>1. Lib!Signed((a % SeqMod) - (b % SeqMod), SeqMod) = a - b
    BY <1>1, <1>6, Lib!SignedDistance
  <2> QED
    BY <2>1 DEF Lib!Signed, Signed
<1>8. seqNewerThan(a % SeqMod, b % SeqMod, SeqMod) <=> a > b
  BY <1>6, <1>7 DEF seqNewerThan
<1>9. ASSUME a % SeqMod = b % SeqMod PROVE a = b
  <2>1. Signed(0, SeqMod) = 0
    BY <1>1 DEF Signed
  <2>2. (a % SeqMod) - (b % SeqMod) = 0
    BY <1>1, <1>6, <1>9
  <2> QED
    BY <1>6, <1>7, <2>1, <2>2
<1>10. ASSUME a >= b PROVE ((a % SeqMod) - (b % SeqMod)) % SeqMod = a - b
  <2>1. a \in Int /\ b \in Int /\ SeqMod \in Nat \ {0} /\ a - b \in 0 .. SeqMod - 1
    BY <1>1, <1>6, <1>10
  <2> QED
    BY <2>1, Lib!UnsignedDistance
<1> QED
  BY <1>6, <1>8, <1>9, <1>10

\* The fields packetsLost() reads.
SameLoss(s, t) ==
    /\ s \in StatsType /\ s.started = t.started /\ s.baseSeq = t.baseSeq
    /\ s.highestSeq = t.highestSeq /\ s.packetsReceived = t.packetsReceived

OneMoreFrame(s) == [s EXCEPT !.framesCompleted = @ + 1]

\* offer() moves them only in trackSeq().
LEMMA OfferStats ==
    ASSUME stats \in StatsType, NEW p \in Packets, Offer(p),
           NEW seq \in Nat, seq = Position(p.n, p.idx) % SeqMod
    PROVE  SameLoss(stats', Tracked([stats EXCEPT !.packetsReceived = @ + 1], seq))
<1> DEFINE id == Id(p.n)
<1>1. PICK st \in StatsType : st = Tracked([stats EXCEPT !.packetsReceived = @ + 1], seq)
  BY TrackedStats
<1>2. \/ \E c \in {"packetsTooLate", "packetsDuplicate", "packetsMalformed"} : Refuse(st, c)
      \/ Begin(st, p)
      \/ Keep(st, p, pending, pending[id])
  BY <1>1 DEF Offer
<1>3. ASSUME NEW c \in {"packetsTooLate", "packetsDuplicate", "packetsMalformed"},
             Refuse(st, c)
      PROVE  SameLoss(stats', st)
  <2> DEFINE s == [st EXCEPT ![c] = @ + 1]
  <2>1. stats' = s
    BY <1>3 DEF Refuse
  <2>2. /\ s \in StatsType /\ s.packetsReceived = st.packetsReceived
        /\ s.started = st.started
        /\ s.baseSeq = st.baseSeq /\ s.highestSeq = st.highestSeq
    BY Refused
  <2> HIDE DEF s
  <2> QED
    BY <2>1, <2>2 DEF SameLoss
<1>4. ASSUME NEW s \in StatsType, SameLoss(s, st),
             stats' = s \/ stats' = OneMoreFrame(s)
      PROVE  SameLoss(stats', st)
  <2>1. s.framesCompleted + 1 \in Nat
    BY DEF StatsType
  <2> QED
    BY <1>4, <2>1 DEF SameLoss, StatsType, OneMoreFrame
<1>5. SameLoss(st, st)
  BY <1>1 DEF SameLoss
<1>6. ASSUME NEW k \in Nat
      PROVE  /\ [st EXCEPT !.framesDropped = @ + k] \in StatsType
             /\ SameLoss([st EXCEPT !.framesDropped = @ + k], st)
  <2>1. st.framesDropped + k \in Nat
    BY <1>1 DEF StatsType
  <2> QED
    BY <1>1, <2>1 DEF SameLoss, StatsType
<1>7. ASSUME NEW s, NEW table, NEW entry, Keep(s, p, table, entry)
      PROVE  stats' = s \/ stats' = OneMoreFrame(s)
  BY <1>7 DEF Keep, OneMoreFrame
<1>8. CASE Keep(st, p, pending, pending[id])
  BY <1>1, <1>4, <1>5, <1>7, <1>8
<1>9. CASE Begin(st, p)
  <2>1. CASE ~IsFull
    <3>1. Keep(st, p, pending, NewEntry(p))
      BY <1>9, <2>1 DEF Begin
    <3> QED
      BY <1>1, <1>4, <1>5, <1>7, <3>1
  <2>2. CASE IsFull
    <3> DEFINE k == IF OldestId \in Partial THEN 1 ELSE 0
               s == [st EXCEPT !.framesDropped = @ + k]
    <3>1. Keep(s, p, Restrict(pending, DOMAIN pending \ {OldestId}), NewEntry(p))
      BY <1>9, <2>2 DEF Begin, Evict
    <3>2. k \in Nat
      OBVIOUS
    <3> HIDE DEF k
    <3>3. s \in StatsType /\ SameLoss(s, st)
      BY <1>6, <3>2
    <3>4. stats' = s \/ stats' = OneMoreFrame(s)
      BY <1>7, <3>1
    <3> HIDE DEF s
    <3> QED
      BY <1>1, <1>4, <3>3, <3>4
  <2> QED
    BY <2>1, <2>2
<1> QED
  BY <1>1, <1>2, <1>3, <1>8, <1>9

\* Sets of positions are finite.
LEMMA PositionsAreFinite ==
    ASSUME NEW S, S \subseteq Positions
    PROVE  IsFiniteSet(S) /\ Cardinality(S) \in Nat
<1>1. /\ Frags \in Nat /\ First \in Nat /\ Last \in Nat
  BY Constants
<1>2. Position(First, 0) \in Int /\ Position(Last, Frags) \in Int
  BY <1>1 DEF Position
<1>3. IsFiniteSet(Positions)
  BY <1>2, FS_Interval DEF Positions
<1> QED
  BY <1>3, FS_Subset, FS_CardinalityType

\* A fresh stream.
LEMMA FreshLoss ==
    ASSUME NEW s, s = NoStats
    PROVE  s \in StatsType /\ ~s.started /\ s.packetsReceived = 0
  BY DEF NoStats, StatsType

\* trackSeq(): the highest number moves to a newer packet and the base stays.
LEMMA LossStep ==
    ASSUME LossInv, NEW p \in Packets, Receive(p)
    PROVE  LossInv'
<1> DEFINE pos == Position(p.n, p.idx)
           seq == pos % SeqMod
           s1 == [stats EXCEPT !.packetsReceived = @ + 1]
<1>1. /\ stats \in StatsType /\ arrived \subseteq Positions
      /\ Cardinality(arrived) <= stats.packetsReceived
  BY DEF LossInv
<1>2. pos \in Positions
  BY PacketPosition
<1>3. pos \in Nat /\ seq \in Nat
  <2>1. pos \in Nat /\ SeqMod \in Nat \ {0}
    BY <1>2, SeqOrder, Constants
  <2> QED
    BY <2>1
<1>4. Offer(p) /\ arrived' = arrived \cup {pos}
  BY DEF Receive
<1>5. PICK st : st = Tracked(s1, seq)
  OBVIOUS
<1>6. SameLoss(stats', st)
  BY <1>1, <1>3, <1>4, <1>5, OfferStats
<1>7. /\ st \in StatsType /\ st.packetsReceived = stats.packetsReceived + 1
  BY <1>1, <1>3, <1>5, TrackedStats
<1>8. /\ s1.started = stats.started /\ s1.baseSeq = stats.baseSeq
      /\ s1.highestSeq = stats.highestSeq
  BY <1>1 DEF StatsType
<1>9. st = IF ~stats.started
           THEN [s1 EXCEPT !.started = TRUE, !.baseSeq = seq, !.highestSeq = seq]
           ELSE IF seqNewerThan(seq, stats.highestSeq, SeqMod)
                THEN [s1 EXCEPT !.highestSeq = seq] ELSE s1
  BY <1>5, <1>8 DEF Tracked
<1>10. s1 \in StatsType
  <2>1. stats.packetsReceived + 1 \in Nat
    BY <1>1 DEF StatsType
  <2> QED
    BY <1>1, <2>1 DEF StatsType
<1> HIDE DEF s1, seq, pos
<1>11. Cardinality(arrived') <= stats'.packetsReceived
  <2>1. IsFiniteSet(arrived) /\ Cardinality(arrived) \in Nat
    BY <1>1, PositionsAreFinite
  <2>2. Cardinality(arrived') = Cardinality(arrived)
        \/ Cardinality(arrived') = Cardinality(arrived) + 1
    BY <1>4, <2>1, FS_AddElement
  <2>3. stats'.packetsReceived = stats.packetsReceived + 1
    BY <1>6, <1>7 DEF SameLoss
  <2>4. stats.packetsReceived \in Nat
    BY <1>1 DEF StatsType
  <2> QED
    BY <1>1, <2>1, <2>2, <2>3, <2>4
<1>12. arrived' \subseteq Positions
  BY <1>1, <1>2, <1>4
<1>13. stats' \in StatsType /\ stats'.started = st.started
       /\ stats'.baseSeq = st.baseSeq /\ stats'.highestSeq = st.highestSeq
  BY <1>6 DEF SameLoss
<1>14. CASE ~stats.started
  <2>1. arrived = {} /\ arrived' = {pos}
    BY <1>4, <1>14 DEF LossInv
  <2>2. st.started /\ st.baseSeq = seq /\ st.highestSeq = seq
    BY <1>9, <1>10, <1>14 DEF StatsType
  <2>3. /\ pos \in arrived' /\ \A a \in arrived' : a <= pos
        /\ stats'.started
        /\ stats'.baseSeq = pos % SeqMod /\ stats'.highestSeq = pos % SeqMod
    BY <1>3, <1>13, <2>1, <2>2 DEF seq
  <2> QED
    BY <1>11, <1>12, <1>13, <2>3 DEF LossInv
<1>15. CASE stats.started
  <2>1. PICK b \in arrived, h \in arrived :
            /\ \A a \in arrived : a <= h
            /\ stats.baseSeq = b % SeqMod /\ stats.highestSeq = h % SeqMod
    BY <1>15 DEF LossInv
  <2>2. h \in Positions /\ b \in arrived' /\ h \in arrived' /\ pos \in arrived'
        /\ h \in Nat /\ \A a \in arrived : a \in Nat
    BY <1>1, <1>4, <2>1, SeqOrder
  <2>3. seqNewerThan(seq, stats.highestSeq, SeqMod) <=> pos > h
    BY <1>2, <2>1, <2>2, SeqOrder DEF seq
  <2>4. st.started /\ st.baseSeq = stats.baseSeq
        /\ st.highestSeq = IF pos > h THEN seq ELSE stats.highestSeq
    BY <1>8, <1>9, <1>10, <1>15, <2>3 DEF StatsType
  <2> DEFINE g == IF pos > h THEN pos ELSE h
  <2>5. /\ g \in arrived' /\ \A a \in arrived' : a <= g
        /\ stats'.highestSeq = g % SeqMod
    <3>1. CASE pos > h
      BY <1>3, <1>4, <1>13, <2>1, <2>2, <2>4, <3>1 DEF seq
    <3>2. CASE ~(pos > h)
      BY <1>3, <1>4, <1>13, <2>1, <2>2, <2>4, <3>2
    <3> QED
      BY <3>1, <3>2
  <2>6. stats'.started /\ stats'.baseSeq = b % SeqMod
    BY <1>13, <2>1, <2>4
  <2> HIDE DEF g
  <2> QED
    BY <1>11, <1>12, <1>13, <2>2, <2>5, <2>6 DEF LossInv
<1> QED
  BY <1>14, <1>15

\* The loss that packetsLost() finds is that of the positions that arrived.
LEMMA LossIsBounded == LossInv => LossNotOverstated
<1> SUFFICES ASSUME LossInv, stats.started
             PROVE  LET base == CHOOSE a \in arrived : a % SeqMod = stats.baseSeq
                        high == CHOOSE a \in arrived : \A b \in arrived : b <= a
                    IN  packetsLost <= Cardinality((base .. high) \ arrived)
  BY DEF LossNotOverstated
<1> DEFINE base == CHOOSE a \in arrived : a % SeqMod = stats.baseSeq
           high == CHOOSE a \in arrived : \A b \in arrived : b <= a
           received == stats.packetsReceived
           I == base .. high
           expected == ((stats.highestSeq - stats.baseSeq) % SeqMod) + 1
<1>1. /\ arrived \subseteq Positions /\ Cardinality(arrived) <= received
      /\ received \in Nat
  BY DEF LossInv, StatsType
<1>2. PICK b \in arrived, h \in arrived :
          /\ \A a \in arrived : a <= h
          /\ stats.baseSeq = b % SeqMod /\ stats.highestSeq = h % SeqMod
  BY DEF LossInv
<1>3. \A a \in arrived : a \in Nat /\ a \in Positions
  BY <1>1, SeqOrder
<1>4. base = b
  <2>1. base \in arrived /\ base % SeqMod = stats.baseSeq
    BY <1>2, Zenon
  <2> HIDE DEF base
  <2> QED
    BY <1>2, <1>3, <2>1, SeqOrder
<1>5. high = h
  <2>1. high \in arrived /\ \A a \in arrived : a <= high
    BY <1>2, Zenon
  <2> HIDE DEF high
  <2> QED
    BY <1>2, <1>3, <2>1
<1>6. b \in Nat /\ h \in Nat /\ b <= h /\ b \in Positions /\ h \in Positions
  BY <1>2, <1>3
<1> HIDE DEF base, high
<1>7. expected = h - b + 1
  BY <1>2, <1>6, SeqOrder
<1>8. packetsLost = IF expected > received THEN expected - received ELSE 0
  BY DEF packetsLost
<1>9. IsFiniteSet(I) /\ Cardinality(I) = h - b + 1
  <2>1. /\ IsFiniteSet(b .. h) /\ Cardinality(b .. h) = IF b > h THEN 0 ELSE h - b + 1
    BY <1>6, FS_Interval
  <2> QED
    BY <1>4, <1>5, <1>6, <2>1
<1> HIDE DEF I, expected, received
<1> DEFINE c == Cardinality(I \cap arrived)
           m == Cardinality(I \ arrived)
<1>10. c \in Nat /\ c <= Cardinality(arrived) /\ Cardinality(arrived) \in Nat
  <2>1. IsFiniteSet(arrived) /\ Cardinality(arrived) \in Nat
    BY <1>1, PositionsAreFinite
  <2>2. I \cap arrived \subseteq arrived
    OBVIOUS
  <2> QED
    BY <2>1, <2>2, FS_Subset, FS_CardinalityType
<1>11. m = Cardinality(I) - c /\ m \in Nat
  BY <1>9, FS_Difference, FS_CardinalityType
<1> HIDE DEF c, m
<1>12. packetsLost <= m
  <2>1. CASE expected > received
    BY <1>1, <1>6, <1>7, <1>8, <1>9, <1>10, <1>11, <2>1
  <2>2. CASE ~(expected > received)
    BY <1>8, <1>11, <2>2
  <2> QED
    BY <2>1, <2>2
<1> QED
  BY <1>12 DEF m, I, base, high

\* The loss reported to the user never exceeds what is missing: trackSeq() follows
\* the highest sequence number over every wraparound, and a packet that comes
\* again or late only makes the loss smaller.
THEOREM LossIsHonest == Spec => []LossNotOverstated
<1>1. ASSUME stats = NoStats, arrived = {} PROVE LossInv
  <2>1. Cardinality(arrived) = 0
    BY <1>1, FS_EmptySet
  <2> QED
    BY <1>1, <2>1, FreshLoss DEF LossInv
<1>2. Init => LossInv
  BY <1>1 DEF Init
<1>3. LossInv /\ [Next]_vars => LossInv'
  <2> SUFFICES ASSUME LossInv, [Next]_vars PROVE LossInv'
    OBVIOUS
  <2>1. ASSUME NEW p \in Packets, Receive(p) PROVE LossInv'
    BY <2>1, LossStep
  <2>2. CASE Pop
    BY <2>2 DEF LossInv, Pop, history
  <2>3. CASE Reset
    <3>1. stats' = NoStats /\ arrived' = {}
      BY <2>3 DEF Reset
    <3>2. Cardinality(arrived') = 0
      BY <3>1, FS_EmptySet
    <3> QED
      BY <3>1, <3>2, FreshLoss DEF LossInv
  <2>4. CASE UNCHANGED vars
    BY <2>4 DEF LossInv, vars, code, history
  <2> QED
    BY <2>1, <2>2, <2>3, <2>4 DEF Next
<1>4. LossInv => LossNotOverstated
  BY LossIsBounded
<1> QED
  BY <1>2, <1>3, <1>4, PTL DEF Spec

=============================================================================
