------------------------- MODULE LossRecoveryProofs -------------------------
(***************************************************************************)
(* Lost packets: the tracker alone, and the tracker with the sender and    *)
(* the network around it.                                                  *)
(*                                                                         *)
(* The first part is about NackTracker.  The table of gaps is exact, every *)
(* gap is settled and the requests are paced, for all windows, limits and  *)
(* tolerances, and for streams that move by less than half of the sequence *)
(* space.  The code sees sequence numbers, the argument is about packet    *)
(* numbers: within the stream the sequence number determines the packet    *)
(* (Distances), so the table is the image of Missing, the set of packets   *)
(* that have neither arrived nor been given up, and each operation's       *)
(* effect on the table is the image of a plain set operation on Missing.   *)
(*                                                                         *)
(* The second part is about ReverseChannel.  What a sender has sent is an  *)
(* initial part of its numbers (NumbersInv), so whatever lies between two  *)
(* packets of one sender has been sent by it, and a gap that the tracker   *)
(* opens between them is the peer's (Tracks); and the cache holds the      *)
(* newest frames of the running process, one entry each (CacheOK).  The    *)
(* round trips are exact because what has been asked for lies behind the   *)
(* newest number and becomes no gap again (TimesOK).                       *)
(***************************************************************************)
EXTENDS NackTracker, ReverseChannel, FiniteSetTheorems, SequenceTheorems, TLAPS

Lib == INSTANCE SharedLemmas

-----------------------------------------------------------------------------
(* The inductive invariant.                                                *)

GapState == [requestCount: Nat, lastRequest: Seqs, likelyKeyFrame: BOOLEAN]
GapTable == UNION {[S -> GapState] : S \in SUBSET Seqs}

TrackerType ==
    [gaps: GapTable, highest: Seqs, tolerance: Nat, hasBase: BOOLEAN,
     stats: [TrackerCounters -> Nat]]

HistoryOK ==
    /\ base \in Nat /\ high \in Nat /\ got \in SUBSET Nat /\ gone \in SUBSET Nat
    /\ ledger \in [opened: Nat, filled: Nat, forgotten: Nat] /\ resets \in Nat

TypeOK == tracker \in TrackerType /\ HistoryOK

\* The packets that are still missed, and how often one has been asked for.
Missing    == {n \in base .. high : n \notin got \cup gone}
Counted(n) == IF n \in DOMAIN asked THEN asked[n] ELSE 0

\* What the table is the image of, and where it lies.
StreamInv ==
    /\ First <= base /\ base <= high /\ high <= Last
    /\ tracker.highest = SeqOf(high)
    /\ got \cup gone \cup DOMAIN asked \subseteq First .. high
    /\ \A n \in DOMAIN asked : asked[n] \in Nat \ {0}
    /\ DOMAIN tracker.gaps = {SeqOf(n) : n \in Missing}
    /\ \A n \in Missing : high - n \in 1 .. Window - 1
    /\ \A n \in Missing : tracker.gaps[SeqOf(n)].requestCount = Counted(n)

TableInv ==
    IF tracker.hasBase THEN StreamInv ELSE DOMAIN tracker.gaps = {} /\ DOMAIN asked = {}

\* A gap whose requests are used up has left the table.
Open == \A s \in DOMAIN tracker.gaps : tracker.gaps[s].requestCount < MaxRequests

IInv == TypeOK /\ TableInv /\ Open /\ EveryGapSettled

-----------------------------------------------------------------------------
(* Sequence numbers.                                                       *)

\* The constants are numbers.
LEMMA Constants ==
    /\ Window \in Nat \ {0} /\ MaxRequests \in Nat \ {0} /\ SeqMod \in Nat \ {0}
    /\ 2 * Window < SeqMod /\ First \in Nat /\ Last \in Nat
    /\ 2 * (Last - First) < SeqMod /\ Tolerances \subseteq Nat
  BY SeqAssumption, TrackerAssumption, StreamAssumption

\* Within the stream, the unsigned and the signed distance of two sequence
\* numbers are the distance of the packets.
LEMMA Distances ==
    ASSUME NEW a \in Numbers, NEW b \in Numbers
    PROVE  /\ SeqOf(a) \in Seqs
           /\ a >= b => (SeqOf(a) - SeqOf(b)) % SeqMod = a - b
           /\ seqNewerThan(SeqOf(a), SeqOf(b), SeqMod) <=> a > b
           /\ SeqOf(a) = SeqOf(b) => a = b
<1>1. /\ SeqMod \in Nat \ {0} /\ a \in Nat /\ b \in Nat
      /\ 2 * (a - b) < SeqMod /\ 2 * (b - a) < SeqMod
  BY Constants DEF Numbers
<1>2. SeqOf(a) \in Seqs
  BY <1>1 DEF SeqOf, Seqs
<1>3. ASSUME a >= b PROVE (SeqOf(a) - SeqOf(b)) % SeqMod = a - b
  <2>1. a - b \in 0 .. SeqMod - 1
    BY <1>1, <1>3
  <2>2. a \in Int /\ b \in Int
    BY <1>1
  <2>3. ((a % SeqMod) - (b % SeqMod)) % SeqMod = a - b
    BY <1>1, <2>1, <2>2, Lib!UnsignedDistance
  <2> QED
    BY <2>3 DEF SeqOf
<1>4. Signed(SeqOf(a) - SeqOf(b), SeqMod) = a - b
  BY <1>1, Lib!SignedDistance DEF SeqOf, Lib!Signed, Signed
<1>5. seqNewerThan(SeqOf(a), SeqOf(b), SeqMod) <=> a > b
  BY <1>1, <1>4 DEF seqNewerThan
<1>6. ASSUME SeqOf(a) = SeqOf(b) PROVE a = b
  <2>1. Signed(0, SeqMod) = 0
    BY <1>1 DEF Signed
  <2>2. SeqOf(a) - SeqOf(b) = 0
    BY <1>2, <1>6 DEF Seqs
  <2> QED
    BY <1>1, <1>4, <2>1, <2>2
<1> QED
  BY <1>2, <1>3, <1>5, <1>6

\* The packet an age before packet a.
LEMMA Earlier ==
    ASSUME NEW a \in Nat, NEW d \in Nat
    PROVE  (SeqOf(a) - d) % SeqMod = SeqOf(a - d)
<1>1. SeqMod \in Nat \ {0} /\ a \in Int /\ d \in Int
  BY Constants
<1>2. ((a % SeqMod) - d) % SeqMod = (a - d) % SeqMod
  BY <1>1, Lib!RemainderMinus
<1> QED
  BY <1>2 DEF SeqOf

-----------------------------------------------------------------------------
(* The table as an image of Missing.                                       *)

\* Every missing packet has its gap, every gap its missing packet.
LEMMA GapIsPacket ==
    ASSUME TypeOK, StreamInv
    PROVE  /\ high \in Numbers /\ Missing \subseteq Numbers
           /\ \A n \in Missing :
                 /\ SeqOf(n) \in DOMAIN tracker.gaps
                 /\ Number(SeqOf(n)) = n /\ Age(tracker, SeqOf(n)) = high - n
           /\ \A s \in DOMAIN tracker.gaps : Number(s) \in Missing /\ SeqOf(Number(s)) = s
<1>1. /\ base \in Nat /\ high \in Nat /\ First \in Nat /\ Last \in Nat
      /\ First <= base /\ base <= high /\ high <= Last
  BY Constants DEF TypeOK, HistoryOK, StreamInv
<1>2. high \in Numbers /\ Missing \subseteq Numbers
  BY <1>1 DEF Numbers, Missing
<1>3. ASSUME NEW n \in Missing
      PROVE  /\ SeqOf(n) \in DOMAIN tracker.gaps
             /\ Number(SeqOf(n)) = n /\ Age(tracker, SeqOf(n)) = high - n
  <2>1. SeqOf(n) \in DOMAIN tracker.gaps
    BY DEF StreamInv
  <2>2. n \in Numbers /\ n \in Nat /\ high >= n
    BY <1>1, <1>2 DEF Missing
  <2>3. (SeqOf(high) - SeqOf(n)) % SeqMod = high - n
    BY <1>2, <2>2, Distances
  <2>4. Age(tracker, SeqOf(n)) = high - n
    BY <2>3 DEF Age, StreamInv
  <2>5. Number(SeqOf(n)) = n
    BY <1>1, <2>2, <2>4 DEF Number
  <2> QED
    BY <2>1, <2>4, <2>5
<1>4. ASSUME NEW s \in DOMAIN tracker.gaps
      PROVE  Number(s) \in Missing /\ SeqOf(Number(s)) = s
  <2>1. PICK n \in Missing : s = SeqOf(n)
    BY DEF StreamInv
  <2> QED
    BY <1>3, <2>1
<1> QED
  BY <1>2, <1>3, <1>4

\* The table is finite and smaller than the window.
LEMMA TableIsSmall ==
    ASSUME TypeOK, TableInv
    PROVE  /\ IsFiniteSet(DOMAIN tracker.gaps)
           /\ Cardinality(DOMAIN tracker.gaps) \in Nat
           /\ Cardinality(DOMAIN tracker.gaps) < Window
<1> DEFINE D == DOMAIN tracker.gaps
<1>1. Window \in Nat \ {0}
  BY Constants
<1>2. CASE ~tracker.hasBase
  <2>1. D = {}
    BY <1>2 DEF TableInv
  <2> QED
    BY <1>1, <2>1, FS_EmptySet
<1>3. CASE tracker.hasBase
  <2>1. StreamInv
    BY <1>3 DEF TableInv
  <2>2. high \in Nat /\ Missing \subseteq Nat
    BY DEF TypeOK, HistoryOK, Missing
  <2> DEFINE I == (high - (Window - 1)) .. (high - 1)
             f == [n \in Missing |-> SeqOf(n)]
  <2>3. Missing \subseteq I
    BY <1>1, <2>1, <2>2 DEF StreamInv
  <2>4. IsFiniteSet(I) /\ Cardinality(I) = Window - 1
    <3>1. high - (Window - 1) \in Int /\ high - 1 \in Int
      BY <1>1, <2>2
    <3>2. /\ IsFiniteSet(I)
          /\ Cardinality(I) = IF high - (Window - 1) > high - 1 THEN 0
                              ELSE (high - 1) - (high - (Window - 1)) + 1
      BY <3>1, FS_Interval
    <3> HIDE DEF I
    <3> QED
      BY <1>1, <2>2, <3>2
  <2> HIDE DEF I
  <2>5. /\ IsFiniteSet(Missing) /\ Cardinality(Missing) \in Nat
        /\ Cardinality(Missing) <= Window - 1
    BY <2>3, <2>4, FS_Subset, FS_CardinalityType
  <2>6. f \in Surjection(Missing, D)
    BY <2>1 DEF StreamInv, Surjection
  <2> HIDE DEF f
  <2>7. IsFiniteSet(D) /\ Cardinality(D) <= Cardinality(Missing)
    BY <2>5, <2>6, FS_Surjection
  <2>8. Cardinality(D) \in Nat
    BY <2>7, FS_CardinalityType
  <2> HIDE DEF D
  <2>9. IsFiniteSet(D) /\ Cardinality(D) \in Nat /\ Cardinality(D) < Window
    BY <1>1, <2>5, <2>7, <2>8
  <2> QED
    BY <2>9 DEF D
<1> QED
  BY <1>2, <1>3

-----------------------------------------------------------------------------
(* What the tracker's operations do to its value.                          *)

\* A table is a function from sequence numbers to request states.
LEMMA TableType ==
    /\ \A G : G \in GapTable <=> /\ DOMAIN G \subseteq Seqs
                                 /\ G \in [DOMAIN G -> GapState]
    /\ <<>> \in GapTable /\ DOMAIN <<>> = {}
<1>1. \A G : G \in GapTable <=> DOMAIN G \subseteq Seqs /\ G \in [DOMAIN G -> GapState]
  BY DEF GapTable
<1>2. DOMAIN <<>> = {} /\ <<>> \in [{} -> GapState]
  OBVIOUS
<1> QED
  BY <1>1, <1>2

\* Giving up removes the gaps and counts them.
LEMMA GivenUp ==
    ASSUME NEW T \in TrackerType, IsFiniteSet(DOMAIN T.gaps),
           NEW S \in SUBSET DOMAIN T.gaps
    PROVE  LET R == GiveUp(T, S)
           IN  /\ R \in TrackerType
               /\ R.highest = T.highest /\ R.hasBase = T.hasBase
               /\ DOMAIN R.gaps = DOMAIN T.gaps \ S
               /\ \A s \in DOMAIN R.gaps : R.gaps[s] = T.gaps[s]
               /\ R.stats.recovered = T.stats.recovered
               /\ R.stats.givenUp = T.stats.givenUp + Cardinality(S)
<1> DEFINE D == DOMAIN T.gaps \ S
           G == [s \in D |-> T.gaps[s]]
           k == Cardinality(S)
           j == Cardinality(KeyGaps(T, S))
           st == [T.stats EXCEPT !["givenUp"] = @ + k, !["keyFramesGivenUp"] = @ + j]
<1>1. k \in Nat
  BY FS_Subset, FS_CardinalityType
<1>2. j \in Nat
  <2>1. KeyGaps(T, S) \in SUBSET DOMAIN T.gaps
    BY DEF KeyGaps
  <2> QED
    BY <2>1, FS_Subset, FS_CardinalityType
<1>3. T.gaps \in GapTable /\ T.stats \in [TrackerCounters -> Nat]
  BY DEF TrackerType
<1>4. G \in GapTable /\ DOMAIN G = D
  BY <1>3, TableType
<1>5. GiveUp(T, S) = [T EXCEPT !.gaps = G, !.stats = st]
  BY DEF GiveUp, Restrict
<1> HIDE DEF k, j
<1>6. /\ st \in [TrackerCounters -> Nat]
      /\ st["recovered"] = T.stats["recovered"]
      /\ st["givenUp"] = T.stats["givenUp"] + k
  BY <1>1, <1>2, <1>3 DEF TrackerCounters
<1> HIDE DEF st, G
<1>7. /\ GiveUp(T, S) \in TrackerType
      /\ GiveUp(T, S).highest = T.highest /\ GiveUp(T, S).hasBase = T.hasBase
      /\ GiveUp(T, S).gaps = G /\ GiveUp(T, S).stats = st
  BY <1>4, <1>5, <1>6 DEF TrackerType
<1>8. DOMAIN G = DOMAIN T.gaps \ S /\ \A s \in DOMAIN G : G[s] = T.gaps[s]
  BY DEF G
<1> QED
  BY <1>6, <1>7, <1>8 DEF k

\* What a newer packet pushes out of the window, and what it skips.
PushedOut(T, s) == {g \in DOMAIN T.gaps : (s - g) % SeqMod >= Window}
Skipped(T, s)   == {(s - age) % SeqMod : age \in 1 .. ((s - T.highest) % SeqMod) - 1}

\* A newer packet gives up what it pushes out and opens what it skips.
LEMMA NewerShape ==
    ASSUME NEW T \in TrackerType, IsFiniteSet(DOMAIN T.gaps),
           NEW s \in Seqs, NEW isKey \in BOOLEAN
    PROVE  LET R == Newer(T, s, isKey)
           IN  /\ R \in TrackerType /\ R.highest = s /\ R.hasBase = T.hasBase
               /\ DOMAIN R.gaps = (DOMAIN T.gaps \ PushedOut(T, s)) \cup Skipped(T, s)
               /\ \A g \in Skipped(T, s) : R.gaps[g].requestCount = 0
               /\ \A g \in DOMAIN R.gaps \ Skipped(T, s) : R.gaps[g] = T.gaps[g]
               /\ R.stats.recovered = T.stats.recovered
               /\ R.stats.givenUp = T.stats.givenUp + Cardinality(PushedOut(T, s))
<1> DEFINE M == [T EXCEPT !.highest = s]
           old == {g \in DOMAIN T.gaps : TooOld(M, g)}
           K == GiveUp(M, old)
           new == Skipped(T, s)
           fresh == [requestCount |-> 0, lastRequest |-> 0, likelyKeyFrame |-> isKey]
           G == [g \in DOMAIN K.gaps \cup new |-> IF g \in new THEN fresh ELSE K.gaps[g]]
<1>1. M \in TrackerType /\ M.gaps = T.gaps /\ M.highest = s /\ M.hasBase = T.hasBase
      /\ M.stats = T.stats
  BY DEF TrackerType
<1> HIDE DEF M
<1>2. old = PushedOut(T, s) /\ old \in SUBSET DOMAIN M.gaps
  BY <1>1 DEF PushedOut, TooOld, Age
<1> HIDE DEF old
<1>3. IsFiniteSet(DOMAIN M.gaps)
  BY <1>1
<1>4. /\ K \in TrackerType /\ K.highest = M.highest /\ K.hasBase = M.hasBase
      /\ DOMAIN K.gaps = DOMAIN M.gaps \ old
      /\ \A g \in DOMAIN K.gaps : K.gaps[g] = M.gaps[g]
      /\ K.stats.recovered = M.stats.recovered
      /\ K.stats.givenUp = M.stats.givenUp + Cardinality(old)
  BY <1>1, <1>2, <1>3, GivenUp
<1>5. Newer(T, s, isKey) = [K EXCEPT !.gaps = G]
  BY DEF Newer, Skipped, M, old
<1> HIDE DEF K
<1>6. SeqMod \in Nat \ {0}
  BY Constants
<1>7. new \subseteq Seqs
  <2>1. ASSUME NEW age \in 1 .. ((s - T.highest) % SeqMod) - 1
        PROVE  (s - age) % SeqMod \in Seqs
    BY <1>6 DEF Seqs
  <2> QED
    BY <2>1 DEF Skipped
<1>8. fresh \in GapState /\ fresh.requestCount = 0
  BY <1>6 DEF GapState, Seqs
<1> HIDE DEF new, fresh
<1>9. K.gaps \in GapTable
  BY <1>4 DEF TrackerType
<1>10. G \in GapTable
  <2>1. DOMAIN K.gaps \subseteq Seqs /\ \A g \in DOMAIN K.gaps : K.gaps[g] \in GapState
    BY <1>9, TableType
  <2> DEFINE P == DOMAIN K.gaps \cup new
  <2>2. P \subseteq Seqs
    BY <1>7, <2>1
  <2>3. \A g \in P : (IF g \in new THEN fresh ELSE K.gaps[g]) \in GapState
    BY <1>8, <2>1
  <2>4. DOMAIN G = P /\ G \in [P -> GapState]
    BY <2>3
  <2> HIDE DEF G, P
  <2> QED
    BY <2>2, <2>4, TableType
<1>11. /\ DOMAIN G = DOMAIN K.gaps \cup new
       /\ \A g \in new : G[g].requestCount = 0
       /\ \A g \in DOMAIN G \ new : G[g] = K.gaps[g]
  BY <1>8
<1> HIDE DEF G
<1>12. LET R == Newer(T, s, isKey)
       IN  R \in TrackerType /\ R.gaps = G /\ R.highest = K.highest /\ R.hasBase = K.hasBase
           /\ R.stats = K.stats
  BY <1>4, <1>5, <1>10 DEF TrackerType
<1>13. \A g \in DOMAIN G \ new : G[g] = T.gaps[g]
  BY <1>1, <1>4, <1>11
<1> QED
  BY <1>1, <1>2, <1>4, <1>11, <1>12, <1>13 DEF new

\* A late packet closes its own gap, and has recovered it if it was asked for.
LEMMA LateShape ==
    ASSUME NEW T \in TrackerType, NEW s \in Seqs
    PROVE  LET R == Late(T, s)
           IN  /\ R \in TrackerType /\ R.highest = T.highest /\ R.hasBase = T.hasBase
               /\ DOMAIN R.gaps = DOMAIN T.gaps \ {s}
               /\ \A g \in DOMAIN R.gaps : R.gaps[g] = T.gaps[g]
               /\ R.stats.givenUp = T.stats.givenUp
               /\ R.stats.recovered = T.stats.recovered +
                      (IF s \in DOMAIN T.gaps /\ T.gaps[s].requestCount > 0 THEN 1 ELSE 0)
<1> DEFINE D == DOMAIN T.gaps \ {s}
           G == [g \in D |-> T.gaps[g]]
           up == s \in DOMAIN T.gaps /\ T.gaps[s].requestCount > 0
           st == [T.stats EXCEPT !["recovered"] = IF up THEN @ + 1 ELSE @]
<1>1. T.gaps \in GapTable /\ T.stats \in [TrackerCounters -> Nat]
  BY DEF TrackerType
<1>2. G \in GapTable /\ DOMAIN G = D /\ \A g \in D : G[g] = T.gaps[g]
  BY <1>1, TableType
<1>3. Late(T, s) = [T EXCEPT !.gaps = G, !.stats = st]
  BY DEF Late, Restrict
<1> HIDE DEF up, G
<1>4. /\ st \in [TrackerCounters -> Nat]
      /\ st["givenUp"] = T.stats["givenUp"]
      /\ st["recovered"] = T.stats["recovered"] + (IF up THEN 1 ELSE 0)
  BY <1>1 DEF TrackerCounters
<1> HIDE DEF st
<1>5. /\ Late(T, s) \in TrackerType
      /\ Late(T, s).highest = T.highest /\ Late(T, s).hasBase = T.hasBase
      /\ Late(T, s).gaps = G /\ Late(T, s).stats = st
  BY <1>2, <1>3, <1>4 DEF TrackerType
<1> QED
  BY <1>2, <1>4, <1>5 DEF up

\* A request counts.
LEMMA RequestCounts ==
    ASSUME NEW gap \in GapState, NEW now \in Seqs
    PROVE  /\ Requested(gap, now) \in GapState
           /\ Requested(gap, now).requestCount = gap.requestCount + 1
<1>1. gap.requestCount + 1 \in Nat
  BY DEF GapState
<1> QED
  BY <1>1 DEF GapState, Requested

\* The targets whose requests are used up with this one.
Spent(T) == {s \in Targets(T) : T.gaps[s].requestCount + 1 >= MaxRequests}

\* Collecting counts a request of every target and gives up the spent ones.
LEMMA CollectedShape ==
    ASSUME NEW T \in TrackerType, IsFiniteSet(DOMAIN T.gaps),
           \A s \in DOMAIN T.gaps : T.gaps[s].requestCount < MaxRequests
    PROVE  LET R == Collected(T)
           IN  /\ R \in TrackerType /\ R.highest = T.highest /\ R.hasBase = T.hasBase
               /\ DOMAIN R.gaps = DOMAIN T.gaps \ Spent(T)
               /\ \A g \in DOMAIN R.gaps :
                     R.gaps[g].requestCount =
                         T.gaps[g].requestCount + (IF g \in Targets(T) THEN 1 ELSE 0)
               /\ R.stats.recovered = T.stats.recovered
               /\ R.stats.givenUp = T.stats.givenUp + Cardinality(Spent(T))
<1> DEFINE D == DOMAIN T.gaps
           once(g) == Requested(T.gaps[g], T.highest)
           G == [g \in D |-> IF g \in Targets(T) THEN once(g) ELSE T.gaps[g]]
           M == [T EXCEPT !.gaps = G]
           S == {g \in DOMAIN M.gaps : M.gaps[g].requestCount >= MaxRequests}
<1>1. T.gaps \in GapTable /\ T.highest \in Seqs
  BY DEF TrackerType
<1>2. D \subseteq Seqs /\ \A g \in D : T.gaps[g] \in GapState
  BY <1>1, TableType
<1>3. ASSUME NEW g \in D
      PROVE  once(g) \in GapState /\ once(g).requestCount = T.gaps[g].requestCount + 1
  BY <1>1, <1>2, RequestCounts
<1>4. /\ DOMAIN G = D /\ G \in [D -> GapState]
      /\ \A g \in D : G[g].requestCount =
                         T.gaps[g].requestCount + (IF g \in Targets(T) THEN 1 ELSE 0)
  <2>1. \A g \in D : T.gaps[g].requestCount \in Nat
    BY <1>2 DEF GapState
  <2>2. DOMAIN G = D
    OBVIOUS
  <2>3. ASSUME NEW g \in D
        PROVE  /\ G[g] \in GapState
               /\ G[g].requestCount =
                      T.gaps[g].requestCount + (IF g \in Targets(T) THEN 1 ELSE 0)
    BY <1>2, <1>3, <2>1
  <2> QED
    BY <2>2, <2>3
<1> HIDE DEF G
<1>5. G \in GapTable
  BY <1>2, <1>4, TableType
<1>6. /\ M \in TrackerType /\ M.gaps = G /\ M.highest = T.highest
      /\ M.hasBase = T.hasBase /\ M.stats = T.stats
  BY <1>5 DEF TrackerType
<1>7. Collected(T) = GiveUp(M, S)
  BY DEF Collected, M, G
<1> HIDE DEF M
<1>8. S = Spent(T)
  <2>1. MaxRequests \in Nat /\ \A g \in D : T.gaps[g].requestCount \in Nat
    BY Constants, <1>2 DEF GapState
  <2>2. Targets(T) \subseteq D
    BY DEF Targets
  <2>3. ASSUME NEW g \in D
        PROVE  G[g].requestCount >= MaxRequests
                 <=> g \in Targets(T) /\ T.gaps[g].requestCount + 1 >= MaxRequests
    BY <1>4, <2>1
  <2> QED
    BY <1>4, <1>6, <2>2, <2>3 DEF Spent
<1>9. S \in SUBSET DOMAIN M.gaps /\ IsFiniteSet(DOMAIN M.gaps)
  BY <1>4, <1>6
<1> HIDE DEF S
<1>10. LET R == GiveUp(M, S)
       IN  /\ R \in TrackerType
           /\ R.highest = M.highest /\ R.hasBase = M.hasBase
           /\ DOMAIN R.gaps = DOMAIN M.gaps \ S
           /\ \A s \in DOMAIN R.gaps : R.gaps[s] = M.gaps[s]
           /\ R.stats.recovered = M.stats.recovered
           /\ R.stats.givenUp = M.stats.givenUp + Cardinality(S)
  BY <1>6, <1>9, GivenUp
<1> QED
  BY <1>4, <1>6, <1>7, <1>8, <1>10

\* Setting the tolerance changes nothing else.
LEMMA ToleranceShape ==
    ASSUME NEW T \in TrackerType, NEW t \in Nat
    PROVE  LET R == [T EXCEPT !.tolerance = t]
           IN  /\ R \in TrackerType /\ R.gaps = T.gaps /\ R.highest = T.highest
               /\ R.hasBase = T.hasBase /\ R.stats = T.stats
  BY DEF TrackerType

\* Starting a stream empties the table and leaves the statistics alone.
LEMMA RebaseShape ==
    ASSUME NEW T \in TrackerType, NEW s \in Seqs
    PROVE  LET R == Rebase(T, s)
           IN  /\ R \in TrackerType /\ R.gaps = <<>> /\ R.highest = s
               /\ R.hasBase = TRUE /\ R.stats = T.stats
  BY TableType DEF TrackerType, Rebase

\* So does a new stream in the midst of one, but for its own counter.
LEMMA DiscontinuityShape ==
    ASSUME NEW T \in TrackerType, NEW s \in Seqs
    PROVE  LET R == [Rebase(T, s) EXCEPT !.stats.discontinuities = @ + 1]
           IN  /\ R \in TrackerType /\ R.gaps = <<>> /\ R.highest = s
               /\ R.hasBase = TRUE
               /\ R.stats.recovered = T.stats.recovered
               /\ R.stats.givenUp = T.stats.givenUp
<1> DEFINE B == Rebase(T, s)
           st == [B.stats EXCEPT !["discontinuities"] = @ + 1]
<1>1. /\ B \in TrackerType /\ B.gaps = <<>> /\ B.highest = s
      /\ B.hasBase = TRUE /\ B.stats = T.stats
  BY RebaseShape
<1>2. B.stats \in [TrackerCounters -> Nat]
  BY <1>1 DEF TrackerType
<1>3. /\ st \in [TrackerCounters -> Nat]
      /\ st["recovered"] = T.stats["recovered"] /\ st["givenUp"] = T.stats["givenUp"]
  BY <1>1, <1>2 DEF TrackerCounters
<1> HIDE DEF st, B
<1> QED
  BY <1>1, <1>3 DEF TrackerType, st, B

\* So does reset().
LEMMA ForgottenShape ==
    ASSUME NEW T \in TrackerType
    PROVE  LET R == Forgotten(T)
           IN  /\ R \in TrackerType /\ R.gaps = <<>> /\ R.hasBase = FALSE
               /\ R.stats = T.stats
<1>1. <<>> \in GapTable /\ 0 \in Seqs
  BY TableType, Constants DEF Seqs
<1> QED
  BY <1>1 DEF TrackerType, Forgotten, NewTracker

\* The counters of a tracker are numbers, and so are a gap's requests.
LEMMA TrackerParts ==
    ASSUME NEW T \in TrackerType
    PROVE  /\ T.stats.recovered \in Nat /\ T.stats.givenUp \in Nat
           /\ T.highest \in Seqs /\ T.hasBase \in BOOLEAN
           /\ DOMAIN T.gaps \subseteq Seqs
           /\ \A s \in DOMAIN T.gaps : T.gaps[s].requestCount \in Nat
<1>1. T.gaps \in GapTable /\ T.stats \in [TrackerCounters -> Nat]
      /\ T.highest \in Seqs /\ T.hasBase \in BOOLEAN
  BY DEF TrackerType
<1>2. DOMAIN T.gaps \subseteq Seqs /\ \A s \in DOMAIN T.gaps : T.gaps[s] \in GapState
  BY <1>1, TableType
<1>3. T.stats["recovered"] \in Nat /\ T.stats["givenUp"] \in Nat
  BY <1>1 DEF TrackerCounters
<1> QED
  BY <1>1, <1>2, <1>3 DEF GapState

\* Sets of sequence numbers are finite.
LEMMA SeqsAreFinite ==
    ASSUME NEW S \in SUBSET Seqs
    PROVE  IsFiniteSet(S) /\ Cardinality(S) \in Nat
<1>1. 0 \in Int /\ SeqMod - 1 \in Int
  BY Constants
<1>2. IsFiniteSet(Seqs)
  BY <1>1, FS_Interval DEF Seqs
<1> QED
  BY <1>2, FS_Subset, FS_CardinalityType

-----------------------------------------------------------------------------
(* The steps preserve the invariant.                                       *)

\* Entries into the ledger.
LEMMA LedgerMoves ==
    ASSUME NEW L \in [opened: Nat, filled: Nat, forgotten: Nat],
           NEW a \in Nat, NEW b \in Nat
    PROVE  LET M == [L EXCEPT !.opened = @ + a, !.filled = @ + b]
           IN  /\ M \in [opened: Nat, filled: Nat, forgotten: Nat]
               /\ M.opened = L.opened + a /\ M.filled = L.filled + b
               /\ M.forgotten = L.forgotten
<1>1. /\ L.opened \in Nat /\ L.filled \in Nat
      /\ L.opened + a \in Nat /\ L.filled + b \in Nat
  OBVIOUS
<1> QED
  BY <1>1

\* A packet that starts a stream leaves no gap, and its ledger knows.
LEMMA RestartStep ==
    ASSUME IInv, NEW n \in Numbers, StartOver(n), UNCHANGED resets,
           tracker' \in TrackerType, tracker'.gaps = <<>>,
           tracker'.highest = SeqOf(n), tracker'.hasBase,
           tracker'.stats.recovered = tracker.stats.recovered,
           tracker'.stats.givenUp = tracker.stats.givenUp
    PROVE  IInv'
<1>1. /\ First \in Nat /\ Last \in Nat /\ n \in Nat /\ First <= n /\ n <= Last
  BY Constants DEF Numbers
<1>2. Cardinality(DOMAIN tracker.gaps) \in Nat
  BY TableIsSmall DEF IInv
<1>3. DOMAIN tracker'.gaps = {} /\ DOMAIN asked' = {}
  BY TableType DEF StartOver
<1>4. HistoryOK'
  BY <1>1, <1>2, SMTT(60) DEF IInv, TypeOK, HistoryOK, StartOver
<1>5. Missing' = {}
  BY <1>1 DEF Missing, StartOver
<1>6. StreamInv'
  BY <1>1, <1>3, <1>5 DEF StreamInv, StartOver, SeqOf
<1>7. EveryGapSettled'
  <2>1. Cardinality(DOMAIN tracker'.gaps) = 0
    BY <1>3, FS_EmptySet
  <2>2. /\ ledger'.opened = ledger.opened /\ ledger'.filled = ledger.filled
        /\ ledger'.forgotten = ledger.forgotten + Cardinality(DOMAIN tracker.gaps)
    BY DEF IInv, TypeOK, HistoryOK, StartOver
  <2>3. /\ ledger.opened \in Nat /\ ledger.filled \in Nat /\ ledger.forgotten \in Nat
        /\ tracker.stats.recovered \in Nat /\ tracker.stats.givenUp \in Nat
    BY TrackerParts DEF IInv, TypeOK, HistoryOK
  <2>4. ledger.opened = ledger.filled + ledger.forgotten
                        + tracker.stats.recovered + tracker.stats.givenUp
                        + Cardinality(DOMAIN tracker.gaps)
    BY DEF IInv, EveryGapSettled
  <2> QED
    BY <1>2, <2>1, <2>2, <2>3, <2>4 DEF EveryGapSettled
<1> QED
  BY <1>3, <1>4, <1>6, <1>7 DEF IInv, TypeOK, TableInv, Open

\* The packets that packet n pushes out of the window.
Left(n) == {m \in Missing : n - m >= Window}

\* What a newer packet pushes out and skips, as packets.
LEMMA NewerSets ==
    ASSUME TypeOK, StreamInv, NEW n \in Numbers, n > high,
           NEW T, T.gaps = tracker.gaps, T.highest = tracker.highest
    PROVE  /\ Skipped(T, SeqOf(n)) = {SeqOf(k) : k \in (high + 1) .. (n - 1)}
           /\ PushedOut(T, SeqOf(n)) = {SeqOf(m) : m \in Left(n)}
           /\ Skipped(T, SeqOf(n)) \cap DOMAIN tracker.gaps = {}
           /\ SeqOf(n) \notin DOMAIN tracker.gaps
<1>1. /\ First \in Nat /\ Last \in Nat /\ n \in Nat /\ First <= n /\ n <= Last
      /\ SeqMod \in Nat \ {0}
  BY Constants DEF Numbers
<1>2. high \in Numbers /\ Missing \subseteq Numbers /\ high \in Nat /\ First <= high
  BY <1>1, GapIsPacket DEF Numbers
<1>3. (SeqOf(n) - T.highest) % SeqMod = n - high
  BY <1>2, Distances DEF StreamInv
<1> DEFINE new == Skipped(T, SeqOf(n))
           ahead == {SeqOf(k) : k \in (high + 1) .. (n - 1)}
<1>4. new = {(SeqOf(n) - age) % SeqMod : age \in 1 .. (n - high) - 1}
  BY <1>3 DEF Skipped
<1>5. \A age \in 1 .. (n - high) - 1 : (SeqOf(n) - age) % SeqMod = SeqOf(n - age)
  BY <1>1, <1>2, Earlier
<1>6. new = ahead
  <2>1. ASSUME NEW s \in new PROVE s \in ahead
    <3>1. PICK age \in 1 .. (n - high) - 1 : s = SeqOf(n - age)
      BY <1>4, <1>5
    <3>2. n - age \in (high + 1) .. (n - 1)
      BY <1>1, <1>2
    <3> QED
      BY <3>1, <3>2
  <2>2. ASSUME NEW s \in ahead PROVE s \in new
    <3>1. PICK k \in (high + 1) .. (n - 1) : s = SeqOf(k)
      OBVIOUS
    <3>2. n - k \in 1 .. (n - high) - 1 /\ n - (n - k) = k
      BY <1>1, <1>2
    <3> QED
      BY <1>4, <1>5, <3>1, <3>2
  <2> HIDE DEF new, ahead
  <2> QED
    BY <2>1, <2>2
<1>7. PushedOut(T, SeqOf(n)) = {SeqOf(m) : m \in Left(n)}
  <2>1. ASSUME NEW m \in Missing
        PROVE  (SeqOf(n) - SeqOf(m)) % SeqMod = n - m
    <3>1. m \in Numbers /\ n >= m
      BY <1>1, <1>2 DEF Missing
    <3> QED
      BY <3>1, Distances
  <2>2. DOMAIN T.gaps = {SeqOf(m) : m \in Missing}
    BY DEF StreamInv
  <2>3. ASSUME NEW s \in PushedOut(T, SeqOf(n)) PROVE s \in {SeqOf(m) : m \in Left(n)}
    BY <2>1, <2>2 DEF PushedOut, Left
  <2>4. ASSUME NEW m \in Left(n) PROVE SeqOf(m) \in PushedOut(T, SeqOf(n))
    BY <2>1, <2>2 DEF PushedOut, Left
  <2> QED
    BY <2>3, <2>4
<1>8. ASSUME NEW k \in (high + 1) .. n PROVE SeqOf(k) \notin DOMAIN tracker.gaps
  <2> SUFFICES ASSUME NEW m \in Missing, SeqOf(k) = SeqOf(m) PROVE FALSE
    BY DEF StreamInv
  <2>1. k \in Numbers /\ m \in Numbers /\ m <= high /\ k > high
    BY <1>1, <1>2 DEF Missing, Numbers
  <2>2. k = m
    BY <2>1, Distances
  <2> QED
    BY <1>2, <2>1, <2>2 DEF Numbers
<1>9. n \in (high + 1) .. n /\ \A k \in (high + 1) .. (n - 1) : k \in (high + 1) .. n
  BY <1>1, <1>2
<1>10. new \cap DOMAIN tracker.gaps = {}
  BY <1>6, <1>8, <1>9
<1> QED
  BY <1>6, <1>7, <1>8, <1>9, <1>10

\* What a packet newer than the newest does to the set of missing packets.
LEMMA NewerMissing ==
    ASSUME TypeOK, StreamInv, NEW n \in Numbers, n > high,
           base' = base, high' = n, got' = got \cup {n}, gone' = gone \cup Left(n)
    PROVE  Missing' = (Missing \ Left(n)) \cup ((high + 1) .. (n - 1))
<1>1. /\ First \in Nat /\ n \in Nat /\ base \in Nat /\ high \in Nat
      /\ base <= high /\ got \cup gone \subseteq First .. high
  BY Constants DEF TypeOK, HistoryOK, StreamInv, Numbers
<1>2. Missing' = {k \in base .. n : k \notin (got \cup {n}) \cup (gone \cup Left(n))}
  BY DEF Missing
<1>3. ASSUME NEW k \in base .. high
      PROVE  k \in Missing' <=> k \in Missing \ Left(n)
  <2>1. k \in base .. n /\ k # n
    BY <1>1
  <2> QED
    BY <1>2, <2>1 DEF Missing
<1>4. ASSUME NEW k \in (high + 1) .. (n - 1) PROVE k \in Missing'
  <2>1. k \in base .. n /\ k # n /\ k \notin base .. high
    BY <1>1
  <2>2. k \notin got \cup gone
    BY <1>1
  <2> QED
    BY <1>2, <2>1, <2>2 DEF Left, Missing
<1>5. ASSUME NEW k \in Missing'
      PROVE  k \in base .. high \/ k \in (high + 1) .. (n - 1)
  BY <1>1, <1>2
<1>6. Missing \subseteq base .. high
  BY DEF Missing
<1> QED
  BY <1>3, <1>4, <1>5, <1>6

\* A packet newer than the newest, within the window.
LEMMA NewerStep ==
    ASSUME IInv, tracker.hasBase, NEW n \in Numbers, n > high, n - high < Window,
           NEW T \in TrackerType, T.gaps = tracker.gaps, T.highest = tracker.highest,
           T.hasBase = tracker.hasBase, T.stats = tracker.stats,
           NEW isKey \in BOOLEAN, tracker' = Newer(T, SeqOf(n), isKey),
           GoOn(n), UNCHANGED resets
    PROVE  IInv'
<1> DEFINE D == DOMAIN tracker.gaps
           E == DOMAIN tracker'.gaps
           new == Skipped(T, SeqOf(n))
           old == PushedOut(T, SeqOf(n))
<1>1. /\ TypeOK /\ HistoryOK /\ StreamInv /\ tracker \in TrackerType
      /\ First \in Nat /\ Last \in Nat /\ n \in Nat /\ First <= n /\ n <= Last
      /\ high \in Nat /\ base \in Nat /\ Window \in Nat \ {0}
  BY Constants DEF IInv, TypeOK, HistoryOK, TableInv, Numbers
<1>2. /\ high \in Numbers /\ Missing \subseteq Numbers
      /\ \A m \in Missing : SeqOf(m) \in D /\ Number(SeqOf(m)) = m
  BY <1>1, GapIsPacket
<1>3. D \subseteq Seqs /\ IsFiniteSet(D) /\ Cardinality(D) \in Nat
  BY <1>1, TrackerParts, SeqsAreFinite
<1>4. SeqOf(n) \in Seqs
  BY Distances
<1>5. /\ tracker' \in TrackerType /\ tracker'.highest = SeqOf(n) /\ tracker'.hasBase
      /\ E = (D \ old) \cup new
      /\ \A g \in new : tracker'.gaps[g].requestCount = 0
      /\ \A g \in E \ new : tracker'.gaps[g] = tracker.gaps[g]
      /\ tracker'.stats.recovered = tracker.stats.recovered
      /\ tracker'.stats.givenUp = tracker.stats.givenUp + Cardinality(old)
  <2>1. IsFiniteSet(DOMAIN T.gaps)
    BY <1>3
  <2>2. LET R == Newer(T, SeqOf(n), isKey)
        IN  /\ R \in TrackerType /\ R.highest = SeqOf(n) /\ R.hasBase = T.hasBase
            /\ DOMAIN R.gaps = (DOMAIN T.gaps \ old) \cup new
            /\ \A g \in new : R.gaps[g].requestCount = 0
            /\ \A g \in DOMAIN R.gaps \ new : R.gaps[g] = T.gaps[g]
            /\ R.stats.recovered = T.stats.recovered
            /\ R.stats.givenUp = T.stats.givenUp + Cardinality(old)
    BY <1>4, <2>1, NewerShape, ZenonT(60)
  <2> HIDE DEF old, new
  <2> QED
    BY <2>2
<1>6. /\ new = {SeqOf(k) : k \in (high + 1) .. (n - 1)}
      /\ old = {SeqOf(m) : m \in Left(n)}
      /\ new \cap D = {} /\ SeqOf(n) \notin D
  BY <1>1, NewerSets
<1>7. old \subseteq D
  BY DEF PushedOut
<1> HIDE DEF new, old
<1>8. Closed = old
  BY <1>5, <1>6, <1>7 DEF Closed
<1>9. {Number(s) : s \in Closed \ {SeqOf(n)}} = Left(n)
  <2>1. Closed \ {SeqOf(n)} = old
    BY <1>6, <1>7, <1>8
  <2>2. Left(n) \subseteq Missing
    BY DEF Left
  <2> QED
    BY <1>2, <1>6, <2>1, <2>2
<1>10. /\ base' = base /\ high' = n /\ got' = got \cup {n} /\ gone' = gone \cup Left(n)
       /\ asked' = asked
  BY <1>9 DEF GoOn
<1>11. Missing' = (Missing \ Left(n)) \cup ((high + 1) .. (n - 1))
  BY <1>1, <1>10, NewerMissing
<1>12. E = {SeqOf(m) : m \in Missing'}
  <2>1. D \ old = {SeqOf(m) : m \in Missing \ Left(n)}
    <3>1. \A a, b \in Missing : SeqOf(a) = SeqOf(b) => a = b
      BY <1>2, Distances
    <3>2. D = {SeqOf(m) : m \in Missing} /\ Left(n) \subseteq Missing
      BY <1>1 DEF StreamInv, Left
    <3> QED
      BY <1>6, <3>1, <3>2
  <2> QED
    BY <1>5, <1>6, <1>11, <2>1
<1>13. \A m \in Missing' : n - m \in 1 .. Window - 1
  <2>1. ASSUME NEW m \in Missing \ Left(n) PROVE n - m \in 1 .. Window - 1
    BY <1>1, <1>2 DEF Left, Missing
  <2>2. ASSUME NEW m \in (high + 1) .. (n - 1) PROVE n - m \in 1 .. Window - 1
    BY <1>1
  <2> QED
    BY <1>11, <2>1, <2>2
<1>14. /\ got' \cup gone' \cup DOMAIN asked' \subseteq First .. n
       /\ got' \in SUBSET Nat /\ gone' \in SUBSET Nat
  <2>1. Left(n) \subseteq First .. n
    BY <1>1 DEF Left, Missing, StreamInv
  <2>2. got \cup gone \cup DOMAIN asked \subseteq First .. high
    BY <1>1 DEF StreamInv
  <2>3. First .. high \subseteq First .. n /\ First .. n \subseteq Nat /\ n \in First .. n
    BY <1>1
  <2> QED
    BY <1>10, <2>1, <2>2, <2>3
<1>15. \A m \in Missing' : tracker'.gaps[SeqOf(m)].requestCount = Counted(m)'
  <2>1. ASSUME NEW m \in Missing \ Left(n)
        PROVE  tracker'.gaps[SeqOf(m)].requestCount = Counted(m)'
    <3>1. SeqOf(m) \in E \ new
      BY <1>2, <1>6, <1>11, <1>12
    <3>2. tracker'.gaps[SeqOf(m)] = tracker.gaps[SeqOf(m)]
      BY <1>5, <3>1
    <3> QED
      BY <1>1, <1>10, <3>2 DEF StreamInv, Counted
  <2>2. ASSUME NEW m \in (high + 1) .. (n - 1)
        PROVE  tracker'.gaps[SeqOf(m)].requestCount = Counted(m)'
    <3>1. m \notin First .. high
      BY <1>1
    <3>2. m \notin DOMAIN asked
      BY <1>1, <3>1 DEF StreamInv
    <3>3. SeqOf(m) \in new
      BY <1>6
    <3> QED
      BY <1>5, <1>10, <3>2, <3>3 DEF Counted
  <2> QED
    BY <1>11, <2>1, <2>2
<1>16. StreamInv'
  <2>1. base <= n /\ First <= base /\ n <= Last /\ n = n
    BY <1>1 DEF StreamInv
  <2>2. \A m \in DOMAIN asked' : asked'[m] \in Nat \ {0}
    BY <1>1, <1>10 DEF StreamInv
  <2> QED
    BY <1>5, <1>10, <1>12, <1>13, <1>14, <1>15, <2>1, <2>2 DEF StreamInv, SeqOf
<1>17. Open'
  <2>1. MaxRequests > 0
    BY Constants
  <2>2. \A g \in E \ new : g \in D
    BY <1>5
  <2> QED
    BY <1>5, <2>1, <2>2 DEF IInv, Open
<1>18. /\ Cardinality(E) = Cardinality(D) - Cardinality(old) + Cardinality(new)
       /\ Cardinality(old) \in Nat /\ Cardinality(new) \in Nat
       /\ E \ D = new
  <2>1. new \subseteq Seqs
    <3>1. E \subseteq Seqs
      BY <1>5, TrackerParts
    <3> QED
      BY <1>5, <3>1
  <2>2. IsFiniteSet(new) /\ Cardinality(new) \in Nat
    BY <2>1, SeqsAreFinite
  <2>3. Cardinality(old) \in Nat
    BY <1>3, <1>7, SeqsAreFinite
  <2>4. D \cap old = old
    BY <1>7
  <2>5. IsFiniteSet(D \ old) /\ Cardinality(D \ old) = Cardinality(D) - Cardinality(old)
    <3>1. /\ IsFiniteSet(D \ old)
          /\ Cardinality(D \ old) = Cardinality(D) - Cardinality(D \cap old)
      BY <1>3, FS_Difference
    <3> QED
      BY <2>4, <3>1
  <2>6. (D \ old) \cap new = {} /\ E \ D = new
    BY <1>5, <1>6
  <2>7. Cardinality((D \ old) \cup new)
            = Cardinality(D \ old) + Cardinality(new) - Cardinality((D \ old) \cap new)
    BY <2>2, <2>5, FS_Union
  <2>8. Cardinality((D \ old) \cap new) = 0
    BY <2>6, FS_EmptySet
  <2> HIDE DEF D, E
  <2> QED
    BY <1>3, <1>5, <2>2, <2>3, <2>5, <2>6, <2>7, <2>8
<1>19. /\ ledger'.opened = ledger.opened + Cardinality(new)
       /\ ledger'.filled = ledger.filled /\ ledger'.forgotten = ledger.forgotten
       /\ ledger' \in [opened: Nat, filled: Nat, forgotten: Nat]
  <2>1. {s \in Closed \cap {SeqOf(n)} : tracker.gaps[s].requestCount = 0} = {}
    BY <1>6, <1>7, <1>8
  <2>2. ledger' = [ledger EXCEPT !.opened = @ + Cardinality(new), !.filled = @ + 0]
    BY <1>18, <2>1, FS_EmptySet DEF GoOn
  <2>3. ledger \in [opened: Nat, filled: Nat, forgotten: Nat]
    BY <1>1 DEF HistoryOK
  <2>4. Cardinality(new) \in Nat /\ 0 \in Nat /\ ledger.filled \in Nat
    BY <1>18, <2>3
  <2>5. /\ ledger' \in [opened: Nat, filled: Nat, forgotten: Nat]
        /\ ledger'.opened = ledger.opened + Cardinality(new)
        /\ ledger'.filled = ledger.filled + 0
        /\ ledger'.forgotten = ledger.forgotten
    BY <2>2, <2>3, <2>4, LedgerMoves
  <2> QED
    BY <2>4, <2>5
<1>20. EveryGapSettled'
  <2>1. /\ ledger.opened \in Nat /\ ledger.filled \in Nat /\ ledger.forgotten \in Nat
        /\ tracker.stats.recovered \in Nat /\ tracker.stats.givenUp \in Nat
    BY <1>1, TrackerParts DEF HistoryOK
  <2>2. ledger.opened = ledger.filled + ledger.forgotten
                        + tracker.stats.recovered + tracker.stats.givenUp + Cardinality(D)
    BY DEF IInv, EveryGapSettled
  <2> HIDE DEF D, E
  <2>3. ledger'.opened = ledger'.filled + ledger'.forgotten
                         + tracker'.stats.recovered + tracker'.stats.givenUp
                         + Cardinality(E)
    BY <1>3, <1>5, <1>18, <1>19, <2>1, <2>2
  <2> QED
    BY <2>3 DEF EveryGapSettled, E
<1>21. HistoryOK'
  BY <1>1, <1>10, <1>14, <1>19 DEF HistoryOK
<1> QED
  BY <1>5, <1>16, <1>17, <1>20, <1>21 DEF IInv, TypeOK, TableInv

\* A late packet, whether its gap is open, closed or was never opened.
LEMMA LateStep ==
    ASSUME IInv, tracker.hasBase, NEW n \in Numbers, n <= high,
           NEW T \in TrackerType, T.gaps = tracker.gaps, T.highest = tracker.highest,
           T.hasBase = tracker.hasBase, T.stats = tracker.stats,
           tracker' = Late(T, SeqOf(n)), GoOn(n), UNCHANGED resets
    PROVE  IInv'
<1> DEFINE D == DOMAIN tracker.gaps
           E == DOMAIN tracker'.gaps
           mine == {s \in Closed \cap {SeqOf(n)} : tracker.gaps[s].requestCount = 0}
<1>1. /\ TypeOK /\ HistoryOK /\ StreamInv /\ tracker \in TrackerType
      /\ First \in Nat /\ n \in Nat /\ First <= n /\ high \in Nat /\ base \in Nat
  BY Constants DEF IInv, TypeOK, HistoryOK, TableInv, Numbers
<1>2. /\ Missing \subseteq Numbers
      /\ \A m \in Missing : SeqOf(m) \in D
      /\ D = {SeqOf(m) : m \in Missing}
  BY <1>1, GapIsPacket DEF StreamInv
<1>3. IsFiniteSet(D) /\ Cardinality(D) \in Nat /\ SeqOf(n) \in Seqs
      /\ \A s \in D : tracker.gaps[s].requestCount \in Nat
  BY <1>1, TrackerParts, SeqsAreFinite, Distances
<1>4. /\ tracker' \in TrackerType /\ tracker'.highest = tracker.highest
      /\ tracker'.hasBase /\ E = D \ {SeqOf(n)}
      /\ \A g \in E : tracker'.gaps[g] = tracker.gaps[g]
      /\ tracker'.stats.givenUp = tracker.stats.givenUp
      /\ tracker'.stats.recovered = tracker.stats.recovered +
             (IF SeqOf(n) \in D /\ tracker.gaps[SeqOf(n)].requestCount > 0 THEN 1 ELSE 0)
  <2>1. LET R == Late(T, SeqOf(n))
        IN  /\ R \in TrackerType /\ R.highest = T.highest /\ R.hasBase = T.hasBase
            /\ DOMAIN R.gaps = DOMAIN T.gaps \ {SeqOf(n)}
            /\ \A g \in DOMAIN R.gaps : R.gaps[g] = T.gaps[g]
            /\ R.stats.givenUp = T.stats.givenUp
            /\ R.stats.recovered = T.stats.recovered +
                   (IF SeqOf(n) \in DOMAIN T.gaps /\ T.gaps[SeqOf(n)].requestCount > 0
                    THEN 1 ELSE 0)
    BY <1>3, LateShape
  <2> QED
    BY <2>1
<1>5. Closed = D \cap {SeqOf(n)}
  BY <1>4 DEF Closed
<1>6. \A m \in Missing : SeqOf(m) = SeqOf(n) => m = n
  BY <1>2, Distances
<1>7. /\ base' = base /\ high' = high /\ got' = got \cup {n} /\ gone' = gone
      /\ asked' = asked
  <2>1. {Number(s) : s \in Closed \ {SeqOf(n)}} = {}
    BY <1>5
  <2> QED
    BY <1>1, <2>1 DEF GoOn
<1>8. Missing' = Missing \ {n}
  BY <1>7 DEF Missing
<1>9. E = {SeqOf(m) : m \in Missing'}
  BY <1>2, <1>4, <1>6, <1>8
<1>10. \A m \in Missing' : tracker'.gaps[SeqOf(m)].requestCount = Counted(m)'
  <2> TAKE m \in Missing'
  <2>1. m \in Missing /\ SeqOf(m) \in E
    BY <1>8, <1>9
  <2> QED
    BY <1>1, <1>4, <1>7, <2>1 DEF StreamInv, Counted
<1>11. got' \in SUBSET Nat /\ got' \cup gone' \cup DOMAIN asked' \subseteq First .. high
  <2>1. n \in First .. high
    BY <1>1
  <2> QED
    BY <1>1, <1>7, <2>1 DEF StreamInv, HistoryOK
<1>12. StreamInv'
  <2>1. \A m \in Missing' : high - m \in 1 .. Window - 1
    BY <1>1, <1>8 DEF StreamInv
  <2>2. First <= base /\ base <= high /\ high <= Last /\ tracker'.highest = high % SeqMod
    BY <1>1, <1>4 DEF StreamInv, SeqOf
  <2>3. \A m \in DOMAIN asked' : asked'[m] \in Nat \ {0}
    BY <1>1, <1>7 DEF StreamInv
  <2> QED
    BY <1>7, <1>9, <1>10, <1>11, <2>1, <2>2, <2>3 DEF StreamInv, SeqOf
<1>13. Open'
  BY <1>4 DEF IInv, Open
<1>14. /\ ledger' \in [opened: Nat, filled: Nat, forgotten: Nat]
       /\ ledger'.opened = ledger.opened /\ ledger'.forgotten = ledger.forgotten
       /\ ledger'.filled = ledger.filled + Cardinality(mine) /\ Cardinality(mine) \in Nat
  <2>1. ledger \in [opened: Nat, filled: Nat, forgotten: Nat]
    BY <1>1 DEF HistoryOK
  <2>2. mine \subseteq D
    BY <1>5
  <2>3. Cardinality(mine) \in Nat
    BY <1>3, <2>2, FS_Subset, FS_CardinalityType
  <2>4. E \ D = {}
    BY <1>4
  <2>5. ledger' = [ledger EXCEPT !.opened = @ + 0, !.filled = @ + Cardinality(mine)]
    BY <2>4, FS_EmptySet DEF GoOn
  <2> HIDE DEF mine
  <2>6. /\ ledger' \in [opened: Nat, filled: Nat, forgotten: Nat]
        /\ ledger'.opened = ledger.opened + 0
        /\ ledger'.filled = ledger.filled + Cardinality(mine)
        /\ ledger'.forgotten = ledger.forgotten
    BY <2>1, <2>3, <2>5, LedgerMoves
  <2>7. ledger.opened \in Nat
    BY <2>1
  <2> QED
    BY <2>3, <2>6, <2>7
<1>15. Cardinality(E) = IF SeqOf(n) \in D THEN Cardinality(D) - 1 ELSE Cardinality(D)
  <2>1. Cardinality(D \ {SeqOf(n)})
            = IF SeqOf(n) \in D THEN Cardinality(D) - 1 ELSE Cardinality(D)
    BY <1>3, FS_RemoveElement
  <2> QED
    BY <1>4, <2>1
<1>16. Cardinality(mine) = IF SeqOf(n) \in D /\ tracker.gaps[SeqOf(n)].requestCount = 0
                           THEN 1 ELSE 0
  <2>1. CASE SeqOf(n) \in D /\ tracker.gaps[SeqOf(n)].requestCount = 0
    <3>1. mine = {SeqOf(n)}
      BY <1>5, <2>1
    <3> QED
      BY <2>1, <3>1, FS_Singleton
  <2>2. CASE ~(SeqOf(n) \in D /\ tracker.gaps[SeqOf(n)].requestCount = 0)
    <3>1. mine = {}
      BY <1>5, <2>2
    <3> QED
      BY <2>2, <3>1, FS_EmptySet
  <2> QED
    BY <2>1, <2>2
<1>17. EveryGapSettled'
  <2>1. /\ ledger.opened \in Nat /\ ledger.filled \in Nat /\ ledger.forgotten \in Nat
        /\ tracker.stats.recovered \in Nat /\ tracker.stats.givenUp \in Nat
    BY <1>1, TrackerParts DEF HistoryOK
  <2>2. ledger.opened = ledger.filled + ledger.forgotten
                        + tracker.stats.recovered + tracker.stats.givenUp + Cardinality(D)
    BY DEF IInv, EveryGapSettled
  <2> DEFINE rc == tracker.gaps[SeqOf(n)].requestCount
             c == Cardinality(D)
             e == Cardinality(E)
             f == Cardinality(mine)
             here == SeqOf(n) \in D
  <2>3. /\ here => rc \in Nat
        /\ c \in Nat /\ e = IF here THEN c - 1 ELSE c
        /\ f = IF here /\ rc = 0 THEN 1 ELSE 0
        /\ tracker'.stats.recovered
               = tracker.stats.recovered + (IF here /\ rc > 0 THEN 1 ELSE 0)
        /\ ledger'.filled = ledger.filled + f
        /\ ledger.opened = ledger.filled + ledger.forgotten
                           + tracker.stats.recovered + tracker.stats.givenUp + c
    BY <1>3, <1>4, <1>14, <1>15, <1>16, <2>2
  <2> HIDE DEF rc, c, e, f, here
  <2>4. ledger.opened = ledger'.filled + ledger.forgotten
                        + tracker'.stats.recovered + tracker.stats.givenUp + e
    <3>1. CASE ~here
      <4>1. e = c /\ f = 0 /\ tracker'.stats.recovered = tracker.stats.recovered + 0
        BY <2>3, <3>1
      <4> QED
        BY <2>1, <2>3, <4>1
    <3>2. CASE here /\ rc = 0
      <4>1. /\ e = c - 1 /\ f = 1
            /\ tracker'.stats.recovered = tracker.stats.recovered + 0
        BY <2>3, <3>2
      <4> QED
        BY <2>1, <2>3, <4>1
    <3>3. CASE here /\ rc > 0
      <4>1. /\ e = c - 1 /\ f = 0
            /\ tracker'.stats.recovered = tracker.stats.recovered + 1
        BY <2>3, <3>3
      <4> QED
        BY <2>1, <2>3, <4>1
    <3> QED
      BY <2>3, <3>1, <3>2, <3>3
  <2>5. ledger'.opened = ledger'.filled + ledger'.forgotten
                         + tracker'.stats.recovered + tracker'.stats.givenUp + e
    BY <1>4, <1>14, <2>4
  <2> QED
    BY <2>5 DEF EveryGapSettled, e
<1>18. HistoryOK'
  BY <1>1, <1>7, <1>11, <1>14 DEF HistoryOK
<1> QED
  BY <1>4, <1>12, <1>13, <1>17, <1>18 DEF IInv, TypeOK, TableInv

\* What collecting does to the table and to the requests, as packets.
LEMMA CollectFacts ==
    ASSUME IInv, CollectNackTargets
    PROVE  LET D   == DOMAIN tracker.gaps
               out == {Number(s) : s \in Targets(tracker)}
               end == {Number(s) : s \in Spent(tracker)}
           IN  /\ tracker' \in TrackerType /\ tracker'.highest = tracker.highest
               /\ tracker'.hasBase = tracker.hasBase
               /\ DOMAIN tracker'.gaps = D \ Spent(tracker)
               /\ \A g \in DOMAIN tracker'.gaps :
                     tracker'.gaps[g].requestCount =
                         tracker.gaps[g].requestCount
                         + (IF g \in Targets(tracker) THEN 1 ELSE 0)
               /\ tracker'.stats.recovered = tracker.stats.recovered
               /\ tracker'.stats.givenUp
                      = tracker.stats.givenUp + Cardinality(Spent(tracker))
               /\ gone' = gone \cup end
               /\ DOMAIN asked' = DOMAIN asked \cup out
               /\ \A n \in DOMAIN asked' :
                     asked'[n] = Counted(n) + (IF n \in out THEN 1 ELSE 0)
<1> DEFINE D == DOMAIN tracker.gaps
           out == {Number(s) : s \in Targets(tracker)}
<1>1. tracker \in TrackerType
  BY DEF IInv, TypeOK
<1>2. IsFiniteSet(D)
  BY <1>1, TrackerParts, SeqsAreFinite
<1>3. tracker' = Collected(tracker)
  BY DEF CollectNackTargets
<1>4. \A s \in D : tracker.gaps[s].requestCount < MaxRequests
  BY DEF IInv, Open
<1>5. LET R == Collected(tracker)
      IN  /\ R \in TrackerType /\ R.highest = tracker.highest
          /\ R.hasBase = tracker.hasBase
          /\ DOMAIN R.gaps = DOMAIN tracker.gaps \ Spent(tracker)
          /\ \A g \in DOMAIN R.gaps :
                R.gaps[g].requestCount =
                    tracker.gaps[g].requestCount
                    + (IF g \in Targets(tracker) THEN 1 ELSE 0)
          /\ R.stats.recovered = tracker.stats.recovered
          /\ R.stats.givenUp = tracker.stats.givenUp + Cardinality(Spent(tracker))
  BY <1>1, <1>2, <1>4, CollectedShape
<1>6. Closed = Spent(tracker)
  BY <1>3, <1>5 DEF Closed, Spent, Targets
<1>7. gone' = gone \cup {Number(s) : s \in Spent(tracker)}
  BY <1>6 DEF CollectNackTargets
<1>8. asked' = [n \in DOMAIN asked \cup out |->
                   (IF n \in DOMAIN asked THEN asked[n] ELSE 0)
                   + (IF n \in out THEN 1 ELSE 0)]
  BY DEF CollectNackTargets
<1>9. /\ DOMAIN asked' = DOMAIN asked \cup out
      /\ \A n \in DOMAIN asked' : asked'[n] = Counted(n) + (IF n \in out THEN 1 ELSE 0)
  <2> HIDE DEF out
  <2> QED
    BY <1>8 DEF Counted
<1> QED
  BY <1>3, <1>5, <1>7, <1>9

\* Collecting while a stream is running keeps the table exact.
LEMMA CollectKeepsStream ==
    ASSUME IInv, CollectNackTargets, StreamInv
    PROVE  StreamInv' /\ gone' \in SUBSET Nat
<1> DEFINE D == DOMAIN tracker.gaps
           E == DOMAIN tracker'.gaps
           tgt == Targets(tracker)
           spent == Spent(tracker)
           out == {Number(s) : s \in tgt}
           end == {Number(s) : s \in spent}
<1>1. /\ TypeOK /\ HistoryOK /\ tracker \in TrackerType
      /\ First \in Nat /\ high \in Nat /\ base \in Nat /\ First <= base
  BY Constants DEF IInv, TypeOK, HistoryOK, StreamInv
<1>2. /\ tracker' \in TrackerType /\ tracker'.highest = tracker.highest
      /\ E = D \ spent
      /\ \A g \in E : tracker'.gaps[g].requestCount =
                         tracker.gaps[g].requestCount + (IF g \in tgt THEN 1 ELSE 0)
      /\ gone' = gone \cup end
      /\ DOMAIN asked' = DOMAIN asked \cup out
      /\ \A n \in DOMAIN asked' : asked'[n] = Counted(n) + (IF n \in out THEN 1 ELSE 0)
  BY CollectFacts
<1>3. /\ \A n \in Missing : SeqOf(n) \in D /\ Number(SeqOf(n)) = n
      /\ \A s \in D : Number(s) \in Missing /\ SeqOf(Number(s)) = s
      /\ D = {SeqOf(n) : n \in Missing}
  BY <1>1, GapIsPacket DEF StreamInv
<1>4. spent \subseteq D /\ tgt \subseteq D
  BY DEF Spent, Targets
<1>5. base' = base /\ high' = high /\ got' = got
  BY DEF CollectNackTargets
<1> HIDE DEF spent, tgt
<1>6. /\ end \subseteq Missing /\ out \subseteq Missing
      /\ \A n \in Missing : (n \in end <=> SeqOf(n) \in spent) /\ (n \in out <=> SeqOf(n) \in tgt)
  BY <1>3, <1>4
<1> HIDE DEF end, out
<1>7. Missing' = Missing \ end
  BY <1>2, <1>5 DEF Missing
<1>8. E = {SeqOf(n) : n \in Missing'}
  BY <1>2, <1>3, <1>6, <1>7
<1>9. Missing \subseteq First .. high
  BY <1>1 DEF Missing
<1>10. got' \cup gone' \cup DOMAIN asked' \subseteq First .. high
  <2>1. got \cup gone \cup DOMAIN asked \subseteq First .. high
    BY DEF StreamInv
  <2> QED
    BY <1>2, <1>5, <1>6, <1>9, <2>1
<1>11. \A n \in DOMAIN asked : asked[n] \in Nat \ {0}
  BY DEF StreamInv
<1>12. \A n \in DOMAIN asked' : asked'[n] \in Nat \ {0}
  <2> TAKE n \in DOMAIN asked'
  <2>1. asked'[n] = Counted(n) + (IF n \in out THEN 1 ELSE 0)
    BY <1>2
  <2>2. CASE n \in DOMAIN asked
    <3>1. Counted(n) \in Nat \ {0}
      BY <1>11, <2>2 DEF Counted
    <3> QED
      BY <2>1, <3>1
  <2>3. CASE n \notin DOMAIN asked
    <3>1. Counted(n) = 0 /\ n \in out
      BY <1>2, <2>3 DEF Counted
    <3> QED
      BY <2>1, <3>1
  <2> QED
    BY <2>2, <2>3
<1>13. \A n \in Missing' : tracker'.gaps[SeqOf(n)].requestCount = Counted(n)'
  <2> TAKE n \in Missing'
  <2>1. n \in Missing /\ SeqOf(n) \in E
    BY <1>7, <1>8
  <2>2. tracker.gaps[SeqOf(n)].requestCount = Counted(n)
    BY <2>1 DEF StreamInv
  <2>3. tracker'.gaps[SeqOf(n)].requestCount = Counted(n) + (IF n \in out THEN 1 ELSE 0)
    BY <1>2, <1>6, <2>1, <2>2
  <2>4. Counted(n)' = Counted(n) + (IF n \in out THEN 1 ELSE 0)
    <3>1. CASE n \in DOMAIN asked'
      <4>1. Counted(n)' = asked'[n]
        BY <3>1 DEF Counted
      <4> QED
        BY <1>2, <3>1, <4>1
    <3>2. CASE n \notin DOMAIN asked'
      <4>1. Counted(n)' = 0 /\ Counted(n) = 0 /\ n \notin out
        BY <1>2, <3>2 DEF Counted
      <4> QED
        BY <4>1
    <3> QED
      BY <3>1, <3>2
  <2> QED
    BY <2>3, <2>4
<1>14. StreamInv'
  <2>1. \A n \in Missing' : high - n \in 1 .. Window - 1
    BY <1>7 DEF StreamInv
  <2>2. First <= base /\ base <= high /\ high <= Last /\ tracker'.highest = high % SeqMod
    BY <1>2 DEF StreamInv, SeqOf
  <2> QED
    BY <1>5, <1>8, <1>10, <1>12, <1>13, <2>1, <2>2 DEF StreamInv, SeqOf
<1>15. gone' \in SUBSET Nat
  <2>1. First .. high \subseteq Nat
    BY <1>1
  <2> QED
    BY <1>10, <2>1
<1> QED
  BY <1>14, <1>15

\* collectNackTargets()
LEMMA CollectStep ==
    ASSUME IInv, CollectNackTargets
    PROVE  IInv'
<1> DEFINE D == DOMAIN tracker.gaps
           E == DOMAIN tracker'.gaps
           tgt == Targets(tracker)
           spent == Spent(tracker)
           out == {Number(s) : s \in tgt}
<1>1. /\ TypeOK /\ HistoryOK /\ TableInv /\ Open /\ tracker \in TrackerType
      /\ MaxRequests \in Nat
  BY Constants DEF IInv, TypeOK
<1>2. /\ tracker' \in TrackerType /\ tracker'.hasBase = tracker.hasBase
      /\ E = D \ spent
      /\ \A g \in E : tracker'.gaps[g].requestCount =
                         tracker.gaps[g].requestCount + (IF g \in tgt THEN 1 ELSE 0)
      /\ tracker'.stats.recovered = tracker.stats.recovered
      /\ tracker'.stats.givenUp = tracker.stats.givenUp + Cardinality(spent)
      /\ gone' = gone \cup {Number(s) : s \in spent}
      /\ DOMAIN asked' = DOMAIN asked \cup out
  BY CollectFacts
<1>3. IsFiniteSet(D) /\ Cardinality(D) \in Nat
      /\ \A s \in D : tracker.gaps[s].requestCount \in Nat
  BY <1>1, TrackerParts, SeqsAreFinite
<1>4. spent \subseteq D /\ tgt \subseteq D
      /\ \A s \in D \ spent : s \in tgt => tracker.gaps[s].requestCount + 1 < MaxRequests
  <2>1. spent \subseteq D /\ tgt \subseteq D
    BY DEF Spent, Targets
  <2>2. ASSUME NEW s \in D \ spent, s \in tgt
        PROVE  tracker.gaps[s].requestCount + 1 < MaxRequests
    BY <1>1, <1>3, <2>2 DEF Spent
  <2> QED
    BY <2>1, <2>2
<1>5. UNCHANGED <<base, high, got, ledger, resets>>
  BY DEF CollectNackTargets
<1>6. TableInv' /\ gone' \in SUBSET Nat
  <2>1. CASE tracker.hasBase
    BY <1>1, <1>2, <2>1, CollectKeepsStream DEF TableInv
  <2>2. CASE ~tracker.hasBase
    <3>1. D = {} /\ DOMAIN asked = {}
      BY <1>1, <2>2 DEF TableInv
    <3>2. E = {} /\ spent = {} /\ tgt = {}
      BY <1>2, <1>4, <3>1
    <3> HIDE DEF spent, tgt
    <3>3. DOMAIN asked' = {} /\ gone' = gone
      BY <1>2, <3>1, <3>2
    <3> QED
      BY <1>1, <1>2, <2>2, <3>2, <3>3 DEF TableInv, HistoryOK
  <2> QED
    BY <2>1, <2>2
<1>7. Open'
  <2> SUFFICES ASSUME NEW g \in E PROVE tracker'.gaps[g].requestCount < MaxRequests
    BY DEF Open
  <2>1. g \in D \ spent
    BY <1>2
  <2>2. CASE g \in tgt
    BY <1>2, <1>4, <2>1, <2>2
  <2>3. CASE g \notin tgt
    <3>1. tracker'.gaps[g].requestCount = tracker.gaps[g].requestCount + 0
      BY <1>2, <2>3
    <3>2. tracker.gaps[g].requestCount < MaxRequests
      BY <1>1, <2>1 DEF Open
    <3> QED
      BY <1>3, <2>1, <3>1, <3>2
  <2> QED
    BY <2>2, <2>3
<1>8. Cardinality(E) = Cardinality(D) - Cardinality(spent) /\ Cardinality(spent) \in Nat
  <2>1. D \cap spent = spent
    BY <1>4
  <2>2. Cardinality(D \ spent) = Cardinality(D) - Cardinality(D \cap spent)
    BY <1>3, FS_Difference
  <2>3. Cardinality(spent) \in Nat
    BY <1>3, <1>4, FS_Subset, FS_CardinalityType
  <2> QED
    BY <1>2, <2>1, <2>2, <2>3
<1>9. EveryGapSettled'
  <2>1. /\ ledger.opened \in Nat /\ ledger.filled \in Nat /\ ledger.forgotten \in Nat
        /\ tracker.stats.recovered \in Nat /\ tracker.stats.givenUp \in Nat
    BY <1>1, TrackerParts DEF HistoryOK
  <2>2. ledger.opened = ledger.filled + ledger.forgotten
                        + tracker.stats.recovered + tracker.stats.givenUp + Cardinality(D)
    BY DEF IInv, EveryGapSettled
  <2> HIDE DEF D, E, spent
  <2>3. ledger.opened = ledger.filled + ledger.forgotten
                        + tracker'.stats.recovered + tracker'.stats.givenUp
                        + Cardinality(E)
    BY <1>2, <1>3, <1>8, <2>1, <2>2
  <2> QED
    BY <1>5, <2>3 DEF EveryGapSettled, E
<1>10. HistoryOK'
  BY <1>1, <1>5, <1>6 DEF HistoryOK
<1> QED
  BY <1>2, <1>6, <1>7, <1>9, <1>10 DEF IInv, TypeOK

\* onPacket(), as the three cases of Received().
LEMMA PacketStep ==
    ASSUME IInv, OnPacket
    PROVE  IInv'
<1>1. PICK n \in Numbers, t \in Tolerances :
          /\ IF tracker.hasBase THEN n <= high + Ahead ELSE n = First
          /\ tracker' = Received(tracker, SeqOf(n), t, n \in KeyPackets)
          /\ IF ~tracker.hasBase \/ IsFarOff(tracker, SeqOf(n)) THEN StartOver(n) ELSE GoOn(n)
          /\ UNCHANGED resets
  BY DEF OnPacket
<1> DEFINE T == [tracker EXCEPT !.tolerance = t]
           key == n \in KeyPackets
<1>2. tracker \in TrackerType /\ SeqOf(n) \in Seqs /\ t \in Nat /\ key \in BOOLEAN
  BY Constants, Distances DEF IInv, TypeOK
<1>3. /\ T \in TrackerType /\ T.gaps = tracker.gaps /\ T.highest = tracker.highest
      /\ T.hasBase = tracker.hasBase /\ T.stats = tracker.stats
  BY <1>2, ToleranceShape
<1>4. IsFarOff(T, SeqOf(n)) <=> IsFarOff(tracker, SeqOf(n))
  BY <1>3 DEF IsFarOff, IsNewer
<1>5. tracker' =
          IF ~T.hasBase THEN Rebase(T, SeqOf(n))
          ELSE IF IsFarOff(T, SeqOf(n))
               THEN [Rebase(T, SeqOf(n)) EXCEPT !.stats.discontinuities = @ + 1]
          ELSE IF IsNewer(T, SeqOf(n)) THEN Newer(T, SeqOf(n), key)
          ELSE Late(T, SeqOf(n))
  BY <1>1 DEF Received
<1> HIDE DEF T, key
<1>6. CASE ~tracker.hasBase
  <2>1. tracker' = Rebase(T, SeqOf(n)) /\ StartOver(n)
    BY <1>1, <1>3, <1>5, <1>6
  <2>2. LET R == Rebase(T, SeqOf(n))
        IN  /\ R \in TrackerType /\ R.gaps = <<>> /\ R.highest = SeqOf(n)
            /\ R.hasBase = TRUE /\ R.stats = T.stats
    BY <1>2, <1>3, RebaseShape
  <2> QED
    BY <1>1, <1>3, <2>1, <2>2, RestartStep
<1>7. CASE tracker.hasBase /\ IsFarOff(tracker, SeqOf(n))
  <2>1. /\ tracker' = [Rebase(T, SeqOf(n)) EXCEPT !.stats.discontinuities = @ + 1]
        /\ StartOver(n)
    BY <1>1, <1>3, <1>4, <1>5, <1>7
  <2>2. LET R == [Rebase(T, SeqOf(n)) EXCEPT !.stats.discontinuities = @ + 1]
        IN  /\ R \in TrackerType /\ R.gaps = <<>> /\ R.highest = SeqOf(n)
            /\ R.hasBase = TRUE
            /\ R.stats.recovered = T.stats.recovered
            /\ R.stats.givenUp = T.stats.givenUp
    BY <1>2, <1>3, DiscontinuityShape
  <2> QED
    BY <1>1, <1>3, <2>1, <2>2, RestartStep
<1>8. ASSUME tracker.hasBase, ~IsFarOff(tracker, SeqOf(n)) PROVE IInv'
  <2>1. /\ TypeOK /\ StreamInv /\ high \in Nat /\ n \in Nat
    BY <1>8, Constants DEF IInv, TypeOK, HistoryOK, TableInv, Numbers
  <2>2. high \in Numbers /\ tracker.highest = SeqOf(high)
    BY <2>1, GapIsPacket DEF StreamInv
  <2>3. /\ IsNewer(T, SeqOf(n)) <=> n > high
        /\ n > high => (SeqOf(n) - tracker.highest) % SeqMod = n - high
    BY <1>3, <2>1, <2>2, Distances DEF IsNewer
  <2>4. GoOn(n)
    BY <1>1, <1>8
  <2>5. CASE n > high
    <3>1. n - high < Window
      <4>1. ~((SeqOf(n) - tracker.highest) % SeqMod >= Window)
        BY <1>3, <1>8, <2>3, <2>5 DEF IsFarOff, IsNewer
      <4> QED
        BY <2>1, <2>3, <2>5, <4>1, Constants
    <3>2. tracker' = Newer(T, SeqOf(n), key)
      BY <1>3, <1>4, <1>5, <1>8, <2>3, <2>5
    <3> QED
      BY <1>1, <1>2, <1>3, <1>8, <2>4, <2>5, <3>1, <3>2, NewerStep
  <2>6. CASE n <= high
    <3>1. tracker' = Late(T, SeqOf(n))
      BY <1>3, <1>4, <1>5, <1>8, <2>1, <2>3, <2>6
    <3> QED
      BY <1>1, <1>3, <1>8, <2>4, <2>6, <3>1, LateStep
  <2> QED
    BY <2>1, <2>5, <2>6
<1> QED
  BY <1>2, <1>6, <1>7, <1>8, TrackerParts

\* reset()
LEMMA ResetStep ==
    ASSUME IInv, Reset
    PROVE  IInv'
<1>1. LET R == Forgotten(tracker)
      IN  /\ R \in TrackerType /\ R.gaps = <<>> /\ R.hasBase = FALSE
          /\ R.stats = tracker.stats
  BY ForgottenShape DEF IInv, TypeOK
<1>2. /\ tracker' \in TrackerType /\ DOMAIN tracker'.gaps = {} /\ ~tracker'.hasBase
      /\ tracker'.stats = tracker.stats /\ DOMAIN asked' = {}
  BY <1>1, TableType DEF Reset
<1>3. Cardinality(DOMAIN tracker.gaps) \in Nat
  BY TableIsSmall DEF IInv
<1>4. HistoryOK'
  <2> DEFINE c == Cardinality(DOMAIN tracker.gaps)
  <2>1. /\ ledger \in [opened: Nat, filled: Nat, forgotten: Nat] /\ resets \in Nat
        /\ c \in Nat /\ First \in Nat
    BY <1>3, Constants DEF IInv, TypeOK, HistoryOK
  <2> HIDE DEF c
  <2>2. [ledger EXCEPT !.forgotten = @ + c] \in [opened: Nat, filled: Nat, forgotten: Nat]
    BY <2>1
  <2>3. ledger' = [ledger EXCEPT !.forgotten = @ + c]
    BY DEF Reset, c
  <2> QED
    BY <2>1, <2>2, <2>3 DEF HistoryOK, Reset
<1>5. EveryGapSettled'
  <2>1. Cardinality(DOMAIN tracker'.gaps) = 0
    BY <1>2, FS_EmptySet
  <2>2. /\ ledger'.opened = ledger.opened /\ ledger'.filled = ledger.filled
        /\ ledger'.forgotten = ledger.forgotten + Cardinality(DOMAIN tracker.gaps)
    BY DEF IInv, TypeOK, HistoryOK, Reset
  <2>3. /\ ledger.opened \in Nat /\ ledger.filled \in Nat /\ ledger.forgotten \in Nat
        /\ tracker.stats.recovered \in Nat /\ tracker.stats.givenUp \in Nat
    BY TrackerParts DEF IInv, TypeOK, HistoryOK
  <2>4. ledger.opened = ledger.filled + ledger.forgotten
                        + tracker.stats.recovered + tracker.stats.givenUp
                        + Cardinality(DOMAIN tracker.gaps)
    BY DEF IInv, EveryGapSettled
  <2> QED
    BY <1>2, <1>3, <2>1, <2>2, <2>3, <2>4 DEF EveryGapSettled
<1> QED
  BY <1>2, <1>4, <1>5 DEF IInv, TypeOK, TableInv, Open

\* The tracker that has seen nothing.
LEMMA InitInv == Init => IInv
<1> SUFFICES ASSUME Init PROVE IInv
  OBVIOUS
<1>1. <<>> \in GapTable /\ DOMAIN <<>> = {} /\ 0 \in Seqs
  BY TableType, Constants DEF Seqs
<1>2. tracker \in TrackerType
  BY <1>1 DEF Init, NewTracker, TrackerType
<1>3. /\ DOMAIN tracker.gaps = {} /\ ~tracker.hasBase /\ DOMAIN asked = {}
      /\ tracker.stats["recovered"] = 0 /\ tracker.stats["givenUp"] = 0
  BY <1>1 DEF Init, NewTracker, TrackerCounters
<1>4. HistoryOK
  BY Constants DEF Init, HistoryOK
<1>5. EveryGapSettled
  <2>1. Cardinality(DOMAIN tracker.gaps) = 0
    BY <1>3, FS_EmptySet
  <2>2. ledger.opened = 0 /\ ledger.filled = 0 /\ ledger.forgotten = 0
    BY DEF Init
  <2> QED
    BY <1>3, <2>1, <2>2 DEF EveryGapSettled
<1> QED
  BY <1>2, <1>3, <1>4, <1>5 DEF IInv, TypeOK, TableInv, Open

\* A step that changes nothing.
LEMMA StutterStep ==
    ASSUME IInv, UNCHANGED vars
    PROVE  IInv'
  BY DEF IInv, TypeOK, HistoryOK, TableInv, StreamInv, Missing, Counted, Open,
         EveryGapSettled, vars

-----------------------------------------------------------------------------
(* The theorems.                                                           *)

\* The table of gaps is the image of the missing packets, whatever arrives.
THEOREM Invariance == Spec => []IInv
<1>1. IInv /\ [Next]_vars => IInv'
  BY PacketStep, CollectStep, ResetStep, StutterStep DEF Next
<1> QED
  BY <1>1, InitInv, PTL DEF Spec

\* onPacket(), collectNackTargets(): the table holds exactly the packets that
\* are missing, and stays within the window.
THEOREM TableIsExact == Spec => []GapsAreExact
<1>1. IInv => GapsAreExact
  <2> SUFFICES ASSUME IInv PROVE GapsAreExact
    OBVIOUS
  <2>1. TypeOK /\ TableInv
    BY DEF IInv
  <2>2. Cardinality(DOMAIN tracker.gaps) < Window
    BY <2>1, TableIsSmall
  <2>3. ASSUME tracker.hasBase
        PROVE  {Number(s) : s \in DOMAIN tracker.gaps} = Missing
    <3>1. StreamInv
      BY <2>1, <2>3 DEF TableInv
    <3> QED
      BY <2>1, <3>1, GapIsPacket
  <2> QED
    BY <2>2, <2>3 DEF GapsAreExact, Missing
<1> QED
  BY <1>1, Invariance, PTL

\* NackTracker.h: every gap is recovered, given up, pending, mere reordering or
\* forgotten with its stream.
THEOREM GapsAreSettled == Spec => []EveryGapSettled
<1>1. IInv => EveryGapSettled
  BY DEF IInv
<1> QED
  BY <1>1, Invariance, PTL

\* collectNackTargets() asks for missing packets only, at most MaxRequests times
\* each, and with a frame's worth of newer packets in between.
THEOREM RequestsArePaced == Spec => RequestsPaced
<1> DEFINE Paced(n) ==
              (n \notin DOMAIN asked \/ asked'[n] # asked[n]) =>
                  /\ n \notin got /\ asked'[n] <= MaxRequests
                  /\ high - n >= tracker.tolerance
                  /\ n \in DOMAIN asked =>
                        (tracker.highest - tracker.gaps[SeqOf(n)].lastRequest) % SeqMod
                            >= tracker.tolerance
<1>1. ASSUME IInv, [Next]_vars
      PROVE  [\A n \in Numbers \cap DOMAIN asked' : Paced(n)]_vars
  <2> SUFFICES ASSUME Next, NEW n \in Numbers \cap DOMAIN asked' PROVE Paced(n)
    BY <1>1
  <2>1. CASE DOMAIN asked' = {} \/ asked' = asked
    BY <2>1
  <2>2. CASE OnPacket
    BY <2>1, <2>2 DEF OnPacket, StartOver, GoOn
  <2>3. CASE Reset
    BY <2>1, <2>3 DEF Reset
  <2>4. CASE CollectNackTargets
    <3> DEFINE tgt == Targets(tracker)
               out == {Number(s) : s \in tgt}
    <3>1. asked'[n] = Counted(n) + (IF n \in out THEN 1 ELSE 0)
          /\ DOMAIN asked' = DOMAIN asked \cup out
      BY <1>1, <2>4, CollectFacts
    <3>2. CASE tgt = {}
      <4>1. out = {}
        BY <3>2
      <4>2. n \in DOMAIN asked /\ tracker.hasBase
        BY <1>1, <3>1, <4>1 DEF IInv, TableInv
      <4>3. asked[n] \in Nat
        BY <1>1, <4>2 DEF IInv, TableInv, StreamInv
      <4> HIDE DEF out
      <4>4. asked'[n] = asked[n]
        BY <3>1, <4>1, <4>2, <4>3 DEF Counted
      <4> QED
        BY <4>2, <4>4
    <3>3. CASE tgt # {}
      <4>1. tracker.hasBase /\ tgt \subseteq DOMAIN tracker.gaps
        BY <3>3 DEF Targets
      <4>2. TypeOK /\ StreamInv /\ tracker \in TrackerType
        BY <1>1, <4>1 DEF IInv, TypeOK, TableInv
      <4>3. CASE n \notin out
        <5>1. n \in DOMAIN asked
          BY <3>1, <4>3
        <5>2. asked[n] \in Nat
          BY <4>2, <5>1 DEF StreamInv
        <5> HIDE DEF out
        <5>3. asked'[n] = asked[n]
          BY <3>1, <4>3, <5>1, <5>2 DEF Counted
        <5> QED
          BY <5>1, <5>3
      <4>4. CASE n \in out
        <5>1. PICK s \in tgt : n = Number(s)
          BY <4>4
        <5>2. /\ s \in DOMAIN tracker.gaps /\ n \in Missing /\ SeqOf(n) = s
              /\ Age(tracker, s) = high - n
          BY <4>1, <4>2, <5>1, GapIsPacket
        <5>3. tracker.gaps[s].requestCount = Counted(n)
          BY <4>2, <5>2 DEF StreamInv
        <5>4. /\ tracker.gaps[s].requestCount < MaxRequests
              /\ Age(tracker, s) >= tracker.tolerance
              /\ tracker.gaps[s].requestCount > 0 =>
                    (tracker.highest - tracker.gaps[s].lastRequest) % SeqMod
                        >= tracker.tolerance
          BY <5>1 DEF Targets, Askable
        <5>5. tracker.gaps[s].requestCount \in Nat /\ MaxRequests \in Nat
          BY <4>2, <5>2, TrackerParts, Constants
        <5>6. asked'[n] = Counted(n) + 1
          BY <3>1, <4>4
        <5>7. asked'[n] <= MaxRequests
          BY <5>3, <5>4, <5>5, <5>6
        <5>8. n \in DOMAIN asked => tracker.gaps[s].requestCount > 0
          BY <4>2, <5>3 DEF StreamInv, Counted
        <5>9. n \notin got
          BY <5>2 DEF Missing
        <5> QED
          BY <5>2, <5>4, <5>7, <5>8, <5>9
      <4> QED
        BY <4>3, <4>4
    <3> QED
      BY <3>2, <3>3
  <2> QED
    BY <2>2, <2>3, <2>4 DEF Next
<1> QED
  BY <1>1, Invariance, PTL DEF Spec, RequestsPaced

-----------------------------------------------------------------------------
(* ReverseChannel: the messages and the packets.                           *)

Entry == [pid: Seqs, blp: SUBSET (1 .. BlpBits)]

\* What the constants of the messages and of the sender are.
LEMMA PacketConstants ==
    /\ SeqMod \in Nat \ {0} /\ MaxPayload \in Nat \ {0}
    /\ BlpBits \in Nat /\ BlpBits < SeqMod /\ MaxNackEntries \in Nat \ {0}
    /\ RetentionMs \in Nat \ {0} /\ MaxFrames \in Nat
    /\ FirstSeq \in Seqs /\ Frames \in Seq([len: Nat \ {0}, key: BOOLEAN])
    /\ 0 \in Seqs
  BY SeqAssumption, PacketizerAssumption, PacketAssumption, ReverseAssumption DEF Seqs

\* The number goes into the last entry or into a new one; nothing else changes.
LEMMA GreedyShape ==
    ASSUME NEW entries \in Seq(Entry), NEW s \in Seqs
    PROVE  /\ Greedy(entries, s) \in Seq(Entry)
           /\ Decoded(Greedy(entries, s)) = Decoded(entries) \cup {s}
<1> DEFINE n == Len(entries)
           last == entries[n]
           E == Greedy(entries, s)
<1>1. n \in Nat /\ DOMAIN entries = 1 .. n /\ SeqMod \in Nat \ {0} /\ 0 \in Nat
      /\ BlpBits \in Nat
  BY LenProperties, PacketConstants
<1>2. CASE entries # <<>> /\ Fits(s, last)
  <2> DEFINE d == Distance(s, last)
             new == [last EXCEPT !.blp = @ \cup ({d} \cap 1 .. BlpBits)]
  <2>1. n \in 1 .. n /\ last \in Entry
    BY <1>1, <1>2, EmptySeq, ElementOfSeq
  <2>2. E = [entries EXCEPT ![n] = new]
    BY <1>2 DEF Greedy
  <2>3. d \in 0 .. BlpBits /\ d \in Int /\ last.pid \in Seqs /\ last.pid \in Int
        /\ last.blp \subseteq 1 .. BlpBits
    BY <1>1, <1>2, <2>1 DEF Fits, Distance, Entry, Seqs
  <2>4. new \in Entry /\ new.pid = last.pid /\ new.blp = last.blp \cup ({d} \cap 1 .. BlpBits)
    BY <2>1, <2>3 DEF Entry
  <2>5. (last.pid + d) % SeqMod = s
    BY <1>1, <2>3, Lib!RemainderBack DEF Distance, Seqs
  <2>6. Named(new) = Named(last) \cup {s}
    <3>1. CASE d = 0
      <4>1. last.pid = s
        BY <1>1, <2>3, <2>5, <3>1, Lib!SmallRemainder DEF Seqs
      <4>2. new.blp = last.blp
        BY <2>4, <3>1
      <4> HIDE DEF new, last, d
      <4> QED
        BY <2>4, <4>1, <4>2 DEF Named
    <3>2. CASE d # 0
      <4>1. new.blp = last.blp \cup {d}
        BY <2>3, <2>4, <3>2
      <4> HIDE DEF new, last, d
      <4> QED
        BY <2>4, <2>5, <4>1 DEF Named
    <3> QED
      BY <3>1, <3>2
  <2> HIDE DEF new, d, last
  <2>7. E \in Seq(Entry) /\ DOMAIN E = 1 .. n /\ \A i \in 1 .. n : E[i] = IF i = n THEN new ELSE entries[i]
    BY <1>1, <2>1, <2>2, <2>4, ExceptSeq
  <2> HIDE DEF E
  <2>8. Decoded(E) = Decoded(entries) \cup {s}
    <3>1. ASSUME NEW x PROVE x \in Decoded(E) <=> x \in Decoded(entries) \/ x = s
      <4>1. x \in Decoded(E) <=> \E i \in 1 .. n : x \in Named(E[i])
        BY <2>7 DEF Decoded
      <4>2. x \in Decoded(entries) <=> \E i \in 1 .. n : x \in Named(entries[i])
        BY <1>1 DEF Decoded
      <4>3. x \in Named(E[n]) <=> x \in Named(entries[n]) \/ x = s
        BY <2>1, <2>6, <2>7 DEF last
      <4>4. \A i \in 1 .. n : i # n => E[i] = entries[i]
        BY <2>7
      <4> QED
        BY <2>1, <4>1, <4>2, <4>3, <4>4
    <3> QED
      BY <3>1
  <2> QED
    BY <2>7, <2>8 DEF E
<1>3. CASE ~(entries # <<>> /\ Fits(s, last))
  <2> DEFINE new == [pid |-> s, blp |-> {}]
  <2>1. E = Append(entries, new) /\ new \in Entry
    BY <1>3 DEF Greedy, Entry
  <2>2. Named(new) = {s}
    BY DEF Named
  <2> HIDE DEF new
  <2>3. /\ E \in Seq(Entry) /\ DOMAIN E = 1 .. n + 1
        /\ \A i \in 1 .. n : E[i] = entries[i]
        /\ E[n + 1] = new
    BY <2>1, AppendProperties, LenProperties
  <2> HIDE DEF E
  <2>4. Decoded(E) = Decoded(entries) \cup {s}
    <3>1. ASSUME NEW x PROVE x \in Decoded(E) <=> x \in Decoded(entries) \/ x = s
      <4>1. x \in Decoded(E) <=> \E i \in 1 .. n + 1 : x \in Named(E[i])
        BY <2>3 DEF Decoded
      <4>2. x \in Decoded(entries) <=> \E i \in 1 .. n : x \in Named(entries[i])
        BY <1>1 DEF Decoded
      <4>3. \A i \in 1 .. n + 1 : i \in 1 .. n \/ i = n + 1
        BY <1>1
      <4>4. n + 1 \in 1 .. n + 1 /\ 1 .. n \subseteq 1 .. n + 1
        BY <1>1
      <4>5. x \in Named(E[n + 1]) <=> x = s
        BY <2>2, <2>3
      <4> QED
        BY <2>3, <4>1, <4>2, <4>3, <4>4, <4>5
    <3> QED
      BY <3>1
  <2> QED
    BY <2>3, <2>4 DEF E
<1> QED
  BY <1>2, <1>3

\* What encodeNackPacket() has built after each number.
LEMMA EncodedRec ==
    ASSUME NEW missing \in Seq(Seqs)
    PROVE  /\ EncodedUpTo(missing) \in [0 .. Len(missing) -> Seq(Entry)]
           /\ EncodedUpTo(missing)[0] = <<>>
           /\ \A k \in 1 .. Len(missing) :
                 EncodedUpTo(missing)[k] = Greedy(EncodedUpTo(missing)[k - 1], missing[k])
<1> DEFINE A == Seq(Entry)
           n == Len(missing)
           step == [x \in (1 .. n) \X A |-> Greedy(x[2], missing[x[1]])]
           Rec(f) == f = [k \in 0 .. n |-> IF k = 0 THEN <<>> ELSE Greedy(f[k - 1], missing[k])]
           built == EncodedUpTo(missing)
<1>1. n \in Nat /\ <<>> \in A
  BY LenProperties
<1>2. \A k \in 1 .. n : missing[k] \in Seqs
  BY ElementOfSeq
<1>3. step \in [(1 .. n) \X A -> A]
  BY <1>2, GreedyShape
<1>4. \A k \in 1 .. n, x \in A : step[<<k, x>>] = Greedy(x, missing[k])
  OBVIOUS
<1>5. built = CHOOSE f : Rec(f)
  BY DEF EncodedUpTo
<1> HIDE DEF n, step, A
<1>6. PICK g \in [0 .. n -> A] : Lib!Follows(g, <<>>, step, n)
  BY <1>1, <1>3, Lib!RecursionExists
<1>7. ASSUME NEW k \in 1 .. n PROVE k - 1 \in 0 .. n /\ g[k] = Greedy(g[k - 1], missing[k])
  <2>1. k - 1 \in 0 .. n
    BY <1>1
  <2>2. g[k - 1] \in A
    BY <1>6, <2>1
  <2> QED
    BY <1>4, <1>6, <2>1, <2>2 DEF Lib!Follows
<1>8. Rec(g)
  BY <1>1, <1>6, <1>7 DEF Lib!Follows
<1>9. Rec(built)
  BY <1>5, <1>8
<1> HIDE DEF built
<1>10. built[0] = <<>> /\ \A k \in 1 .. n : built[k] = Greedy(built[k - 1], missing[k])
  BY <1>1, <1>9
<1>11. \A k \in 0 .. n : built[k] = g[k]
  <2>1. built[0] = g[0] /\ Lib!GoAlike(built, g, n)
    BY <1>6, <1>7, <1>10 DEF Lib!Follows, Lib!GoAlike
  <2> QED
    BY <1>1, <2>1, Lib!SameRecursion
<1>12. built = g
  BY <1>6, <1>9, <1>11
<1>13. /\ built \in [0 .. n -> A] /\ built[0] = <<>>
       /\ \A k \in 1 .. n : built[k] = Greedy(built[k - 1], missing[k])
  BY <1>6, <1>10, <1>12
<1> QED
  BY <1>13 DEF n, built, A

\* The entries name the numbers they were built from, neither more nor fewer.
LEMMA NackRoundTrip ==
    ASSUME NEW missing \in Seq(Seqs)
    PROVE  /\ Encoded(missing) \in Seq(Entry)
           /\ Decoded(Encoded(missing)) = Range(missing)
<1> DEFINE n == Len(missing)
           built == EncodedUpTo(missing)
           Upto(k) == {missing[i] : i \in 1 .. k}
           S == {k \in 0 .. n : Decoded(built[k]) = Upto(k)}
<1>1. n \in Nat /\ DOMAIN missing = 1 .. n
  BY LenProperties
<1>2. /\ built \in [0 .. n -> Seq(Entry)] /\ built[0] = <<>>
      /\ \A k \in 1 .. n : built[k] = Greedy(built[k - 1], missing[k])
  BY EncodedRec
<1> HIDE DEF built
<1>3. 0 \in S
  <2>1. Decoded(<<>>) = {}
    BY DEF Decoded
  <2> QED
    BY <1>1, <1>2, <2>1
<1>4. ASSUME NEW k \in 1 .. n, k - 1 \in S PROVE k \in S
  <2>1. k - 1 \in 0 .. n /\ k \in 0 .. n
    BY <1>1
  <2>2. built[k - 1] \in Seq(Entry) /\ missing[k] \in Seqs
    BY <1>1, <1>2, <2>1, ElementOfSeq
  <2>3. Decoded(built[k]) = Decoded(built[k - 1]) \cup {missing[k]}
    BY <1>2, <2>2, GreedyShape
  <2>4. Upto(k) = Upto(k - 1) \cup {missing[k]}
    <3>1. \A i \in 1 .. k : i \in 1 .. k - 1 \/ i = k
      BY <1>1
    <3>2. 1 .. k - 1 \subseteq 1 .. k /\ k \in 1 .. k
      BY <1>1
    <3> QED
      BY <3>1, <3>2
  <2> QED
    BY <1>4, <2>1, <2>3, <2>4
<1>5. n \in 0 .. n /\ \A k \in 0 .. n : k \in S
  <2> HIDE DEF S
  <2>1. \A k \in 0 .. n : k \in S
    BY <1>1, <1>3, <1>4, Lib!InitialInduction
  <2> HIDE DEF n
  <2> QED
    BY <1>1, <2>1
<1>6. built[n] \in Seq(Entry) /\ Decoded(built[n]) = Upto(n)
  BY <1>2, <1>5
<1>7. Range(missing) = Upto(n)
  BY <1>1 DEF Range
<1> QED
  BY <1>6, <1>7 DEF Encoded, built

\* The shared lemmas speak of the same cardinality.
LEMMA SameCardinality ==
    \A S : /\ Lib!Cardinality(S) = Cardinality(S)
           /\ Lib!IsFiniteSet(S) <=> IsFiniteSet(S)
  BY DEF Cardinality, Lib!Cardinality, IsFiniteSet, Lib!IsFiniteSet

\* The numbers that fit into one packet are some of the targets.
LEMMA SendableShape ==
    ASSUME NEW targets \in Seq(Seqs)
    PROVE  /\ Sendable(targets) \in Seq(Seqs)
           /\ Range(Sendable(targets)) \subseteq Range(targets)
<1> DEFINE n == Len(targets)
           K == {k \in 0 .. n : Len(Encoded(SubSeq(targets, 1, k))) <= MaxNackEntries}
           m == Max(K)
           R == SubSeq(targets, 1, m)
<1>1. n \in Nat /\ DOMAIN targets = 1 .. n /\ \A i \in 1 .. n : targets[i] \in Seqs
  BY LenProperties, ElementOfSeq
<1>2. 0 \in K
  <2>1. SubSeq(targets, 1, 0) = <<>>
    BY SubSeqEmpty
  <2>2. <<>> \in Seq(Seqs) /\ Len(<<>>) = 0
    BY EmptySeq
  <2>3. Encoded(<<>>) = <<>>
    BY <2>2, EncodedRec DEF Encoded
  <2>4. Len(Encoded(SubSeq(targets, 1, 0))) = 0
    BY <2>1, <2>2, <2>3
  <2>5. 0 <= MaxNackEntries
    BY PacketConstants
  <2> QED
    BY <1>1, <2>4, <2>5
<1>3. K \subseteq 0 .. n
  OBVIOUS
<1>4. Sendable(targets) = R
  BY DEF Sendable
<1> HIDE DEF K
<1>5. m \in 0 .. n
  <2>1. \E k \in K : \A j \in K : k >= j
    BY <1>1, <1>2, <1>3, Lib!GreatestNatural
  <2> QED
    BY <1>3, <2>1 DEF Max
<1> HIDE DEF m
<1>6. \A i \in 1 .. m : targets[i] \in Seqs /\ i \in 1 .. n
  BY <1>1, <1>5
<1>7. /\ R \in Seq(Seqs) /\ Len(R) = m /\ \A i \in 1 .. m : R[i] = targets[i]
  <2>1. m \in Int /\ 1 \in Int
    BY <1>1, <1>5
  <2>2. /\ R \in Seq(Seqs) /\ Len(R) = IF 1 <= m THEN m - 1 + 1 ELSE 0
        /\ \A i \in 1 .. m - 1 + 1 : R[i] = targets[1 + i - 1]
    BY <1>6, <2>1, SubSeqProperties
  <2> HIDE DEF R
  <2> QED
    BY <1>1, <1>5, <2>2
<1> HIDE DEF R
<1>8. Range(R) \subseteq Range(targets)
  <2>1. DOMAIN R = 1 .. m
    BY <1>7, LenProperties
  <2> QED
    BY <1>1, <1>6, <1>7, <2>1 DEF Range
<1> QED
  BY <1>4, <1>7, <1>8

\* The targets can be listed by age.
LEMMA TargetListShape ==
    ASSUME NEW T \in TrackerType
    PROVE  /\ TargetList(T) \in Seq(Seqs)
           /\ Range(TargetList(T)) \subseteq Targets(T)
<1> DEFINE S == Targets(T)
           key == [s \in Seqs |-> Age(T, s)]
           n == Cardinality(S)
           Sorted(list) == \A i, j \in DOMAIN list : i < j => Age(T, list[i]) > Age(T, list[j])
<1>1. SeqMod \in Nat \ {0} /\ T.highest \in Seqs /\ T.highest \in Int /\ T.gaps \in GapTable
  BY PacketConstants DEF TrackerType, Seqs
<1>2. S \subseteq Seqs
  BY <1>1, TableType DEF Targets
<1>3. IsFiniteSet(S) /\ n \in Nat
  BY <1>2, SeqsAreFinite, FS_CardinalityType
<1>4. key \in [Seqs -> Nat]
  <2>1. \A s \in Seqs : (T.highest - s) % SeqMod \in Nat
    BY <1>1 DEF Seqs
  <2> QED
    BY <2>1 DEF Age
<1>5. \A x, y \in Seqs : key[x] = key[y] => x = y
  <2> SUFFICES ASSUME NEW x \in Seqs, NEW y \in Seqs, key[x] = key[y] PROVE x = y
    OBVIOUS
  <2>1. (T.highest - ((T.highest - x) % SeqMod)) % SeqMod = x
    BY <1>1, Lib!RemainderBack DEF Seqs
  <2>2. (T.highest - ((T.highest - y) % SeqMod)) % SeqMod = y
    BY <1>1, Lib!RemainderBack DEF Seqs
  <2> QED
    BY <2>1, <2>2 DEF Age
<1>6. \A s \in Seqs : key[s] = Age(T, s)
  OBVIOUS
<1> HIDE DEF key, S
<1>7. \E list \in [1 .. n -> S] : \A i, j \in DOMAIN list : i < j => key[list[i]] > key[list[j]]
  BY <1>2, <1>3, <1>4, <1>5, SameCardinality, Lib!SortedListExists
<1>8. \E list \in [1 .. n -> S] : Sorted(list)
  <2>1. PICK list \in [1 .. n -> S] :
            \A i, j \in DOMAIN list : i < j => key[list[i]] > key[list[j]]
    BY <1>7
  <2>2. \A i \in DOMAIN list : list[i] \in Seqs
    BY <1>2
  <2>3. Sorted(list)
    BY <1>6, <2>1, <2>2
  <2> HIDE DEF Sorted
  <2> QED
    BY <2>1, <2>3
<1>9. TargetList(T) = CHOOSE list \in [1 .. n -> S] : Sorted(list)
  BY DEF TargetList, S
<1> HIDE DEF Sorted
<1>10. TargetList(T) \in [1 .. n -> S]
  BY <1>8, <1>9
<1>11. TargetList(T) \in Seq(Seqs)
  BY <1>2, <1>3, <1>10
<1>12. Range(TargetList(T)) \subseteq S
  BY <1>10 DEF Range
<1> QED
  BY <1>11, <1>12 DEF S

\* A NACK asks for targets of the tracker.
LEMMA NackShape ==
    ASSUME NEW T \in TrackerType
    PROVE  LET list == Sendable(TargetList(T))
           IN  /\ list \in Seq(Seqs) /\ Range(list) \subseteq Targets(T)
               /\ Encoded(list) \in Seq(Entry)
               /\ Decoded(Encoded(list)) \subseteq Targets(T)
<1> DEFINE list == Sendable(TargetList(T))
<1>1. list \in Seq(Seqs) /\ Range(list) \subseteq Targets(T)
  BY TargetListShape, SendableShape
<1> HIDE DEF list
<1>2. Encoded(list) \in Seq(Entry) /\ Decoded(Encoded(list)) = Range(list)
  BY <1>1, NackRoundTrip
<1> QED
  BY <1>1, <1>2 DEF list

\* The numbers that the entries of a NACK name.
LEMMA DecodedType ==
    ASSUME NEW entries \in Seq(Entry)
    PROVE  Decoded(entries) \subseteq Seqs
<1>1. ASSUME NEW i \in DOMAIN entries PROVE Named(entries[i]) \subseteq Seqs
  <2>1. entries[i] \in Entry
    BY LenProperties, ElementOfSeq
  <2>2. entries[i].pid \in Seqs
    BY <2>1 DEF Entry
  <2>3. ASSUME NEW d \in entries[i].blp PROVE (entries[i].pid + d) % SeqMod \in Seqs
    <3>1. d \in Int /\ entries[i].pid \in Int /\ SeqMod \in Nat \ {0}
      BY <2>1, PacketConstants DEF Entry, Seqs
    <3> QED
      BY <3>1 DEF Seqs
  <2> QED
    BY <2>2, <2>3 DEF Named
<1> QED
  BY <1>1 DEF Decoded

-----------------------------------------------------------------------------
(* ReverseChannel: the inductive invariant and the cache.                  *)

\* Where the frames of a sender start, in packets.
Offset ==
    LET offset[k \in 0 .. Len(Frames)] ==
            IF k = 0 THEN 0 ELSE offset[k - 1] + fragmentCount(Frames[k].len)
    IN  offset

Total == Offset[Len(Frames)]

\* Sender q's packet n, on the wire.
FirstOf(q)     == IF q = 1 THEN FirstSeq ELSE 0
Numbered(q, n) == (FirstOf(q) + n) % SeqMod

\* The numbers that sender q has sent packets under.
SentBy(q) == {d.packet.seq : d \in {o \in Originals : o.port = q}}

View       == [frame: Nat \X Nat, len: Nat \ {0}, ts: Nat, key: BOOLEAN]
CacheEntry == [view: View, baseSeq: Seqs, count: Nat \ {0}, storedAt: Nat]
Cache      == [entries: Seq(CacheEntry), bytes: Int, framesStored: Int, framesEvicted: Int]
Packet     == [seq: Seqs, ts: Nat, frame: Nat \X Nat, idx: Nat, count: Nat, key: BOOLEAN,
               retransmit: BOOLEAN, from: Nat, len: Int]
Message    == [type: {"Nack"}, to: Nat, entries: Seq(Entry)]
              \cup [type: {"Pli"}, to: Nat, ts: Nat]

SenderType == [port: Nat \ {0}, nextSeq: Seqs, cache: Cache, keyFrameRequested: BOOLEAN,
               frames: 0 .. Len(Frames)]

\* Nothing is said of the values of the RTT measurement.
IsReceiver(R) ==
    R \in [peer: Nat, tracker: TrackerType, nackSendErrors: Nat, lastPliMs: Nat,
           seenKeyFramesGivenUp: Nat, nackSentAtMs: {R.nackSentAtMs},
           rttSamples: {R.rttSamples}, rttMs: {R.rttMs}]

ReverseTypeOK ==
    /\ clock \in Nat /\ data \subseteq [port: 1 .. sender.port, packet: Packet]
    /\ reverse \subseteq Message /\ sender \in SenderType /\ IsReceiver(receiver)

\* A sender numbers its packets one after the other, so what has been sent is an
\* initial part of its numbers; no lap of them is completed.
NumbersInv ==
    /\ \A d \in data : \E n \in 0 .. Total - 1 :
          /\ d.packet.seq = Numbered(d.port, n)
          /\ \A m \in 0 .. n : Numbered(d.port, m) \in SentBy(d.port)
    /\ sender.nextSeq = Numbered(sender.port, Offset[sender.frames])
    /\ \A n \in 0 .. Offset[sender.frames] - 1 :
          Numbered(sender.port, n) \in SentBy(sender.port)

\* The datagrams of an entry of a sender's cache.
Slices(port, entry) ==
    {[port |-> port,
      packet |-> Fragment(entry.view, (entry.baseSeq + j) % SeqMod, j, entry.count, FALSE)] :
        j \in 0 .. entry.count - 1}

\* The entry holds the packet.
Keeps(entry, p) == entry.view.frame = p.frame /\ entry.storedAt = p.ts /\ Holds(entry, p.seq)

\* The cache of a sender that has sent so many frames, with S on the way, holds the
\* newest of them, one entry each and in order, all of them sent; and a packet that
\* it no longer holds is too old or not of the newest frames.
CacheOK(C, port, frames, S) ==
    /\ C.framesStored = Len(C.entries) + C.framesEvicted
    /\ C.bytes = Bytes(C.entries)
    /\ \A i \in 1 .. Len(C.entries) :
          /\ Slices(port, C.entries[i]) \subseteq S
          /\ C.entries[i].view.frame = <<port, frames - Len(C.entries) + i - 1>>
    /\ \A d \in S : d.port = port /\ ~d.packet.retransmit =>
          \/ clock - d.packet.ts >= RetentionMs
          \/ MaxFrames # 0 /\ d.packet.frame[2] < frames - MaxFrames
          \/ \E i \in 1 .. Len(C.entries) : Keeps(C.entries[i], d.packet)

CacheInv == CacheOK(sender.cache, sender.port, sender.frames, data)

\* The tracker knows nothing of other senders than the peer.
Tracks(T, q) ==
    /\ T.hasBase => T.highest \in SentBy(q)
    /\ DOMAIN T.gaps \subseteq SentBy(q)
    /\ \A s \in DOMAIN T.gaps : T.gaps[s].requestCount < MaxRequests

\* A PLI went out when the receiver says so.
PliSent(R, S) == R.lastPliMs # 0 => \E m \in S : m.type = "Pli" /\ m.ts = R.lastPliMs

ReverseInv ==
    /\ ReverseTypeOK /\ NumbersInv /\ CacheInv
    /\ Tracks(receiver.tracker, receiver.peer)
    /\ PliSent(receiver, reverse)
    /\ RetransmitIsOriginal /\ AskedOfItsSender

-----------------------------------------------------------------------------

\* How Bytes() adds up.
LEMMA BytesRec ==
    ASSUME NEW entries \in Seq(CacheEntry)
    PROVE  /\ BytesUpTo(entries) \in [0 .. Len(entries) -> Nat]
           /\ BytesUpTo(entries)[0] = 0
           /\ \A k \in 1 .. Len(entries) :
                 BytesUpTo(entries)[k] = BytesUpTo(entries)[k - 1] + entries[k].view.len
<1> DEFINE n == Len(entries)
           step == [x \in (1 .. n) \X Nat |-> x[2] + entries[x[1]].view.len]
           Rec(f) == f = [k \in 0 .. n |-> IF k = 0 THEN 0 ELSE f[k - 1] + entries[k].view.len]
           sum == BytesUpTo(entries)
<1>1. n \in Nat
  BY LenProperties
<1>2. \A k \in 1 .. n : entries[k].view.len \in Nat
  <2>1. \A k \in 1 .. n : entries[k] \in CacheEntry
    BY ElementOfSeq
  <2> QED
    BY <2>1 DEF CacheEntry, View
<1>3. step \in [(1 .. n) \X Nat -> Nat]
  BY <1>2
<1>4. \A k \in 1 .. n, x \in Nat : step[<<k, x>>] = x + entries[k].view.len
  OBVIOUS
<1>5. BytesUpTo(entries) = CHOOSE f : Rec(f)
  BY DEF BytesUpTo
<1> HIDE DEF n, step
<1>6. PICK g \in [0 .. n -> Nat] : Lib!Follows(g, 0, step, n)
  <2>1. 0 \in Nat
    OBVIOUS
  <2> QED
    BY <1>1, <1>3, <2>1, Lib!RecursionExists
<1>7. ASSUME NEW k \in 1 .. n PROVE k - 1 \in 0 .. n /\ g[k] = g[k - 1] + entries[k].view.len
  <2>1. k - 1 \in 0 .. n
    BY <1>1
  <2>2. g[k - 1] \in Nat
    BY <1>6, <2>1
  <2> QED
    BY <1>4, <1>6, <2>1, <2>2 DEF Lib!Follows
<1>8. Rec(g)
  BY <1>1, <1>6, <1>7 DEF Lib!Follows
<1>9. Rec(sum)
  BY <1>5, <1>8
<1> HIDE DEF sum
<1>10. sum[0] = 0 /\ \A k \in 1 .. n : sum[k] = sum[k - 1] + entries[k].view.len
  BY <1>1, <1>9
<1>11. \A k \in 0 .. n : sum[k] = g[k]
  <2>1. sum[0] = g[0] /\ Lib!GoAlike(sum, g, n)
    BY <1>6, <1>7, <1>10 DEF Lib!Follows, Lib!GoAlike
  <2> QED
    BY <1>1, <2>1, Lib!SameRecursion
<1>12. sum = g
  BY <1>6, <1>9, <1>11
<1>13. /\ sum \in [0 .. n -> Nat] /\ sum[0] = 0
       /\ \A k \in 1 .. n : sum[k] = sum[k - 1] + entries[k].view.len
  BY <1>6, <1>10, <1>12
<1> QED
  BY <1>13 DEF n, sum

\* One entry more, its bytes more.
LEMMA BytesAppend ==
    ASSUME NEW entries \in Seq(CacheEntry), NEW e \in CacheEntry
    PROVE  Bytes(Append(entries, e)) = Bytes(entries) + e.view.len
<1> DEFINE n == Len(entries)
           longer == Append(entries, e)
           f == BytesUpTo(entries)
           g == BytesUpTo(longer)
<1>1. /\ n \in Nat /\ longer \in Seq(CacheEntry) /\ Len(longer) = n + 1
      /\ longer[n + 1] = e /\ \A i \in 1 .. n : longer[i] = entries[i]
  BY LenProperties, AppendProperties
<1>2. f \in [0 .. n -> Nat] /\ f[0] = 0 /\ \A k \in 1 .. n : f[k] = f[k - 1] + entries[k].view.len
  BY BytesRec
<1>3. g[0] = 0 /\ \A k \in 1 .. n + 1 : g[k] = g[k - 1] + longer[k].view.len
  BY <1>1, BytesRec
<1> HIDE DEF longer, f, g, n
<1>4. \A k \in 1 .. n : k \in 1 .. n + 1 /\ longer[k] = entries[k]
  BY <1>1
<1>5. Lib!GoAlike(g, f, n)
  BY <1>2, <1>3, <1>4 DEF Lib!GoAlike
<1>6. g[n] = f[n]
  <2>1. n \in Nat /\ g[0] = f[0]
    BY <1>1, <1>2, <1>3
  <2>2. \A k \in 0 .. n : g[k] = f[k]
    BY <1>5, <2>1, Lib!SameRecursion
  <2> QED
    BY <2>1, <2>2
<1>7. g[n + 1] = g[n] + e.view.len
  <2>1. n + 1 \in 1 .. n + 1 /\ (n + 1) - 1 = n
    BY <1>1
  <2> QED
    BY <1>1, <1>3, <2>1
<1> QED
  BY <1>1, <1>6, <1>7 DEF Bytes, f, g, longer, n

\* The bytes of a sequence are those of its two parts.
LEMMA BytesSplit ==
    ASSUME NEW entries \in Seq(CacheEntry), NEW k \in 0 .. Len(entries)
    PROVE  Bytes(entries) = Bytes(SubSeq(entries, 1, k)) + Bytes(SubSeq(entries, k + 1, Len(entries)))
<1> DEFINE n == Len(entries)
           front == SubSeq(entries, 1, k)
           rest == SubSeq(entries, k + 1, n)
           f == BytesUpTo(entries)
           g == BytesUpTo(front)
           h == BytesUpTo(rest)
           S == {j \in 0 .. n - k : f[k + j] = g[k] + h[j]}
<1>1. n \in Nat /\ k \in Nat /\ k <= n /\ n - k \in Nat
      /\ \A i \in 1 .. n : entries[i] \in CacheEntry
  BY LenProperties, ElementOfSeq
<1>2. /\ front \in Seq(CacheEntry) /\ Len(front) = k
      /\ \A i \in 1 .. k : front[i] = entries[i]
  <2>1. /\ front \in Seq(CacheEntry) /\ Len(front) = IF 1 <= k THEN k - 1 + 1 ELSE 0
        /\ \A i \in 1 .. k - 1 + 1 : front[i] = entries[1 + i - 1]
    BY <1>1, SubSeqProperties
  <2> HIDE DEF front
  <2> QED
    BY <1>1, <2>1
<1>3. /\ rest \in Seq(CacheEntry) /\ Len(rest) = n - k
      /\ \A i \in 1 .. n - k : rest[i] = entries[k + i]
  <2>1. \A i \in k + 1 .. n : entries[i] \in CacheEntry
    BY <1>1
  <2>2. /\ rest \in Seq(CacheEntry) /\ Len(rest) = IF k + 1 <= n THEN n - (k + 1) + 1 ELSE 0
        /\ \A i \in 1 .. n - (k + 1) + 1 : rest[i] = entries[(k + 1) + i - 1]
    BY <1>1, <2>1, SubSeqProperties
  <2> HIDE DEF rest, n
  <2>3. n - (k + 1) + 1 = n - k /\ \A i \in 1 .. n - k : (k + 1) + i - 1 = k + i
    BY <1>1
  <2> QED
    BY <1>1, <2>2, <2>3
<1>4. f \in [0 .. n -> Nat] /\ f[0] = 0 /\ \A i \in 1 .. n : f[i] = f[i - 1] + entries[i].view.len
  BY BytesRec
<1>5. g \in [0 .. k -> Nat] /\ g[0] = 0 /\ \A i \in 1 .. k : g[i] = g[i - 1] + front[i].view.len
  BY <1>2, BytesRec
<1>6. h \in [0 .. n - k -> Nat] /\ h[0] = 0
      /\ \A i \in 1 .. n - k : h[i] = h[i - 1] + rest[i].view.len
  BY <1>3, BytesRec
<1> HIDE DEF n, front, rest, f, g, h
<1>7. f[k] = g[k]
  <2>1. \A i \in 1 .. k : i \in 1 .. n
    BY <1>1
  <2>2. Lib!GoAlike(f, g, k)
    BY <1>2, <1>4, <1>5, <2>1 DEF Lib!GoAlike
  <2>3. k \in Nat /\ f[0] = g[0]
    BY <1>1, <1>4, <1>5
  <2>4. \A i \in 0 .. k : f[i] = g[i]
    BY <2>2, <2>3, Lib!SameRecursion
  <2> QED
    BY <2>3, <2>4
<1>8. g[k] \in Nat
  BY <1>1, <1>5
<1>9. 0 \in S
  BY <1>1, <1>6, <1>7, <1>8
<1>10. ASSUME NEW j \in 1 .. n - k, j - 1 \in S PROVE j \in S
  <2>1. k + j \in 1 .. n /\ (k + j) - 1 = k + (j - 1) /\ j \in 0 .. n - k /\ j - 1 \in 0 .. n - k
    BY <1>1
  <2>2. f[k + j] = f[k + (j - 1)] + entries[k + j].view.len
    BY <1>4, <2>1
  <2>3. f[k + (j - 1)] = g[k] + h[j - 1]
    BY <1>10
  <2>4. h[j] = h[j - 1] + entries[k + j].view.len
    BY <1>3, <1>6
  <2>5. entries[k + j].view.len \in Nat /\ h[j - 1] \in Nat
    BY <1>1, <1>6, <2>1 DEF CacheEntry, View
  <2> QED
    BY <1>8, <2>1, <2>2, <2>3, <2>4, <2>5
<1>11. \A j \in 0 .. n - k : j \in S
  <2> HIDE DEF S
  <2> QED
    BY <1>1, <1>9, <1>10, Lib!InitialInduction
<1>12. f[n] = g[k] + h[n - k]
  <2>1. n - k \in 0 .. n - k /\ k + (n - k) = n
    BY <1>1
  <2>2. f[k + (n - k)] = g[k] + h[n - k]
    BY <1>11, <2>1
  <2> QED
    BY <2>1, <2>2
<1> QED
  BY <1>2, <1>3, <1>12 DEF Bytes, f, g, h, n, front, rest

\* pop_front() k times: the last entries stay, and the sums with them.
LEMMA EvictShape ==
    ASSUME NEW C \in Cache, NEW k \in 0 .. Len(C.entries)
    PROVE  LET R == Evict(C, k)
           IN  /\ R \in Cache /\ Len(R.entries) = Len(C.entries) - k
               /\ \A i \in 1 .. Len(C.entries) - k : R.entries[i] = C.entries[k + i]
               /\ R.framesStored = C.framesStored /\ R.framesEvicted = C.framesEvicted + k
               /\ C.bytes = Bytes(C.entries) => R.bytes = Bytes(R.entries)
<1> DEFINE s == C.entries
           n == Len(s)
           rest == SubSeq(s, k + 1, n)
           popped == Bytes(SubSeq(s, 1, k))
           R == Evict(C, k)
<1>1. n \in Nat /\ s \in Seq(CacheEntry) /\ k \in Nat /\ k <= n
      /\ \A i \in 1 .. n : s[i] \in CacheEntry
  BY LenProperties, ElementOfSeq DEF Cache
<1>2. /\ rest \in Seq(CacheEntry) /\ Len(rest) = n - k
      /\ \A i \in 1 .. n - k : rest[i] = s[k + i]
  <2>1. \A i \in k + 1 .. n : s[i] \in CacheEntry
    BY <1>1
  <2>2. /\ rest \in Seq(CacheEntry) /\ Len(rest) = IF k + 1 <= n THEN n - (k + 1) + 1 ELSE 0
        /\ \A i \in 1 .. n - (k + 1) + 1 : rest[i] = s[(k + 1) + i - 1]
    BY <1>1, <2>1, SubSeqProperties
  <2> HIDE DEF rest, n
  <2>3. n - (k + 1) + 1 = n - k /\ \A i \in 1 .. n - k : (k + 1) + i - 1 = k + i
    BY <1>1
  <2> QED
    BY <1>1, <2>2, <2>3
<1>3. popped \in Nat
  <2>1. SubSeq(s, 1, k) \in Seq(CacheEntry)
    BY <1>1, SubSeqProperties
  <2>2. \A t \in Seq(CacheEntry) : Len(t) \in 0 .. Len(t) /\ BytesUpTo(t) \in [0 .. Len(t) -> Nat]
    BY BytesRec, LenProperties
  <2> QED
    BY <2>1, <2>2 DEF Bytes
<1>4. Bytes(s) = popped + Bytes(rest) /\ Bytes(rest) \in Nat
  <2>1. \A t \in Seq(CacheEntry) : Len(t) \in 0 .. Len(t) /\ BytesUpTo(t) \in [0 .. Len(t) -> Nat]
    BY BytesRec, LenProperties
  <2>2. Bytes(rest) \in Nat
    BY <1>2, <2>1 DEF Bytes
  <2> QED
    BY <1>1, <2>2, BytesSplit
<1> DEFINE bytes == C.bytes - popped
           evicted == C.framesEvicted + k
<1>5. R = [C EXCEPT !.entries = rest, !.bytes = bytes, !.framesEvicted = evicted]
  BY DEF Evict
<1>7. bytes \in Int /\ evicted \in Int
  BY <1>1, <1>3 DEF Cache
<1> HIDE DEF popped, rest, R, bytes, evicted
<1>6. /\ R \in Cache /\ R.entries = rest /\ R.bytes = bytes
      /\ R.framesStored = C.framesStored /\ R.framesEvicted = evicted
  BY <1>2, <1>5, <1>7 DEF Cache
<1>8. C.bytes \in Int
  BY DEF Cache
<1> QED
  BY <1>1, <1>2, <1>3, <1>4, <1>6, <1>8 DEF R, bytes, evicted

\* evictExpired() takes the entries up to the first one that is not expired.
LEMMA UnexpiredShape ==
    ASSUME NEW C \in Cache, NEW now \in Nat
    PROVE  \E k \in 0 .. Len(C.entries) :
              /\ Unexpired(C, now) = Evict(C, k)
              /\ \A i \in 1 .. k : IsExpired(C.entries[i], now)
<1> DEFINE n == Len(C.entries)
           K == {k \in 0 .. n : \A i \in 1 .. k : IsExpired(C.entries[i], now)}
<1>1. n \in Nat
  BY LenProperties DEF Cache
<1>2. K \subseteq 0 .. n /\ 0 \in K
  BY <1>1
<1>3. Unexpired(C, now) = Evict(C, Max(K))
  BY DEF Unexpired
<1>4. Max(K) \in K
  <2> HIDE DEF K
  <2>1. \E k \in K : \A j \in K : k >= j
    BY <1>1, <1>2, Lib!GreatestNatural
  <2> QED
    BY <2>1 DEF Max
<1> QED
  BY <1>3, <1>4

\* The limit takes what there is too much of.
LEMMA BoundedShape ==
    ASSUME NEW C \in Cache
    PROVE  \E k \in 0 .. Len(C.entries) :
              /\ Bounded(C) = Evict(C, k)
              /\ k = 0 \/ (MaxFrames # 0 /\ k = Len(C.entries) - MaxFrames)
<1> DEFINE n == Len(C.entries)
<1>1. n \in Nat /\ MaxFrames \in Nat /\ C.entries \in Seq(CacheEntry)
  BY LenProperties, PacketConstants DEF Cache
<1>2. CASE MaxFrames # 0 /\ n > MaxFrames
  <2>1. n - MaxFrames \in 0 .. n /\ Bounded(C) = Evict(C, n - MaxFrames)
    BY <1>1, <1>2 DEF Bounded
  <2> QED
    BY <1>2, <2>1
<1>3. CASE ~(MaxFrames # 0 /\ n > MaxFrames)
  <2>1. Bounded(C) = C
    BY <1>3 DEF Bounded
  <2>2. Evict(C, 0) = C
    <3> DEFINE none == SubSeq(C.entries, 1, 0)
               all == SubSeq(C.entries, 1, n)
    <3>1. none = <<>> /\ all = C.entries
      BY <1>1, SubSeqEmpty, SubSeqFull
    <3>2. Bytes(none) = 0
      BY <3>1, EmptySeq, BytesRec DEF Bytes
    <3>3. Evict(C, 0) = [C EXCEPT !.entries = all, !.bytes = @ - Bytes(none),
                                  !.framesEvicted = @ + 0]
      BY DEF Evict
    <3>4. C.bytes - 0 = C.bytes /\ C.framesEvicted + 0 = C.framesEvicted
      BY DEF Cache
    <3> HIDE DEF none, all
    <3>5. Evict(C, 0) = [C EXCEPT !.entries = C.entries, !.bytes = C.bytes,
                                  !.framesEvicted = C.framesEvicted]
      BY <3>1, <3>2, <3>3, <3>4
    <3> QED
      BY <3>5 DEF Cache
  <2> QED
    BY <1>1, <2>1, <2>2
<1> QED
  BY <1>2, <1>3

-----------------------------------------------------------------------------
(* ReverseChannel: the sender's numbers.                                   *)

\* A frame that is not empty takes a packet or more.
LEMMA CountType ==
    ASSUME NEW len \in Nat \ {0}
    PROVE  fragmentCount(len) \in Nat \ {0}
<1> DEFINE q == len \div MaxPayload
           r == len % MaxPayload
<1>1. MaxPayload \in Nat \ {0}
  BY PacketConstants
<1>2. q \in Nat /\ r \in Nat /\ len = q * MaxPayload + r
  BY <1>1
<1> HIDE DEF q, r
<1>3. r = 0 => q # 0
  BY <1>1, <1>2
<1>4. q + (IF r # 0 THEN 1 ELSE 0) \in Nat \ {0}
  BY <1>2, <1>3
<1> QED
  BY <1>4 DEF fragmentCount, q, r

\* What the frames are, and how many packets each takes.
LEMMA FrameCounts ==
    /\ Len(Frames) \in Nat /\ DOMAIN Frames = 1 .. Len(Frames)
    /\ \A k \in 1 .. Len(Frames) :
          /\ Frames[k].len \in Nat \ {0} /\ Frames[k].key \in BOOLEAN
          /\ fragmentCount(Frames[k].len) \in Nat \ {0}
<1>1. Frames \in Seq([len: Nat \ {0}, key: BOOLEAN])
  BY PacketConstants
<1>2. Len(Frames) \in Nat /\ DOMAIN Frames = 1 .. Len(Frames)
  BY <1>1, LenProperties
<1>3. ASSUME NEW k \in 1 .. Len(Frames)
      PROVE  Frames[k].len \in Nat \ {0} /\ Frames[k].key \in BOOLEAN
  <2>1. Frames[k] \in [len: Nat \ {0}, key: BOOLEAN]
    BY <1>1, ElementOfSeq
  <2> QED
    BY <2>1
<1> QED
  BY <1>2, <1>3, CountType

\* How Offset adds up.
LEMMA OffsetRec ==
    /\ Offset \in [0 .. Len(Frames) -> Nat] /\ Offset[0] = 0
    /\ \A k \in 1 .. Len(Frames) :
          Offset[k] = Offset[k - 1] + fragmentCount(Frames[k].len)
<1> DEFINE n == Len(Frames)
           step == [x \in (1 .. n) \X Nat |-> x[2] + fragmentCount(Frames[x[1]].len)]
           Rec(f) == f = [k \in 0 .. n |->
                             IF k = 0 THEN 0 ELSE f[k - 1] + fragmentCount(Frames[k].len)]
<1>1. n \in Nat /\ \A k \in 1 .. n : fragmentCount(Frames[k].len) \in Nat
  BY FrameCounts
<1>2. step \in [(1 .. n) \X Nat -> Nat]
  BY <1>1
<1>3. \A k \in 1 .. n, x \in Nat : step[<<k, x>>] = x + fragmentCount(Frames[k].len)
  OBVIOUS
<1>4. Offset = CHOOSE f : Rec(f)
  BY DEF Offset
<1> HIDE DEF n, step
<1>5. PICK g \in [0 .. n -> Nat] : Lib!Follows(g, 0, step, n)
  <2>1. 0 \in Nat
    OBVIOUS
  <2> QED
    BY <1>1, <1>2, <2>1, Lib!RecursionExists
<1>6. ASSUME NEW k \in 1 .. n
      PROVE  k - 1 \in 0 .. n /\ g[k] = g[k - 1] + fragmentCount(Frames[k].len)
  <2>1. k - 1 \in 0 .. n
    BY <1>1
  <2>2. g[k - 1] \in Nat
    BY <1>5, <2>1
  <2> QED
    BY <1>3, <1>5, <2>1, <2>2 DEF Lib!Follows
<1>7. Rec(g)
  BY <1>1, <1>5, <1>6 DEF Lib!Follows
<1>8. Rec(Offset)
  BY <1>4, <1>7
<1>9. Offset[0] = 0 /\ \A k \in 1 .. n : Offset[k] = Offset[k - 1] + fragmentCount(Frames[k].len)
  BY <1>1, <1>8
<1>10. \A k \in 0 .. n : Offset[k] = g[k]
  <2>1. Offset[0] = g[0] /\ Lib!GoAlike(Offset, g, n)
    BY <1>5, <1>6, <1>9 DEF Lib!Follows, Lib!GoAlike
  <2> QED
    BY <1>1, <2>1, Lib!SameRecursion
<1>11. Offset = g
  BY <1>5, <1>8, <1>10
<1> QED
  BY <1>5, <1>9, <1>11 DEF n

\* A sender sends less than half of the numbers.
LEMMA OffsetBounds ==
    /\ Total \in Nat /\ 2 * Total < SeqMod
    /\ \A k \in 0 .. Len(Frames) : Offset[k] \in Nat /\ Offset[k] <= Total
    /\ \A k \in 1 .. Len(Frames) : fragmentCount(Frames[k].len) < SeqMod
<1> DEFINE n == Len(Frames)
           c(k) == fragmentCount(Frames[k].len)
<1>1. /\ n \in Nat /\ SeqMod \in Nat \ {0} /\ DOMAIN Frames = 1 .. n
      /\ \A k \in 1 .. n : c(k) \in Nat \ {0}
  BY FrameCounts, PacketConstants
<1>2. /\ \A k \in 0 .. n : Offset[k] \in Nat
      /\ Offset[0] = 0 /\ \A k \in 1 .. n : Offset[k] = Offset[k - 1] + c(k)
  BY OffsetRec
<1>3. Total = Offset[n] /\ Total \in Nat
  <2>1. n \in 0 .. n
    BY <1>1
  <2> QED
    BY <1>2, <2>1 DEF Total
<1>4. \A k \in 1 .. n : 2 * (n * c(k)) < SeqMod
  BY <1>1, SpanAssumption
<1>5. ASSUME NEW k \in 1 .. n PROVE c(k) < SeqMod
  <2>1. c(k) \in Nat /\ n - 1 \in Nat /\ 2 * (n * c(k)) < SeqMod
    BY <1>1, <1>4
  <2> DEFINE x == c(k)
             y == n - 1
  <2>2. x \in Nat /\ y \in Nat /\ n = y + 1
    BY <1>1, <2>1
  <2> HIDE DEF x, n, y
  <2>4. y * x \in Nat
    BY <2>2
  <2>3. n * x \in Nat /\ n * x = y * x + x
    BY <2>2, <2>4
  <2> QED
    BY <1>1, <2>1, <2>2, <2>3, <2>4, SMTT(60) DEF x, n
<1>6. \A k \in 0 .. n : Offset[k] <= Total
  <2> DEFINE S == {j \in 0 .. n : Offset[n - j] <= Total}
  <2> HIDE DEF n, c
  <2>1. 0 \in S
    BY <1>1, <1>3
  <2>2. ASSUME NEW j \in 1 .. n, j - 1 \in S PROVE j \in S
    <3>1. n - j \in 0 .. n /\ n - (j - 1) \in 1 .. n /\ (n - (j - 1)) - 1 = n - j /\ j \in 0 .. n
      BY <1>1
    <3>2. Offset[n - (j - 1)] = Offset[n - j] + c(n - (j - 1)) /\ c(n - (j - 1)) \in Nat
      BY <1>1, <1>2, <3>1
    <3>3. Offset[n - (j - 1)] <= Total
      BY <2>2
    <3>4. Offset[n - j] \in Nat
      BY <1>2, <3>1
    <3>5. Offset[n - j] <= Total
      BY <1>3, <3>2, <3>3, <3>4
    <3> QED
      BY <3>1, <3>5
  <2>3. \A j \in 0 .. n : j \in S
    <3> HIDE DEF S
    <3> QED
      BY <1>1, <2>1, <2>2, Lib!InitialInduction
  <2>4. ASSUME NEW k \in 0 .. n PROVE Offset[k] <= Total
    <3>1. n - k \in 0 .. n /\ n - (n - k) = k
      BY <1>1
    <3>2. Offset[n - (n - k)] <= Total
      BY <2>3, <3>1
    <3> QED
      BY <3>1, <3>2
  <2> QED
    BY <2>4
<1>7. 2 * Total < SeqMod
  <2>1. CASE n = 0
    BY <1>1, <1>2, <1>3, <2>1
  <2>2. CASE n # 0
    <3> DEFINE K == {c(k) : k \in 1 .. n}
    <3>1. K \subseteq 0 .. SeqMod
      BY <1>1, <1>5
    <3>2. K # {}
      <4>1. 1 \in 1 .. n
        BY <1>1, <2>2
      <4> QED
        BY <4>1
    <3>3. PICK m \in K : \A x \in K : m >= x
      <4> HIDE DEF K
      <4> QED
        BY <1>1, <3>1, <3>2, Lib!GreatestNatural
    <3>4. PICK i \in 1 .. n : m = c(i)
      BY <3>3
    <3>5. m \in Nat /\ 2 * (n * m) < SeqMod /\ \A k \in 1 .. n : c(k) <= m
      BY <1>1, <1>4, <3>3, <3>4
    <3> DEFINE S == {k \in 0 .. n : Offset[k] <= k * m}
    <3> HIDE DEF n, c, K
    <3>6. 0 \in S
      BY <1>1, <1>2, <3>5
    <3>7. ASSUME NEW k \in 1 .. n, k - 1 \in S PROVE k \in S
      <4>1. k - 1 \in 0 .. n /\ k \in 0 .. n /\ k \in Int
        BY <1>1
      <4>2. Offset[k] = Offset[k - 1] + c(k) /\ Offset[k - 1] <= (k - 1) * m
            /\ Offset[k - 1] \in Nat /\ c(k) <= m /\ c(k) \in Nat
        BY <1>1, <1>2, <3>5, <3>7, <4>1
      <4>3. (k - 1) * m = k * m - m /\ k * m \in Int
        BY <3>5, <4>1
      <4>4. Offset[k] <= k * m
        BY <3>5, <4>2, <4>3
      <4> QED
        BY <4>1, <4>4
    <3>8. \A k \in 0 .. n : k \in S
      <4> HIDE DEF S
      <4> QED
        BY <1>1, <3>6, <3>7, Lib!InitialInduction
    <3>9. Offset[n] <= n * m
      <4>1. n \in 0 .. n
        BY <1>1
      <4> QED
        BY <3>8, <4>1
    <3>10. n * m \in Nat
      BY <1>1, <3>5
    <3> QED
      BY <1>1, <1>3, <3>5, <3>9, <3>10
  <2> QED
    BY <2>1, <2>2
<1> QED
  BY <1>2, <1>3, <1>5, <1>6, <1>7

\* The smaller one of two numbers, and the larger one.
LEMMA MinOfTwo == ASSUME NEW a \in Int, NEW b \in Int PROVE Min({a, b}) \in {a, b}
<1>1. \E x \in {a, b} : \A y \in {a, b} : x <= y
  OBVIOUS
<1> QED
  BY <1>1 DEF Min

\* Max() of two is one of them.
LEMMA MaxOfTwo == ASSUME NEW a \in Int, NEW b \in Int PROVE Max({a, b}) \in {a, b}
<1>1. \E x \in {a, b} : \A y \in {a, b} : x >= y
  OBVIOUS
<1> QED
  BY <1>1 DEF Max

\* A slice of a frame is a packet.
LEMMA FragmentType ==
    ASSUME NEW view \in View, NEW s \in Seqs, NEW i \in Nat, NEW count \in Nat,
           NEW again \in BOOLEAN
    PROVE  Fragment(view, s, i, count, again) \in Packet
<1> DEFINE from == i * MaxPayload
           len == Min({MaxPayload, view.len - from})
<1>1. from \in Nat /\ MaxPayload \in Nat
  BY PacketConstants
<1> HIDE DEF from
<1>2. view.ts \in Nat /\ view.frame \in Nat \X Nat /\ view.key \in BOOLEAN /\ view.len \in Nat
  BY DEF View
<1>3. len \in Int
  BY <1>1, <1>2, MinOfTwo
<1>4. Fragment(view, s, i, count, again) =
          [seq |-> s, ts |-> view.ts, frame |-> view.frame, idx |-> i, count |-> count,
           key |-> view.key, retransmit |-> again, from |-> from, len |-> len]
  BY DEF Fragment, from
<1> HIDE DEF len
<1> QED
  BY <1>1, <1>2, <1>3, <1>4 DEF Packet

\* An entry holds the numbers of its frame's packets.
LEMMA HeldNumbers ==
    ASSUME NEW e \in CacheEntry
    PROVE  /\ \A s \in Seqs : Holds(e, s) =>
                 \E j \in 0 .. e.count - 1 : /\ j = (s - e.baseSeq) % SeqMod
                                             /\ (e.baseSeq + j) % SeqMod = s
           /\ e.count < SeqMod =>
                 \A j \in 0 .. e.count - 1 : Holds(e, (e.baseSeq + j) % SeqMod)
<1>1. /\ SeqMod \in Nat \ {0} /\ e.baseSeq \in Seqs /\ e.baseSeq \in Int
      /\ e.count \in Nat
  BY PacketConstants DEF CacheEntry, Seqs
<1>2. ASSUME NEW s \in Seqs, Holds(e, s)
      PROVE  /\ (s - e.baseSeq) % SeqMod \in 0 .. e.count - 1
             /\ (e.baseSeq + ((s - e.baseSeq) % SeqMod)) % SeqMod = s
  <2>1. (e.baseSeq + ((s - e.baseSeq) % SeqMod)) % SeqMod = s
    BY <1>1, Lib!RemainderBack DEF Seqs
  <2>2. s - e.baseSeq \in Int
    BY <1>1 DEF Seqs
  <2>3. (s - e.baseSeq) % SeqMod \in Nat
    BY <1>1, <2>2
  <2> QED
    BY <1>1, <1>2, <2>1, <2>3 DEF Holds
<1>3. ASSUME e.count < SeqMod, NEW j \in 0 .. e.count - 1
      PROVE  Holds(e, (e.baseSeq + j) % SeqMod)
  <2>1. j \in 0 .. SeqMod - 1 /\ j \in Int /\ e.baseSeq + j \in Int
    BY <1>1, <1>3
  <2>2. (((e.baseSeq + j) % SeqMod) - e.baseSeq) % SeqMod = ((e.baseSeq + j) - e.baseSeq) % SeqMod
    BY <1>1, <2>1, Lib!RemainderMinus
  <2>3. (e.baseSeq + j) - e.baseSeq = j
    BY <1>1, <2>1
  <2>4. j % SeqMod = j
    BY <1>1, <2>1, Lib!SmallRemainder
  <2> QED
    BY <1>1, <2>2, <2>3, <2>4 DEF Holds
<1> QED
  BY <1>2, <1>3

\* A number that a sender has sent is the number of one of its packets, and all packets
\* up to that one have been sent.
LEMMA Position ==
    ASSUME NumbersInv, NEW q, NEW s \in SentBy(q)
    PROVE  \E n \in 0 .. Total - 1 :
              s = Numbered(q, n) /\ \A m \in 0 .. n : Numbered(q, m) \in SentBy(q)
<1>1. PICK d \in data : d.port = q /\ d.packet.seq = s
  BY DEF SentBy, Originals
<1> QED
  BY <1>1 DEF NumbersInv

\* A sender's numbers compare as its packets do.
LEMMA NewerByPosition ==
    ASSUME NEW q, NEW n \in 0 .. Total - 1, NEW k \in 0 .. Total - 1
    PROVE  /\ seqNewerThan(Numbered(q, n), Numbered(q, k), SeqMod) <=> n > k
           /\ n >= k => (Numbered(q, n) - Numbered(q, k)) % SeqMod = n - k
<1> DEFINE F == FirstOf(q)
<1>1. /\ SeqMod \in Nat \ {0} /\ F \in Nat /\ Total \in Nat /\ 2 * Total < SeqMod
  BY PacketConstants, OffsetBounds DEF FirstOf, Seqs
<1> DEFINE a == Numbered(q, n)
           b == Numbered(q, k)
<1>2. a = (F + n) % SeqMod /\ b = (F + k) % SeqMod
  BY DEF Numbered
<1> HIDE DEF F, a, b
<1>3. /\ F + n \in Nat /\ F + k \in Nat /\ n \in Int /\ k \in Int
      /\ 2 * ((F + n) - (F + k)) < SeqMod /\ 2 * ((F + k) - (F + n)) < SeqMod
      /\ (F + n) - (F + k) = n - k
  BY <1>1
<1>4. Signed(a - b, SeqMod) = n - k
  BY <1>1, <1>2, <1>3, Lib!SignedDistance DEF Lib!Signed, Signed
<1>5. ASSUME n >= k PROVE (a - b) % SeqMod = n - k
  <2>1. (F + n) - (F + k) \in 0 .. SeqMod - 1
    BY <1>1, <1>3, <1>5
  <2>2. F + n \in Int /\ F + k \in Int
    BY <1>3
  <2>3. (((F + n) % SeqMod) - ((F + k) % SeqMod)) % SeqMod = (F + n) - (F + k)
    BY <1>1, <2>1, <2>2, Lib!UnsignedDistance
  <2> QED
    BY <1>2, <1>3, <2>3
<1>6. seqNewerThan(a, b, SeqMod) <=> n > k
  BY <1>3, <1>4 DEF seqNewerThan
<1> QED
  BY <1>5, <1>6 DEF a, b

\* What a tracker skips between two packets of a sender has been sent by it, and lies
\* between them.
LEMMA SkippedLies ==
    ASSUME NumbersInv, NEW q, NEW a \in SentBy(q), NEW b \in SentBy(q),
           seqNewerThan(a, b, SeqMod), NEW age \in 1 .. ((a - b) % SeqMod) - 1
    PROVE  /\ (a - age) % SeqMod \in SentBy(q)
           /\ seqNewerThan((a - age) % SeqMod, b, SeqMod)
           /\ ~seqNewerThan((a - age) % SeqMod, a, SeqMod)
<1> DEFINE F == FirstOf(q)
<1>1. /\ SeqMod \in Nat \ {0} /\ F \in Nat /\ Total \in Nat
  BY PacketConstants, OffsetBounds DEF FirstOf, Seqs
<1>2. PICK n \in 0 .. Total - 1 :
          a = Numbered(q, n) /\ \A m \in 0 .. n : Numbered(q, m) \in SentBy(q)
  BY Position
<1>3. PICK k \in 0 .. Total - 1 : b = Numbered(q, k)
  BY Position
<1>4. n > k /\ (a - b) % SeqMod = n - k
  <2>1. n > k
    BY <1>2, <1>3, NewerByPosition
  <2>2. n >= k
    BY <1>1, <2>1
  <2> QED
    BY <1>2, <1>3, <2>1, <2>2, NewerByPosition
<1>5. /\ n - age \in 0 .. n /\ n - age \in 0 .. Total - 1 /\ n - age > k /\ ~(n - age > n)
      /\ age \in Int /\ F + n \in Int /\ (F + n) - age = F + (n - age)
  BY <1>1, <1>4
<1>6. a = (F + n) % SeqMod
  BY <1>2 DEF Numbered
<1>7. (a - age) % SeqMod = Numbered(q, n - age)
  <2> HIDE DEF F
  <2>1. (((F + n) % SeqMod) - age) % SeqMod = ((F + n) - age) % SeqMod
    BY <1>1, <1>5, Lib!RemainderMinus
  <2>2. ((F + n) - age) % SeqMod = Numbered(q, n - age)
    BY <1>5 DEF Numbered, F
  <2> QED
    BY <1>6, <2>1, <2>2
<1> DEFINE m == n - age
<1>8. m \in 0 .. n /\ m \in 0 .. Total - 1 /\ m > k /\ ~(m > n)
  BY <1>5
<1> HIDE DEF m
<1>9. Numbered(q, m) \in SentBy(q)
  BY <1>2, <1>8
<1>10. seqNewerThan(Numbered(q, m), b, SeqMod) /\ ~seqNewerThan(Numbered(q, m), a, SeqMod)
  BY <1>2, <1>3, <1>8, NewerByPosition
<1> QED
  BY <1>7, <1>9, <1>10 DEF m

\* A packet of the sender leaves the tracker with what that sender has sent.
LEMMA ReceivedTracks ==
    ASSUME NumbersInv, NEW T \in TrackerType, NEW q, Tracks(T, q),
           NEW s \in SentBy(q) \cap Seqs, NEW t \in Nat, NEW isKey \in BOOLEAN
    PROVE  Received(T, s, t, isKey) \in TrackerType /\ Tracks(Received(T, s, t, isKey), q)
<1> DEFINE U == [T EXCEPT !.tolerance = t]
           R == Received(T, s, t, isKey)
<1>1. /\ U \in TrackerType /\ U.gaps = T.gaps /\ U.highest = T.highest
      /\ U.hasBase = T.hasBase /\ U.stats = T.stats
  BY ToleranceShape
<1>2. R = IF ~U.hasBase THEN Rebase(U, s)
          ELSE IF IsFarOff(U, s) THEN [Rebase(U, s) EXCEPT !.stats.discontinuities = @ + 1]
          ELSE IF IsNewer(U, s) THEN Newer(U, s, isKey)
          ELSE Late(U, s)
  BY DEF Received
<1> HIDE DEF U, R
<1>3. Tracks(U, q)
  BY <1>1 DEF Tracks
<1>4. /\ DOMAIN U.gaps \subseteq Seqs /\ IsFiniteSet(DOMAIN U.gaps)
      /\ MaxRequests \in Nat \ {0}
  BY <1>1, TrackerParts, SeqsAreFinite, Constants
<1>5. CASE ~U.hasBase
  <2>1. R = Rebase(U, s)
    BY <1>2, <1>5
  <2>2. /\ R \in TrackerType /\ R.gaps = <<>> /\ R.highest = s
    BY <1>1, <2>1, RebaseShape
  <2>3. DOMAIN R.gaps = {}
    BY <2>2, TableType
  <2> QED
    BY <2>2, <2>3 DEF Tracks, R
<1>6. CASE U.hasBase /\ IsFarOff(U, s)
  <2>1. R = [Rebase(U, s) EXCEPT !.stats.discontinuities = @ + 1]
    BY <1>2, <1>6
  <2>2. /\ R \in TrackerType /\ R.gaps = <<>> /\ R.highest = s
    BY <1>1, <2>1, DiscontinuityShape
  <2>3. DOMAIN R.gaps = {}
    BY <2>2, TableType
  <2> QED
    BY <2>2, <2>3 DEF Tracks, R
<1>7. CASE U.hasBase /\ ~IsFarOff(U, s) /\ IsNewer(U, s)
  <2>1. R = Newer(U, s, isKey)
    BY <1>2, <1>7
  <2>2. /\ R \in TrackerType /\ R.highest = s
        /\ DOMAIN R.gaps = (DOMAIN U.gaps \ PushedOut(U, s)) \cup Skipped(U, s)
        /\ \A g \in Skipped(U, s) : R.gaps[g].requestCount = 0
        /\ \A g \in DOMAIN R.gaps \ Skipped(U, s) : R.gaps[g] = U.gaps[g]
    BY <1>1, <1>4, <2>1, NewerShape
  <2>3. Skipped(U, s) \subseteq SentBy(q)
    <3>1. U.highest \in SentBy(q) /\ seqNewerThan(s, U.highest, SeqMod)
      BY <1>3, <1>7 DEF Tracks, IsNewer
    <3>2. ASSUME NEW age \in 1 .. ((s - U.highest) % SeqMod) - 1
          PROVE  (s - age) % SeqMod \in SentBy(q)
      BY <3>1, SkippedLies
    <3> QED
      BY <3>2 DEF Skipped
  <2>4. \A g \in DOMAIN R.gaps : R.gaps[g].requestCount < MaxRequests
    BY <1>3, <1>4, <2>2 DEF Tracks
  <2> QED
    BY <1>3, <2>2, <2>3, <2>4 DEF Tracks, R
<1>8. CASE U.hasBase /\ ~IsFarOff(U, s) /\ ~IsNewer(U, s)
  <2>1. R = Late(U, s)
    BY <1>2, <1>8
  <2>2. /\ R \in TrackerType /\ R.highest = U.highest /\ R.hasBase = U.hasBase
        /\ DOMAIN R.gaps = DOMAIN U.gaps \ {s}
        /\ \A g \in DOMAIN R.gaps : R.gaps[g] = U.gaps[g]
    BY <1>1, <2>1, LateShape
  <2> QED
    BY <1>3, <2>2 DEF Tracks, R
<1> QED
  BY <1>5, <1>6, <1>7, <1>8

\* Asking again leaves the tracker with what that sender has sent.
LEMMA CollectedTracks ==
    ASSUME NEW T \in TrackerType, NEW q, Tracks(T, q)
    PROVE  Collected(T) \in TrackerType /\ Tracks(Collected(T), q)
<1> DEFINE R == Collected(T)
<1>1. IsFiniteSet(DOMAIN T.gaps) /\ MaxRequests \in Nat
      /\ \A s \in DOMAIN T.gaps : T.gaps[s].requestCount \in Nat
  BY TrackerParts, SeqsAreFinite, Constants
<1>2. /\ R \in TrackerType /\ R.highest = T.highest /\ R.hasBase = T.hasBase
      /\ DOMAIN R.gaps = DOMAIN T.gaps \ Spent(T)
      /\ \A g \in DOMAIN R.gaps :
            R.gaps[g].requestCount = T.gaps[g].requestCount + (IF g \in Targets(T) THEN 1 ELSE 0)
  BY <1>1, CollectedShape DEF Tracks
<1> HIDE DEF R
<1>3. ASSUME NEW g \in DOMAIN R.gaps PROVE R.gaps[g].requestCount < MaxRequests
  <2>1. g \in DOMAIN T.gaps /\ g \notin Spent(T)
    BY <1>2
  <2>2. T.gaps[g].requestCount < MaxRequests
    BY <2>1 DEF Tracks
  <2>3. g \in Targets(T) => T.gaps[g].requestCount + 1 < MaxRequests
    BY <1>1, <2>1 DEF Spent
  <2> QED
    BY <1>1, <1>2, <2>1, <2>2, <2>3
<1> QED
  BY <1>2, <1>3 DEF Tracks, R

\* A tracker that has forgotten everything tracks any sender.
LEMMA ForgottenTracks ==
    ASSUME NEW T \in TrackerType, NEW q
    PROVE  Forgotten(T) \in TrackerType /\ Tracks(Forgotten(T), q)
<1>1. LET R == Forgotten(T)
      IN  R \in TrackerType /\ R.gaps = <<>> /\ R.hasBase = FALSE
  BY ForgottenShape
<1>2. DOMAIN Forgotten(T).gaps = {}
  BY <1>1, TableType
<1> QED
  BY <1>1, <1>2 DEF Tracks

-----------------------------------------------------------------------------
(* ReverseChannel: the receive thread's handlers.                          *)

\* trackPeer()
LEMMA TrackPeerShape ==
    ASSUME NEW R, IsReceiver(R), NEW port \in Nat
    PROVE  LET Q == TrackPeer(R, port)
           IN  /\ IsReceiver(Q) /\ Q.peer = port
               /\ Q.nackSendErrors = R.nackSendErrors /\ Q.lastPliMs = R.lastPliMs
               /\ Q.seenKeyFramesGivenUp = R.seenKeyFramesGivenUp
               /\ Q.tracker = IF R.peer = port THEN R.tracker ELSE Forgotten(R.tracker)
<1>1. R.tracker \in TrackerType
  BY DEF IsReceiver
<1>2. Forgotten(R.tracker) \in TrackerType
  BY <1>1, ForgottenTracks
<1> DEFINE F == Forgotten(R.tracker)
<1> HIDE DEF F
<1>3. TrackPeer(R, port) = IF R.peer = port THEN R ELSE [R EXCEPT !.peer = port, !.tracker = F]
  BY DEF TrackPeer, F
<1> QED
  BY <1>2, <1>3 DEF IsReceiver, F

\* observeRetransmit() only touches the measurement.
LEMMA ObserveShape ==
    ASSUME NEW R, IsReceiver(R), NEW p
    PROVE  LET Q == ObserveRetransmit(R, p)
           IN  /\ IsReceiver(Q) /\ Q.peer = R.peer
               /\ Q.nackSendErrors = R.nackSendErrors /\ Q.lastPliMs = R.lastPliMs
               /\ Q.seenKeyFramesGivenUp = R.seenKeyFramesGivenUp
               /\ Q.tracker = R.tracker
<1> DEFINE Q == ObserveRetransmit(R, p)
<1>1. \E a, b, c : Q = R \/ Q = [R EXCEPT !.nackSentAtMs = a, !.rttSamples = b, !.rttMs = c]
  BY DEF ObserveRetransmit
<1> HIDE DEF Q
<1>2. PICK a, b, c : Q = R \/ Q = [R EXCEPT !.nackSentAtMs = a, !.rttSamples = b, !.rttMs = c]
  BY <1>1
<1> QED
  BY <1>2 DEF IsReceiver, Q

\* Another tracker, nothing else.
LEMMA WithTracker ==
    ASSUME NEW R, IsReceiver(R), NEW T \in TrackerType
    PROVE  LET Q == [R EXCEPT !.tracker = T]
           IN  /\ IsReceiver(Q) /\ Q.peer = R.peer
               /\ Q.nackSendErrors = R.nackSendErrors /\ Q.lastPliMs = R.lastPliMs
               /\ Q.seenKeyFramesGivenUp = R.seenKeyFramesGivenUp
               /\ Q.tracker = T
  BY DEF IsReceiver

\* A PLI that is no older than the interval.
RecentPli(S) == \E m \in S : m.type = "Pli" /\ clock - m.ts < PliMinIntervalMs

Plis == [type: {"Pli"}, to: Nat, ts: Nat]

\* requestKeyFrame(): a PLI goes out, has just gone out, or could not be sent.
LEMMA KeyFrameShape ==
    ASSUME clock \in Nat, NEW R, IsReceiver(R), NEW S, S \subseteq Message, PliSent(R, S),
           NEW ok \in BOOLEAN
    PROVE  LET X == RequestKeyFrame(R, ok)
           IN  /\ IsReceiver(X.R) /\ X.R.peer = R.peer /\ X.R.tracker = R.tracker
               /\ X.R.seenKeyFramesGivenUp = R.seenKeyFramesGivenUp
               /\ X.R.nackSendErrors >= R.nackSendErrors
               /\ X.sent \subseteq Plis
               /\ PliSent(X.R, S \cup X.sent)
               /\ PliMinIntervalMs > 0 /\ R.peer # 0 =>
                     \/ X.R.nackSendErrors > R.nackSendErrors
                     \/ RecentPli(S \cup X.sent)
<1> DEFINE X == RequestKeyFrame(R, ok)
           none == [R |-> R, sent |-> {}]
           failed == [R |-> [R EXCEPT !.nackSendErrors = @ + 1], sent |-> {}]
           pli == [type |-> "Pli", to |-> R.peer, ts |-> clock]
           done == [R |-> [R EXCEPT !.lastPliMs = clock], sent |-> {pli}]
<1>1. PliMinIntervalMs \in Int /\ R.lastPliMs \in Nat /\ R.nackSendErrors \in Nat /\ R.peer \in Nat
  BY ReverseAssumption DEF IsReceiver
<1>2. CASE PliMinIntervalMs <= 0 \/ R.peer = 0
  <2>1. X = none
    BY <1>2 DEF RequestKeyFrame
  <2>2. X.R = R /\ X.sent = {} /\ S \cup {} = S
    BY <2>1
  <2> HIDE DEF X
  <2> QED
    BY <1>1, <1>2, <2>2 DEF X
<1>3. CASE ~(PliMinIntervalMs <= 0 \/ R.peer = 0) /\ IsSuppressed(R)
  <2>1. X = none
    BY <1>3 DEF RequestKeyFrame
  <2>2. X.R = R /\ X.sent = {} /\ S \cup {} = S
    BY <2>1
  <2>3. RecentPli(S)
    <3>1. /\ R.lastPliMs # 0
          /\ clock < R.lastPliMs \/ clock - R.lastPliMs < PliMinIntervalMs
      BY <1>3 DEF IsSuppressed
    <3>2. clock - R.lastPliMs < PliMinIntervalMs
      BY <1>1, <1>3, <3>1
    <3> QED
      BY <3>1, <3>2 DEF PliSent, RecentPli
  <2> HIDE DEF X
  <2> QED
    BY <1>1, <2>2, <2>3 DEF X
<1>4. CASE ~(PliMinIntervalMs <= 0 \/ R.peer = 0) /\ ~IsSuppressed(R) /\ ~ok
  <2>1. X = failed
    BY <1>4 DEF RequestKeyFrame
  <2>2. X.R = [R EXCEPT !.nackSendErrors = R.nackSendErrors + 1] /\ X.sent = {} /\ S \cup {} = S
    BY <2>1
  <2> DEFINE e == R.nackSendErrors + 1
  <2>3. e \in Nat /\ e > R.nackSendErrors
    BY <1>1
  <2> HIDE DEF X, e
  <2>4. /\ IsReceiver(X.R) /\ X.R.peer = R.peer /\ X.R.tracker = R.tracker
        /\ X.R.seenKeyFramesGivenUp = R.seenKeyFramesGivenUp
        /\ X.R.nackSendErrors = e /\ X.R.lastPliMs = R.lastPliMs
    BY <2>2, <2>3 DEF IsReceiver, e
  <2>5. PliSent(X.R, S)
    BY <2>4 DEF PliSent
  <2> QED
    BY <1>1, <2>2, <2>3, <2>4, <2>5 DEF X
<1>5. CASE ~(PliMinIntervalMs <= 0 \/ R.peer = 0) /\ ~IsSuppressed(R) /\ ok
  <2>1. X = done
    BY <1>5 DEF RequestKeyFrame
  <2>2. X.R = [R EXCEPT !.lastPliMs = clock] /\ X.sent = {pli}
    BY <2>1
  <2>3. pli \in Plis /\ pli.type = "Pli" /\ pli.ts = clock
    BY <1>1 DEF Plis
  <2> HIDE DEF X, pli
  <2>4. /\ IsReceiver(X.R) /\ X.R.peer = R.peer /\ X.R.tracker = R.tracker
        /\ X.R.seenKeyFramesGivenUp = R.seenKeyFramesGivenUp
        /\ X.R.nackSendErrors = R.nackSendErrors /\ X.R.lastPliMs = clock
    BY <2>2 DEF IsReceiver
  <2>5. PliSent(X.R, S \cup {pli})
    BY <2>3, <2>4 DEF PliSent
  <2>6. clock - clock < PliMinIntervalMs
    BY <1>1, <1>5
  <2>7. RecentPli(S \cup {pli})
    BY <2>3, <2>6 DEF RecentPli
  <2> QED
    BY <1>1, <2>2, <2>3, <2>4, <2>5, <2>7 DEF X
<1> QED
  BY <1>2, <1>3, <1>4, <1>5

\* The edge of the tracker's counter is answered by a request.
LEMMA ReportShape ==
    ASSUME clock \in Nat, NEW R, IsReceiver(R), NEW S, S \subseteq Message, PliSent(R, S),
           NEW ok \in BOOLEAN
    PROVE  LET X == ReportKeyFrames(R, ok)
           IN  /\ IsReceiver(X.R) /\ X.R.peer = R.peer /\ X.R.tracker = R.tracker
               /\ X.R.nackSendErrors >= R.nackSendErrors
               /\ X.sent \subseteq Plis
               /\ PliSent(X.R, S \cup X.sent)
               /\ PliMinIntervalMs > 0 /\ R.peer # 0
                  /\ X.R.seenKeyFramesGivenUp > R.seenKeyFramesGivenUp =>
                     \/ X.R.nackSendErrors > R.nackSendErrors
                     \/ RecentPli(S \cup X.sent)
<1> DEFINE X == ReportKeyFrames(R, ok)
           given == R.tracker.stats.keyFramesGivenUp
           Q == [R EXCEPT !.seenKeyFramesGivenUp = given]
<1>1. R.seenKeyFramesGivenUp \in Nat /\ R.nackSendErrors \in Nat
  BY DEF IsReceiver
<1>2. given \in Nat
  <2>1. R.tracker.stats \in [TrackerCounters -> Nat]
    BY DEF IsReceiver, TrackerType
  <2> QED
    BY <2>1 DEF TrackerCounters
<1>3. CASE given > R.seenKeyFramesGivenUp
  <2>1. X = RequestKeyFrame(Q, ok)
    BY <1>3 DEF ReportKeyFrames
  <2> HIDE DEF given
  <2>2. /\ IsReceiver(Q) /\ Q.peer = R.peer /\ Q.tracker = R.tracker
        /\ Q.nackSendErrors = R.nackSendErrors /\ Q.lastPliMs = R.lastPliMs
    BY <1>2 DEF IsReceiver
  <2>3. PliSent(Q, S)
    BY <2>2 DEF PliSent
  <2> HIDE DEF Q, X
  <2> QED
    BY <2>1, <2>2, <2>3, KeyFrameShape DEF X
<1>4. CASE ~(given > R.seenKeyFramesGivenUp)
  <2>1. X = [R |-> R, sent |-> {}]
    BY <1>4 DEF ReportKeyFrames
  <2>2. X.R = R /\ X.sent = {} /\ S \cup {} = S
    BY <2>1
  <2> HIDE DEF X
  <2> QED
    BY <1>1, <2>2 DEF X
<1> QED
  BY <1>3, <1>4

\* A NACK goes to the peer and asks for targets of the tracker.
LEMMA SendNackShape ==
    ASSUME NEW R, IsReceiver(R), NEW T \in TrackerType, NEW ok \in BOOLEAN
    PROVE  LET X == SendNack(R, TargetList(T), ok)
           IN  /\ IsReceiver(X.R) /\ X.R.peer = R.peer /\ X.R.tracker = R.tracker
               /\ X.R.lastPliMs = R.lastPliMs
               /\ X.R.seenKeyFramesGivenUp = R.seenKeyFramesGivenUp
               /\ X.R.nackSendErrors >= R.nackSendErrors
               /\ X.sent \subseteq [type: {"Nack"}, to: {R.peer}, entries: Seq(Entry)]
               /\ \A m \in X.sent : Decoded(m.entries) \subseteq Targets(T)
<1> DEFINE list == TargetList(T)
           X == SendNack(R, list, ok)
           entries == Encoded(Sendable(list))
           nack == [type |-> "Nack", to |-> R.peer, entries |-> entries]
           e == R.nackSendErrors + 1
<1>1. R.nackSendErrors \in Nat /\ e \in Nat /\ e >= R.nackSendErrors
  BY DEF IsReceiver
<1>2. entries \in Seq(Entry) /\ Decoded(entries) \subseteq Targets(T)
  BY NackShape
<1> HIDE DEF list, entries, e
<1>3. CASE list = <<>> \/ R.peer = 0
  <2>1. X = [R |-> R, sent |-> {}]
    BY <1>3 DEF SendNack
  <2>2. X.R = R /\ X.sent = {}
    BY <2>1
  <2> HIDE DEF X
  <2> QED
    BY <1>1, <2>2 DEF X, list
<1>4. CASE ~(list = <<>> \/ R.peer = 0) /\ ~ok
  <2>1. X = [R |-> [R EXCEPT !.nackSendErrors = e], sent |-> {}]
    BY <1>4 DEF SendNack, e
  <2>2. X.R = [R EXCEPT !.nackSendErrors = e] /\ X.sent = {}
    BY <2>1
  <2> HIDE DEF X
  <2>3. /\ IsReceiver(X.R) /\ X.R.peer = R.peer /\ X.R.tracker = R.tracker
        /\ X.R.lastPliMs = R.lastPliMs
        /\ X.R.seenKeyFramesGivenUp = R.seenKeyFramesGivenUp
        /\ X.R.nackSendErrors = e
    BY <1>1, <2>2 DEF IsReceiver
  <2> QED
    BY <1>1, <2>2, <2>3 DEF X, list
<1>5. CASE ~(list = <<>> \/ R.peer = 0) /\ ok
  <2> DEFINE table == RecordNackSent(R.nackSentAtMs, Range(Sendable(list)))
  <2>1. X = [R |-> [R EXCEPT !.nackSentAtMs = table], sent |-> {nack}]
    BY <1>5 DEF SendNack, entries
  <2> HIDE DEF table
  <2>2. X.R = [R EXCEPT !.nackSentAtMs = table] /\ X.sent = {nack}
    BY <2>1
  <2> HIDE DEF X
  <2>3. /\ IsReceiver(X.R) /\ X.R.peer = R.peer /\ X.R.tracker = R.tracker
        /\ X.R.lastPliMs = R.lastPliMs
        /\ X.R.seenKeyFramesGivenUp = R.seenKeyFramesGivenUp
        /\ X.R.nackSendErrors = R.nackSendErrors
    BY <2>2 DEF IsReceiver
  <2>4. nack \in [type: {"Nack"}, to: {R.peer}, entries: Seq(Entry)] /\ nack.entries = entries
    BY <1>2
  <2> HIDE DEF nack
  <2> QED
    BY <1>1, <1>2, <2>2, <2>3, <2>4 DEF X, list
<1> QED
  BY <1>3, <1>4, <1>5

\* Every packet on the way has a number that its sender has sent.
LEMMA NumberWasSent ==
    ASSUME ReverseTypeOK, NumbersInv, NEW d \in data
    PROVE  /\ d.packet.seq \in SentBy(d.port) \cap Seqs
           /\ d.port \in Nat \ {0} /\ d.packet.count \in Nat /\ d.packet.key \in BOOLEAN
<1>1. PICK n \in 0 .. Total - 1 :
          /\ d.packet.seq = Numbered(d.port, n)
          /\ \A m \in 0 .. n : Numbered(d.port, m) \in SentBy(d.port)
  BY DEF NumbersInv
<1>2. n \in 0 .. n
  BY OffsetBounds
<1>3. d \in [port: 1 .. sender.port, packet: Packet] /\ sender.port \in Nat
  BY DEF ReverseTypeOK, SenderType
<1>4. d.packet \in Packet /\ d.port \in Nat \ {0}
  BY <1>3
<1> QED
  BY <1>1, <1>2, <1>4 DEF Packet

\* What the configured limits leave of a fragment count.
LEMMA ToleranceType == ASSUME NEW count \in Nat PROVE Tolerance(count) \in Nat
<1> DEFINE low  == Min({MinReorder, MaxReorder})
           most == Max({MinReorder, MaxReorder})
           t    == Min({count, most})
<1>1. MinReorder \in Nat /\ MaxReorder \in Nat
  BY ReverseAssumption
<1>2. low \in Nat /\ most \in Nat
  BY <1>1, MinOfTwo, MaxOfTwo
<1> HIDE DEF low, most
<1>3. t \in Nat
  <2>1. count \in Int /\ most \in Int
    BY <1>2
  <2> QED
    BY <1>2, <2>1, MinOfTwo
<1> HIDE DEF t
<1>4. Max({low, t}) \in Nat
  <2>1. low \in Int /\ t \in Int
    BY <1>2, <1>3
  <2> QED
    BY <1>2, <1>3, <2>1, MaxOfTwo
<1> QED
  BY <1>4 DEF Tolerance, low, most, t

\* The tracker's part of a packet's handling.
LEMMA TrackedShape ==
    ASSUME ReverseTypeOK, NumbersInv, NEW d \in data, NEW R, IsReceiver(R), Tracks(R.tracker, d.port)
    PROVE  LET Q == Tracked(R, d.packet)
           IN  /\ IsReceiver(Q) /\ Q.peer = R.peer
               /\ Q.nackSendErrors = R.nackSendErrors /\ Q.lastPliMs = R.lastPliMs
               /\ Q.seenKeyFramesGivenUp = R.seenKeyFramesGivenUp
               /\ Tracks(Q.tracker, d.port)
<1> DEFINE p == d.packet
           t == Tolerance(p.count)
           T == Received(R.tracker, p.seq, t, p.key)
<1>1. p.seq \in SentBy(d.port) \cap Seqs /\ p.key \in BOOLEAN /\ p.count \in Nat
  BY NumberWasSent
<1>2. t \in Nat /\ R.tracker \in TrackerType
  BY <1>1, ToleranceType DEF IsReceiver
<1> HIDE DEF t
<1>3. T \in TrackerType /\ Tracks(T, d.port)
  BY <1>1, <1>2, ReceivedTracks
<1>4. Tracked(R, p) = [R EXCEPT !.tracker = T]
  BY DEF Tracked, t
<1> HIDE DEF T
<1> QED
  BY <1>3, <1>4, WithTracker

\* The receiver's steps leave the sender's part of the invariant alone.
LEMMA SenderIsLeftAlone ==
    ASSUME ReverseInv, UNCHANGED <<clock, data, sender>>
    PROVE  /\ NumbersInv' /\ CacheInv' /\ RetransmitIsOriginal'
           /\ \A q : SentBy(q)' = SentBy(q)
           /\ Originals' = Originals
<1>1. Originals' = Originals
  BY DEF Originals
<1>2. \A q : SentBy(q)' = SentBy(q)
  BY <1>1 DEF SentBy
<1>3. NumbersInv'
  BY <1>2 DEF ReverseInv, NumbersInv
<1>4. CacheInv'
  <2>1. CacheInv /\ clock' = clock /\ data' = data /\ sender' = sender
    BY DEF ReverseInv
  <2> QED
    BY <2>1 DEF CacheInv, CacheOK
<1>5. RetransmitIsOriginal'
  BY DEF ReverseInv, RetransmitIsOriginal
<1> QED
  BY <1>1, <1>2, <1>3, <1>4, <1>5

\* recvLoop() with a packet of the network.
LEMMA ReceivePacketStep ==
    ASSUME ReverseInv, ReceivePacket
    PROVE  /\ ReverseInv'
           /\ PliMinIntervalMs > 0
              /\ receiver'.seenKeyFramesGivenUp > receiver.seenKeyFramesGivenUp =>
                    \/ receiver'.nackSendErrors > receiver.nackSendErrors
                    \/ RecentPli(reverse')
<1>1. /\ ReverseTypeOK /\ NumbersInv /\ IsReceiver(receiver) /\ clock \in Nat
      /\ reverse \subseteq Message
      /\ Tracks(receiver.tracker, receiver.peer) /\ PliSent(receiver, reverse)
      /\ UNCHANGED <<clock, data, sender>>
  BY DEF ReverseInv, ReverseTypeOK, ReceivePacket
<1>2. PICK d \in data : ReceiveData(d.port, d.packet)
  BY DEF ReceivePacket
<1> DEFINE q == d.port
           p == d.packet
           R1 == TrackPeer(receiver, q)
           R2 == ObserveRetransmit(R1, p)
           R3 == Tracked(R2, p)
           R4 == [R3 EXCEPT !.tracker = Collected(@)]
           list == TargetList(R3.tracker)
<1>3. PICK ok1 \in SendResults, ok2 \in SendResults :
          LET pli  == ReportKeyFrames(R4, ok1)
              nack == SendNack(pli.R, list, ok2)
          IN  receiver' = nack.R /\ reverse' = reverse \cup pli.sent \cup nack.sent
  BY <1>2 DEF ReceiveData
<1> DEFINE pli == ReportKeyFrames(R4, ok1)
           nack == SendNack(pli.R, list, ok2)
<1>4. receiver' = nack.R /\ reverse' = reverse \cup pli.sent \cup nack.sent
      /\ ok1 \in BOOLEAN /\ ok2 \in BOOLEAN
  BY <1>3 DEF SendResults
<1>5. q \in Nat \ {0}
  BY <1>1, NumberWasSent
<1>6. /\ IsReceiver(R1) /\ R1.peer = q
      /\ R1.nackSendErrors = receiver.nackSendErrors /\ R1.lastPliMs = receiver.lastPliMs
      /\ R1.seenKeyFramesGivenUp = receiver.seenKeyFramesGivenUp
      /\ Tracks(R1.tracker, q)
  <2>1. receiver.tracker \in TrackerType
    BY <1>1 DEF IsReceiver
  <2>2. LET Q == TrackPeer(receiver, q)
        IN  /\ IsReceiver(Q) /\ Q.peer = q
            /\ Q.nackSendErrors = receiver.nackSendErrors /\ Q.lastPliMs = receiver.lastPliMs
            /\ Q.seenKeyFramesGivenUp = receiver.seenKeyFramesGivenUp
            /\ Q.tracker = IF receiver.peer = q THEN receiver.tracker ELSE Forgotten(receiver.tracker)
    BY <1>1, <1>5, TrackPeerShape
  <2>3. Tracks(Forgotten(receiver.tracker), q)
    BY <2>1, ForgottenTracks
  <2> QED
    BY <1>1, <2>2, <2>3
<1> HIDE DEF R1
<1>7. /\ IsReceiver(R2) /\ R2.peer = q
      /\ R2.nackSendErrors = receiver.nackSendErrors /\ R2.lastPliMs = receiver.lastPliMs
      /\ R2.seenKeyFramesGivenUp = receiver.seenKeyFramesGivenUp
      /\ Tracks(R2.tracker, q)
  <2>1. LET Q == ObserveRetransmit(R1, p)
        IN  /\ IsReceiver(Q) /\ Q.peer = R1.peer
            /\ Q.nackSendErrors = R1.nackSendErrors /\ Q.lastPliMs = R1.lastPliMs
            /\ Q.seenKeyFramesGivenUp = R1.seenKeyFramesGivenUp
            /\ Q.tracker = R1.tracker
    BY <1>6, ObserveShape
  <2> QED
    BY <1>6, <2>1
<1> HIDE DEF R2
<1>8. /\ IsReceiver(R3) /\ R3.peer = q
      /\ R3.nackSendErrors = receiver.nackSendErrors /\ R3.lastPliMs = receiver.lastPliMs
      /\ R3.seenKeyFramesGivenUp = receiver.seenKeyFramesGivenUp
      /\ Tracks(R3.tracker, q)
  <2>1. LET Q == Tracked(R2, d.packet)
        IN  /\ IsReceiver(Q) /\ Q.peer = R2.peer
            /\ Q.nackSendErrors = R2.nackSendErrors /\ Q.lastPliMs = R2.lastPliMs
            /\ Q.seenKeyFramesGivenUp = R2.seenKeyFramesGivenUp
            /\ Tracks(Q.tracker, d.port)
    BY <1>1, <1>7, TrackedShape
  <2> QED
    BY <1>7, <2>1
<1> HIDE DEF R3
<1>9. /\ IsReceiver(R4) /\ R4.peer = q
      /\ R4.nackSendErrors = receiver.nackSendErrors /\ R4.lastPliMs = receiver.lastPliMs
      /\ R4.seenKeyFramesGivenUp = receiver.seenKeyFramesGivenUp
      /\ Tracks(R4.tracker, q)
  <2>1. R3.tracker \in TrackerType
    BY <1>8 DEF IsReceiver
  <2>2. Collected(R3.tracker) \in TrackerType /\ Tracks(Collected(R3.tracker), q)
    BY <1>8, <2>1, CollectedTracks
  <2>3. LET Q == [R3 EXCEPT !.tracker = Collected(R3.tracker)]
        IN  /\ IsReceiver(Q) /\ Q.peer = R3.peer
            /\ Q.nackSendErrors = R3.nackSendErrors /\ Q.lastPliMs = R3.lastPliMs
            /\ Q.seenKeyFramesGivenUp = R3.seenKeyFramesGivenUp
            /\ Q.tracker = Collected(R3.tracker)
    BY <1>8, <2>2, WithTracker
  <2> QED
    BY <1>8, <2>2, <2>3
<1> HIDE DEF R4
<1>10. /\ IsReceiver(pli.R) /\ pli.R.peer = q /\ pli.R.tracker = R4.tracker
       /\ pli.R.nackSendErrors >= receiver.nackSendErrors
       /\ pli.sent \subseteq Plis
       /\ PliSent(pli.R, reverse \cup pli.sent)
       /\ PliMinIntervalMs > 0
          /\ pli.R.seenKeyFramesGivenUp > receiver.seenKeyFramesGivenUp =>
                \/ pli.R.nackSendErrors > receiver.nackSendErrors
                \/ RecentPli(reverse \cup pli.sent)
  <2>1. PliSent(R4, reverse)
    BY <1>1, <1>9 DEF PliSent
  <2> QED
    BY <1>1, <1>4, <1>5, <1>9, <2>1, ReportShape
<1> HIDE DEF pli
<1>11. R3.tracker \in TrackerType
  BY <1>8 DEF IsReceiver
<1>12. /\ IsReceiver(nack.R) /\ nack.R.peer = q /\ nack.R.tracker = R4.tracker
       /\ nack.R.lastPliMs = pli.R.lastPliMs
       /\ nack.R.seenKeyFramesGivenUp = pli.R.seenKeyFramesGivenUp
       /\ nack.R.nackSendErrors >= pli.R.nackSendErrors
       /\ nack.sent \subseteq [type: {"Nack"}, to: {q}, entries: Seq(Entry)]
       /\ \A m \in nack.sent : Decoded(m.entries) \subseteq Targets(R3.tracker)
  BY <1>4, <1>10, <1>11, SendNackShape
<1> HIDE DEF nack, list
<1>13. /\ NumbersInv' /\ CacheInv' /\ RetransmitIsOriginal'
       /\ \A x : SentBy(x)' = SentBy(x)
       /\ Originals' = Originals
  BY <1>1, SenderIsLeftAlone
<1>14. reverse' \subseteq Message
  <2>1. Plis \subseteq Message
    BY DEF Plis, Message
  <2>2. [type: {"Nack"}, to: {q}, entries: Seq(Entry)] \subseteq Message
    BY <1>5 DEF Message
  <2> QED
    BY <1>1, <1>4, <1>10, <1>12, <2>1, <2>2
<1>15. ReverseTypeOK'
  <2>1. IsReceiver(receiver')
    BY <1>4, <1>12
  <2>2. IsReceiver(receiver)'
    BY <2>1 DEF IsReceiver
  <2> QED
    BY <1>1, <1>14, <2>2 DEF ReverseTypeOK
<1>16. Tracks(receiver.tracker, receiver.peer)'
  <2>1. receiver'.peer = q /\ receiver'.tracker = R4.tracker
    BY <1>4, <1>12
  <2> QED
    BY <1>9, <1>13, <2>1 DEF Tracks
<1>17. PliSent(receiver, reverse)'
  <2>1. receiver'.lastPliMs = pli.R.lastPliMs
    BY <1>4, <1>12
  <2> QED
    BY <1>4, <1>10, <2>1 DEF PliSent
<1>18. AskedOfItsSender'
  <2> SUFFICES ASSUME NEW m \in reverse', m.type = "Nack", NEW s \in Decoded(m.entries)
               PROVE  \E o \in Originals : o.port = m.to /\ o.packet.seq = s
    BY <1>13 DEF AskedOfItsSender
  <2>1. CASE m \in reverse
    BY <2>1 DEF ReverseInv, AskedOfItsSender
  <2>2. CASE m \in pli.sent
    BY <1>10, <2>2 DEF Plis
  <2>3. CASE m \in nack.sent
    <3>1. m.to = q /\ s \in Targets(R3.tracker)
      BY <1>12, <2>3
    <3>2. s \in SentBy(q)
      BY <1>8, <3>1 DEF Targets, Tracks
    <3> QED
      BY <3>1, <3>2 DEF SentBy
  <2> QED
    BY <1>4, <2>1, <2>2, <2>3
<1>19. ReverseInv'
  BY <1>13, <1>15, <1>16, <1>17, <1>18 DEF ReverseInv
<1>20. ASSUME PliMinIntervalMs > 0,
              receiver'.seenKeyFramesGivenUp > receiver.seenKeyFramesGivenUp
       PROVE  receiver'.nackSendErrors > receiver.nackSendErrors \/ RecentPli(reverse')
  <2>1. /\ receiver'.seenKeyFramesGivenUp = pli.R.seenKeyFramesGivenUp
        /\ receiver'.nackSendErrors >= pli.R.nackSendErrors
        /\ receiver'.nackSendErrors \in Nat /\ pli.R.nackSendErrors \in Nat
        /\ receiver.nackSendErrors \in Nat
    BY <1>1, <1>4, <1>10, <1>12 DEF IsReceiver
  <2>2. CASE pli.R.nackSendErrors > receiver.nackSendErrors
    BY <2>1, <2>2
  <2>3. CASE RecentPli(reverse \cup pli.sent)
    BY <1>4, <2>3 DEF RecentPli
  <2> QED
    BY <1>10, <1>20, <2>1, <2>2, <2>3
<1> QED
  BY <1>19, <1>20

\* A packet that FEC gives back.
LEMMA RecoveredStep ==
    ASSUME ReverseInv, Recovered
    PROVE  ReverseInv' /\ receiver'.seenKeyFramesGivenUp = receiver.seenKeyFramesGivenUp
<1>1. /\ ReverseTypeOK /\ NumbersInv /\ IsReceiver(receiver)
      /\ Tracks(receiver.tracker, receiver.peer) /\ PliSent(receiver, reverse)
      /\ AskedOfItsSender
  BY DEF ReverseInv, ReverseTypeOK
<1>2. PICK d \in data : /\ d.port = receiver.peer /\ receiver' = Tracked(receiver, d.packet)
                        /\ UNCHANGED <<clock, data, reverse, sender>>
  BY DEF Recovered
<1>3. /\ IsReceiver(receiver') /\ receiver'.peer = receiver.peer
      /\ receiver'.lastPliMs = receiver.lastPliMs
      /\ receiver'.seenKeyFramesGivenUp = receiver.seenKeyFramesGivenUp
      /\ Tracks(receiver'.tracker, d.port)
  <2>1. LET Q == Tracked(receiver, d.packet)
        IN  /\ IsReceiver(Q) /\ Q.peer = receiver.peer
            /\ Q.nackSendErrors = receiver.nackSendErrors /\ Q.lastPliMs = receiver.lastPliMs
            /\ Q.seenKeyFramesGivenUp = receiver.seenKeyFramesGivenUp
            /\ Tracks(Q.tracker, d.port)
    BY <1>1, <1>2, TrackedShape
  <2> QED
    BY <1>2, <2>1
<1>4. /\ NumbersInv' /\ CacheInv' /\ RetransmitIsOriginal'
      /\ \A x : SentBy(x)' = SentBy(x)
      /\ Originals' = Originals
  BY <1>2, SenderIsLeftAlone
<1>5. ReverseTypeOK'
  <2>1. IsReceiver(receiver)'
    BY <1>3 DEF IsReceiver
  <2> QED
    BY <1>1, <1>2, <2>1 DEF ReverseTypeOK
<1>6. Tracks(receiver.tracker, receiver.peer)'
  BY <1>2, <1>3, <1>4 DEF Tracks
<1>7. PliSent(receiver, reverse)'
  BY <1>1, <1>2, <1>3 DEF PliSent
<1>8. AskedOfItsSender'
  BY <1>1, <1>2, <1>4 DEF AskedOfItsSender
<1> QED
  BY <1>3, <1>4, <1>5, <1>6, <1>7, <1>8 DEF ReverseInv

\* recvLoop() when queue A is full.
LEMMA FuseStep ==
    ASSUME ReverseInv, FuseBlown
    PROVE  ReverseInv' /\ receiver'.seenKeyFramesGivenUp = receiver.seenKeyFramesGivenUp
<1>1. /\ ReverseTypeOK /\ IsReceiver(receiver) /\ clock \in Nat /\ reverse \subseteq Message
      /\ Tracks(receiver.tracker, receiver.peer) /\ PliSent(receiver, reverse)
      /\ AskedOfItsSender
  BY DEF ReverseInv, ReverseTypeOK
<1>2. PICK ok \in SendResults :
          LET pli == RequestKeyFrame(receiver, ok)
          IN  /\ receiver' = pli.R /\ reverse' = reverse \cup pli.sent
              /\ UNCHANGED <<clock, data, sender>>
  BY DEF FuseBlown
<1> DEFINE pli == RequestKeyFrame(receiver, ok)
<1>3. /\ receiver' = pli.R /\ reverse' = reverse \cup pli.sent
      /\ UNCHANGED <<clock, data, sender>> /\ ok \in BOOLEAN
  BY <1>2 DEF SendResults
<1>4. /\ IsReceiver(pli.R) /\ pli.R.peer = receiver.peer /\ pli.R.tracker = receiver.tracker
      /\ pli.R.seenKeyFramesGivenUp = receiver.seenKeyFramesGivenUp
      /\ pli.sent \subseteq Plis
      /\ PliSent(pli.R, reverse \cup pli.sent)
  BY <1>1, <1>3, KeyFrameShape
<1> HIDE DEF pli
<1>5. /\ NumbersInv' /\ CacheInv' /\ RetransmitIsOriginal'
      /\ \A x : SentBy(x)' = SentBy(x)
      /\ Originals' = Originals
  BY <1>3, SenderIsLeftAlone
<1>6. ReverseTypeOK'
  <2>1. IsReceiver(receiver)'
    BY <1>3, <1>4 DEF IsReceiver
  <2>2. Plis \subseteq Message
    BY DEF Plis, Message
  <2> QED
    BY <1>1, <1>3, <1>4, <2>1, <2>2 DEF ReverseTypeOK
<1>7. Tracks(receiver.tracker, receiver.peer)'
  BY <1>1, <1>3, <1>4, <1>5 DEF Tracks
<1>8. PliSent(receiver, reverse)'
  BY <1>3, <1>4 DEF PliSent
<1>9. AskedOfItsSender'
  <2> SUFFICES ASSUME NEW m \in reverse', m.type = "Nack", NEW s \in Decoded(m.entries)
               PROVE  \E o \in Originals : o.port = m.to /\ o.packet.seq = s
    BY <1>5 DEF AskedOfItsSender
  <2>1. m \in reverse
    BY <1>3, <1>4 DEF Plis
  <2> QED
    BY <1>1, <2>1 DEF AskedOfItsSender
<1> QED
  BY <1>3, <1>4, <1>5, <1>6, <1>7, <1>8, <1>9 DEF ReverseInv

\* Time passes.
LEMMA TickStep ==
    ASSUME ReverseInv, Tick
    PROVE  ReverseInv'
<1>1. clock' = clock + 1 /\ clock \in Nat /\ UNCHANGED <<data, reverse, sender, receiver>>
  BY DEF ReverseInv, ReverseTypeOK, Tick
<1>2. Originals' = Originals
  BY <1>1 DEF Originals
<1>3. \A x : SentBy(x)' = SentBy(x)
  BY <1>2 DEF SentBy
<1>4. ReverseTypeOK'
  BY <1>1 DEF ReverseInv, ReverseTypeOK, IsReceiver
<1>5. NumbersInv'
  BY <1>1, <1>3 DEF ReverseInv, NumbersInv
<1>6. CacheInv'
  <2>1. \A d \in data : d.packet.ts \in Nat
    BY DEF ReverseInv, ReverseTypeOK, Packet
  <2>2. \A d \in data : clock - d.packet.ts >= RetentionMs => clock' - d.packet.ts >= RetentionMs
    BY <1>1, <2>1, PacketConstants
  <2> QED
    BY <1>1, <2>2 DEF ReverseInv, CacheInv, CacheOK
<1>7. Tracks(receiver.tracker, receiver.peer)'
  BY <1>1, <1>3 DEF ReverseInv, Tracks
<1>8. PliSent(receiver, reverse)' /\ RetransmitIsOriginal' /\ AskedOfItsSender'
  BY <1>1, <1>2 DEF ReverseInv, PliSent, RetransmitIsOriginal, AskedOfItsSender
<1> QED
  BY <1>4, <1>5, <1>6, <1>7, <1>8 DEF ReverseInv

\* A step that changes nothing.
LEMMA ReverseStutter ==
    ASSUME ReverseInv, UNCHANGED reverseVars
    PROVE  ReverseInv'
<1>1. /\ UNCHANGED <<clock, data, sender>> /\ UNCHANGED <<reverse, receiver>>
      /\ clock' = clock /\ data' = data /\ sender' = sender
  BY DEF reverseVars
<1>2. /\ NumbersInv' /\ CacheInv' /\ RetransmitIsOriginal'
      /\ \A x : SentBy(x)' = SentBy(x) /\ Originals' = Originals
  BY <1>1, SenderIsLeftAlone
<1>3. ReverseTypeOK'
  BY <1>1 DEF ReverseInv, ReverseTypeOK, IsReceiver
<1>4. Tracks(receiver.tracker, receiver.peer)'
  BY <1>1, <1>2 DEF ReverseInv, Tracks
<1>5. PliSent(receiver, reverse)' /\ AskedOfItsSender'
  BY <1>1, <1>2 DEF ReverseInv, PliSent, AskedOfItsSender
<1> QED
  BY <1>2, <1>3, <1>4, <1>5 DEF ReverseInv

\* Before the first packet.
LEMMA ReverseInitInv == ReverseInit => ReverseInv
<1> SUFFICES ASSUME ReverseInit PROVE ReverseInv
  OBVIOUS
<1> DEFINE empty == [entries |-> <<>>, bytes |-> 0, framesStored |-> 0, framesEvicted |-> 0]
<1>1. /\ 0 \in Seqs /\ FirstSeq \in Seqs /\ Len(Frames) \in Nat /\ SeqMod \in Nat \ {0}
  BY PacketConstants, FrameCounts
<1>2. <<>> \in GapTable /\ DOMAIN <<>> = {}
  BY TableType
<1>3. NewTracker \in TrackerType /\ \A q : Tracks(NewTracker, q)
  <2>1. NewTracker \in TrackerType
    BY <1>1, <1>2 DEF NewTracker, TrackerType
  <2>2. \A q : Tracks(NewTracker, q)
    BY <1>2 DEF NewTracker, Tracks
  <2> QED
    BY <2>1, <2>2
<1>4. empty \in Cache /\ Len(<<>>) = 0 /\ Bytes(<<>>) = 0
  <2>1. <<>> \in Seq(CacheEntry) /\ Len(<<>>) = 0
    BY EmptySeq
  <2>2. Bytes(<<>>) = 0
    BY <2>1, BytesRec DEF Bytes
  <2> QED
    BY <2>1, <2>2 DEF Cache
<1>5. sender \in SenderType
  BY <1>1, <1>4 DEF ReverseInit, NewSender, EmptyCache, SenderType
<1>6. IsReceiver(receiver)
  <2> HIDE DEF empty
  <2>1. receiver = [peer |-> 0, tracker |-> NewTracker, nackSendErrors |-> 0, lastPliMs |-> 0,
                    seenKeyFramesGivenUp |-> 0, nackSentAtMs |-> <<>>, rttSamples |-> <<>>,
                    rttMs |-> 0]
    BY DEF ReverseInit, NewReceiver
  <2> QED
    BY <1>3, <2>1 DEF IsReceiver
<1>7. ReverseTypeOK
  BY <1>5, <1>6 DEF ReverseInit, ReverseTypeOK
<1>8. NumbersInv
  <2>1. Offset[0] = 0
    BY OffsetRec
  <2>2. data = {} /\ sender.nextSeq = FirstSeq /\ sender.port = 1 /\ sender.frames = 0
    BY DEF ReverseInit, NewSender
  <2>3. Numbered(1, 0) = FirstSeq
    <3>1. FirstSeq + 0 = FirstSeq /\ FirstSeq % SeqMod = FirstSeq
      BY <1>1, Lib!SmallRemainder DEF Seqs
    <3> QED
      BY <3>1 DEF Numbered, FirstOf
  <2> QED
    BY <2>1, <2>2, <2>3 DEF NumbersInv
<1>9. CacheInv
  <2>1. data = {} /\ sender.cache = empty
    BY DEF ReverseInit, NewSender, EmptyCache
  <2> QED
    BY <1>4, <2>1 DEF CacheInv, CacheOK
<1>10. Tracks(receiver.tracker, receiver.peer) /\ PliSent(receiver, reverse)
  <2>1. receiver.tracker = NewTracker /\ receiver.lastPliMs = 0
    BY DEF ReverseInit, NewReceiver
  <2> QED
    BY <1>3, <2>1 DEF PliSent
<1>11. RetransmitIsOriginal /\ AskedOfItsSender
  BY DEF ReverseInit, RetransmitIsOriginal, AskedOfItsSender
<1> QED
  BY <1>7, <1>8, <1>9, <1>10, <1>11 DEF ReverseInv

-----------------------------------------------------------------------------
(* ReverseChannel: the sender's steps.                                     *)

\* The process is started again.
LEMMA SenderRestartStep ==
    ASSUME ReverseInv, Restart
    PROVE  ReverseInv' /\ receiver' = receiver
<1> DEFINE empty == [entries |-> <<>>, bytes |-> 0, framesStored |-> 0, framesEvicted |-> 0]
           port == sender.port + 1
<1>1. /\ UNCHANGED <<clock, data, reverse, receiver>> /\ sender' = NewSender(port, 0)
      /\ ReverseTypeOK /\ sender.port \in Nat \ {0}
  BY DEF Restart, ReverseInv, ReverseTypeOK, SenderType
<1>2. /\ 0 \in Seqs /\ Len(Frames) \in Nat /\ SeqMod \in Nat \ {0} /\ port \in Nat \ {0}
      /\ port # 1
  BY <1>1, PacketConstants, FrameCounts
<1> HIDE DEF port
<1>3. Originals' = Originals /\ \A q : SentBy(q)' = SentBy(q)
  <2>1. Originals' = Originals
    BY <1>1 DEF Originals
  <2> QED
    BY <2>1 DEF SentBy
<1>4. empty \in Cache /\ Len(<<>>) = 0 /\ Bytes(<<>>) = 0
  <2>1. <<>> \in Seq(CacheEntry) /\ Len(<<>>) = 0
    BY EmptySeq
  <2>2. Bytes(<<>>) = 0
    BY <2>1, BytesRec DEF Bytes
  <2> QED
    BY <2>1, <2>2 DEF Cache
<1>5. /\ sender'.port = port /\ sender'.nextSeq = 0 /\ sender'.cache = empty
      /\ sender'.frames = 0
  BY <1>1 DEF NewSender, EmptyCache
<1>6. ReverseTypeOK'
  <2>1. sender' \in SenderType
    BY <1>1, <1>2, <1>4 DEF NewSender, EmptyCache, SenderType
  <2>2. data \subseteq [port: 1 .. sender.port, packet: Packet]
    BY <1>1 DEF ReverseTypeOK
  <2>3. 1 .. sender.port \subseteq 1 .. port
    BY <1>1 DEF port
  <2>4. data' \subseteq [port: 1 .. sender'.port, packet: Packet]
    BY <1>1, <1>5, <2>2, <2>3
  <2>5. IsReceiver(receiver)'
    BY <1>1 DEF ReverseTypeOK, IsReceiver
  <2> QED
    BY <1>1, <2>1, <2>4, <2>5 DEF ReverseTypeOK
<1>7. NumbersInv'
  <2>1. Offset[0] = 0
    BY OffsetRec
  <2>2. Numbered(port, 0) = 0
    <3>1. 0 % SeqMod = 0
      BY <1>2, Lib!SmallRemainder
    <3>2. FirstOf(port) + 0 = 0
      BY <1>2 DEF FirstOf
    <3> QED
      BY <3>1, <3>2 DEF Numbered
  <2> QED
    BY <1>1, <1>3, <1>5, <2>1, <2>2 DEF ReverseInv, NumbersInv
<1>8. CacheInv'
  <2>1. \A d \in data : d.port # port
    <3>1. ASSUME NEW d \in data PROVE d.port \in 1 .. sender.port
      BY <1>1 DEF ReverseTypeOK
    <3>2. \A x \in 1 .. sender.port : x # port
      BY <1>1 DEF port
    <3> QED
      BY <3>1, <3>2
  <2> QED
    BY <1>1, <1>4, <1>5, <2>1 DEF CacheInv, CacheOK
<1>9. Tracks(receiver.tracker, receiver.peer)'
  BY <1>1, <1>3 DEF ReverseInv, Tracks
<1>10. PliSent(receiver, reverse)' /\ RetransmitIsOriginal' /\ AskedOfItsSender'
  BY <1>1, <1>3 DEF ReverseInv, PliSent, RetransmitIsOriginal, AskedOfItsSender
<1> QED
  BY <1>1, <1>6, <1>7, <1>8, <1>9, <1>10 DEF ReverseInv

\* The parts of the invariant that only grow with what is on the way.
LEMMA MoreIsSent ==
    ASSUME ReverseInv, data \subseteq data', UNCHANGED <<reverse, receiver>>
    PROVE  /\ \A q : SentBy(q) \subseteq SentBy(q)'
           /\ Tracks(receiver.tracker, receiver.peer)' /\ PliSent(receiver, reverse)'
           /\ AskedOfItsSender' /\ IsReceiver(receiver)'
<1>1. Originals \subseteq Originals'
  BY DEF Originals
<1>2. \A q : SentBy(q) \subseteq SentBy(q)'
  BY <1>1 DEF SentBy
<1>3. Tracks(receiver.tracker, receiver.peer)'
  BY <1>2 DEF ReverseInv, Tracks
<1>4. AskedOfItsSender'
  BY <1>1 DEF ReverseInv, AskedOfItsSender
<1>5. PliSent(receiver, reverse)' /\ IsReceiver(receiver)'
  BY DEF ReverseInv, PliSent, ReverseTypeOK, IsReceiver
<1> QED
  BY <1>2, <1>3, <1>4, <1>5

\* Evicting what is expired or too many leaves the cache in order.
LEMMA EvictKeeps ==
    ASSUME clock \in Nat, NEW C \in Cache, NEW port, NEW frames \in Nat, NEW S,
           CacheOK(C, port, frames, S), NEW k \in 0 .. Len(C.entries),
           \/ \A i \in 1 .. k : IsExpired(C.entries[i], clock)
           \/ k = 0
           \/ MaxFrames # 0 /\ k = Len(C.entries) - MaxFrames
    PROVE  Evict(C, k) \in Cache /\ CacheOK(Evict(C, k), port, frames, S)
<1> DEFINE n == Len(C.entries)
           R == Evict(C, k)
<1>1. n \in Nat /\ k \in Nat /\ k <= n /\ MaxFrames \in Nat /\ RetentionMs \in Nat \ {0}
      /\ \A i \in 1 .. n : C.entries[i] \in CacheEntry
  BY LenProperties, ElementOfSeq, PacketConstants DEF Cache
<1>2. /\ R \in Cache /\ Len(R.entries) = n - k
      /\ \A i \in 1 .. n - k : R.entries[i] = C.entries[k + i]
      /\ R.framesStored = C.framesStored /\ R.framesEvicted = C.framesEvicted + k
      /\ R.bytes = Bytes(R.entries)
  BY EvictShape DEF CacheOK
<1> HIDE DEF R
<1>3. R.framesStored = Len(R.entries) + R.framesEvicted
  <2>1. C.framesStored = n + C.framesEvicted /\ C.framesEvicted \in Int
    BY DEF CacheOK, Cache
  <2> HIDE DEF n
  <2> QED
    BY <1>1, <1>2, <2>1
<1>4. ASSUME NEW i \in 1 .. Len(R.entries)
      PROVE  /\ Slices(port, R.entries[i]) \subseteq S
             /\ R.entries[i].view.frame = <<port, frames - Len(R.entries) + i - 1>>
  <2>1. k + i \in 1 .. n /\ R.entries[i] = C.entries[k + i] /\ i \in Int
    BY <1>1, <1>2, SMTT(60)
  <2>2. /\ Slices(port, C.entries[k + i]) \subseteq S
        /\ C.entries[k + i].view.frame = <<port, frames - n + (k + i) - 1>>
    BY <2>1 DEF CacheOK
  <2> HIDE DEF n
  <2>3. frames - n + (k + i) - 1 = frames - Len(R.entries) + i - 1
    BY <1>1, <1>2, <2>1
  <2> QED
    BY <2>1, <2>2, <2>3
<1>5. ASSUME NEW d \in S, d.port = port, ~d.packet.retransmit
      PROVE  \/ clock - d.packet.ts >= RetentionMs
             \/ MaxFrames # 0 /\ d.packet.frame[2] < frames - MaxFrames
             \/ \E i \in 1 .. Len(R.entries) : Keeps(R.entries[i], d.packet)
  <2>1. SUFFICES ASSUME NEW i \in 1 .. n, Keeps(C.entries[i], d.packet)
                 PROVE  \/ clock - d.packet.ts >= RetentionMs
                        \/ MaxFrames # 0 /\ d.packet.frame[2] < frames - MaxFrames
                        \/ \E j \in 1 .. Len(R.entries) : Keeps(R.entries[j], d.packet)
    BY <1>5 DEF CacheOK
  <2>2. i \in Int
    OBVIOUS
  <2>3. CASE i > k
    <3>1. i - k \in 1 .. Len(R.entries) /\ k + (i - k) = i
      BY <1>1, <1>2, <2>2, <2>3
    <3>2. R.entries[i - k] = C.entries[i]
      BY <1>2, <3>1
    <3> QED
      BY <2>1, <3>1, <3>2
  <2>4. CASE i <= k /\ \A j \in 1 .. k : IsExpired(C.entries[j], clock)
    <3>1. IsExpired(C.entries[i], clock)
      BY <1>1, <2>2, <2>4
    <3>2. C.entries[i].storedAt = d.packet.ts
      BY <2>1 DEF Keeps
    <3> QED
      BY <1>1, <3>1, <3>2 DEF IsExpired
  <2>5. CASE i <= k /\ MaxFrames # 0 /\ k = n - MaxFrames
    <3>1. d.packet.frame = <<port, frames - n + i - 1>>
      BY <2>1 DEF CacheOK, Keeps
    <3>2. d.packet.frame[2] = frames - n + i - 1
      BY <3>1
    <3> HIDE DEF n
    <3>3. frames - n + i - 1 < frames - MaxFrames
      BY <1>1, <2>2, <2>5
    <3> QED
      BY <2>5, <3>2, <3>3
  <2> QED
    BY <1>1, <2>2, <2>3, <2>4, <2>5
<1> QED
  BY <1>2, <1>3, <1>4, <1>5 DEF CacheOK, R

\* evictExpired(), and the limit.
LEMMA EvictionsKeep ==
    ASSUME clock \in Nat, NEW C \in Cache, NEW port, NEW frames \in Nat, NEW S,
           CacheOK(C, port, frames, S)
    PROVE  /\ Unexpired(C, clock) \in Cache /\ CacheOK(Unexpired(C, clock), port, frames, S)
           /\ Bounded(C) \in Cache /\ CacheOK(Bounded(C), port, frames, S)
<1>1. PICK k \in 0 .. Len(C.entries) :
          /\ Unexpired(C, clock) = Evict(C, k)
          /\ \A i \in 1 .. k : IsExpired(C.entries[i], clock)
  BY UnexpiredShape
<1>2. PICK j \in 0 .. Len(C.entries) :
          /\ Bounded(C) = Evict(C, j)
          /\ j = 0 \/ (MaxFrames # 0 /\ j = Len(C.entries) - MaxFrames)
  BY BoundedShape
<1>3. Evict(C, k) \in Cache /\ CacheOK(Evict(C, k), port, frames, S)
  BY <1>1, EvictKeeps
<1>4. Evict(C, j) \in Cache /\ CacheOK(Evict(C, j), port, frames, S)
  BY <1>2, EvictKeeps
<1> QED
  BY <1>1, <1>2, <1>3, <1>4

\* The answer to a request is a packet that has been sent before, marked as one
\* that is sent again.
LEMMA AnswerShape ==
    ASSUME NEW C \in Cache, NEW port, NEW frames, NEW S, CacheOK(C, port, frames, S),
           NEW s \in Seqs, NEW p \in Answer(C, s)
    PROVE  /\ p \in Packet /\ p.retransmit
           /\ \E d \in S : /\ d = [port |-> port, packet |-> [p EXCEPT !.retransmit = FALSE]]
                           /\ d.packet.seq = p.seq
<1> DEFINE H == Hits(C, s)
<1>1. H # {} /\ H \subseteq Nat /\ H \subseteq 1 .. Len(C.entries)
  <2>1. DOMAIN C.entries = 1 .. Len(C.entries)
    BY LenProperties DEF Cache
  <2>2. H # {}
    BY DEF Answer
  <2>3. H \subseteq 1 .. Len(C.entries)
    BY <2>1 DEF Hits
  <2>4. 1 .. Len(C.entries) \subseteq Nat
    OBVIOUS
  <2> HIDE DEF H
  <2> QED
    BY <2>2, <2>3, <2>4
<1>2. Min(H) \in H
  <2>1. \E x \in H : \A y \in H : x <= y
    BY <1>1, Lib!LeastNatural
  <2> HIDE DEF H
  <2> QED
    BY <2>1 DEF Min
<1> DEFINE e == C.entries[Min(H)]
           j == (s - e.baseSeq) % SeqMod
<1>3. p = Fragment(e.view, s, j, e.count, TRUE)
  BY <1>1 DEF Answer
<1>4. e \in CacheEntry /\ Holds(e, s) /\ Slices(port, e) \subseteq S
  BY <1>1, <1>2, ElementOfSeq DEF Hits, Cache, CacheOK
<1> HIDE DEF e, H
<1>5. j \in 0 .. e.count - 1 /\ (e.baseSeq + j) % SeqMod = s
  BY <1>4, HeldNumbers
<1> DEFINE o == Fragment(e.view, s, j, e.count, FALSE)
<1>6. [port |-> port, packet |-> o] \in S
  BY <1>4, <1>5 DEF Slices
<1>7. p \in Packet /\ p.retransmit
  <2>1. j \in Nat /\ e.view \in View /\ e.count \in Nat
    BY <1>4, <1>5 DEF CacheEntry
  <2> HIDE DEF j
  <2>2. p \in Packet
    BY <1>3, <2>1, FragmentType
  <2> QED
    BY <1>3, <2>2 DEF Fragment
<1>8. o = [p EXCEPT !.retransmit = FALSE] /\ o.seq = p.seq
  <2> DEFINE from == j * MaxPayload
             len  == Min({MaxPayload, e.view.len - j * MaxPayload})
             Made(S1) ==
                [seq: {s}, ts: {e.view.ts}, frame: {e.view.frame}, idx: {j},
                 count: {e.count}, key: {e.view.key}, retransmit: S1, from: {from},
                 len: {len}]
  <2>1. p \in Made(BOOLEAN) /\ o \in Made({FALSE})
    BY <1>3 DEF Fragment
  <2> HIDE DEF from, len, j, o
  <2>2. [p EXCEPT !.retransmit = FALSE] \in Made({FALSE})
    BY <2>1
  <2> QED
    BY <2>1, <2>2
<1> HIDE DEF o
<1> QED
  BY <1>6, <1>7, <1>8

\* drainReverseChannel()
LEMMA DrainStep ==
    ASSUME ReverseInv, DrainReverseChannel
    PROVE  ReverseInv' /\ receiver' = receiver
<1> DEFINE port == sender.port
           C == Unexpired(sender.cache, clock)
<1>1. /\ ReverseTypeOK /\ NumbersInv /\ RetransmitIsOriginal /\ clock \in Nat
      /\ sender \in SenderType /\ reverse \subseteq Message
      /\ data \subseteq [port: 1 .. sender.port, packet: Packet] /\ port \in Nat \ {0}
  BY SMTT(60) DEF ReverseInv, ReverseTypeOK, SenderType
<1>2. PICK S \in SUBSET {m \in reverse : m.to = sender.port} :
          /\ data' = data \cup From(sender.port, UNION {Answers(C, m) : m \in S})
          /\ sender' = [sender EXCEPT
                 !.cache = C, !.keyFrameRequested = @ \/ \E m \in S : m.type = "Pli"]
          /\ UNCHANGED <<clock, reverse, receiver>>
  BY DEF DrainReverseChannel
<1> DEFINE A == UNION {Answers(C, m) : m \in S}
           New == From(port, A)
           key == sender.keyFrameRequested \/ \E m \in S : m.type = "Pli"
<1>3. C \in Cache /\ CacheOK(C, port, sender.frames, data)
  BY <1>1, EvictionsKeep DEF ReverseInv, CacheInv, SenderType
<1> HIDE DEF C
<1>4. ASSUME NEW p \in A
      PROVE  /\ p \in Packet /\ p.retransmit
             /\ \E d \in data : /\ d = [port |-> port, packet |-> [p EXCEPT !.retransmit = FALSE]]
                                /\ d.packet.seq = p.seq
  <2>1. PICK m \in S : p \in Answers(C, m)
    OBVIOUS
  <2>2. m \in Message /\ m.type # "Pli"
    BY <1>1, <2>1 DEF Answers
  <2>3. m.entries \in Seq(Entry)
    BY <2>2 DEF Message
  <2>4. PICK s \in Decoded(m.entries) : p \in Answer(C, s)
    BY <2>1, <2>2 DEF Answers
  <2>5. s \in Seqs
    BY <2>3, <2>4, DecodedType
  <2> QED
    BY <1>3, <2>4, <2>5, AnswerShape
<1> HIDE DEF A
<1>5. /\ data' = data \cup New /\ data \subseteq data'
      /\ \A d \in New : \E p \in A : d = [port |-> port, packet |-> p]
  BY <1>2 DEF From, A
<1>6. /\ sender' \in SenderType /\ sender'.port = port /\ sender'.nextSeq = sender.nextSeq
      /\ sender'.frames = sender.frames /\ sender'.cache = C
  <2>1. sender' = [sender EXCEPT !.cache = C, !.keyFrameRequested = key] /\ key \in BOOLEAN
    BY <1>1, <1>2 DEF SenderType
  <2> HIDE DEF key
  <2> QED
    BY <1>1, <1>3, <2>1 DEF SenderType
<1>7. /\ \A q : SentBy(q) \subseteq SentBy(q)'
      /\ Tracks(receiver.tracker, receiver.peer)' /\ PliSent(receiver, reverse)'
      /\ AskedOfItsSender' /\ IsReceiver(receiver)'
  BY <1>2, <1>5, MoreIsSent
<1> HIDE DEF New
<1>8. ReverseTypeOK'
  <2>1. ASSUME NEW d \in New PROVE d \in [port: 1 .. sender.port, packet: Packet]
    <3>1. port \in 1 .. sender.port
      BY <1>1
    <3> QED
      BY <1>4, <1>5, <3>1
  <2>2. data' \subseteq [port: 1 .. sender'.port, packet: Packet]
    BY <1>1, <1>5, <1>6, <2>1
  <2> QED
    BY <1>1, <1>2, <1>6, <1>7, <2>2 DEF ReverseTypeOK
<1>9. NumbersInv'
  <2>1. ASSUME NEW d \in data'
        PROVE  \E n \in 0 .. Total - 1 :
                  /\ d.packet.seq = Numbered(d.port, n)
                  /\ \A m \in 0 .. n : Numbered(d.port, m) \in SentBy(d.port)'
    <3>1. PICK o \in data : o.port = d.port /\ o.packet.seq = d.packet.seq
      <4>1. CASE d \in data
        BY <4>1
      <4>2. CASE d \in New
        <5>1. PICK p \in A : d = [port |-> port, packet |-> p]
          BY <1>5, <4>2
        <5>2. PICK o \in data : /\ o = [port |-> port, packet |-> [p EXCEPT !.retransmit = FALSE]]
                                /\ o.packet.seq = p.seq
          BY <1>4
        <5>3. o.port = port /\ d.port = port /\ d.packet = p
          BY <5>1, <5>2
        <5> QED
          BY <5>2, <5>3
      <4> QED
        BY <1>5, <4>1, <4>2
    <3>2. PICK n \in 0 .. Total - 1 :
              /\ o.packet.seq = Numbered(o.port, n)
              /\ \A m \in 0 .. n : Numbered(o.port, m) \in SentBy(o.port)
      BY <1>1 DEF NumbersInv
    <3> QED
      BY <1>7, <3>1, <3>2
  <2>2. ASSUME NEW q, q = sender.port
        PROVE  /\ sender'.port = q /\ sender'.nextSeq = Numbered(q, Offset[sender'.frames])
               /\ \A n \in 0 .. Offset[sender'.frames] - 1 : Numbered(q, n) \in SentBy(q)'
    BY <1>1, <1>6, <1>7, <2>2 DEF NumbersInv
  <2> QED
    BY <2>1, <2>2 DEF NumbersInv
<1>10. CacheInv'
  <2>1. CacheOK(C, port, sender.frames, data')
    <3>1. ASSUME NEW d \in data', ~d.packet.retransmit PROVE d \in data
      <4>1. CASE d \in New
        <5>1. PICK p \in A : d = [port |-> port, packet |-> p]
          BY <1>5, <4>1
        <5> QED
          BY <1>4, <3>1, <5>1
      <4> QED
        BY <1>5, <4>1
    <3> QED
      BY <1>3, <1>5, <3>1 DEF CacheOK
  <2>2. clock' = clock
    BY <1>2
  <2> QED
    BY <1>6, <2>1, <2>2 DEF CacheInv, CacheOK
<1>11. RetransmitIsOriginal'
  <2> SUFFICES ASSUME NEW d \in data', d.packet.retransmit
               PROVE  [d EXCEPT !.packet.retransmit = FALSE] \in data'
    BY DEF RetransmitIsOriginal
  <2>1. CASE d \in data
    BY <1>1, <1>5, <2>1 DEF RetransmitIsOriginal
  <2>2. CASE d \in New
    <3>1. PICK p \in A : d = [port |-> port, packet |-> p]
      BY <1>5, <2>2
    <3> DEFINE q == [p EXCEPT !.retransmit = FALSE]
               o == [port |-> port, packet |-> q]
    <3>2. o \in data'
      BY <1>4, <1>5
    <3>3. [d EXCEPT !.packet.retransmit = FALSE] = [d EXCEPT !.packet = q]
      BY <3>1
    <3> HIDE DEF q
    <3>4. d \in [port: {port}, packet: {p}]
      BY <3>1
    <3>5. [d EXCEPT !.packet = q] \in [port: {port}, packet: {q}] /\ o \in [port: {port}, packet: {q}]
      BY <3>4
    <3>6. [d EXCEPT !.packet = q] = o
      BY <3>5
    <3> QED
      BY <3>2, <3>3, <3>6
  <2> QED
    BY <1>5, <2>1, <2>2
<1> QED
  BY <1>2, <1>7, <1>8, <1>9, <1>10, <1>11 DEF ReverseInv

\* What is left of a number is a sequence number.
LEMMA ModIsSeq ==
    ASSUME NEW a \in Nat, NEW i \in Nat
    PROVE  (a + i) % SeqMod \in Seqs
<1>1. SeqMod \in Nat \ {0}
  BY PacketConstants
<1> QED
  BY <1>1 DEF Seqs

\* Storing a frame puts it into the cache behind the others.
LEMMA StoreKeeps ==
    ASSUME clock \in Nat, NEW C \in Cache, NEW port, NEW frames \in Nat, NEW S, NEW S2,
           CacheOK(C, port, frames, S), S \subseteq S2,
           \A d \in S : d.packet.frame[2] \in Nat,
           NEW e \in CacheEntry, e.view.frame = <<port, frames>>, e.storedAt = clock,
           Slices(port, e) \subseteq S2,
           \A d \in S2 \ S : Keeps(e, d.packet)
    PROVE  LET F == [C EXCEPT !.entries = Append(@, e), !.bytes = @ + e.view.len,
                              !.framesStored = @ + 1]
           IN  F \in Cache /\ CacheOK(F, port, frames + 1, S2)
<1> DEFINE n == Len(C.entries)
           s == Append(C.entries, e)
           bytes == C.bytes + e.view.len
           stored == C.framesStored + 1
           F == [C EXCEPT !.entries = s, !.bytes = bytes, !.framesStored = stored]
<1>1. n \in Nat /\ C.entries \in Seq(CacheEntry) /\ C.bytes \in Int /\ C.framesStored \in Int
      /\ C.framesEvicted \in Int /\ e.view.len \in Nat /\ MaxFrames \in Nat
  BY LenProperties, PacketConstants DEF Cache, CacheEntry, View
<1>2. /\ s \in Seq(CacheEntry) /\ Len(s) = n + 1 /\ s[n + 1] = e
      /\ \A i \in 1 .. n : s[i] = C.entries[i]
  BY <1>1, AppendProperties
<1>3. Bytes(s) = Bytes(C.entries) + e.view.len
  BY <1>1, BytesAppend
<1>4. bytes = Bytes(s) /\ bytes \in Int
  BY <1>1, <1>3 DEF CacheOK
<1>5. stored = (n + 1) + C.framesEvicted /\ stored \in Int
  <2>1. C.framesStored = n + C.framesEvicted
    BY DEF CacheOK
  <2> HIDE DEF n
  <2> QED
    BY <1>1, <2>1
<1> HIDE DEF s, bytes, stored
<1>6. /\ F \in Cache /\ F.entries = s /\ F.bytes = bytes /\ F.framesStored = stored
      /\ F.framesEvicted = C.framesEvicted
  BY <1>2, <1>4, <1>5 DEF Cache
<1> HIDE DEF F
<1>7. ASSUME NEW i \in 1 .. Len(F.entries)
      PROVE  /\ Slices(port, F.entries[i]) \subseteq S2
             /\ F.entries[i].view.frame = <<port, (frames + 1) - Len(F.entries) + i - 1>>
  <2>1. i \in 1 .. n + 1 /\ i \in Int
    BY <1>2, <1>6
  <2>2. CASE i = n + 1
    <3>1. F.entries[i] = e
      BY <1>2, <1>6, <2>2
    <3>3. Len(F.entries) = n + 1
      BY <1>2, <1>6
    <3> HIDE DEF n
    <3>2. (frames + 1) - Len(F.entries) + i - 1 = frames
      BY <1>1, <2>2, <3>3
    <3> QED
      BY <3>1, <3>2
  <2>3. CASE i # n + 1
    <3>1. i \in 1 .. n /\ F.entries[i] = C.entries[i]
      BY <1>1, <1>2, <1>6, <2>1, <2>3
    <3>2. /\ Slices(port, C.entries[i]) \subseteq S
          /\ C.entries[i].view.frame = <<port, frames - n + i - 1>>
      BY <3>1 DEF CacheOK
    <3>3. Len(F.entries) = n + 1
      BY <1>2, <1>6
    <3> HIDE DEF n
    <3>4. (frames + 1) - Len(F.entries) + i - 1 = frames - n + i - 1
      BY <1>1, <2>1, <3>3
    <3> QED
      BY <3>1, <3>2, <3>4
  <2> QED
    BY <2>2, <2>3
<1>8. ASSUME NEW d \in S2, d.port = port, ~d.packet.retransmit
      PROVE  \/ clock - d.packet.ts >= RetentionMs
             \/ MaxFrames # 0 /\ d.packet.frame[2] < (frames + 1) - MaxFrames
             \/ \E i \in 1 .. Len(F.entries) : Keeps(F.entries[i], d.packet)
  <2>1. CASE d \in S
    <3>1. \/ clock - d.packet.ts >= RetentionMs
          \/ MaxFrames # 0 /\ d.packet.frame[2] < frames - MaxFrames
          \/ \E i \in 1 .. n : Keeps(C.entries[i], d.packet)
      BY <1>8, <2>1 DEF CacheOK
    <3>2. CASE MaxFrames # 0 /\ d.packet.frame[2] < frames - MaxFrames
      BY <1>1, <2>1, <3>2, SMTT(60)
    <3>3. CASE \E i \in 1 .. n : Keeps(C.entries[i], d.packet)
      <4>1. PICK i \in 1 .. n : Keeps(C.entries[i], d.packet)
        BY <3>3
      <4>2. i \in 1 .. Len(F.entries) /\ F.entries[i] = C.entries[i]
        BY <1>1, <1>2, <1>6
      <4> QED
        BY <4>1, <4>2
    <3> QED
      BY <3>1, <3>2, <3>3
  <2>2. CASE d \notin S
    <3>1. n + 1 \in 1 .. Len(F.entries) /\ F.entries[n + 1] = e
      BY <1>1, <1>2, <1>6
    <3> QED
      BY <2>2, <3>1
  <2> QED
    BY <2>1, <2>2
<1>9. F \in Cache /\ CacheOK(F, port, frames + 1, S2)
  BY <1>2, <1>4, <1>5, <1>6, <1>7, <1>8 DEF CacheOK
<1> QED
  BY <1>9 DEF F, s, bytes, stored

\* sendLoop() with a frame.
LEMMA SendFrameStep ==
    ASSUME ReverseInv, SendFrame
    PROVE  ReverseInv' /\ receiver' = receiver
<1> DEFINE port == sender.port
           k    == sender.frames
           next == Frames[k + 1]
           view == [frame |-> <<port, k>>, len |-> next.len, ts |-> clock,
                    key |-> next.key \/ sender.keyFrameRequested]
           n    == fragmentCount(next.len)
           b    == sender.nextSeq
           New  == From(port, Packets(view, b))
           e    == [view |-> view, baseSeq |-> b, count |-> n, storedAt |-> clock]
           C    == Stored(sender.cache, view, b, n, clock)
<1>1. /\ ReverseTypeOK /\ NumbersInv /\ RetransmitIsOriginal /\ clock \in Nat
      /\ sender \in SenderType /\ reverse \subseteq Message
      /\ data \subseteq [port: 1 .. sender.port, packet: Packet] /\ port \in Nat \ {0}
      /\ CacheOK(sender.cache, port, k, data)
  BY DEF ReverseInv, CacheInv, ReverseTypeOK, SenderType
<1>2. /\ k < Len(Frames) /\ data' = data \cup New
      /\ sender' = [sender EXCEPT !.nextSeq = (b + n) % SeqMod, !.frames = k + 1,
                                  !.keyFrameRequested = FALSE, !.cache = C]
      /\ UNCHANGED <<clock, reverse, receiver>>
  BY DEF SendFrame
<1>3. /\ k \in Nat /\ k + 1 \in 1 .. Len(Frames) /\ k \in 0 .. Len(Frames)
      /\ k + 1 \in 0 .. Len(Frames) /\ (k + 1) - 1 = k
      /\ b \in Seqs /\ b \in Nat /\ sender.keyFrameRequested \in BOOLEAN /\ sender.cache \in Cache
      /\ SeqMod \in Nat \ {0}
  <2>1. k \in 0 .. Len(Frames) /\ Len(Frames) \in Nat
    BY <1>1, FrameCounts DEF SenderType
  <2>2. b \in Seqs /\ sender.keyFrameRequested \in BOOLEAN /\ sender.cache \in Cache
    BY <1>1 DEF SenderType
  <2>3. SeqMod \in Nat \ {0} /\ b \in Nat
    BY <2>2, PacketConstants DEF Seqs
  <2> HIDE DEF k, b
  <2> QED
    BY <1>2, <2>1, <2>2, <2>3
<1>4. /\ next.len \in Nat \ {0} /\ next.key \in BOOLEAN /\ n \in Nat \ {0} /\ n < SeqMod
      /\ Offset[k + 1] = Offset[k] + n
      /\ Offset[k] \in Nat /\ Offset[k + 1] \in Nat /\ Offset[k + 1] <= Total /\ Total \in Nat
  BY <1>3, FrameCounts, OffsetRec, OffsetBounds
<1>5. view \in View /\ view.len # 0 /\ view.frame = <<port, k>> /\ view.ts = clock
  BY <1>1, <1>3, <1>4 DEF View
<1>6. \A d : d \in New <=> \E i \in 0 .. n - 1 :
          d = [port |-> port, packet |-> Fragment(view, (b + i) % SeqMod, i, n, FALSE)]
  BY DEF From, Packets
<1>7. New = Slices(port, e)
  <2>1. e.view = view /\ e.baseSeq = b /\ e.count = n
    OBVIOUS
  <2> HIDE DEF e
  <2>2. \A d : d \in Slices(port, e) <=> \E i \in 0 .. n - 1 :
          d = [port |-> port, packet |-> Fragment(view, (b + i) % SeqMod, i, n, FALSE)]
    BY <2>1 DEF Slices
  <2> HIDE DEF New, view, n
  <2> QED
    BY <1>6, <2>2
<1> DEFINE P(i) == Fragment(view, (b + i) % SeqMod, i, n, FALSE)
<1>8. ASSUME NEW i \in 0 .. n - 1
      PROVE  /\ P(i) \in Packet /\ P(i).seq = (b + i) % SeqMod /\ P(i).ts = clock
             /\ P(i).frame = <<port, k>> /\ ~P(i).retransmit
  <2> HIDE DEF view, n, b
  <2>1. i \in Nat /\ (b + i) % SeqMod \in Seqs
    <3>1. i \in Nat
      BY <1>4
    <3> QED
      BY <1>3, <3>1, ModIsSeq
  <2>2. P(i) \in Packet
    BY <1>4, <1>5, <2>1, FragmentType
  <2>3. /\ P(i).seq = (b + i) % SeqMod /\ P(i).ts = view.ts
        /\ P(i).frame = view.frame /\ P(i).retransmit = FALSE
    BY DEF Fragment
  <2> QED
    BY <1>5, <2>2, <2>3
<1>9. e \in CacheEntry /\ e.view = view /\ e.baseSeq = b /\ e.count = n /\ e.storedAt = clock
  BY <1>1, <1>3, <1>4, <1>5 DEF CacheEntry
<1> HIDE DEF view, n, P, e
<1>10. /\ data' = data \cup New /\ data \subseteq data'
       /\ \A d \in New : \E i \in 0 .. n - 1 : d = [port |-> port, packet |-> P(i)]
       /\ \A i \in 0 .. n - 1 : [port |-> port, packet |-> P(i)] \in data'
  BY <1>2, <1>6 DEF P
<1>11. \A d \in New : /\ d.port = port /\ d.packet \in Packet /\ ~d.packet.retransmit
                      /\ Keeps(e, d.packet)
  <2> SUFFICES ASSUME NEW i \in 0 .. n - 1
               PROVE  P(i) \in Packet /\ ~P(i).retransmit /\ Keeps(e, P(i))
    BY <1>10
  <2>1. Holds(e, (b + i) % SeqMod)
    BY <1>4, <1>9, HeldNumbers
  <2> QED
    BY <1>5, <1>8, <1>9, <2>1 DEF Keeps
<1>12. C \in Cache /\ CacheOK(C, port, k + 1, data')
  <2> DEFINE F == [sender.cache EXCEPT !.entries = Append(@, e), !.bytes = @ + e.view.len,
                                       !.framesStored = @ + 1]
  <2>1. F \in Cache /\ CacheOK(F, port, k + 1, data')
    <3>1. Slices(port, e) \subseteq data'
      BY <1>2, <1>7
    <3>2. \A d \in data : d.packet.frame[2] \in Nat
      BY <1>1 DEF Packet
    <3>3. \A d \in data' \ data : Keeps(e, d.packet)
      BY <1>10, <1>11
    <3> HIDE DEF New
    <3> QED
      BY <1>1, <1>3, <1>5, <1>9, <1>10, <3>1, <3>2, <3>3, StoreKeeps
  <2>2. C = Bounded(Unexpired(F, clock))
    <3>1. e.view.len = view.len
      BY <1>9
    <3> QED
      BY <1>4, <1>5, <3>1 DEF Stored, e
  <2> HIDE DEF F, C, New
  <2>3. Unexpired(F, clock) \in Cache /\ CacheOK(Unexpired(F, clock), port, k + 1, data')
    BY <1>1, <1>3, <2>1, EvictionsKeep
  <2> QED
    BY <1>1, <1>3, <2>2, <2>3, EvictionsKeep
<1> HIDE DEF C, New
<1>13. /\ sender' \in SenderType /\ sender'.port = port /\ sender'.nextSeq = (b + n) % SeqMod
       /\ sender'.frames = k + 1 /\ sender'.cache = C
  <2> DEFINE x == (b + n) % SeqMod
  <2>1. x \in Seqs
    <3> HIDE DEF n, b
    <3> QED
      BY <1>3, <1>4, ModIsSeq
  <2>2. sender' = [sender EXCEPT !.nextSeq = x, !.frames = k + 1,
                                 !.keyFrameRequested = FALSE, !.cache = C]
    BY <1>2
  <2> HIDE DEF x
  <2>3. /\ sender' \in SenderType /\ sender'.port = port /\ sender'.nextSeq = x
        /\ sender'.frames = k + 1 /\ sender'.cache = C
    BY <1>1, <1>3, <1>12, <2>1, <2>2 DEF SenderType
  <2> QED
    BY <2>3 DEF x
<1>14. /\ \A q : SentBy(q) \subseteq SentBy(q)'
       /\ Tracks(receiver.tracker, receiver.peer)' /\ PliSent(receiver, reverse)'
       /\ AskedOfItsSender' /\ IsReceiver(receiver)'
  BY <1>2, <1>10, MoreIsSent
<1>15. ReverseTypeOK'
  <2>1. ASSUME NEW d \in New PROVE d \in [port: 1 .. sender.port, packet: Packet]
    <3>1. port \in 1 .. sender.port
      BY <1>1
    <3> QED
      BY <1>8, <1>10, <3>1
  <2>2. data' \subseteq [port: 1 .. sender'.port, packet: Packet]
    BY <1>1, <1>10, <1>13, <2>1
  <2> QED
    BY <1>1, <1>2, <1>13, <1>14, <2>2 DEF ReverseTypeOK
<1> DEFINE F0 == FirstOf(port)
<1>16. F0 \in Nat /\ b = (F0 + Offset[k]) % SeqMod
  <2>1. FirstOf(port) \in Nat
    BY PacketConstants DEF FirstOf, Seqs
  <2> QED
    BY <1>1, <2>1 DEF NumbersInv, Numbered
<1>17. \A i \in 0 .. n : (b + i) % SeqMod = Numbered(port, Offset[k] + i)
  <2> SUFFICES ASSUME NEW i \in 0 .. n
               PROVE  (b + i) % SeqMod = Numbered(port, Offset[k] + i)
    OBVIOUS
  <2> DEFINE a == F0 + Offset[k]
  <2>1. a \in Int /\ i \in Int /\ a + i = F0 + (Offset[k] + i)
    BY <1>4, <1>16
  <2> HIDE DEF a
  <2>2. ((a % SeqMod) + i) % SeqMod = (a + i) % SeqMod
    BY <1>3, <2>1, Lib!RemainderPlus
  <2>3. b = a % SeqMod
    BY <1>16 DEF a
  <2> QED
    BY <2>1, <2>2, <2>3 DEF Numbered
<1> HIDE DEF F0
<1>18. ASSUME NEW q, q = port
       PROVE  \A m \in 0 .. Offset[k + 1] - 1 : Numbered(q, m) \in SentBy(q)'
  <2> TAKE m \in 0 .. Offset[k + 1] - 1
  <2>1. CASE m < Offset[k]
    <3>1. m \in 0 .. Offset[k] - 1
      BY <1>4, <2>1
    <3>2. Numbered(q, m) \in SentBy(q)
      BY <1>1, <1>18, <3>1 DEF NumbersInv
    <3> QED
      BY <1>14, <3>2
  <2>2. CASE m >= Offset[k]
    <3> DEFINE i == m - Offset[k]
    <3>1. i \in 0 .. n - 1 /\ i \in 0 .. n /\ Offset[k] + i = m
      BY <1>4, <2>2
    <3> HIDE DEF i
    <3>2. P(i).seq = Numbered(q, m) /\ ~P(i).retransmit
      BY <1>8, <1>17, <1>18, <3>1
    <3>3. [port |-> q, packet |-> P(i)] \in data'
      BY <1>10, <1>18, <3>1
    <3> QED
      BY <3>2, <3>3 DEF SentBy, Originals
  <2> QED
    BY <1>4, <2>1, <2>2
<1>19. NumbersInv'
  <2>1. ASSUME NEW d \in data'
        PROVE  \E x \in 0 .. Total - 1 :
                  /\ d.packet.seq = Numbered(d.port, x)
                  /\ \A m \in 0 .. x : Numbered(d.port, m) \in SentBy(d.port)'
    <3>1. CASE d \in data
      BY <1>1, <1>14, <3>1 DEF NumbersInv
    <3>2. CASE d \in New
      <4>1. PICK i \in 0 .. n - 1 : d = [port |-> port, packet |-> P(i)]
        BY <1>10, <3>2
      <4> DEFINE x == Offset[k] + i
      <4>2. /\ x \in 0 .. Total - 1 /\ i \in 0 .. n
            /\ \A m \in 0 .. x : m \in 0 .. Offset[k + 1] - 1
        BY <1>4
      <4>3. d.packet.seq = Numbered(port, x) /\ d.port = port
        BY <1>8, <1>17, <4>1, <4>2
      <4> HIDE DEF x
      <4>4. \A m \in 0 .. x : Numbered(d.port, m) \in SentBy(d.port)'
        BY <1>18, <4>2, <4>3
      <4> QED
        BY <4>2, <4>3, <4>4
    <3> QED
      BY <1>10, <3>1, <3>2
  <2>2. ASSUME NEW q, q = sender.port
        PROVE  /\ sender'.port = q /\ sender'.nextSeq = Numbered(q, Offset[sender'.frames])
               /\ \A m \in 0 .. Offset[sender'.frames] - 1 : Numbered(q, m) \in SentBy(q)'
    <3>1. n \in 0 .. n
      BY <1>4
    <3>2. (b + n) % SeqMod = Numbered(port, Offset[k + 1])
      BY <1>4, <1>17, <3>1
    <3> QED
      BY <1>13, <1>18, <2>2, <3>2, <1>4
  <2> QED
    BY <2>1, <2>2 DEF NumbersInv
<1>20. CacheInv'
  <2>1. clock' = clock
    BY <1>2
  <2> QED
    BY <1>12, <1>13, <2>1 DEF CacheInv, CacheOK
<1>21. RetransmitIsOriginal'
  BY <1>1, <1>10, <1>11 DEF RetransmitIsOriginal
<1> QED
  BY <1>2, <1>14, <1>15, <1>19, <1>20, <1>21 DEF ReverseInv

-----------------------------------------------------------------------------
(* ReverseChannel: the measurement of the round trip.                      *)

\* Newer is an order on what a sender has sent.
LEMMA NewerIsOrder ==
    ASSUME NumbersInv, NEW q, NEW x \in SentBy(q), NEW y \in SentBy(q), NEW z \in SentBy(q)
    PROVE  /\ ~seqNewerThan(x, x, SeqMod)
           /\ seqNewerThan(z, y, SeqMod) /\ ~seqNewerThan(x, y, SeqMod)
                  => ~seqNewerThan(x, z, SeqMod)
<1>1. PICK i \in 0 .. Total - 1 : x = Numbered(q, i)
  BY Position
<1>2. PICK j \in 0 .. Total - 1 : y = Numbered(q, j)
  BY Position
<1>3. PICK k \in 0 .. Total - 1 : z = Numbered(q, k)
  BY Position
<1>4. /\ seqNewerThan(x, x, SeqMod) <=> i > i
      /\ seqNewerThan(z, y, SeqMod) <=> k > j
      /\ seqNewerThan(x, y, SeqMod) <=> i > j
      /\ seqNewerThan(x, z, SeqMod) <=> i > k
  BY <1>1, <1>2, <1>3, NewerByPosition
<1>5. Total \in Nat
  BY OffsetBounds
<1> QED
  BY <1>4, <1>5

\* The number is not newer than the newest one.
Behind(T, x) == T.hasBase /\ ~seqNewerThan(x, T.highest, SeqMod)

\* A packet leaves behind what was behind, opens gaps in front only, and closes its own.
LEMMA ReceivedBehind ==
    ASSUME NumbersInv, NEW T \in TrackerType, NEW q, Tracks(T, q),
           \A g \in DOMAIN T.gaps : Behind(T, g),
           NEW s \in SentBy(q) \cap Seqs, NEW t \in Nat, NEW isKey \in BOOLEAN
    PROVE  LET R == Received(T, s, t, isKey)
           IN  /\ \A x \in SentBy(q) : Behind(T, x) => Behind(R, x)
               /\ \A g \in DOMAIN R.gaps :
                     Behind(R, g) /\ (g \in DOMAIN T.gaps \/ ~Behind(T, g))
               /\ Behind(T, s) => s \notin DOMAIN R.gaps
<1> DEFINE U == [T EXCEPT !.tolerance = t]
           R == Received(T, s, t, isKey)
<1>1. /\ U \in TrackerType /\ U.gaps = T.gaps /\ U.highest = T.highest
      /\ U.hasBase = T.hasBase /\ U.stats = T.stats
  BY ToleranceShape
<1>2. R = IF ~U.hasBase THEN Rebase(U, s)
          ELSE IF IsFarOff(U, s) THEN [Rebase(U, s) EXCEPT !.stats.discontinuities = @ + 1]
          ELSE IF IsNewer(U, s) THEN Newer(U, s, isKey)
          ELSE Late(U, s)
  BY DEF Received
<1> HIDE DEF U, R
<1>3. /\ U.hasBase => U.highest \in SentBy(q)
      /\ DOMAIN U.gaps \subseteq SentBy(q) /\ \A g \in DOMAIN U.gaps : Behind(U, g)
      /\ \A x : Behind(U, x) <=> Behind(T, x)
      /\ IsNewer(U, s) <=> seqNewerThan(s, U.highest, SeqMod)
  BY <1>1 DEF Tracks, Behind, IsNewer
<1>4. /\ DOMAIN U.gaps \subseteq Seqs /\ IsFiniteSet(DOMAIN U.gaps)
  BY <1>1, TrackerParts, SeqsAreFinite
<1>5. ASSUME ~U.hasBase \/ IsFarOff(U, s)
      PROVE  /\ R.gaps = <<>> /\ R.highest = s /\ R.hasBase /\ DOMAIN R.gaps = {}
  <2>1. DOMAIN <<>> = {}
    BY TableType
  <2>2. CASE ~U.hasBase
    <3>1. R = Rebase(U, s)
      BY <1>2, <2>2
    <3> QED
      BY <1>1, <2>1, <3>1, RebaseShape
  <2>3. CASE U.hasBase /\ IsFarOff(U, s)
    <3>1. R = [Rebase(U, s) EXCEPT !.stats.discontinuities = @ + 1]
      BY <1>2, <2>3
    <3> QED
      BY <1>1, <2>1, <3>1, DiscontinuityShape
  <2> QED
    BY <1>5, <2>2, <2>3
<1>6. ASSUME U.hasBase, IsNewer(U, s), R.highest = s, R.hasBase, NEW x \in SentBy(q), Behind(U, x)
      PROVE  Behind(R, x)
  BY <1>3, <1>6, NewerIsOrder DEF Behind
<1>7. CASE ~U.hasBase
  BY <1>3, <1>5, <1>7 DEF Behind, R
<1>8. CASE U.hasBase /\ IsFarOff(U, s)
  <2>1. IsNewer(U, s)
    BY <1>8 DEF IsFarOff
  <2>2. ~Behind(U, s)
    BY <1>3, <2>1 DEF Behind
  <2> QED
    BY <1>3, <1>5, <1>6, <1>8, <2>1, <2>2 DEF R
<1>9. CASE U.hasBase /\ ~IsFarOff(U, s) /\ IsNewer(U, s)
  <2>1. R = Newer(U, s, isKey)
    BY <1>2, <1>9
  <2>2. /\ R.highest = s /\ R.hasBase = U.hasBase
        /\ DOMAIN R.gaps = (DOMAIN U.gaps \ PushedOut(U, s)) \cup Skipped(U, s)
    BY <1>1, <1>4, <2>1, NewerShape
  <2>3. ASSUME NEW g \in Skipped(U, s) PROVE Behind(R, g) /\ ~Behind(U, g)
    <3>1. PICK age \in 1 .. ((s - U.highest) % SeqMod) - 1 : g = (s - age) % SeqMod
      BY <2>3 DEF Skipped
    <3>2. seqNewerThan(g, U.highest, SeqMod) /\ ~seqNewerThan(g, s, SeqMod)
      BY <1>3, <1>9, <3>1, SkippedLies
    <3> QED
      BY <1>9, <2>2, <3>2 DEF Behind
  <2>4. \A x \in SentBy(q) : Behind(U, x) => Behind(R, x)
    BY <1>6, <1>9, <2>2
  <2>5. ASSUME NEW g \in DOMAIN R.gaps
        PROVE  Behind(R, g) /\ (g \in DOMAIN U.gaps \/ ~Behind(U, g))
    BY <1>3, <2>2, <2>3, <2>4
  <2>6. ~Behind(U, s)
    BY <1>3, <1>9 DEF Behind
  <2> QED
    BY <1>1, <1>3, <2>4, <2>5, <2>6 DEF R
<1>10. CASE U.hasBase /\ ~IsFarOff(U, s) /\ ~IsNewer(U, s)
  <2>1. R = Late(U, s)
    BY <1>2, <1>10
  <2>2. /\ R.highest = U.highest /\ R.hasBase = U.hasBase
        /\ DOMAIN R.gaps = DOMAIN U.gaps \ {s}
    BY <1>1, <2>1, LateShape
  <2>3. \A x : Behind(R, x) <=> Behind(U, x)
    BY <2>2 DEF Behind
  <2> QED
    BY <1>1, <1>3, <2>2, <2>3 DEF R
<1> QED
  BY <1>7, <1>8, <1>9, <1>10

\* The numbers that the first sender was asked for, in a history a of requests.
Requests(a) == {s \in Seqs : <<1, s>> \in DOMAIN a}

\* So few that the table of request times has had room for all.
FewAsked(a) == Cardinality(DOMAIN a) <= kRttPendingMax

\* The times of the requests to the first sender, up to now.
AskedOK(a, now) ==
    /\ DOMAIN a \subseteq {1} \X Seqs /\ IsFiniteSet(DOMAIN a)
    /\ \A k \in DOMAIN a : a[k] \in Nat /\ a[k] <= now

\* What a receiver R knows of the requests: when it asked, for the first time unless the
\* table was too small; and what it asked for is behind the newest number, so that it
\* becomes no gap again once it has been answered, but for the numbers in X.
TimesBut(R, a, now, X) ==
    LET times == R.nackSentAtMs
    IN  /\ DOMAIN times \subseteq Requests(a)
        /\ \A s \in DOMAIN times :
              /\ times[s] \in Nat /\ a[<<1, s>>] <= times[s] /\ times[s] <= now
              /\ FewAsked(a) => times[s] = a[<<1, s>>]
        /\ \A s \in Requests(a) \cup DOMAIN R.tracker.gaps : Behind(R.tracker, s)
        /\ FewAsked(a) =>
              \A s \in DOMAIN R.tracker.gaps :
                  s \in Requests(a) => s \in DOMAIN times \/ s \in X
        /\ R.rttSamples \in Seq(Nat)

TimesOK(R, a, now) == TimesBut(R, a, now, {})

\* observeRetransmit(): an answer takes its request from the table, and the sample it
\* gives is the time since then.
LEMMA ObserveTimes ==
    ASSUME clock \in Nat, NEW R, IsReceiver(R), NEW a, TimesOK(R, a, clock), NEW p
    PROVE  LET Q == ObserveRetransmit(R, p)
           IN  /\ TimesBut(Q, a, clock, {p.seq})
               /\ ~IsAnswer(R, p) => Q = R
               /\ IsAnswer(R, p) =>
                     /\ p.seq \notin DOMAIN Q.nackSentAtMs
                     /\ Q.rttSamples[Len(Q.rttSamples)] = clock - R.nackSentAtMs[p.seq]
<1> DEFINE Q == ObserveRetransmit(R, p)
           times == R.nackSentAtMs
           left == [s \in DOMAIN times \ {p.seq} |-> times[s]]
           rtt == clock - times[p.seq]
           all == Append(R.rttSamples, rtt)
           samples == IF Len(all) > kRttWindow THEN Tail(all) ELSE all
           mid == Median(samples)
<1>1. TimesBut(R, a, clock, {})
  BY DEF TimesOK
<1>2. CASE ~IsAnswer(R, p)
  <2>1. Q = R
    BY <1>2 DEF ObserveRetransmit
  <2>2. TimesBut(R, a, clock, {p.seq})
    BY <1>1 DEF TimesBut
  <2> QED
    BY <1>2, <2>1, <2>2
<1>3. CASE IsAnswer(R, p)
  <2>1. p.seq \in DOMAIN times /\ clock >= times[p.seq] /\ times[p.seq] \in Nat
        /\ R.rttSamples \in Seq(Nat)
    BY <1>1, <1>3 DEF IsAnswer, TimesBut
  <2>2. rtt \in Nat
    BY <2>1
  <2>3. Q = [R EXCEPT !.nackSentAtMs = left, !.rttSamples = samples, !.rttMs = mid]
    BY <1>3 DEF ObserveRetransmit, Restrict
  <2>4. samples \in Seq(Nat) /\ samples[Len(samples)] = rtt
    <3> DEFINE n == Len(R.rttSamples)
    <3>1. n \in Nat /\ kRttWindow \in Nat \ {0}
      BY <2>1, LenProperties, ReverseAssumption
    <3> HIDE DEF rtt
    <3>2. /\ all \in Seq(Nat) /\ all # <<>> /\ Len(all) = n + 1 /\ all[n + 1] = rtt
      BY <2>1, <2>2, AppendProperties
    <3> HIDE DEF all, n
    <3>3. CASE Len(all) > kRttWindow
      <4>1. samples = Tail(all) /\ n >= 1
        BY <3>1, <3>2, <3>3
      <4>2. /\ Tail(all) \in Seq(Nat) /\ Len(Tail(all)) = Len(all) - 1
            /\ \A i \in 1 .. Len(Tail(all)) : Tail(all)[i] = all[i + 1]
        BY <3>2, HeadTailProperties
      <4>3. Len(Tail(all)) = n /\ n \in 1 .. Len(Tail(all))
        BY <3>1, <3>2, <4>1, <4>2
      <4> HIDE DEF samples
      <4> QED
        BY <3>2, <4>1, <4>2, <4>3
    <3>4. CASE ~(Len(all) > kRttWindow)
      <4>1. samples = all
        BY <3>4
      <4> QED
        BY <3>2, <4>1
    <3> QED
      BY <3>3, <3>4
  <2>5. DOMAIN left = DOMAIN times \ {p.seq} /\ \A s \in DOMAIN left : left[s] = times[s]
    OBVIOUS
  <2> HIDE DEF left, samples, mid
  <2>6. Q.nackSentAtMs = left /\ Q.rttSamples = samples /\ Q.tracker = R.tracker
    BY <2>3 DEF IsReceiver
  <2> HIDE DEF Q
  <2>7. TimesBut(Q, a, clock, {p.seq})
    BY <1>1, <2>4, <2>5, <2>6 DEF TimesBut
  <2> QED
    BY <1>3, <2>4, <2>5, <2>6, <2>7 DEF Q
<1> QED
  BY <1>2, <1>3

\* The tracker closes the gap of the packet and opens none that was asked for.
LEMMA TrackedTimes ==
    ASSUME ReverseTypeOK, NumbersInv, NEW d \in data, d.port = 1,
           NEW R, IsReceiver(R), Tracks(R.tracker, 1),
           NEW a, Requests(a) \subseteq SentBy(1), TimesBut(R, a, clock, {d.packet.seq})
    PROVE  TimesOK(Tracked(R, d.packet), a, clock)
<1> DEFINE p == d.packet
           t == Tolerance(p.count)
           T == Received(R.tracker, p.seq, t, p.key)
           Q == Tracked(R, p)
<1>1. p.seq \in SentBy(1) \cap Seqs /\ p.key \in BOOLEAN /\ p.count \in Nat
  BY NumberWasSent
<1>2. t \in Nat /\ R.tracker \in TrackerType
  BY <1>1, ToleranceType DEF IsReceiver
<1> HIDE DEF t
<1>3. \A g \in DOMAIN R.tracker.gaps : Behind(R.tracker, g)
  BY DEF TimesBut
<1>4. /\ \A x \in SentBy(1) : Behind(R.tracker, x) => Behind(T, x)
      /\ \A g \in DOMAIN T.gaps :
            Behind(T, g) /\ (g \in DOMAIN R.tracker.gaps \/ ~Behind(R.tracker, g))
      /\ Behind(R.tracker, p.seq) => p.seq \notin DOMAIN T.gaps
  BY <1>1, <1>2, <1>3, ReceivedBehind
<1>5. Q = [R EXCEPT !.tracker = T]
  BY DEF Tracked, t
<1> HIDE DEF T
<1>6. Q.tracker = T /\ Q.nackSentAtMs = R.nackSentAtMs /\ Q.rttSamples = R.rttSamples
  BY <1>5 DEF IsReceiver
<1> HIDE DEF Q
<1>7. \A s \in Requests(a) \cup DOMAIN T.gaps : Behind(T, s)
  BY <1>4 DEF TimesBut
<1>8. ASSUME FewAsked(a), NEW s \in DOMAIN T.gaps, s \in Requests(a)
      PROVE  s \in DOMAIN R.nackSentAtMs
  <2>1. Behind(R.tracker, s)
    BY <1>8 DEF TimesBut
  <2>2. s \in DOMAIN R.tracker.gaps /\ s # p.seq
    BY <1>4, <1>8, <2>1
  <2> QED
    BY <1>8, <2>2 DEF TimesBut
<1> QED
  BY <1>6, <1>7, <1>8 DEF TimesOK, TimesBut, Q

\* Asking closes gaps, and opens none.
LEMMA CollectedTimes ==
    ASSUME NEW R, IsReceiver(R), Tracks(R.tracker, 1), NEW a, NEW now, TimesOK(R, a, now)
    PROVE  TimesOK([R EXCEPT !.tracker = Collected(@)], a, now)
<1> DEFINE T == Collected(R.tracker)
           Q == [R EXCEPT !.tracker = T]
<1>1. R.tracker \in TrackerType
  BY DEF IsReceiver
<1>2. IsFiniteSet(DOMAIN R.tracker.gaps)
  BY <1>1, TrackerParts, SeqsAreFinite
<1>3. /\ T.highest = R.tracker.highest /\ T.hasBase = R.tracker.hasBase
      /\ DOMAIN T.gaps \subseteq DOMAIN R.tracker.gaps
  BY <1>1, <1>2, CollectedShape DEF Tracks
<1> HIDE DEF T
<1>4. Q.tracker = T /\ Q.nackSentAtMs = R.nackSentAtMs /\ Q.rttSamples = R.rttSamples
  BY DEF IsReceiver
<1> HIDE DEF Q
<1>5. TimesOK(Q, a, now)
  BY <1>3, <1>4 DEF TimesOK, TimesBut, Behind
<1> QED
  BY <1>5 DEF Q, T

\* Neither a PLI nor its failure touches the measurement.
LEMMA ReportLeavesTimes ==
    ASSUME NEW R, IsReceiver(R), NEW ok
    PROVE  /\ LET Q == RequestKeyFrame(R, ok).R
              IN  /\ Q.peer = R.peer /\ Q.tracker = R.tracker
                  /\ Q.nackSentAtMs = R.nackSentAtMs /\ Q.rttSamples = R.rttSamples
           /\ LET Q == ReportKeyFrames(R, ok).R
              IN  /\ Q.peer = R.peer /\ Q.tracker = R.tracker
                  /\ Q.nackSentAtMs = R.nackSentAtMs /\ Q.rttSamples = R.rttSamples
<1> DEFINE Same(Q) == /\ Q.peer = R.peer /\ Q.tracker = R.tracker
                      /\ Q.nackSentAtMs = R.nackSentAtMs /\ Q.rttSamples = R.rttSamples
           Rec == [peer: {R.peer}, tracker: {R.tracker}, nackSendErrors: Nat,
                   lastPliMs: {R.lastPliMs, clock}, seenKeyFramesGivenUp: Nat \cup {R.tracker.stats.keyFramesGivenUp},
                   nackSentAtMs: {R.nackSentAtMs}, rttSamples: {R.rttSamples}, rttMs: {R.rttMs}]
<1>1. R \in Rec /\ \A Q \in Rec : Same(Q)
  BY DEF IsReceiver
<1>2. ASSUME NEW Q \in Rec
      PROVE  RequestKeyFrame(Q, ok).R \in Rec
  <2> DEFINE e == Q.nackSendErrors + 1
  <2>1. e \in Nat
    OBVIOUS
  <2>2. [Q EXCEPT !.lastPliMs = clock] \in Rec
    OBVIOUS
  <2>3. [Q EXCEPT !.nackSendErrors = e] \in Rec
    <3> HIDE DEF e
    <3> QED
      BY <2>1
  <2> HIDE DEF Rec
  <2> QED
    BY <2>2, <2>3 DEF RequestKeyFrame
<1>3. [R EXCEPT !.seenKeyFramesGivenUp = R.tracker.stats.keyFramesGivenUp] \in Rec
  BY <1>1
<1> HIDE DEF Rec
<1>4. RequestKeyFrame(R, ok).R \in Rec
  BY <1>1, <1>2
<1>5. ReportKeyFrames(R, ok).R \in Rec
  BY <1>1, <1>2, <1>3 DEF ReportKeyFrames
<1>6. Same(RequestKeyFrame(R, ok).R) /\ Same(ReportKeyFrames(R, ok).R)
  <2> HIDE DEF Same
  <2> QED
    BY <1>1, <1>4, <1>5
<1> QED
  BY <1>6

\* There are no more numbers asked for than requests.
LEMMA RequestsAreFew ==
    ASSUME NEW a, IsFiniteSet(DOMAIN a), NEW S \in SUBSET Requests(a)
    PROVE  IsFiniteSet(S) /\ Cardinality(S) <= Cardinality(DOMAIN a)
<1> DEFINE f == [s \in S |-> <<1, s>>]
           D == DOMAIN a
<1>1. f \in [S -> D] /\ \A x, y \in S : f[x] = f[y] => x = y
  BY DEF Requests
<1> HIDE DEF f, D
<1>2. f \in Injection(S, D)
  BY <1>1 DEF Injection, IsInjective
<1> QED
  BY <1>2, FS_Injection DEF D

\* recordNackSent(): times stay, new ones are those of now, and all of them fit in if
\* there are few.
LEMMA RecordShape ==
    ASSUME NEW times, NEW N
    PROVE  LET R == RecordNackSent(times, N)
               D == DOMAIN times \cup N
           IN  /\ DOMAIN R \subseteq D
               /\ \A s \in DOMAIN R : R[s] = IF s \in DOMAIN times THEN times[s] ELSE clock
               /\ (\A s \in D : Cardinality({o \in D : o >= s}) <= kRttPendingMax)
                      => DOMAIN R = D
  BY DEF RecordNackSent, Recorded, Restrict

\* The requests of a step become part of the history.
LEMMA AskedGrows ==
    ASSUME clock \in Nat, NEW a, AskedOK(a, clock), NEW N \in SUBSET Seqs
    PROVE  LET b == [k \in DOMAIN a \cup {<<1, s>> : s \in N} |->
                        IF k \in DOMAIN a THEN a[k] ELSE clock]
           IN  /\ AskedOK(b, clock) /\ Requests(b) = Requests(a) \cup N
               /\ FewAsked(b) => FewAsked(a)
               /\ \A k \in DOMAIN a : k \in DOMAIN b /\ b[k] = a[k]
               /\ \A s \in N : <<1, s>> \notin DOMAIN a => b[<<1, s>>] = clock
<1> DEFINE M == {<<1, s>> : s \in N}
           D == DOMAIN a \cup M
           b == [k \in D |-> IF k \in DOMAIN a THEN a[k] ELSE clock]
<1>1. IsFiniteSet(N) /\ IsFiniteSet(DOMAIN a)
  BY SeqsAreFinite DEF AskedOK
<1>2. IsFiniteSet(M)
  <2> DEFINE f == [s \in N |-> <<1, s>>]
  <2>1. f \in [N -> M] /\ \A y \in M : \E x \in N : f[x] = y
    OBVIOUS
  <2> HIDE DEF f, M
  <2>2. f \in Surjection(N, M)
    BY <2>1 DEF Surjection
  <2> QED
    BY <1>1, <2>2, FS_Surjection
<1>3. DOMAIN b = D /\ \A k \in D : b[k] = IF k \in DOMAIN a THEN a[k] ELSE clock
  OBVIOUS
<1>4. D \subseteq {1} \X Seqs /\ \A s \in Seqs : <<1, s>> \in D <=> <<1, s>> \in DOMAIN a \/ s \in N
  BY DEF AskedOK
<1> HIDE DEF b
<1>5. IsFiniteSet(D) /\ Cardinality(DOMAIN a) <= Cardinality(D)
  <2>1. IsFiniteSet(D)
    <3> HIDE DEF M
    <3> QED
      BY <1>1, <1>2, FS_Union
  <2>2. DOMAIN a \in SUBSET D
    OBVIOUS
  <2> HIDE DEF D
  <2> QED
    BY <2>1, <2>2, FS_Subset
<1>6. FewAsked(b) => FewAsked(a)
  <2>1. Cardinality(DOMAIN a) \in Nat /\ Cardinality(D) \in Nat /\ kRttPendingMax \in Nat
    BY <1>1, <1>5, FS_CardinalityType, ReverseAssumption
  <2> HIDE DEF D
  <2> QED
    BY <1>3, <1>5, <2>1 DEF FewAsked
<1>7. Requests(b) = Requests(a) \cup N
  BY <1>3, <1>4 DEF Requests
<1>8. AskedOK(b, clock)
  <2>1. \A k \in DOMAIN b : b[k] \in Nat /\ b[k] <= clock
    BY <1>3 DEF AskedOK
  <2> QED
    BY <1>3, <1>4, <1>5, <2>1 DEF AskedOK
<1>9. \A k \in DOMAIN a : k \in DOMAIN b /\ b[k] = a[k]
  BY <1>3
<1>10. \A s \in N : <<1, s>> \notin DOMAIN a => b[<<1, s>>] = clock
  BY <1>3
<1> QED
  BY <1>6, <1>7, <1>8, <1>9, <1>10 DEF b

\* What a call of requestRetransmissions() asks for, and the history after it.
AskedBy(X) == UNION {Decoded(m.entries) : m \in X.sent}

AskedAfter(a, N, t) ==
    [k \in DOMAIN a \cup {<<1, s>> : s \in N} |-> IF k \in DOMAIN a THEN a[k] ELSE t]

\* requestRetransmissions(): what is asked for gets its time, in the table and in the
\* history.
LEMMA SendTimes ==
    ASSUME clock \in Nat, NEW R, IsReceiver(R), NEW T \in TrackerType, NEW ok \in BOOLEAN,
           NEW a, AskedOK(a, clock), TimesOK(R, a, clock),
           \A s \in Targets(T) :
              /\ Behind(R.tracker, s)
              /\ FewAsked(a) /\ s \in Requests(a) => s \in DOMAIN R.nackSentAtMs
    PROVE  LET X == SendNack(R, TargetList(T), ok)
               N == AskedBy(X)
               b == AskedAfter(a, N, clock)
           IN  /\ N \subseteq Targets(T) \cap Seqs
               /\ AskedOK(b, clock) /\ TimesOK(X.R, b, clock)
               /\ FewAsked(b) => FewAsked(a)
               /\ Requests(b) = Requests(a) \cup N
               /\ \A k \in DOMAIN a : k \in DOMAIN b /\ b[k] = a[k]
<1> DEFINE list == TargetList(T)
           X == SendNack(R, list, ok)
           N == AskedBy(X)
           b == AskedAfter(a, N, clock)
           entries == Encoded(Sendable(list))
           asks == Range(Sendable(list))
           e == R.nackSendErrors + 1
           times == R.nackSentAtMs
           more == RecordNackSent(times, asks)
<1>1. asks \subseteq Targets(T) \cap Seqs /\ Decoded(entries) = asks
  <2>1. Sendable(list) \in Seq(Seqs) /\ Range(Sendable(list)) \subseteq Targets(T)
    BY NackShape
  <2>2. Decoded(entries) = asks
    BY <2>1, NackRoundTrip
  <2>3. Targets(T) \subseteq Seqs
    BY TrackerParts DEF Targets
  <2> QED
    BY <2>1, <2>2, <2>3
<1> HIDE DEF list, entries, asks, more
<1>2. \/ N = {} /\ X.R.nackSentAtMs = times
      \/ N = asks /\ X.R.nackSentAtMs = more
  <2>1. CASE list = <<>> \/ R.peer = 0
    BY <2>1 DEF SendNack, AskedBy
  <2>2. CASE ~(list = <<>> \/ R.peer = 0) /\ ~ok
    <3>1. X = [R |-> [R EXCEPT !.nackSendErrors = e], sent |-> {}]
      BY <2>2 DEF SendNack, e
    <3> HIDE DEF e
    <3>2. X.R = [R EXCEPT !.nackSendErrors = e] /\ X.sent = {}
      BY <3>1
    <3> HIDE DEF X
    <3>3. X.R.nackSentAtMs = times
      BY <3>2 DEF IsReceiver
    <3> QED
      BY <3>2, <3>3 DEF AskedBy
  <2>3. CASE ~(list = <<>> \/ R.peer = 0) /\ ok
    <3> DEFINE nack == [type |-> "Nack", to |-> R.peer, entries |-> entries]
    <3>1. X = [R |-> [R EXCEPT !.nackSentAtMs = more], sent |-> {nack}]
      BY <2>3 DEF SendNack, entries, more, asks
    <3> HIDE DEF nack
    <3>2. X.R = [R EXCEPT !.nackSentAtMs = more] /\ X.sent = {nack}
      BY <3>1
    <3> HIDE DEF X
    <3>3. X.R.nackSentAtMs = more
      BY <3>2 DEF IsReceiver
    <3>4. N = Decoded(entries)
      BY <3>2 DEF nack, AskedBy
    <3> QED
      BY <1>1, <3>3, <3>4
  <2> QED
    BY <2>1, <2>2, <2>3
<1>3. X.R.tracker = R.tracker /\ X.R.rttSamples = R.rttSamples
  <2>1. X.R = R \/ X.R = [R EXCEPT !.nackSendErrors = e] \/ X.R = [R EXCEPT !.nackSentAtMs = more]
    BY DEF SendNack, more, asks
  <2> HIDE DEF X, e
  <2> QED
    BY <2>1 DEF IsReceiver
<1> HIDE DEF X, N
<1>4. N \subseteq Targets(T) \cap Seqs
  BY <1>1, <1>2
<1>5. /\ AskedOK(b, clock) /\ Requests(b) = Requests(a) \cup N
      /\ FewAsked(b) => FewAsked(a)
      /\ \A k \in DOMAIN a : k \in DOMAIN b /\ b[k] = a[k]
      /\ \A s \in N : <<1, s>> \notin DOMAIN a => b[<<1, s>>] = clock
  BY <1>4, AskedGrows DEF AskedAfter
<1> HIDE DEF b
<1> DEFINE new == X.R.nackSentAtMs
           D == DOMAIN times \cup N
<1>6. DOMAIN times \subseteq Requests(a) /\ D \subseteq Requests(b) /\ IsFiniteSet(DOMAIN b)
  BY <1>5 DEF TimesOK, TimesBut, AskedOK
<1>7. /\ DOMAIN new \subseteq D
      /\ \A s \in DOMAIN new : new[s] = IF s \in DOMAIN times THEN times[s] ELSE clock
      /\ FewAsked(b) => DOMAIN new = D
  <2>1. CASE N = {} /\ new = times
    BY <2>1
  <2>2. CASE N = asks /\ new = more
    <3>1. FewAsked(b) => \A s \in D : Cardinality({o \in D : o >= s}) <= kRttPendingMax
      <4> SUFFICES ASSUME FewAsked(b), NEW s \in D
                   PROVE  Cardinality({o \in D : o >= s}) <= kRttPendingMax
        OBVIOUS
      <4> DEFINE S == {o \in D : o >= s}
      <4>1. S \in SUBSET Requests(b)
        BY <1>6
      <4> HIDE DEF S
      <4>2. IsFiniteSet(S) /\ Cardinality(S) <= Cardinality(DOMAIN b)
        BY <1>6, <4>1, RequestsAreFew
      <4>3. Cardinality(S) \in Nat /\ Cardinality(DOMAIN b) \in Nat /\ kRttPendingMax \in Nat
        BY <1>6, <4>2, FS_CardinalityType, ReverseAssumption
      <4>4. Cardinality(S) <= kRttPendingMax
        BY <4>2, <4>3 DEF FewAsked
      <4> QED
        BY <4>4 DEF S
    <3>2. LET R0 == RecordNackSent(times, asks)
              E  == DOMAIN times \cup asks
          IN  /\ DOMAIN R0 \subseteq E
              /\ \A s \in DOMAIN R0 : R0[s] = IF s \in DOMAIN times THEN times[s] ELSE clock
              /\ (\A s \in E : Cardinality({o \in E : o >= s}) <= kRttPendingMax)
                     => DOMAIN R0 = E
      BY RecordShape
    <3>3. DOMAIN times \cup asks = D /\ RecordNackSent(times, asks) = new
      BY <2>2 DEF more
    <3> HIDE DEF D, new, times
    <3> QED
      BY <3>1, <3>2, <3>3
  <2> QED
    BY <1>2, <2>1, <2>2
<1> HIDE DEF new, D
<1>8. DOMAIN new \subseteq Requests(b)
  BY <1>6, <1>7
<1>9. ASSUME NEW s \in DOMAIN new
      PROVE  /\ new[s] \in Nat /\ b[<<1, s>>] <= new[s] /\ new[s] <= clock
             /\ FewAsked(b) => new[s] = b[<<1, s>>]
  <2>1. CASE s \in DOMAIN times
    <3>1. new[s] = times[s] /\ <<1, s>> \in DOMAIN a
      BY <1>6, <1>7, <2>1 DEF Requests
    <3>2. b[<<1, s>>] = a[<<1, s>>]
      BY <1>5, <3>1
    <3> QED
      BY <1>5, <2>1, <3>1, <3>2 DEF TimesOK, TimesBut
  <2>2. CASE s \notin DOMAIN times
    <3>1. s \in N /\ new[s] = clock /\ <<1, s>> \in DOMAIN b
      BY <1>7, <1>8, <2>2 DEF D, Requests
    <3>2. b[<<1, s>>] \in Nat /\ b[<<1, s>>] <= clock
      BY <1>5, <3>1 DEF AskedOK
    <3>3. FewAsked(b) => b[<<1, s>>] = clock
      <4> SUFFICES ASSUME FewAsked(b) PROVE <<1, s>> \notin DOMAIN a
        BY <1>5, <3>1
      <4>1. s \in Targets(T) /\ s \in Seqs /\ FewAsked(a)
        BY <1>4, <1>5, <3>1
      <4> QED
        BY <2>2, <4>1 DEF Requests
    <3> QED
      BY <3>1, <3>2, <3>3
  <2> QED
    BY <2>1, <2>2
<1>10. \A s \in Requests(b) \cup DOMAIN R.tracker.gaps : Behind(R.tracker, s)
  BY <1>4, <1>5 DEF TimesOK, TimesBut
<1>11. ASSUME FewAsked(b), NEW s \in DOMAIN R.tracker.gaps, s \in Requests(b)
       PROVE  s \in DOMAIN new
  BY <1>5, <1>7, <1>11 DEF D, TimesOK, TimesBut
<1>12. R.rttSamples \in Seq(Nat)
  BY DEF TimesOK, TimesBut
<1>13. TimesOK(X.R, b, clock)
  BY <1>3, <1>8, <1>9, <1>10, <1>11, <1>12 DEF TimesOK, TimesBut, new
<1> QED
  BY <1>4, <1>5, <1>13 DEF X, N, b, list

\* As long as there has been one sender, the table of request times is what the history
\* says it is.
RttInv ==
    /\ sender.port = 1 =>
          /\ AskedOK(askedAt, clock) /\ Requests(askedAt) \subseteq SentBy(1)
          /\ receiver.peer # 1 => DOMAIN askedAt = {}
          /\ TimesOK(receiver, askedAt, clock)
    /\ RttIsExactAtFirst

\* Nobody has been asked for anything.
LEMMA RttInitInv == ReverseInit => RttInv
<1> SUFFICES ASSUME ReverseInit PROVE RttInv
  OBVIOUS
<1>1. DOMAIN <<>> = {} /\ <<>> \in Seq(Nat) /\ IsFiniteSet({})
  BY TableType, EmptySeq, FS_EmptySet
<1>2. /\ askedAt = <<>> /\ measured = <<>> /\ receiver.nackSentAtMs = <<>>
      /\ receiver.rttSamples = <<>> /\ receiver.tracker.gaps = <<>>
  BY DEF ReverseInit, NewReceiver, NewTracker
<1>3. Requests(askedAt) = {}
  BY <1>1, <1>2 DEF Requests
<1>4. AskedOK(askedAt, clock)
  BY <1>1, <1>2 DEF AskedOK
<1>5. TimesOK(receiver, askedAt, clock)
  BY <1>1, <1>2, <1>3 DEF TimesOK, TimesBut
<1>6. RttIsExactAtFirst
  BY <1>2 DEF RttIsExactAtFirst
<1> QED
  BY <1>1, <1>2, <1>3, <1>4, <1>5, <1>6 DEF RttInv

\* Later, and with more packets on the way, nothing is different.
LEMMA RttStays ==
    ASSUME ReverseInv, RttInv, data \subseteq data', clock' \in Nat, clock <= clock',
           sender'.port = sender.port, UNCHANGED <<receiver, askedAt, measured>>
    PROVE  RttInv'
<1>1. RttIsExactAtFirst'
  BY DEF RttInv, RttIsExactAtFirst
<1>2. SentBy(1) \subseteq SentBy(1)'
  <2>1. Originals \subseteq Originals'
    BY DEF Originals
  <2> QED
    BY <2>1 DEF SentBy
<1> SUFFICES ASSUME sender.port = 1
             PROVE  /\ AskedOK(askedAt, clock)' /\ Requests(askedAt)' \subseteq SentBy(1)'
                    /\ receiver'.peer # 1 => DOMAIN askedAt' = {}
                    /\ TimesOK(receiver, askedAt, clock)'
  BY <1>1 DEF RttInv
<1>3. /\ AskedOK(askedAt, clock) /\ Requests(askedAt) \subseteq SentBy(1)
      /\ receiver.peer # 1 => DOMAIN askedAt = {}
      /\ TimesOK(receiver, askedAt, clock)
  BY DEF RttInv
<1>4. clock \in Nat
  BY DEF ReverseInv, ReverseTypeOK
<1>5. AskedOK(askedAt, clock')
  <2>1. \A k \in DOMAIN askedAt : askedAt[k] \in Nat /\ askedAt[k] <= clock'
    BY <1>3, <1>4 DEF AskedOK
  <2> QED
    BY <1>3, <2>1 DEF AskedOK
<1>6. TimesOK(receiver, askedAt, clock')
  <2>1. ASSUME NEW s \in DOMAIN receiver.nackSentAtMs
        PROVE  receiver.nackSentAtMs[s] <= clock'
    <3> DEFINE time == receiver.nackSentAtMs[s]
    <3>1. time \in Nat /\ time <= clock
      BY <1>3 DEF TimesOK, TimesBut
    <3> HIDE DEF time
    <3>2. time <= clock'
      BY <1>4, <3>1
    <3> QED
      BY <3>2 DEF time
  <2> QED
    BY <1>3, <2>1 DEF TimesOK, TimesBut
<1>7. AskedOK(askedAt, clock)'
  BY <1>5 DEF AskedOK
<1>8. TimesOK(receiver, askedAt, clock)'
  BY <1>6 DEF TimesOK, TimesBut, FewAsked, Requests
<1> QED
  BY <1>2, <1>3, <1>7, <1>8 DEF Requests

\* What the receive thread does with a packet of the first sender.
LEMMA RttOfPacket ==
    ASSUME ReverseInv, RttInv, ReceivePacket, sender.port = 1
    PROVE  RttInv'
<1>1. /\ ReverseTypeOK /\ NumbersInv /\ IsReceiver(receiver) /\ clock \in Nat
      /\ Tracks(receiver.tracker, receiver.peer)
      /\ UNCHANGED <<clock, data, sender>>
  BY DEF ReverseInv, ReverseTypeOK, ReceivePacket
<1>2. /\ AskedOK(askedAt, clock) /\ Requests(askedAt) \subseteq SentBy(1)
      /\ receiver.peer # 1 => DOMAIN askedAt = {}
      /\ TimesOK(receiver, askedAt, clock) /\ RttIsExactAtFirst
  BY DEF RttInv
<1>3. PICK d \in data : ReceiveData(d.port, d.packet)
  BY DEF ReceivePacket
<1>4. d.port = 1
  BY <1>1 DEF ReverseTypeOK
<1> DEFINE p == d.packet
           R1 == TrackPeer(receiver, 1)
           R2 == ObserveRetransmit(R1, p)
           R3 == Tracked(R2, p)
           R4 == [R3 EXCEPT !.tracker = Collected(@)]
           T == R3.tracker
           list == TargetList(T)
<1>5. PICK ok1 \in SendResults, ok2 \in SendResults :
          LET pli  == ReportKeyFrames(R4, ok1)
              nack == SendNack(pli.R, list, ok2)
              nacked == {<<1, s>> : s \in UNION {Decoded(m.entries) : m \in nack.sent}}
          IN  /\ receiver' = nack.R
              /\ askedAt' = [k \in DOMAIN askedAt \cup nacked |->
                                IF k \in DOMAIN askedAt THEN askedAt[k] ELSE clock]
              /\ measured' = IF R2.rttSamples = receiver.rttSamples
                                /\ R2.nackSentAtMs = receiver.nackSentAtMs THEN measured
                             ELSE [port |-> 1, seq |-> p.seq, at |-> clock,
                                   rtt |-> R2.rttSamples[Len(R2.rttSamples)]]
  BY <1>3, <1>4 DEF ReceiveData
<1> DEFINE pli == ReportKeyFrames(R4, ok1)
           nack == SendNack(pli.R, list, ok2)
           N == AskedBy(nack)
           b == AskedAfter(askedAt, N, clock)
           rtt == R2.rttSamples[Len(R2.rttSamples)]
<1>6. /\ receiver' = nack.R /\ askedAt' = b
      /\ measured' = IF R2.rttSamples = receiver.rttSamples
                        /\ R2.nackSentAtMs = receiver.nackSentAtMs THEN measured
                     ELSE [port |-> 1, seq |-> p.seq, at |-> clock, rtt |-> rtt]
      /\ ok1 \in BOOLEAN /\ ok2 \in BOOLEAN
  BY <1>5 DEF SendResults, AskedBy, AskedAfter
<1>7. /\ IsReceiver(R1) /\ R1.peer = 1 /\ Tracks(R1.tracker, 1)
      /\ TimesOK(R1, askedAt, clock)
      /\ R1.nackSentAtMs = receiver.nackSentAtMs /\ R1.rttSamples = receiver.rttSamples
  <2>1. CASE receiver.peer = 1
    BY <1>1, <1>2, <2>1 DEF TrackPeer
  <2>2. CASE receiver.peer # 1
    <3> DEFINE F == Forgotten(receiver.tracker)
    <3>1. F \in TrackerType /\ Tracks(F, 1)
      BY <1>1, ForgottenTracks DEF IsReceiver
    <3>2. DOMAIN F.gaps = {}
      <4>1. F.gaps = <<>>
        BY <1>1, ForgottenShape DEF IsReceiver
      <4> HIDE DEF F
      <4> QED
        BY <4>1, TableType
    <3>3. R1 = [receiver EXCEPT !.peer = 1, !.tracker = F]
      BY <2>2 DEF TrackPeer
    <3> HIDE DEF F, R1
    <3>4. /\ IsReceiver(R1) /\ R1.peer = 1 /\ R1.tracker = F
          /\ R1.nackSentAtMs = receiver.nackSentAtMs /\ R1.rttSamples = receiver.rttSamples
      BY <1>1, <3>1, <3>3 DEF IsReceiver
    <3>5. Requests(askedAt) = {}
      BY <1>2, <2>2 DEF Requests
    <3>6. TimesOK(R1, askedAt, clock)
      BY <1>2, <3>2, <3>4, <3>5 DEF TimesOK, TimesBut
    <3> QED
      BY <3>1, <3>4, <3>6
  <2> QED
    BY <2>1, <2>2
<1> HIDE DEF R1
<1>8. /\ IsReceiver(R2) /\ R2.peer = 1 /\ Tracks(R2.tracker, 1)
  BY <1>7, ObserveShape
<1>9. /\ TimesBut(R2, askedAt, clock, {p.seq})
      /\ ~IsAnswer(R1, p) => R2 = R1
      /\ IsAnswer(R1, p) => p.seq \notin DOMAIN R2.nackSentAtMs
                            /\ rtt = clock - R1.nackSentAtMs[p.seq]
  BY <1>1, <1>7, ObserveTimes
<1> HIDE DEF R2
<1>10. IsReceiver(R3) /\ R3.peer = 1 /\ Tracks(R3.tracker, 1)
  BY <1>1, <1>4, <1>8, TrackedShape
<1>11. TimesOK(R3, askedAt, clock)
  BY <1>1, <1>2, <1>4, <1>8, <1>9, TrackedTimes
<1> HIDE DEF R3
<1>12. T \in TrackerType
  BY <1>10 DEF IsReceiver
<1>13. /\ IsReceiver(R4) /\ R4.peer = 1 /\ R4.tracker.highest = T.highest
       /\ R4.tracker.hasBase = T.hasBase /\ R4.nackSentAtMs = R3.nackSentAtMs
  <2> DEFINE C == Collected(T)
  <2>1. C \in TrackerType
    BY <1>10, <1>12, CollectedTracks
  <2>2. C.highest = T.highest /\ C.hasBase = T.hasBase
    <3>1. IsFiniteSet(DOMAIN T.gaps)
      BY <1>12, TrackerParts, SeqsAreFinite
    <3> QED
      BY <1>10, <1>12, <3>1, CollectedShape DEF Tracks
  <2> HIDE DEF C
  <2>3. R4 = [R3 EXCEPT !.tracker = C]
    BY DEF C
  <2> HIDE DEF R4
  <2> QED
    BY <1>10, <2>1, <2>2, <2>3 DEF IsReceiver
<1>14. TimesOK(R4, askedAt, clock)
  BY <1>10, <1>11, CollectedTimes
<1> HIDE DEF R4
<1>15. IsReceiver(pli.R) /\ pli.R.peer = 1
  <2>1. PliSent(R4, {[type |-> "Pli", to |-> 0, ts |-> R4.lastPliMs]})
    BY DEF PliSent
  <2>2. {[type |-> "Pli", to |-> 0, ts |-> R4.lastPliMs]} \subseteq Message
    BY <1>13 DEF IsReceiver, Message
  <2> QED
    BY <1>1, <1>6, <1>13, <2>1, <2>2, ReportShape
<1>16. /\ pli.R.tracker = R4.tracker /\ pli.R.nackSentAtMs = R4.nackSentAtMs
       /\ pli.R.rttSamples = R4.rttSamples
  BY <1>13, ReportLeavesTimes
<1> HIDE DEF pli
<1>17. TimesOK(pli.R, askedAt, clock)
  BY <1>14, <1>16 DEF TimesOK, TimesBut
<1>18. \A s \in Targets(T) :
          /\ Behind(pli.R.tracker, s)
          /\ FewAsked(askedAt) /\ s \in Requests(askedAt) => s \in DOMAIN pli.R.nackSentAtMs
  <2>1. Targets(T) \subseteq DOMAIN R3.tracker.gaps
    BY DEF Targets
  <2> QED
    BY <1>11, <1>13, <1>16, <2>1 DEF TimesOK, TimesBut, Behind
<1> HIDE DEF T
<1>19. ok2 \in BOOLEAN
  BY <1>6
<1>20. /\ N \subseteq Targets(T) \cap Seqs
       /\ AskedOK(b, clock) /\ TimesOK(nack.R, b, clock)
       /\ FewAsked(b) => FewAsked(askedAt)
       /\ Requests(b) = Requests(askedAt) \cup N
       /\ \A k \in DOMAIN askedAt : k \in DOMAIN b /\ b[k] = askedAt[k]
  BY <1>1, <1>2, <1>12, <1>15, <1>17, <1>18, <1>19, SendTimes
<1>21. nack.R.peer = 1
  BY <1>6, <1>12, <1>15, SendNackShape
<1>22. Requests(b) \subseteq SentBy(1)
  BY <1>2, <1>10, <1>20 DEF Targets, Tracks, T
<1> HIDE DEF nack, N, b, T, list, rtt
<1>23. RttIsExactAtFirst'
  <2> SUFFICES ASSUME measured' # <<>>
               PROVE  /\ \E x \in data : x.port = measured'.port /\ x.packet.seq = measured'.seq
                                         /\ x.packet.retransmit
                      /\ <<measured'.port, measured'.seq>> \in DOMAIN b
                      /\ measured'.rtt <= measured'.at - b[<<measured'.port, measured'.seq>>]
                      /\ FewAsked(b) =>
                            measured'.rtt = measured'.at - b[<<measured'.port, measured'.seq>>]
    BY <1>1, <1>6 DEF RttIsExactAtFirst, FewAsked
  <2>1. CASE ~IsAnswer(R1, p)
    <3>1. measured' = measured
      BY <1>6, <1>7, <1>9, <2>1
    <3> QED
      BY <1>2, <1>20, <3>1 DEF RttIsExactAtFirst, FewAsked
  <2>2. CASE IsAnswer(R1, p)
    <3> DEFINE s == p.seq
               asked1 == askedAt[<<1, s>>]
               time == R1.nackSentAtMs[s]
    <3>1. p.retransmit /\ s \in DOMAIN R1.nackSentAtMs
      BY <2>2 DEF IsAnswer
    <3>2. /\ <<1, s>> \in DOMAIN askedAt /\ time \in Nat /\ asked1 <= time /\ asked1 \in Nat
          /\ FewAsked(askedAt) => time = asked1
      <4>1. s \in Requests(askedAt)
        BY <1>7, <3>1 DEF TimesOK, TimesBut
      <4>2. <<1, s>> \in DOMAIN askedAt
        BY <4>1 DEF Requests
      <4> QED
        BY <1>2, <1>7, <3>1, <4>2 DEF TimesOK, TimesBut, AskedOK
    <3>3. R2.nackSentAtMs # receiver.nackSentAtMs
      BY <1>7, <1>9, <2>2, <3>1
    <3>4. measured' = [port |-> 1, seq |-> s, at |-> clock, rtt |-> clock - time]
      BY <1>6, <1>9, <2>2, <3>3
    <3>5. <<1, s>> \in DOMAIN b /\ b[<<1, s>>] = asked1
      BY <1>20, <3>2
    <3> HIDE DEF s, asked1, time
    <3>6. clock - time <= clock - asked1
      BY <1>1, <3>2
    <3>7. measured'.port = 1 /\ measured'.seq = s /\ measured'.at = clock
          /\ measured'.rtt = clock - time
      BY <3>4
    <3>8. d.port = 1 /\ d.packet.seq = s /\ d.packet.retransmit
      BY <1>4, <3>1 DEF s
    <3> QED
      BY <1>20, <3>2, <3>5, <3>6, <3>7, <3>8
  <2> QED
    BY <2>1, <2>2
<1>24. AskedOK(askedAt, clock)' /\ TimesOK(receiver, askedAt, clock)' /\ Requests(askedAt)' = Requests(b)
  <2>1. clock' = clock /\ receiver' = nack.R /\ askedAt' = b
    BY <1>1, <1>6
  <2>2. AskedOK(askedAt, clock)'
    BY <1>20, <2>1 DEF AskedOK
  <2>3. TimesOK(receiver, askedAt, clock)'
    BY <1>20, <2>1 DEF TimesOK, TimesBut, FewAsked, Requests
  <2> QED
    BY <2>1, <2>2, <2>3 DEF Requests
<1>25. SentBy(1)' = SentBy(1)
  BY <1>1, SenderIsLeftAlone
<1> QED
  BY <1>1, <1>6, <1>21, <1>22, <1>23, <1>25, <1>24 DEF RttInv

\* A packet that FEC gives back only moves the tracker.
LEMMA RttOfRecovered ==
    ASSUME ReverseInv, RttInv, Recovered, sender.port = 1
    PROVE  RttInv'
<1>1. /\ ReverseTypeOK /\ NumbersInv /\ IsReceiver(receiver)
      /\ Tracks(receiver.tracker, receiver.peer)
  BY DEF ReverseInv, ReverseTypeOK
<1>2. /\ AskedOK(askedAt, clock) /\ Requests(askedAt) \subseteq SentBy(1)
      /\ receiver.peer # 1 => DOMAIN askedAt = {}
      /\ TimesOK(receiver, askedAt, clock) /\ RttIsExactAtFirst
  BY DEF RttInv
<1>3. PICK d \in data : /\ d.port = receiver.peer /\ receiver' = Tracked(receiver, d.packet)
                        /\ UNCHANGED <<clock, data, sender, askedAt, measured>>
  BY DEF Recovered
<1>4. d.port = 1 /\ receiver.peer = 1
  BY <1>1, <1>3 DEF ReverseTypeOK
<1> DEFINE Q == Tracked(receiver, d.packet)
<1>5. TimesBut(receiver, askedAt, clock, {d.packet.seq})
  BY <1>2 DEF TimesOK, TimesBut
<1>6. TimesOK(Q, askedAt, clock)
  BY <1>1, <1>2, <1>4, <1>5, TrackedTimes
<1>7. Q.peer = 1
  BY <1>1, <1>4, TrackedShape
<1>8. SentBy(1)' = SentBy(1)
  BY <1>3, SenderIsLeftAlone
<1> HIDE DEF Q
<1>9. TimesOK(receiver, askedAt, clock)' /\ AskedOK(askedAt, clock)'
  <2>1. receiver' = Q /\ clock' = clock /\ askedAt' = askedAt
    BY <1>3 DEF Q
  <2> QED
    BY <1>2, <1>6, <2>1 DEF TimesOK, TimesBut, FewAsked, Requests, AskedOK
<1>10. RttIsExactAtFirst'
  BY <1>2, <1>3 DEF RttIsExactAtFirst
<1> QED
  BY <1>2, <1>3, <1>7, <1>8, <1>9, <1>10 DEF RttInv, Requests, Q

\* A PLI for a full queue leaves the measurement alone.
LEMMA RttOfFuse ==
    ASSUME ReverseInv, RttInv, FuseBlown, sender.port = 1
    PROVE  RttInv'
<1>1. IsReceiver(receiver)
  BY DEF ReverseInv, ReverseTypeOK
<1>2. /\ AskedOK(askedAt, clock) /\ Requests(askedAt) \subseteq SentBy(1)
      /\ receiver.peer # 1 => DOMAIN askedAt = {}
      /\ TimesOK(receiver, askedAt, clock) /\ RttIsExactAtFirst
  BY DEF RttInv
<1>3. PICK ok \in SendResults : /\ receiver' = RequestKeyFrame(receiver, ok).R
                                /\ UNCHANGED <<clock, data, sender, askedAt, measured>>
  BY DEF FuseBlown
<1> DEFINE Q == RequestKeyFrame(receiver, ok).R
<1>4. /\ Q.peer = receiver.peer /\ Q.tracker = receiver.tracker
      /\ Q.nackSentAtMs = receiver.nackSentAtMs /\ Q.rttSamples = receiver.rttSamples
  BY <1>1, ReportLeavesTimes
<1>5. SentBy(1)' = SentBy(1)
  BY <1>3, SenderIsLeftAlone
<1> HIDE DEF Q
<1>6. TimesOK(receiver, askedAt, clock)' /\ AskedOK(askedAt, clock)'
  <2>1. receiver' = Q /\ clock' = clock /\ askedAt' = askedAt
    BY <1>3 DEF Q
  <2> QED
    BY <1>2, <1>4, <2>1 DEF TimesOK, TimesBut, FewAsked, Requests, AskedOK
<1>7. RttIsExactAtFirst'
  BY <1>2, <1>3 DEF RttIsExactAtFirst
<1> QED
  BY <1>2, <1>3, <1>4, <1>5, <1>6, <1>7 DEF RttInv, Requests, Q

-----------------------------------------------------------------------------
(* The theorems.                                                           *)

\* The sender's numbers, its cache and the receiver's tracker fit together, whatever
\* the network does.
THEOREM ReverseInvariance == ReverseSpec => []ReverseInv
<1>1. ReverseInv /\ [ReverseNext]_reverseVars => ReverseInv'
  BY SendFrameStep, DrainStep, SenderRestartStep, ReceivePacketStep, RecoveredStep, FuseStep,
     TickStep, ReverseStutter DEF ReverseNext
<1> QED
  BY <1>1, ReverseInitInv, PTL DEF ReverseSpec

\* drainReverseChannel(): what is sent again is what was sent, with one flag more.
THEOREM RetransmissionsAreOriginal == ReverseSpec => []RetransmitIsOriginal
<1>1. ReverseInv => RetransmitIsOriginal
  BY DEF ReverseInv
<1> QED
  BY <1>1, ReverseInvariance, PTL

\* RetransmitCache: what is young and of the newest frames can be sent again, and the
\* statistics are exact.
THEOREM TheCacheServes == ReverseSpec => []CacheServes
<1>1. ReverseInv => CacheServes
  <2> SUFFICES ASSUME ReverseInv PROVE CacheServes
    OBVIOUS
  <2> DEFINE C == sender.cache
  <2>1. CacheOK(C, sender.port, sender.frames, data) /\ C \in Cache /\ ReverseTypeOK
        /\ sender.frames \in Nat /\ clock \in Nat
    BY DEF ReverseInv, CacheInv, ReverseTypeOK, SenderType
  <2>2. C.framesStored = Len(C.entries) + C.framesEvicted /\ C.bytes = Bytes(C.entries)
    BY <2>1 DEF CacheOK
  <2>3. ASSUME NEW d \in Originals, d.port = sender.port,
               clock - d.packet.ts < RetentionMs,
               MaxFrames # 0 => d.packet.frame[2] >= sender.frames - MaxFrames
        PROVE  Answer(C, d.packet.seq) # {}
    <3>1. d \in data /\ ~d.packet.retransmit
      BY DEF Originals
    <3>2. d.packet.ts \in Nat /\ d.packet.frame[2] \in Nat
      BY <2>1, <3>1 DEF ReverseTypeOK, Packet
    <3>3. ~(clock - d.packet.ts >= RetentionMs)
      BY <2>1, <2>3, <3>2, PacketConstants
    <3>4. ~(MaxFrames # 0 /\ d.packet.frame[2] < sender.frames - MaxFrames)
      BY <2>1, <2>3, <3>2, PacketConstants
    <3>5. PICK i \in 1 .. Len(C.entries) : Keeps(C.entries[i], d.packet)
      BY <2>1, <2>3, <3>1, <3>3, <3>4 DEF CacheOK
    <3>6. DOMAIN C.entries = 1 .. Len(C.entries)
      BY <2>1, LenProperties DEF Cache
    <3>7. i \in Hits(C, d.packet.seq)
      BY <3>5, <3>6 DEF Hits, Keeps
    <3> HIDE DEF C
    <3> QED
      BY <3>7 DEF Answer
  <2> QED
    BY <2>2, <2>3 DEF CacheServes
<1> QED
  BY <1>1, ReverseInvariance, PTL

\* requestRetransmissions(): a NACK asks its addressee for what this process has sent.
THEOREM NacksAskTheirSender == ReverseSpec => []AskedOfItsSender
<1>1. ReverseInv => AskedOfItsSender
  BY DEF ReverseInv
<1> QED
  BY <1>1, ReverseInvariance, PTL

\* requestKeyFrame(): where PLIs are on, a key frame that is given up is reported.
THEOREM KeyFrameLossesAreReported == ReverseSpec => KeyFrameLossReported
<1> DEFINE Reported ==
              PliMinIntervalMs > 0
              /\ receiver'.seenKeyFramesGivenUp > receiver.seenKeyFramesGivenUp =>
                    \/ receiver'.nackSendErrors > receiver.nackSendErrors
                    \/ \E m \in reverse' : m.type = "Pli" /\ clock - m.ts < PliMinIntervalMs
<1>1. ASSUME ReverseInv, [ReverseNext]_reverseVars PROVE [Reported]_reverseVars
  <2>1. receiver.seenKeyFramesGivenUp \in Nat
    BY <1>1 DEF ReverseInv, ReverseTypeOK, IsReceiver
  <2>2. CASE ReceivePacket
    BY <1>1, <2>2, ReceivePacketStep DEF RecentPli
  <2>3. CASE receiver'.seenKeyFramesGivenUp = receiver.seenKeyFramesGivenUp
    BY <2>1, <2>3
  <2>4. CASE Recovered
    BY <1>1, <2>3, <2>4, RecoveredStep
  <2>5. CASE FuseBlown
    BY <1>1, <2>3, <2>5, FuseStep
  <2>6. CASE SendFrame
    BY <1>1, <2>3, <2>6, SendFrameStep
  <2>7. CASE DrainReverseChannel
    BY <1>1, <2>3, <2>7, DrainStep
  <2>8. CASE Restart
    BY <1>1, <2>3, <2>8, SenderRestartStep
  <2>9. CASE Tick
    BY <2>3, <2>9 DEF Tick
  <2> QED
    BY <1>1, <2>2, <2>4, <2>5, <2>6, <2>7, <2>8, <2>9 DEF ReverseNext
<1>2. ReverseSpec => [][Reported]_reverseVars
  BY <1>1, ReverseInvariance, PTL DEF ReverseSpec
<1> QED
  BY <1>2 DEF KeyFrameLossReported

\* observeRetransmit(): a sample is the time since the first request, as long as there
\* has been one sender and the table has room for its requests.
THEOREM RttSamplesAreExact == ReverseSpec => []RttIsExactAtFirst
<1>1. ASSUME ReverseInv, RttInv, [ReverseNext]_reverseVars PROVE RttInv'
  <2>1. clock \in Nat /\ sender \in SenderType
    BY <1>1 DEF ReverseInv, ReverseTypeOK
  <2>2. CASE sender'.port # 1
    BY <2>2 DEF RttInv, RttIsExactAtFirst
  <2>3. CASE SendFrame
    <3>1. data \subseteq data' /\ sender'.port = sender.port
          /\ UNCHANGED <<clock, receiver, askedAt, measured>>
      BY <2>1, <2>3 DEF SendFrame, SenderType
    <3> QED
      BY <1>1, <2>1, <3>1, RttStays
  <2>4. CASE DrainReverseChannel
    <3>1. data \subseteq data' /\ sender'.port = sender.port
          /\ UNCHANGED <<clock, receiver, askedAt, measured>>
      BY <2>1, <2>4 DEF DrainReverseChannel, SenderType
    <3> QED
      BY <1>1, <2>1, <3>1, RttStays
  <2>5. CASE Restart
    <3>1. sender'.port # 1
      BY <2>1, <2>5 DEF Restart, NewSender, SenderType
    <3> QED
      BY <2>2, <3>1
  <2>6. CASE ReceivePacket
    <3>1. sender' = sender
      BY <2>6 DEF ReceivePacket
    <3> QED
      BY <1>1, <2>2, <2>6, <3>1, RttOfPacket
  <2>7. CASE Recovered
    <3>1. sender' = sender
      BY <2>7 DEF Recovered
    <3> QED
      BY <1>1, <2>2, <2>7, <3>1, RttOfRecovered
  <2>8. CASE FuseBlown
    <3>1. sender' = sender
      BY <2>8 DEF FuseBlown
    <3> QED
      BY <1>1, <2>2, <2>8, <3>1, RttOfFuse
  <2>9. CASE Tick
    <3>1. clock' \in Nat /\ clock <= clock'
          /\ UNCHANGED <<data, sender, receiver, askedAt, measured>>
      BY <2>1, <2>9 DEF Tick
    <3> QED
      BY <1>1, <3>1, RttStays
  <2>10. CASE UNCHANGED reverseVars
    <3>1. UNCHANGED <<clock, data, sender, receiver, askedAt, measured>>
      BY <2>10 DEF reverseVars
    <3> QED
      BY <1>1, <2>1, <3>1, RttStays
  <2> QED
    BY <1>1, <2>3, <2>4, <2>5, <2>6, <2>7, <2>8, <2>9, <2>10 DEF ReverseNext
<1>2. RttInv => RttIsExactAtFirst
  BY DEF RttInv
<1> QED
  BY <1>1, <1>2, RttInitInv, ReverseInvariance, PTL DEF ReverseSpec

=============================================================================
