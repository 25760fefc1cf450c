------------------------- MODULE ReceivePathProofs -------------------------
(***************************************************************************)
(* The jitter buffer, the estimator of its delay and the FEC decoder.      *)
(*                                                                         *)
(* Two arguments about the jitter buffer, for all limits, all id spaces    *)
(* and all streams.                                                        *)
(*                                                                         *)
(* First, the ids that the code compares.  What pop() relies on is         *)
(* PendingIsAhead: the code never compares the entry it delivers with the  *)
(* last one it delivered, it trusts push() to have let in nothing older.   *)
(* The invariant is inductive together with the type of the buffer, which  *)
(* gives the ids an order.                                                 *)
(*                                                                         *)
(* Then, what these ids mean: the buffer implements FrameStream, for every *)
(* receiver that does not join exactly after a wraparound                  *)
(* (JoinsBeforeWrap), and counts every frame, for all receivers.  The      *)
(* argument is Numbered: the extended id of an entry is its number in the  *)
(* sender's stream less the constant Base, because the stream moves less   *)
(* than half the id space at a time and the signed distance to the anchor  *)
(* is therefore the distance of the numbers.  The order the code keeps     *)
(* among extended ids is then the sender's order.                          *)
(*                                                                         *)
(* The delay of the jitter buffer stays within its limits, falls no faster *)
(* than it may and covers the window as promised, for all configurations,  *)
(* time stamps and round trips.  The rate of the fall is stated over any   *)
(* number of frames, so the invariant has to say what the rounding of the  *)
(* past frames leaves: Slow, where what the division has left over counts  *)
(* against the one millisecond of tolerance.  The rest is arithmetic, once *)
(* the order statistic that nth_element() finds is known to exist.         *)
(*                                                                         *)
(* The FEC decoder holds packets of one sender only, and what it recovers  *)
(* is the packet that was lost, whenever all but one of a group are there; *)
(* for all frames, groups, sizes of its buffer and of the sequence space.  *)
(* What has been sent are slices of frames (Original), so a group is a run *)
(* of slices, the decoder's window of numbers around the base selects no   *)
(* other slice (InGroup), and XOR over all the others leaves the missing   *)
(* one (XorLeaves); its length comes back because binary digits determine  *)
(* a number (DigitsTell).                                                  *)
(***************************************************************************)
EXTENDS JitterBuffer, DelayEstimator, Fec, SharedLemmas, SequenceTheorems,
        FiniteSetTheorems, TLAPS

\* The part of PendingIsAhead that is about one value of the buffer.
Ahead(B) ==
    /\ \A e \in B.pending : B.hasOut => e.ext > B.lastOut
    /\ \A d, e \in B.pending : d.ext = e.ext => d = e

IInv == J \in JitterType /\ latest \in Nat /\ PendingIsAhead

-----------------------------------------------------------------------------
(* The id arithmetic.                                                      *)

\* The signed distance is an integer.
LEMMA SignedType ==
    ASSUME NEW d \in Int, NEW m \in Nat \ {0}
    PROVE  Signed(d, m) \in Int
<1>1. d % m \in 0 .. m - 1
  OBVIOUS
<1> QED
  BY <1>1 DEF Signed

\* Extended ids stay in their range.
LEMMA ExtendedType ==
    ASSUME NEW B \in JitterType, NEW id \in 0 .. IdMod - 1
    PROVE  Extended(B, id) \in 0 .. ExtMod - 1
<1>1. IdMod \in Nat \ {0} /\ ExtMod \in Nat \ {0} /\ IdMod <= ExtMod
  BY IdAssumption
<1>2. B.refId \in 0 .. IdMod - 1 /\ B.refExt \in 0 .. ExtMod - 1
  BY DEF JitterType
<1>3. Signed(id - B.refId, IdMod) \in Int
  BY <1>1, <1>2, SignedType
<1>4. (B.refExt + Signed(id - B.refId, IdMod)) % ExtMod \in 0 .. ExtMod - 1
  BY <1>1, <1>2, <1>3
<1> QED
  BY <1>1, <1>4 DEF Extended

-----------------------------------------------------------------------------
(* enforceCapacity() drops entries and makes entries due, and nothing else. *)

\* enforceCapacity() keeps entries entries and adds no extended id.
LEMMA CappedEntries ==
    ASSUME NEW P \in SUBSET Entry, NEW f \in Capped(P)
    PROVE  /\ f \in Entry
           /\ \E e \in P : f.ext = e.ext
<1>1. PICK e \in Newest(P, HardLimit) :
        f = [e EXCEPT !.due = e.due \/ e \notin Newest(Newest(P, HardLimit), SoftLimit)]
  BY DEF Capped
<1>2. e \in P /\ e \in Entry
  BY <1>1 DEF Newest
<1> QED
  BY <1>1, <1>2 DEF Entry

\* Entries that have different ids keep them.
LEMMA CappedUnique ==
    ASSUME NEW P \in SUBSET Entry,
           \A d, e \in P : d.ext = e.ext => d = e,
           NEW f \in Capped(P), NEW g \in Capped(P), f.ext = g.ext
    PROVE  f = g
<1> DEFINE kept == Newest(P, HardLimit)
           overdue(e) == [e EXCEPT !.due = e.due \/ e \notin Newest(kept, SoftLimit)]
<1>1. PICK d \in kept : f = overdue(d)
  BY DEF Capped
<1>2. PICK e \in kept : g = overdue(e)
  BY DEF Capped
<1>3. d \in P /\ e \in P /\ d \in Entry /\ e \in Entry
  BY DEF Newest
<1>4. d.ext = f.ext /\ e.ext = g.ext
  BY <1>1, <1>2, <1>3 DEF Entry
<1>5. d = e
  BY <1>3, <1>4
<1> QED
  BY <1>1, <1>2, <1>5

-----------------------------------------------------------------------------
(* The operations.                                                         *)

\* push() lets in only what is newer than the last frame delivered, and only
\* ids it does not hold yet.
LEMMA PushedAhead ==
    ASSUME NEW B \in JitterType, Ahead(B), NEW f \in Frame, NEW due \in BOOLEAN
    PROVE  Pushed(B, f, due) \in JitterType /\ Ahead(Pushed(B, f, due))
<1> DEFINE x == Extended(B, f.id)
           v == Verdict(B, f)
           entry == [ext |-> x, frame |-> f, due |-> due]
           pool == B.pending \cup {entry}
           table == IF v = "kept" THEN Capped(pool) ELSE B.pending
<1>1. x \in 0 .. ExtMod - 1 /\ f.id \in 0 .. IdMod - 1
  BY ExtendedType DEF Frame
<1>2. B.pending \in SUBSET Entry /\ B.lastOut \in Int /\ B.hasOut \in BOOLEAN
  BY DEF JitterType
<1>3. entry \in Entry
  BY <1>1 DEF Entry
<1>4. pool \in SUBSET Entry
  BY <1>2, <1>3
<1>5. table \in SUBSET Entry
  BY <1>2, <1>4, CappedEntries
<1>6. ASSUME v = "kept"
      PROVE  /\ \A e \in B.pending : e.ext # x
             /\ B.hasOut => x > B.lastOut
  BY <1>1, <1>2, <1>6 DEF Verdict
<1>7. \A e \in table : B.hasOut => e.ext > B.lastOut
  <2>1. CASE v = "kept"
    <3>1. \A e \in pool : B.hasOut => e.ext > B.lastOut
      BY <1>6, <2>1 DEF Ahead
    <3> QED
      BY <2>1, <3>1, <1>4, CappedEntries
  <2>2. CASE v # "kept"
    BY <2>2 DEF Ahead
  <2> QED
    BY <2>1, <2>2
<1>8. \A d, e \in table : d.ext = e.ext => d = e
  <2>1. CASE v = "kept"
    <3>1. \A d, e \in pool : d.ext = e.ext => d = e
      BY <1>6, <2>1 DEF Ahead
    <3> QED
      BY <2>1, <3>1, <1>4, CappedUnique
  <2>2. CASE v # "kept"
    BY <2>2 DEF Ahead
  <2> QED
    BY <2>1, <2>2
<1> DEFINE N == Pushed(B, f, due)
           open == B.started \/ v \in {"tooLate", "kept"}
<1>9. open \in BOOLEAN
  BY DEF JitterType
<1>10. N = [B EXCEPT !.hasRef = TRUE, !.refId = f.id, !.refExt = x,
                     !.started = open, !.pending = table]
  BY Zenon DEF Pushed
<1> HIDE DEF x, v, table, open, N
<1>11. N \in JitterType
  BY <1>1, <1>5, <1>9, <1>10 DEF JitterType
<1>12. N.pending = table /\ N.hasOut = B.hasOut /\ N.lastOut = B.lastOut
  BY <1>10 DEF JitterType
<1>13. Ahead(N)
  BY <1>7, <1>8, <1>12 DEF Ahead
<1> QED
  BY <1>11, <1>13 DEF N

\* pop() delivers an entry that is newer than the last one, and leaves only
\* newer ones.
LEMMA PoppedAhead ==
    ASSUME NEW B \in JitterType, Ahead(B), NEW e \in B.pending, IsDue(B, e)
    PROVE  /\ Popped(B, e) \in JitterType
           /\ Ahead(Popped(B, e))
           /\ B.hasOut => Popped(B, e).lastOut > B.lastOut
<1> DEFINE N == Popped(B, e)
<1>1. e \in Entry /\ B.pending \in SUBSET Entry
  BY DEF JitterType
<1>2. e.ext \in 0 .. ExtMod - 1 /\ \A d \in B.pending : d.ext \in 0 .. ExtMod - 1
  BY <1>1 DEF Entry
<1>3. \A d \in B.pending \ {e} : d.ext > e.ext
  BY <1>2 DEF IsDue, IsOldest, Ahead
<1>4. /\ N.pending = B.pending \ {e} /\ N.lastOut = e.ext /\ N.hasOut = TRUE
      /\ N \in JitterType
  BY <1>1, <1>2 DEF Popped, JitterType
<1>5. Ahead(N)
  BY <1>3, <1>4 DEF Ahead
<1>6. B.hasOut => N.lastOut > B.lastOut
  BY <1>4 DEF Ahead
<1> QED
  BY <1>4, <1>5, <1>6

\* Time moves no id.
LEMMA RipenedAhead ==
    ASSUME NEW B \in JitterType, Ahead(B), NEW e \in B.pending
    PROVE  Ripened(B, e) \in JitterType /\ Ahead(Ripened(B, e))
<1> DEFINE ripe == [e EXCEPT !.due = TRUE]
           table == (B.pending \ {e}) \cup {ripe}
           N == Ripened(B, e)
<1>1. e \in Entry /\ B.pending \in SUBSET Entry
  BY DEF JitterType
<1>2. ripe \in Entry /\ ripe.ext = e.ext
  BY <1>1 DEF Entry
<1>3. N.pending = table /\ N.hasOut = B.hasOut /\ N.lastOut = B.lastOut
  BY DEF Ripened, JitterType
<1>4. N \in JitterType
  BY <1>1, <1>2 DEF Ripened, JitterType
<1>5. \A d \in table : B.hasOut => d.ext > B.lastOut
  BY <1>2 DEF Ahead
<1>6. \A c, d \in table : c.ext = d.ext => c = d
  BY <1>2 DEF Ahead
<1>7. Ahead(N)
  BY <1>3, <1>5, <1>6 DEF Ahead
<1> QED
  BY <1>4, <1>7

\* An emptied buffer is ahead of anything.
LEMMA EmptiedAhead ==
    /\ EmptyJitter \in JitterType /\ Ahead(EmptyJitter)
    /\ \A B \in JitterType : ClosedUntilKey(B) \in JitterType /\ Ahead(ClosedUntilKey(B))
<1>1. 0 \in 0 .. IdMod - 1 /\ 0 \in 0 .. ExtMod - 1
  BY IdAssumption
<1>2. EmptyJitter \in JitterType /\ Ahead(EmptyJitter)
  BY <1>1, StartAssumption DEF EmptyJitter, JitterType, Ahead
<1>3. ASSUME NEW B \in JitterType
      PROVE  ClosedUntilKey(B) \in JitterType /\ Ahead(ClosedUntilKey(B))
  BY StartAssumption DEF ClosedUntilKey, JitterType, Ahead
<1> QED
  BY <1>2, <1>3

-----------------------------------------------------------------------------
\* JitterBuffer.h: the order of delivery is strictly increasing.  In terms of
\* the ids the code compares: a pop() moves the last delivered id on, and only
\* reset() ever moves it back.
Forward ==
    J.hasOut /\ J'.hasOut => /\ J'.lastOut >= J.lastOut
                             /\ Pop => J'.lastOut > J.lastOut

\* What arrives is a frame.
LEMMA FrameOfType ==
    ASSUME NEW n \in Nat
    PROVE  FrameOf(n) \in Frame
<1> DEFINE key == n \in KeyFrames
           id == n % IdMod
<1>1. id \in 0 .. IdMod - 1
  BY IdAssumption
<1>2. key \in BOOLEAN
  <2>1. CASE n \in KeyFrames
    <3>1. key = TRUE
      BY <2>1
    <3> QED
      BY <3>1
  <2>2. CASE n \notin KeyFrames
    <3>1. key = FALSE
      BY <2>2
    <3> QED
      BY <3>1
  <2> QED
    BY <2>1, <2>2
<1>3. FrameOf(n) = [id |-> id, n |-> n, key |-> key]
  BY DEF FrameOf
<1> HIDE DEF key, id
<1> QED
  BY <1>1, <1>2, <1>3 DEF Frame

\* An empty buffer has nothing pending behind its output.
LEMMA InvInit == Init => IInv
<1> SUFFICES ASSUME Init PROVE IInv
  OBVIOUS
<1>1. J = EmptyJitter /\ latest = First
  BY DEF Init
<1>2. J \in JitterType /\ Ahead(J) /\ latest \in Nat
  BY <1>1, EmptiedAhead, ReorderAssumption
<1> QED
  BY <1>2 DEF IInv, PendingIsAhead, Ahead

\* Every step keeps the invariant, and moves the output forward only.
LEMMA InvNext ==
    ASSUME IInv, [Next]_vars
    PROVE  IInv' /\ Forward
<1> DEFINE NotBack == J.hasOut /\ J'.hasOut => J'.lastOut >= J.lastOut
<1>1. J \in JitterType /\ latest \in Nat /\ Ahead(J)
  BY DEF IInv, PendingIsAhead, Ahead
<1>2. ASSUME J' \in JitterType, latest' \in Nat, Ahead(J')
      PROVE  IInv'
  BY <1>2 DEF IInv, PendingIsAhead, Ahead
<1>3. J.hasOut => J.lastOut \in Nat
  BY <1>1 DEF JitterType
<1>4. ASSUME Push PROVE IInv' /\ NotBack
  <2>1. PICK n \in Int, due \in BOOLEAN :
          /\ n >= First
          /\ J' = Pushed(J, FrameOf(n), due)
          /\ latest' = n
    BY <1>1, <1>4, ReorderAssumption DEF Push
  <2>2. n \in Nat
    BY <2>1, ReorderAssumption
  <2>3. J' \in JitterType /\ Ahead(J')
    BY <1>1, <2>1, <2>2, FrameOfType, PushedAhead
  <2>4. J'.hasOut = J.hasOut /\ J'.lastOut = J.lastOut
    BY <1>1, <2>1 DEF Pushed, JitterType
  <2> QED
    BY <1>2, <1>3, <2>1, <2>2, <2>3, <2>4
<1>5. ASSUME Pop PROVE IInv' /\ NotBack
  <2>1. PICK e \in J.pending : IsDue(J, e) /\ J' = Popped(J, e) /\ latest' = latest
    BY <1>5 DEF Pop
  <2>2. /\ J' \in JitterType /\ Ahead(J')
        /\ J.hasOut => J'.lastOut > J.lastOut
    BY <1>1, <2>1, PoppedAhead
  <2>3. J'.lastOut \in Nat
    BY <2>2 DEF JitterType
  <2> QED
    BY <1>1, <1>2, <1>3, <2>1, <2>2, <2>3
<1>6. ASSUME TimePasses PROVE IInv' /\ NotBack
  <2>1. PICK e \in J.pending : J' = Ripened(J, e) /\ latest' = latest
    BY <1>6 DEF TimePasses
  <2>2. J' \in JitterType /\ Ahead(J')
    BY <1>1, <2>1, RipenedAhead
  <2>3. J'.hasOut = J.hasOut /\ J'.lastOut = J.lastOut
    BY <1>1, <2>1 DEF Ripened, JitterType
  <2> QED
    BY <1>1, <1>2, <1>3, <2>1, <2>2, <2>3
<1>7. ASSUME DropUntilKeyFrame PROVE IInv' /\ NotBack
  <2>1. J' = ClosedUntilKey(J) /\ latest' = latest
    BY <1>7 DEF DropUntilKeyFrame
  <2>2. J' \in JitterType /\ Ahead(J')
    BY <1>1, <2>1, EmptiedAhead
  <2>3. J'.hasOut = J.hasOut /\ J'.lastOut = J.lastOut
    BY <1>1, <2>1 DEF ClosedUntilKey, JitterType
  <2> QED
    BY <1>1, <1>2, <1>3, <2>1, <2>2, <2>3
<1>8. ASSUME Reset PROVE IInv' /\ NotBack
  <2>1. J' = EmptyJitter /\ latest' \in Nat
    BY <1>8, ReorderAssumption DEF Reset
  <2>2. J' \in JitterType /\ Ahead(J') /\ ~J'.hasOut
    BY <2>1, EmptiedAhead DEF EmptyJitter
  <2> QED
    BY <1>2, <2>1, <2>2
<1>9. ASSUME UNCHANGED vars PROVE IInv' /\ NotBack
  <2>1. J' = J /\ latest' = latest
    BY <1>9 DEF vars
  <2> QED
    BY <1>1, <1>2, <1>3, <2>1
<1>10. IInv' /\ NotBack
  BY <1>4, <1>5, <1>6, <1>7, <1>8, <1>9 DEF Next
<1>11. ASSUME Pop, J.hasOut PROVE J'.lastOut > J.lastOut
  <2>1. PICK e \in J.pending : IsDue(J, e) /\ J' = Popped(J, e)
    BY <1>11 DEF Pop
  <2> QED
    BY <1>1, <1>11, <2>1, PoppedAhead
<1> QED
  BY <1>10, <1>11 DEF Forward

-----------------------------------------------------------------------------
(* The theorems.                                                           *)

\* The buffer never holds a frame that is older than one it has delivered, nor
\* two frames under one id: pop() may take the first entry without looking back.
THEOREM BufferIsAhead == Spec => []PendingIsAhead
<1>1. Init => IInv
  BY InvInit
<1>2. IInv /\ [Next]_vars => IInv'
  BY InvNext
<1>3. IInv => PendingIsAhead
  BY DEF IInv
<1> QED
  BY <1>1, <1>2, <1>3, PTL DEF Spec

\* No frame is delivered after a newer one, for as long as the buffer is not
\* reset, in terms of the extended ids.
THEOREM OutputIsOrdered == Spec => [][Forward]_vars
<1>1. Init => IInv
  BY InvInit
<1>2. IInv /\ [Next]_vars => IInv' /\ Forward
  BY InvNext
<1> QED
  BY <1>1, <1>2, PTL DEF Spec

-----------------------------------------------------------------------------
(* The numbers of the stream.                                              *)

\* Where the numbers of the stream and the extended ids are apart.
Base == First - (First % IdMod)

\* The constants are numbers, and First is past Base by its remainder.
LEMMA BaseType ==
    /\ Base \in Nat /\ Base <= First /\ IdMod \in Nat \ {0} /\ ExtMod \in Nat \ {0}
    /\ First \in Nat /\ Reorder \in Nat /\ MaxPushes \in Nat
    /\ First % IdMod \in Nat /\ First - Base = First % IdMod
<1>1. First \in Nat /\ Reorder \in Nat /\ MaxPushes \in Nat
  BY ReorderAssumption
<1>2. IdMod \in Nat \ {0} /\ ExtMod \in Nat \ {0}
  BY IdAssumption
<1> DEFINE r == First % IdMod
           q == First \div IdMod
<1>3. r \in 0 .. IdMod - 1 /\ q \in Nat /\ First = q * IdMod + r
  BY <1>1, <1>2
<1> HIDE DEF r, q
<1>4. q * IdMod \in Nat
  BY <1>2, <1>3
<1>5. Base = First - r
  BY DEF Base, r
<1>6. Base \in Nat /\ Base <= First /\ r \in Nat /\ First - Base = r
  BY <1>1, <1>2, <1>3, <1>4, <1>5
<1> QED
  BY <1>1, <1>2, <1>6 DEF r

\* On the first lap the id is the number.
LEMMA FirstLap ==
    ASSUME NEW n \in Nat, n >= Base, n - Base < IdMod
    PROVE  n % IdMod = n - Base
<1> DEFINE r == First % IdMod
           q == First \div IdMod
<1>1. First \in Nat /\ IdMod \in Nat \ {0} /\ Base \in Nat
  BY BaseType
<1>2. r \in 0 .. IdMod - 1 /\ q \in Int /\ First = q * IdMod + r
  BY <1>1
<1>3. Base = First - r
  BY DEF Base
<1> HIDE DEF r, q
<1>4. q * IdMod \in Int
  BY <1>1, <1>2
<1>5. n - Base \in 0 .. IdMod - 1 /\ n = q * IdMod + (n - Base)
  BY <1>1, <1>2, <1>3, <1>4
<1>6. (q * IdMod + (n - Base)) % IdMod = n - Base
  BY <1>1, <1>2, <1>5, UniqueRemainder
<1> QED
  BY <1>5, <1>6

-----------------------------------------------------------------------------
(* What holds of the numbers, which the code never sees.                   *)

\* The extended ids of the buffer B are the numbers less Base; l is the frame that
\* arrived last, d the frame delivered last.
Numbered(B, l, d) ==
    /\ \A e \in B.pending : e.frame.n >= Base /\ e.ext = e.frame.n - Base
    /\ IF B.hasRef THEN B.refId = l % IdMod /\ B.refExt = l - Base ELSE l = First
    /\ IF B.hasOut THEN d \in Nat /\ d >= Base /\ B.lastOut = d - Base ELSE d = -1

\* k frames after the start the stream cannot be further than this.
Near(l, k) ==
    /\ l >= First /\ k \in 0 .. MaxPushes
    /\ l + (MaxPushes - k) * Reorder <= First + MaxPushes * Reorder

SInv ==
    /\ J \in JitterType /\ latest \in Nat /\ Ahead(J)
    /\ IsFiniteSet(J.pending)
    /\ Numbered(J, latest, delivered)
    /\ DOMAIN stats = Fates \cup {"in"}
    /\ Near(latest, stats.in)

\* A frame within Reorder of the latest keeps the stream near, and has a number an
\* extended id can hold.
LEMMA NextIsNear ==
    ASSUME NEW l \in Nat, NEW k, Near(l, k), k < MaxPushes,
           NEW n \in (l - Reorder) .. (l + Reorder), n >= First
    PROVE  /\ n \in Nat /\ Near(n, k + 1)
           /\ n - Base \in 0 .. ExtMod - 1
<1>1. /\ First \in Nat /\ Reorder \in Nat /\ MaxPushes \in Nat /\ ExtMod \in Nat
      /\ First + (MaxPushes + 1) * (Reorder + 1) < ExtMod
  BY ReorderAssumption, IdAssumption
<1>2. Base \in Nat /\ Base <= First
  BY BaseType
<1>3. n \in Nat /\ n <= l + Reorder /\ k \in Nat /\ k + 1 \in 0 .. MaxPushes
  BY <1>1 DEF Near
<1>4. l + (MaxPushes - k) * Reorder <= First + MaxPushes * Reorder
  BY DEF Near
<1> DEFINE rest == (MaxPushes - (k + 1)) * Reorder
           all == MaxPushes * Reorder
<1>5. rest \in Nat /\ all \in Nat /\ (MaxPushes - k) * Reorder = rest + Reorder
  BY <1>1, <1>3
<1>6. (MaxPushes + 1) * (Reorder + 1) = all + Reorder + MaxPushes + 1
  BY <1>1
<1> HIDE DEF rest, all
<1>7. n + rest <= First + all
  BY <1>1, <1>3, <1>4, <1>5 DEF all
<1>8. Near(n, k + 1)
  BY <1>3, <1>7 DEF Near, rest, all
<1>9. n < ExtMod
  BY <1>1, <1>3, <1>5, <1>6, <1>7
<1>10. n - Base \in 0 .. ExtMod - 1
  BY <1>1, <1>2, <1>3, <1>9
<1> QED
  BY <1>3, <1>8, <1>10

\* extendFrameId() finds the number, less Base, of every frame that arrives.
LEMMA ExtendedIsNumber ==
    ASSUME JoinsBeforeWrap, NEW B \in JitterType, NEW l \in Nat, NEW d,
           Numbered(B, l, d),
           NEW n \in (l - Reorder) .. (l + Reorder), n \in Nat, n >= First,
           n - Base \in 0 .. ExtMod - 1
    PROVE  Extended(B, n % IdMod) = n - Base
<1>1. /\ First \in Nat /\ Reorder \in Nat /\ IdMod \in Nat \ {0} /\ ExtMod \in Nat \ {0}
      /\ Base \in Nat /\ Base <= First /\ First - Base = First % IdMod
      /\ First % IdMod \in Nat
  BY BaseType
<1>2. 2 * Reorder < IdMod
  BY ReorderAssumption
<1>3. CASE B.hasRef
  <2>1. B.refId = l % IdMod /\ B.refExt = l - Base
    BY <1>3 DEF Numbered
  <2>2. Signed((n % IdMod) - (l % IdMod), IdMod) = n - l
    <3>1. 2 * (n - l) < IdMod /\ 2 * (l - n) < IdMod
      BY <1>1, <1>2
    <3> QED
      BY <1>1, <3>1, SignedDistance
  <2>3. Signed((n % IdMod) - B.refId, IdMod) = n - l
    BY <2>1, <2>2
  <2>4. (n - Base) % ExtMod = n - Base
    BY <1>1
  <2>5. B.refExt + (n - l) = n - Base
    BY <1>1, <2>1
  <2>6. (B.refExt + Signed((n % IdMod) - B.refId, IdMod)) % ExtMod = n - Base
    BY <2>3, <2>4, <2>5
  <2> QED
    BY <1>3, <2>6 DEF Extended
<1>4. CASE ~B.hasRef
  <2>1. l = First
    BY <1>4 DEF Numbered
  <2>2. n >= Base /\ n - Base < IdMod
    <3>1. (First % IdMod) + Reorder < IdMod
      BY DEF JoinsBeforeWrap
    <3> QED
      BY <1>1, <2>1, <3>1
  <2>3. n % IdMod = n - Base
    BY <2>2, FirstLap
  <2> QED
    BY <1>4, <2>3 DEF Extended
<1> QED
  BY <1>3, <1>4

-----------------------------------------------------------------------------
(* enforceCapacity().                                                      *)

\* The entries that stay are old ones with their ids and frames.
LEMMA CappedFrames ==
    ASSUME NEW P \in SUBSET Entry
    PROVE  /\ \A f \in Capped(P) :
                 \E e \in Newest(P, HardLimit) : f.ext = e.ext /\ f.frame = e.frame
           /\ \A e \in Newest(P, HardLimit) :
                 \E f \in Capped(P) : f.ext = e.ext /\ f.frame = e.frame
           /\ Newest(P, HardLimit) \subseteq P
<1> DEFINE kept == Newest(P, HardLimit)
           overdue(e) == [e EXCEPT !.due = e.due \/ e \notin Newest(kept, SoftLimit)]
<1>1. Capped(P) = {overdue(e) : e \in kept}
  BY DEF Capped
<1>2. kept \subseteq P /\ kept \subseteq Entry
  BY DEF Newest
<1>3. \A e \in kept : overdue(e).ext = e.ext /\ overdue(e).frame = e.frame
  BY <1>2 DEF Entry
<1> HIDE DEF kept, overdue
<1>4. \A f \in Capped(P) : \E e \in kept : f.ext = e.ext /\ f.frame = e.frame
  BY <1>1, <1>3
<1>5. \A e \in kept : \E f \in Capped(P) : f.ext = e.ext /\ f.frame = e.frame
  BY <1>1, <1>3
<1> QED
  BY <1>2, <1>4, <1>5 DEF kept

\* There are no more of them than before.
LEMMA CappedFinite ==
    ASSUME NEW P, IsFiniteSet(P)
    PROVE  IsFiniteSet(Capped(P))
<1> DEFINE kept == Newest(P, HardLimit)
           overdue(e) == [e EXCEPT !.due = e.due \/ e \notin Newest(kept, SoftLimit)]
           to == [e \in kept |-> overdue(e)]
<1>1. Capped(P) = {overdue(e) : e \in kept}
  BY DEF Capped
<1>2. IsFiniteSet(kept)
  BY FS_Subset DEF Newest
<1> HIDE DEF kept, overdue
<1>3. to \in Surjection(kept, Capped(P))
  BY <1>1 DEF Surjection
<1> HIDE DEF to
<1> QED
  BY <1>2, <1>3, FS_Surjection

\* What the hard limit drops is older than what it keeps.
LEMMA DroppedIsOlder ==
    ASSUME NEW P \in SUBSET Entry, IsFiniteSet(P), NEW k \in Nat,
           NEW d \in P, d \notin Newest(P, k), NEW e \in Newest(P, k)
    PROVE  d.ext < e.ext
<1> DEFINE above(x) == {c \in P : c.ext > x.ext}
<1>1. e \in P /\ Cardinality(above(e)) < k /\ ~(Cardinality(above(d)) < k)
  BY DEF Newest
<1>2. \A c \in P : c.ext \in Int
  BY IdAssumption DEF Entry
<1>3. ASSUME d.ext >= e.ext PROVE FALSE
  <2>1. above(d) \in SUBSET above(e)
    BY <1>1, <1>2, <1>3
  <2>2. IsFiniteSet(above(e))
    BY FS_Subset
  <2>3. Cardinality(above(d)) <= Cardinality(above(e))
    BY <2>1, <2>2, FS_Subset
  <2>4. Cardinality(above(d)) \in Nat /\ Cardinality(above(e)) \in Nat
    BY <2>1, <2>2, FS_Subset, FS_CardinalityType
  <2> QED
    BY <1>1, <2>3, <2>4
<1> QED
  BY <1>1, <1>2, <1>3

-----------------------------------------------------------------------------
(* The operations.                                                         *)

\* The numbers inside the buffer B.
Inside(B) == {e.frame.n : e \in B.pending}

\* push(): what it keeps was not inside and is newer than what was delivered, and
\* whatever goes for it is older than what stays.
LEMMA PushAccepts ==
    ASSUME JoinsBeforeWrap, NEW B \in JitterType, Ahead(B), IsFiniteSet(B.pending),
           NEW l \in Nat, NEW d, Numbered(B, l, d),
           NEW n \in (l - Reorder) .. (l + Reorder), n \in Nat, n >= First,
           n - Base \in 0 .. ExtMod - 1, NEW due \in BOOLEAN,
           NEW N, N = Pushed(B, FrameOf(n), due)
    PROVE  /\ IsFiniteSet(N.pending)
           /\ Numbered(N, n, d)
           /\ \/ Inside(N) = Inside(B)
              \/ /\ n \notin Inside(B) /\ n > d
                 /\ Inside(N) \subseteq Inside(B) \cup {n}
                 /\ \A gone \in Inside(B) \ Inside(N), kept \in Inside(N) : gone < kept
<1> DEFINE f == FrameOf(n)
           x == Extended(B, f.id)
           v == Verdict(B, f)
           entry == [ext |-> x, frame |-> f, due |-> due]
           pool == B.pending \cup {entry}
           table == IF v = "kept" THEN Capped(pool) ELSE B.pending
           open == B.started \/ v \in {"tooLate", "kept"}
<1>1. f \in Frame /\ f.n = n /\ f.id = n % IdMod
  BY FrameOfType DEF FrameOf
<1>2. x = n - Base /\ x \in 0 .. ExtMod - 1
  BY <1>1, ExtendedIsNumber
<1>3. /\ First \in Nat /\ Base \in Nat /\ Base <= First
  BY BaseType
<1>4. entry \in Entry /\ entry.ext = x /\ entry.frame.n = n
  BY <1>1, <1>2 DEF Entry
<1>5. /\ B.pending \in SUBSET Entry
      /\ \A e \in B.pending :
            /\ e.ext \in Nat /\ e.frame.n \in Nat
            /\ e.frame.n >= Base /\ e.ext = e.frame.n - Base
  BY IdAssumption DEF JitterType, Entry, Frame, Numbered
<1>6. N = [B EXCEPT !.hasRef = TRUE, !.refId = f.id, !.refExt = x,
                    !.started = open, !.pending = table]
  BY Zenon DEF Pushed
<1>7. v = "kept" =>
        /\ \A e \in B.pending : e.ext # x
        /\ B.hasOut => ~(x <= B.lastOut)
  BY DEF Verdict
<1> HIDE DEF f, x, v, open, table, entry
<1>8. /\ N.pending = table /\ N.hasRef = TRUE /\ N.refId = n % IdMod
      /\ N.refExt = n - Base /\ N.hasOut = B.hasOut /\ N.lastOut = B.lastOut
  BY <1>1, <1>2, <1>6 DEF JitterType
<1>9. pool \in SUBSET Entry /\ IsFiniteSet(pool)
  BY <1>4, <1>5, FS_AddElement
<1>10. \A e \in pool : e.frame.n \in Nat /\ e.frame.n >= Base /\ e.ext = e.frame.n - Base
  BY <1>2, <1>3, <1>4, <1>5
<1> DEFINE Good == \A e \in table : e.frame.n >= Base /\ e.ext = e.frame.n - Base
           Taken == /\ n \notin Inside(B) /\ n > d
                    /\ Inside(N) \subseteq Inside(B) \cup {n}
                    /\ \A gone \in Inside(B) \ Inside(N), kept \in Inside(N) : gone < kept
<1>11. ASSUME v # "kept"
       PROVE  table = B.pending
  BY <1>11 DEF table
<1>12. ASSUME v = "kept"
       PROVE  IsFiniteSet(table) /\ Good /\ Taken
  <2> DEFINE stay == Newest(pool, HardLimit)
  <2>1. table = Capped(pool)
    BY <1>12 DEF table
  <2>2. IsFiniteSet(table)
    BY <1>9, <2>1, CappedFinite
  <2>3. /\ \A g \in table : \E e \in stay : g.ext = e.ext /\ g.frame = e.frame
        /\ \A e \in stay : \E g \in table : g.ext = e.ext /\ g.frame = e.frame
        /\ stay \subseteq pool
    BY <1>9, <2>1, CappedFrames
  <2>4. HardLimit \in Nat
    BY LimitAssumption DEF HardLimit
  <2>5. \A c \in pool \ stay, e \in stay : c.ext < e.ext
    BY <1>9, <2>4, DroppedIsOlder
  <2> HIDE DEF stay, pool
  <2>6. Good
    BY <1>10, <2>3
  <2>7. n \notin Inside(B)
    BY <1>2, <1>5, <1>7, <1>12 DEF Inside
  <2>8. n > d
    <3>1. CASE B.hasOut
      BY <1>2, <1>3, <1>7, <1>12, <3>1 DEF Numbered
    <3>2. CASE ~B.hasOut
      BY <3>2 DEF Numbered
    <3> QED
      BY <3>1, <3>2
  <2>9. Inside(N) \subseteq Inside(B) \cup {n}
    BY <1>4, <1>8, <2>3 DEF Inside, pool
  <2>10. ASSUME NEW gone \in Inside(B) \ Inside(N), NEW kept \in Inside(N)
         PROVE  gone < kept
    <3>1. PICK c \in B.pending : gone = c.frame.n
      BY DEF Inside
    <3>2. PICK e \in stay : kept = e.frame.n
      BY <1>8, <2>3 DEF Inside
    <3>3. c \in pool
      BY DEF pool
    <3>4. c \notin stay
      BY <1>8, <2>3, <3>1 DEF Inside
    <3>5. c.ext < e.ext
      BY <2>5, <3>3, <3>4
    <3> QED
      BY <1>3, <1>10, <2>3, <3>1, <3>2, <3>3, <3>5
  <2> QED
    BY <2>2, <2>6, <2>7, <2>8, <2>9, <2>10
<1>13. IsFiniteSet(table) /\ Good
  BY <1>5, <1>11, <1>12
<1>14. Numbered(N, n, d)
  BY <1>8, <1>13 DEF Numbered
<1>15. ASSUME v # "kept" PROVE Inside(N) = Inside(B)
  BY <1>8, <1>11, <1>15 DEF Inside
<1> QED
  BY <1>8, <1>12, <1>13, <1>14, <1>15

\* pop(): the entry it delivers is the oldest number inside.
LEMMA PopLetsOut ==
    ASSUME NEW B \in JitterType, Ahead(B), IsFiniteSet(B.pending),
           NEW l, NEW d, Numbered(B, l, d), NEW e \in B.pending, IsDue(B, e)
    PROVE  LET N == Popped(B, e)
               n == e.frame.n
           IN  /\ IsFiniteSet(N.pending)
               /\ Numbered(N, l, n)
               /\ n \in Inside(B) /\ \A m \in Inside(B) : n <= m
               /\ Inside(N) = Inside(B) \ {n}
               /\ n > d
<1> DEFINE N == Popped(B, e)
           n == e.frame.n
<1>1. /\ N.pending = B.pending \ {e} /\ N.lastOut = e.ext /\ N.hasOut = TRUE
      /\ N.hasRef = B.hasRef /\ N.refId = B.refId /\ N.refExt = B.refExt
  BY DEF Popped, JitterType
<1>2. \A c \in B.pending : /\ c.ext \in Nat /\ c.frame.n \in Nat
                            /\ c.frame.n >= Base /\ c.ext = c.frame.n - Base
  BY IdAssumption DEF JitterType, Entry, Frame, Numbered
<1>3. Base \in Nat
  BY BaseType
<1>4. IsFiniteSet(N.pending)
  BY <1>1, FS_RemoveElement
<1>5. Numbered(N, l, n)
  BY <1>1, <1>2 DEF Numbered
<1>6. \A c \in B.pending : e.ext <= c.ext
  BY DEF IsDue, IsOldest
<1>7. n \in Inside(B) /\ \A m \in Inside(B) : n <= m
  BY <1>2, <1>3, <1>6 DEF Inside
<1>8. \A c \in B.pending : c.frame.n = n => c = e
  BY <1>2, <1>3 DEF Ahead
<1>9. Inside(N) = Inside(B) \ {n}
  BY <1>1, <1>8 DEF Inside
<1>10. n > d
  <2>1. CASE B.hasOut
    BY <1>2, <1>3, <2>1 DEF Ahead, Numbered
  <2>2. CASE ~B.hasOut
    BY <1>2, <2>2 DEF Numbered
  <2> QED
    BY <2>1, <2>2
<1> QED
  BY <1>4, <1>5, <1>7, <1>9, <1>10

\* Time changes no number.
LEMMA RipenedInside ==
    ASSUME NEW B \in JitterType, IsFiniteSet(B.pending),
           NEW l, NEW d, Numbered(B, l, d), NEW e \in B.pending
    PROVE  /\ IsFiniteSet(Ripened(B, e).pending)
           /\ Numbered(Ripened(B, e), l, d)
           /\ Inside(Ripened(B, e)) = Inside(B)
<1> DEFINE N == Ripened(B, e)
           ripe == [e EXCEPT !.due = TRUE]
<1>1. e \in Entry
  BY DEF JitterType
<1>2. ripe.ext = e.ext /\ ripe.frame = e.frame
  BY <1>1 DEF Entry
<1>3. /\ N.pending = (B.pending \ {e}) \cup {ripe}
      /\ N.hasOut = B.hasOut /\ N.lastOut = B.lastOut
      /\ N.hasRef = B.hasRef /\ N.refId = B.refId /\ N.refExt = B.refExt
  BY DEF Ripened, JitterType
<1>4. IsFiniteSet(N.pending)
  <2>1. IsFiniteSet(B.pending \ {e})
    BY FS_RemoveElement
  <2>2. IsFiniteSet((B.pending \ {e}) \cup {ripe})
    BY <2>1, FS_AddElement
  <2> QED
    BY <1>3, <2>2
<1> HIDE DEF N, ripe
<1>5. Numbered(N, l, d)
  BY <1>2, <1>3 DEF Numbered
<1>6. Inside(N) = Inside(B)
  BY <1>2, <1>3 DEF Inside
<1> QED
  BY <1>4, <1>5, <1>6 DEF N

\* An emptied buffer has nothing inside.
LEMMA EmptiedInside ==
    /\ IsFiniteSet(EmptyJitter.pending) /\ Inside(EmptyJitter) = {}
    /\ Numbered(EmptyJitter, First, -1)
    /\ \A B \in JitterType : \A l, d : Numbered(B, l, d) =>
          /\ IsFiniteSet(ClosedUntilKey(B).pending) /\ Inside(ClosedUntilKey(B)) = {}
          /\ Numbered(ClosedUntilKey(B), l, d)
<1>1. EmptyJitter.pending = {} /\ ~EmptyJitter.hasRef /\ ~EmptyJitter.hasOut
  BY DEF EmptyJitter
<1>2. \A B \in JitterType :
        LET N == ClosedUntilKey(B)
        IN  /\ N.pending = {} /\ N.hasOut = B.hasOut /\ N.lastOut = B.lastOut
            /\ N.hasRef = B.hasRef /\ N.refId = B.refId /\ N.refExt = B.refExt
  BY DEF ClosedUntilKey, JitterType
<1>3. Inside(EmptyJitter) = {} /\ Numbered(EmptyJitter, First, -1)
  BY <1>1 DEF Inside, Numbered
<1>4. ASSUME NEW B \in JitterType, NEW l, NEW d, Numbered(B, l, d)
      PROVE  /\ ClosedUntilKey(B).pending = {} /\ Inside(ClosedUntilKey(B)) = {}
             /\ Numbered(ClosedUntilKey(B), l, d)
  <2> DEFINE N == ClosedUntilKey(B)
  <2>1. /\ N.pending = {} /\ N.hasOut = B.hasOut /\ N.lastOut = B.lastOut
        /\ N.hasRef = B.hasRef /\ N.refId = B.refId /\ N.refExt = B.refExt
    BY <1>2
  <2> HIDE DEF N
  <2>2. Inside(N) = {} /\ Numbered(N, l, d)
    BY <1>4, <2>1 DEF Inside, Numbered
  <2> QED
    BY <2>1, <2>2 DEF N
<1> QED
  BY <1>1, <1>3, <1>4, FS_EmptySet

-----------------------------------------------------------------------------
(* Every step of the buffer is one of the stream.                          *)

\* The numbers delivered go up.
Rising == delivered' # delivered /\ delivered' # -1 => delivered' > delivered

\* The initial buffer is an initial stream.
LEMMA StreamInit ==
    ASSUME Init
    PROVE  SInv /\ Stream!Init
<1>1. /\ J = EmptyJitter /\ latest = First /\ delivered = -1
      /\ stats = [s \in Fates \cup {"in"} |-> 0]
  BY DEF Init
<1>2. DOMAIN stats = Fates \cup {"in"} /\ stats.in = 0
  BY <1>1
<1>3. /\ J \in JitterType /\ latest \in Nat /\ Ahead(J)
      /\ IsFiniteSet(J.pending) /\ Numbered(J, latest, delivered)
  BY <1>1, EmptiedAhead, EmptiedInside, ReorderAssumption
<1>4. Near(latest, stats.in)
  BY <1>1, <1>2, ReorderAssumption DEF Near
<1>5. Stream!Init
  BY <1>1, EmptiedInside DEF Stream!Init, Stream!None, Inside
<1> QED
  BY <1>2, <1>3, <1>4, <1>5 DEF SInv

\* One case per operation: what it does to the numbers inside is a step of the stream,
\* or leaves them alone.
LEMMA StreamNext ==
    ASSUME JoinsBeforeWrap, SInv, [Next]_vars
    PROVE  SInv' /\ [Stream!Next]_<<Inside(J), delivered>> /\ Rising
<1>1. /\ J \in JitterType /\ latest \in Nat /\ Ahead(J)
      /\ IsFiniteSet(J.pending) /\ Numbered(J, latest, delivered)
      /\ DOMAIN stats = Fates \cup {"in"} /\ Near(latest, stats.in)
  BY DEF SInv
<1>2. ASSUME J' \in JitterType, latest' \in Nat, Ahead(J'),
             IsFiniteSet(J'.pending), Numbered(J', latest', delivered'),
             DOMAIN stats' = Fates \cup {"in"}, Near(latest', stats'.in)
      PROVE  SInv'
  BY <1>2 DEF SInv
<1>3. Inside(J') = Inside(J)'
  BY DEF Inside
<1> DEFINE Goal == SInv' /\ [Stream!Next]_<<Inside(J), delivered>> /\ Rising
<1>4. ASSUME Push PROVE Goal
  <2>1. PICK n \in (latest - Reorder) .. (latest + Reorder), due \in BOOLEAN :
          /\ n >= First
          /\ J' = Pushed(J, FrameOf(n), due)
          /\ stats' = Counted(Verdict(J, FrameOf(n)))
          /\ latest' = n
    BY <1>4 DEF Push
  <2>2. stats.in < MaxPushes /\ delivered' = delivered
    BY <1>4 DEF Push, Pushes
  <2>3. n \in Nat /\ Near(n, stats.in + 1) /\ n - Base \in 0 .. ExtMod - 1
    BY <1>1, <2>1, <2>2, NextIsNear
  <2>4. J' \in JitterType /\ Ahead(J')
    BY <1>1, <2>1, <2>3, FrameOfType, PushedAhead
  <2>5. DOMAIN stats' = Fates \cup {"in"} /\ stats'.in = stats.in + 1
    <3> DEFINE v == Verdict(J, FrameOf(n))
               more == stats.dropped + Cardinality(J.pending) + 1 - Cardinality(J'.pending)
    <3>1. v # "in"
      BY DEF Verdict
    <3>2. stats' = IF v = "kept" THEN [stats EXCEPT !.in = @ + 1, !.dropped = more]
                   ELSE [stats EXCEPT !.in = @ + 1, ![v] = @ + 1]
      BY <1>1, <2>1 DEF Counted, Fates
    <3> HIDE DEF v, more
    <3> QED
      BY <1>1, <3>1, <3>2
  <2>6. /\ IsFiniteSet(J'.pending) /\ Numbered(J', n, delivered)
        /\ \/ Inside(J') = Inside(J)
           \/ /\ n \notin Inside(J) /\ n > delivered
              /\ Inside(J') \subseteq Inside(J) \cup {n}
              /\ \A gone \in Inside(J) \ Inside(J'), kept \in Inside(J') : gone < kept
    BY <1>1, <2>1, <2>3, PushAccepts
  <2>7. SInv'
    BY <1>2, <2>1, <2>2, <2>3, <2>4, <2>5, <2>6
  <2>8. [Stream!Next]_<<Inside(J), delivered>>
    <3>1. CASE Inside(J') = Inside(J)
      BY <1>3, <2>2, <3>1
    <3>2. CASE Inside(J') # Inside(J)
      <4>1. Stream!OldestGo
        BY <2>6, <3>2 DEF Stream!OldestGo, Inside
      <4>2. CASE n \in Inside(J')
        <5>1. Stream!Accept
          BY <2>2, <2>6, <3>2, <4>1, <4>2 DEF Stream!Accept, Inside
        <5> QED
          BY <5>1 DEF Stream!Next
      <4>3. CASE n \notin Inside(J')
        <5>1. Inside(J') \subseteq Inside(J)
          BY <2>6, <3>2, <4>3
        <5>2. Stream!GiveUp
          BY <2>2, <4>1, <5>1 DEF Stream!GiveUp, Inside
        <5> QED
          BY <5>2 DEF Stream!Next
      <4> QED
        BY <4>2, <4>3
    <3> QED
      BY <3>1, <3>2
  <2> QED
    BY <2>2, <2>7, <2>8 DEF Rising
<1>5. ASSUME Pop PROVE Goal
  <2>1. PICK e \in J.pending :
          /\ IsDue(J, e) /\ J' = Popped(J, e)
          /\ stats' = [stats EXCEPT !.out = @ + 1] /\ delivered' = e.frame.n
    BY <1>5 DEF Pop
  <2>2. latest' = latest
    BY <1>5 DEF Pop
  <2>3. J' \in JitterType /\ Ahead(J')
    BY <1>1, <2>1, PoppedAhead
  <2>4. /\ IsFiniteSet(J'.pending) /\ Numbered(J', latest, delivered')
        /\ delivered' \in Inside(J) /\ \A m \in Inside(J) : delivered' <= m
        /\ Inside(J') = Inside(J) \ {delivered'}
        /\ delivered' > delivered
    BY <1>1, <2>1, PopLetsOut
  <2>5. DOMAIN stats' = Fates \cup {"in"} /\ stats'.in = stats.in
    BY <1>1, <2>1
  <2>6. SInv'
    BY <1>1, <1>2, <2>2, <2>3, <2>4, <2>5
  <2>7. Stream!LetOut
    BY <2>4 DEF Stream!LetOut, Inside
  <2> QED
    BY <2>4, <2>6, <2>7 DEF Stream!Next, Rising
<1>6. ASSUME TimePasses PROVE Goal
  <2>1. PICK e \in J.pending : J' = Ripened(J, e)
    BY <1>6 DEF TimePasses
  <2>2. stats' = stats /\ latest' = latest /\ delivered' = delivered
    BY <1>6 DEF TimePasses
  <2>3. J' \in JitterType /\ Ahead(J')
    BY <1>1, <2>1, RipenedAhead
  <2>4. IsFiniteSet(J'.pending) /\ Numbered(J', latest, delivered) /\ Inside(J') = Inside(J)
    BY <1>1, <2>1, RipenedInside
  <2>5. SInv'
    BY <1>1, <1>2, <2>2, <2>3, <2>4
  <2> QED
    BY <1>3, <2>2, <2>4, <2>5 DEF Rising
<1>7. ASSUME DropUntilKeyFrame PROVE Goal
  <2>1. J' = ClosedUntilKey(J) /\ latest' = latest /\ delivered' = delivered
    BY <1>7 DEF DropUntilKeyFrame
  <2>2. J' \in JitterType /\ Ahead(J')
    BY <1>1, <2>1, EmptiedAhead
  <2>3. IsFiniteSet(J'.pending) /\ Numbered(J', latest, delivered) /\ Inside(J') = {}
    BY <1>1, <2>1, EmptiedInside
  <2>4. DOMAIN stats' = Fates \cup {"in"} /\ stats'.in = stats.in
    BY <1>1, <1>7 DEF DropUntilKeyFrame
  <2>5. SInv'
    BY <1>1, <1>2, <2>1, <2>2, <2>3, <2>4
  <2>6. Stream!GiveUp
    BY <2>1, <2>3 DEF Stream!GiveUp, Stream!OldestGo, Inside
  <2> QED
    BY <2>1, <2>5, <2>6 DEF Stream!Next, Rising
<1>8. ASSUME Reset PROVE Goal
  <2>1. /\ J' = EmptyJitter /\ latest' = First /\ delivered' = -1
        /\ stats' = [s \in Fates \cup {"in"} |-> 0]
    BY <1>8 DEF Reset
  <2>2. /\ J' \in JitterType /\ Ahead(J') /\ latest' \in Nat
        /\ IsFiniteSet(J'.pending) /\ Numbered(J', latest', delivered') /\ Inside(J') = {}
    BY <2>1, EmptiedAhead, EmptiedInside, ReorderAssumption
  <2>3. DOMAIN stats' = Fates \cup {"in"} /\ stats'.in = 0
    BY <2>1
  <2>4. Near(latest', stats'.in)
    BY <2>1, <2>3, ReorderAssumption DEF Near
  <2>5. SInv'
    BY <1>2, <2>2, <2>3, <2>4
  <2>6. Stream!StartOver
    BY <2>1, <2>2 DEF Stream!StartOver, Stream!None, Inside
  <2> QED
    BY <2>1, <2>5, <2>6 DEF Stream!Next, Rising
<1>9. ASSUME UNCHANGED vars PROVE Goal
  <2>1. J' = J /\ stats' = stats /\ latest' = latest /\ delivered' = delivered
    BY <1>9 DEF vars
  <2>2. SInv'
    BY <1>1, <1>2, <2>1
  <2>3. Inside(J)' = Inside(J)
    BY <1>3, <2>1
  <2> QED
    BY <2>1, <2>2, <2>3 DEF Rising
<1> QED
  BY <1>4, <1>5, <1>6, <1>7, <1>8, <1>9 DEF Next

-----------------------------------------------------------------------------
(* Where the frames went, for every receiver.                              *)

CInv ==
    /\ IInv /\ IsFiniteSet(J.pending)
    /\ stats \in [Fates \cup {"in"} -> Int]
    /\ EveryFrameCounted

\* The sum, for one value of the counters and of the buffer's size.
Sums(s, size) ==
    s.in = s.duplicate + s.beforeKey + s.tooLate + s.dropped + s.resync + s.out + size

\* The initial buffer has counted every frame.
LEMMA CountedInit ==
    ASSUME Init
    PROVE  CInv
<1>1. J = EmptyJitter /\ stats = [s \in Fates \cup {"in"} |-> 0]
  BY DEF Init
<1>2. J.pending = {}
  BY <1>1 DEF EmptyJitter
<1>3. IsFiniteSet(J.pending) /\ Cardinality(J.pending) = 0
  BY <1>2, FS_EmptySet
<1>4. stats \in [Fates \cup {"in"} -> Int]
  BY <1>1
<1>5. EveryFrameCounted
  BY <1>1, <1>3 DEF EveryFrameCounted, Fates
<1> QED
  BY <1>3, <1>4, <1>5, InvInit DEF CInv

\* Every operation adds to one side of the sum what it adds to the other.
LEMMA CountedNext ==
    ASSUME CInv, [Next]_vars
    PROVE  CInv'
<1> DEFINE c == Cardinality(J.pending)
           new == Cardinality(J'.pending)
<1>1. /\ J \in JitterType /\ Ahead(J) /\ IsFiniteSet(J.pending) /\ c \in Nat
      /\ stats \in [Fates \cup {"in"} -> Int] /\ Sums(stats, c)
  BY FS_CardinalityType DEF CInv, IInv, PendingIsAhead, Ahead, EveryFrameCounted, Sums
<1>2. IInv'
  BY InvNext DEF CInv
<1>3. ASSUME IsFiniteSet(J'.pending), stats' \in [Fates \cup {"in"} -> Int],
             Sums(stats', new)
      PROVE  CInv'
  BY <1>2, <1>3 DEF CInv, EveryFrameCounted, Sums
<1>4. ASSUME Push PROVE CInv'
  <2>1. PICK n \in Int, due \in BOOLEAN :
          /\ J' = Pushed(J, FrameOf(n), due)
          /\ stats' = Counted(Verdict(J, FrameOf(n)))
    BY <1>2, <1>4, ReorderAssumption DEF Push, CInv, IInv
  <2> DEFINE v == Verdict(J, FrameOf(n))
             entry == [ext |-> Extended(J, FrameOf(n).id), frame |-> FrameOf(n), due |-> due]
             pool == J.pending \cup {entry}
  <2>2. v \in {"duplicate", "beforeKey", "tooLate", "kept"}
    BY DEF Verdict
  <2>3. J'.pending = IF v = "kept" THEN Capped(pool) ELSE J.pending
    BY <1>1, <2>1 DEF Pushed, JitterType
  <2>4. IsFiniteSet(J'.pending) /\ new \in Nat
    <3>1. IsFiniteSet(pool)
      BY <1>1, FS_AddElement
    <3>2. IsFiniteSet(Capped(pool))
      BY <3>1, CappedFinite
    <3>3. IsFiniteSet(J'.pending)
      BY <1>1, <2>3, <3>2
    <3> QED
      BY <3>3, FS_CardinalityType
  <2>5. v # "kept" => new = c
    BY <2>3
  <2>6. stats' = IF v = "kept" THEN [stats EXCEPT !.in = @ + 1, !.dropped = @ + c + 1 - new]
                 ELSE [stats EXCEPT !.in = @ + 1, ![v] = @ + 1]
    BY <2>1 DEF Counted
  <2> HIDE DEF v, c, new
  <2>7. stats' \in [Fates \cup {"in"} -> Int] /\ Sums(stats', new)
    <3>1. CASE v = "kept"
      <4> DEFINE more == stats.dropped + c + 1 - new
      <4>1. stats.dropped \in Int
        BY <1>1 DEF Fates
      <4>2. more \in Int /\ more + new = stats.dropped + c + 1
        BY <1>1, <2>4, <4>1
      <4>3. stats' = [stats EXCEPT !.in = @ + 1, !.dropped = more]
        BY <2>6, <3>1
      <4> HIDE DEF more
      <4>4. stats' \in [Fates \cup {"in"} -> Int]
        <5> DEFINE mid == [stats EXCEPT !.in = @ + 1]
        <5>1. stats.in \in Int
          BY <1>1
        <5>2. mid \in [Fates \cup {"in"} -> Int]
          BY <1>1, <5>1
        <5>3. stats' = [mid EXCEPT !.dropped = more]
          BY <4>3
        <5> HIDE DEF mid
        <5> QED
          BY <4>2, <5>2, <5>3
      <4>5. /\ stats'.in = stats.in + 1 /\ stats'.dropped = more
            /\ \A s \in Fates \ {"dropped"} : stats'[s] = stats[s]
        BY <1>1, <4>3 DEF Fates
      <4>6. \A s \in Fates \cup {"in"} : stats[s] \in Int
        BY <1>1
      <4> QED
        BY <1>1, <2>4, <4>2, <4>4, <4>5, <4>6 DEF Fates, Sums
    <3>2. CASE v = "duplicate"
      BY <1>1, <2>4, <2>5, <2>6, <3>2 DEF Fates, Sums
    <3>3. CASE v = "beforeKey"
      BY <1>1, <2>4, <2>5, <2>6, <3>3 DEF Fates, Sums
    <3>4. CASE v = "tooLate"
      BY <1>1, <2>4, <2>5, <2>6, <3>4 DEF Fates, Sums
    <3> QED
      BY <2>2, <3>1, <3>2, <3>3, <3>4
  <2> QED
    BY <1>3, <2>4, <2>7 DEF new
<1>5. ASSUME Pop PROVE CInv'
  <2>1. PICK e \in J.pending :
          J' = Popped(J, e) /\ stats' = [stats EXCEPT !.out = @ + 1]
    BY <1>5 DEF Pop
  <2>2. J'.pending = J.pending \ {e}
    BY <1>1, <2>1 DEF Popped, JitterType
  <2>3. IsFiniteSet(J'.pending) /\ new = c - 1
    BY <1>1, <2>2, FS_RemoveElement
  <2> HIDE DEF c, new
  <2>4. stats' \in [Fates \cup {"in"} -> Int] /\ Sums(stats', new)
    BY <1>1, <2>1, <2>3 DEF Fates, Sums
  <2> QED
    BY <1>3, <2>3, <2>4 DEF new
<1>6. ASSUME TimePasses PROVE CInv'
  <2>1. PICK e \in J.pending : ~e.due /\ J' = Ripened(J, e) /\ stats' = stats
    BY <1>6 DEF TimePasses
  <2> DEFINE ripe == [e EXCEPT !.due = TRUE]
             rest == J.pending \ {e}
  <2>2. J'.pending = rest \cup {ripe}
    BY <1>1, <2>1 DEF Ripened, JitterType
  <2>3. ripe \notin rest
    <3>1. e \in Entry
      BY <1>1 DEF JitterType
    <3>2. ripe.ext = e.ext
      BY <3>1 DEF Entry
    <3> QED
      BY <1>1, <3>2 DEF Ahead
  <2>4. IsFiniteSet(rest) /\ Cardinality(rest) = c - 1
    BY <1>1, FS_RemoveElement
  <2> HIDE DEF rest, ripe
  <2>5. IsFiniteSet(rest \cup {ripe}) /\ Cardinality(rest \cup {ripe}) = c
    <3>1. Cardinality(rest \cup {ripe}) = Cardinality(rest) + 1
      BY <2>3, <2>4, FS_AddElement
    <3> QED
      BY <1>1, <2>4, <3>1, FS_AddElement
  <2>6. IsFiniteSet(J'.pending) /\ new = c
    BY <2>2, <2>5
  <2> QED
    BY <1>1, <1>3, <2>1, <2>6
<1>7. ASSUME DropUntilKeyFrame PROVE CInv'
  <2>1. J' = ClosedUntilKey(J) /\ stats' = [stats EXCEPT !.resync = @ + c]
    BY <1>7 DEF DropUntilKeyFrame
  <2>2. J'.pending = {}
    BY <1>1, <2>1 DEF ClosedUntilKey, JitterType
  <2>3. IsFiniteSet(J'.pending) /\ new = 0
    BY <2>2, FS_EmptySet
  <2> HIDE DEF c, new
  <2>4. stats' \in [Fates \cup {"in"} -> Int] /\ Sums(stats', new)
    BY <1>1, <2>1, <2>3 DEF Fates, Sums
  <2> QED
    BY <1>3, <2>3, <2>4 DEF new
<1>8. ASSUME Reset PROVE CInv'
  <2>1. J' = EmptyJitter /\ stats' = [s \in Fates \cup {"in"} |-> 0]
    BY <1>8 DEF Reset
  <2>2. IsFiniteSet(J'.pending) /\ new = 0
    BY <2>1, FS_EmptySet DEF EmptyJitter
  <2>3. stats' \in [Fates \cup {"in"} -> Int] /\ Sums(stats', new)
    BY <2>1, <2>2 DEF Fates, Sums
  <2> QED
    BY <1>3, <2>2, <2>3
<1>9. ASSUME UNCHANGED vars PROVE CInv'
  BY <1>1, <1>3, <1>9 DEF vars
<1> QED
  BY <1>4, <1>5, <1>6, <1>7, <1>8, <1>9 DEF Next

-----------------------------------------------------------------------------
(* The theorems.                                                           *)

\* For a receiver that does not join exactly after a wraparound, the jitter buffer is
\* a FrameStream: pop() lets out the oldest frame inside in the sender's order, and
\* what capacity and resyncs take away is never newer than what stays.
THEOREM BufferIsStream ==
    ASSUME JoinsBeforeWrap
    PROVE  Spec => ImplementsStream
<1>1. Init => SInv /\ Stream!Init
  BY StreamInit
<1>2. SInv /\ [Next]_vars => SInv' /\ [Stream!Next]_<<Inside(J), delivered>>
  BY StreamNext
<1>3. [Stream!Next]_<<Inside(J), delivered>>
        => [Stream!Next]_<<{e.frame.n : e \in J.pending}, delivered>>
  BY DEF Inside
<1> QED
  BY <1>1, <1>2, <1>3, PTL DEF Spec, ImplementsStream, Stream!Spec

\* For the same receiver: frames are delivered in the sender's order, none twice and
\* none after a newer one.
THEOREM DeliveryIsOrdered ==
    ASSUME JoinsBeforeWrap
    PROVE  Spec => DeliveredInOrder
<1>1. Init => SInv
  BY StreamInit
<1>2. SInv /\ [Next]_vars => SInv' /\ Rising
  BY StreamNext
<1>3. [Rising]_vars => [delivered' # delivered /\ delivered' # -1
                          => delivered' > delivered]_vars
  BY DEF Rising
<1> QED
  BY <1>1, <1>2, <1>3, PTL DEF Spec, DeliveredInOrder

\* For every receiver: no frame leaves the buffer's books, whichever of push()'s tests,
\* the limits, a resync or pop() takes it.
THEOREM FramesAreCounted == Spec => []EveryFrameCounted
<1>1. Init => CInv
  BY CountedInit
<1>2. CInv /\ [Next]_vars => CInv'
  BY CountedNext
<1>3. CInv => EveryFrameCounted
  BY DEF CInv
<1> QED
  BY <1>1, <1>2, <1>3, PTL DEF Spec

-----------------------------------------------------------------------------
(* DelayEstimator.                                                         *)

Sample == [at: Int, offset: Int]

\* What a division by 1000 leaves.
Remainders == {r \in Nat : r < 1000}

EstType ==
    [window: Seq(Sample), floor: Int, hasFloor: BOOLEAN, target: Int, lastObserve: Int,
     remainder: Remainders, rtt: Int, deltas: Seq(Int), lastTs: Int, interval: Int,
     effectiveMin: Int]

\* The fall of the delay, with what the last division has left over.
Slow ==
    adaptive /\ DownRateMsPerSec > 0 =>
        level + est.remainder < 1000 * est.target + 1000

\* Before the first frame, or after reset(), nothing has been promised yet.
Untouched ==
    est.lastObserve = None => est.window = <<>> /\ (adaptive => level = 0 /\ est.remainder = 0)

DInv ==
    /\ adaptive \in BOOLEAN /\ est \in EstType /\ now \in Nat /\ level \in Int
    /\ adaptive /\ est.lastObserve # None => est.lastObserve = now
    /\ ~adaptive => est.window = <<>>
    /\ Untouched /\ WithinLimits /\ Slow /\ CoversWindow

-----------------------------------------------------------------------------
(* Order statistics.                                                       *)

\* The places of s whose elements are at most v, how many there are, and the
\* elements of s.
UpTo(s, v)  == {i \in DOMAIN s : s[i] <= v}
Count(s, v) == Cardinality(UpTo(s, v))
Values(s)   == {s[i] : i \in DOMAIN s}

\* The elements of a sequence of integers.
LEMMA ValuesType ==
    ASSUME NEW s \in Seq(Int)
    PROVE  /\ Len(s) \in Nat /\ DOMAIN s = 1 .. Len(s) /\ Values(s) \subseteq Int
           /\ \A i \in DOMAIN s : s[i] \in Int /\ s[i] \in Values(s)
           /\ IsFiniteSet(DOMAIN s) /\ Cardinality(DOMAIN s) = Len(s)
<1>1. Len(s) \in Nat /\ DOMAIN s = 1 .. Len(s) /\ \A i \in DOMAIN s : s[i] \in Int
  BY LenProperties
<1>2. IsFiniteSet(1 .. Len(s)) /\ Cardinality(1 .. Len(s)) = Len(s)
  BY <1>1, FS_Interval, SMTT(60)
<1> QED
  BY <1>1, <1>2 DEF Values

\* The number of elements up to v is at most that of all elements, and grows from
\* one value of s to a larger one.
LEMMA CountGrows ==
    ASSUME NEW s \in Seq(Int)
    PROVE  /\ \A v \in Int : Count(s, v) \in Nat /\ Count(s, v) <= Len(s)
           /\ \A u \in Int, v \in Values(s) : u < v => Count(s, u) < Count(s, v)
<1>1. ASSUME NEW v \in Int
      PROVE  IsFiniteSet(UpTo(s, v)) /\ Count(s, v) \in Nat /\ Count(s, v) <= Len(s)
  <2>1. UpTo(s, v) \in SUBSET DOMAIN s
    BY DEF UpTo
  <2>2. IsFiniteSet(UpTo(s, v)) /\ Cardinality(UpTo(s, v)) <= Cardinality(DOMAIN s)
    BY <2>1, ValuesType, FS_Subset
  <2>3. Cardinality(UpTo(s, v)) \in Nat
    BY <2>2, FS_CardinalityType
  <2> QED
    BY <2>2, <2>3, ValuesType DEF Count
<1>2. ASSUME NEW u \in Int, NEW v \in Values(s), u < v
      PROVE  Count(s, u) < Count(s, v)
  <2>1. PICK i \in DOMAIN s : v = s[i]
    BY DEF Values
  <2>2. v \in Int /\ \A j \in DOMAIN s : s[j] \in Int
    BY ValuesType
  <2>3. UpTo(s, u) \in SUBSET UpTo(s, v)
    BY <1>2, <2>2 DEF UpTo
  <2>4. i \in UpTo(s, v) /\ i \notin UpTo(s, u)
    BY <1>2, <2>1, <2>2 DEF UpTo
  <2>5. /\ Cardinality(UpTo(s, u)) <= Cardinality(UpTo(s, v))
        /\ Cardinality(UpTo(s, u)) # Cardinality(UpTo(s, v))
    BY <1>1, <2>2, <2>3, <2>4, FS_Subset
  <2> QED
    BY <1>1, <2>2, <2>5 DEF Count
<1> QED
  BY <1>1, <1>2

\* Some elements of a sequence have a largest one: the one with the most up to it.
LEMMA LargestValue ==
    ASSUME NEW s \in Seq(Int), NEW W, W \subseteq Values(s), W # {}
    PROVE  \E m \in W : \A v \in W : v <= m
<1> DEFINE T == {Len(s) - Count(s, v) : v \in W}
<1>1. W \subseteq Int /\ Len(s) \in Nat
  BY ValuesType
<1>2. \A v \in W : Len(s) - Count(s, v) \in Nat
  BY <1>1, CountGrows
<1>3. T \subseteq Nat /\ T # {}
  BY <1>2
<1>4. PICK x \in T : \A y \in T : x <= y
  BY <1>3, LeastNatural
<1>5. PICK m \in W : x = Len(s) - Count(s, m)
  BY <1>4
<1>6. ASSUME NEW v \in W PROVE v <= m
  <2>1. Len(s) - Count(s, m) <= Len(s) - Count(s, v)
    BY <1>4, <1>5
  <2>2. /\ Count(s, v) \in Nat /\ Count(s, m) \in Nat
        /\ m < v => Count(s, m) < Count(s, v)
    BY <1>1, CountGrows
  <2> QED
    BY <1>1, <2>1, <2>2
<1> QED
  BY <1>6

\* nth_element() finds what it is asked for: there is an element with at most k
\* smaller ones and more than k that are not larger.
LEMMA NthExists ==
    ASSUME NEW s \in Seq(Int), NEW k \in 0 .. Len(s) - 1
    PROVE  Nth(s, k) \in Int /\ k < Count(s, Nth(s, k))
<1>1. Len(s) \in Nat /\ DOMAIN s = 1 .. Len(s) /\ Values(s) \subseteq Int /\ k \in Nat
  BY ValuesType
<1>2. PICK top \in Values(s) : k < Count(s, top)
  <2>1. s[1] \in Values(s)
    BY <1>1, ValuesType
  <2>2. PICK m \in Values(s) : \A v \in Values(s) : v <= m
    BY <2>1, LargestValue
  <2>3. UpTo(s, m) = DOMAIN s
    BY <2>2, ValuesType DEF UpTo
  <2>4. Count(s, m) = Len(s)
    BY <2>3, ValuesType DEF Count
  <2> QED
    BY <1>1, <2>4
<1> DEFINE T == {Count(s, w) : w \in {u \in Values(s) : k < Count(s, u)}}
<1>3. PICK v \in Values(s) :
        k < Count(s, v) /\ \A w \in Values(s) : k < Count(s, w) => Count(s, v) <= Count(s, w)
  <2>1. \A w \in Values(s) : Count(s, w) \in Nat
    BY <1>1, CountGrows
  <2>2. T \subseteq Nat /\ T # {}
    BY <1>2, <2>1
  <2>3. PICK x \in T : \A y \in T : x <= y
    BY <2>2, LeastNatural
  <2> QED
    BY <2>3
<1> DEFINE Below == {i \in DOMAIN s : s[i] < v}
<1>4. Cardinality(Below) <= k
  <2> DEFINE W == {u \in Values(s) : u < v}
  <2>1. CASE W = {}
    <3>1. Below = {}
      BY <2>1, ValuesType
    <3>2. Cardinality(Below) = 0
      BY <3>1, FS_EmptySet
    <3> QED
      BY <1>1, <3>2
  <2>2. CASE W # {}
    <3>1. W \subseteq Values(s)
      OBVIOUS
    <3>2. PICK m \in W : \A u \in W : u <= m
      BY <2>2, <3>1, LargestValue
    <3>3. m \in Values(s) /\ m \in Int /\ v \in Int /\ m < v
      BY <1>1, <3>2
    <3>4. \A i \in DOMAIN s : s[i] < v <=> s[i] <= m
      BY <3>2, <3>3, ValuesType
    <3>5. Below = UpTo(s, m)
      BY <3>4 DEF UpTo
    <3>6. Count(s, m) < Count(s, v) /\ Count(s, m) \in Nat /\ Count(s, v) \in Nat
      BY <3>3, CountGrows
    <3>7. ~(k < Count(s, m))
      BY <1>3, <3>3, <3>6
    <3>8. Cardinality(Below) = Count(s, m)
      BY <3>5 DEF Count
    <3> HIDE DEF Below
    <3> QED
      BY <1>1, <3>6, <3>7, <3>8
  <2> QED
    BY <2>1, <2>2
<1>5. /\ v \in {s[i] : i \in DOMAIN s}
      /\ Cardinality({i \in DOMAIN s : s[i] < v}) <= k
      /\ k < Cardinality({i \in DOMAIN s : s[i] <= v})
  BY <1>3, <1>4 DEF UpTo, Count, Values
<1>6. /\ Nth(s, k) \in {s[i] : i \in DOMAIN s}
      /\ k < Cardinality({i \in DOMAIN s : s[i] <= Nth(s, k)})
  BY <1>5 DEF Nth
<1> QED
  BY <1>1, <1>6 DEF UpTo, Count, Values

\* Nothing that the delay rests on but the window has changed from D to E.
SameDelay(D, E) ==
    /\ E.target = D.target /\ E.remainder = D.remainder
    /\ E.lastObserve = D.lastObserve /\ E.floor = D.floor

-----------------------------------------------------------------------------
(* The window.                                                             *)

\* The offsets of a window.
LEMMA OffsetsType ==
    ASSUME NEW w \in Seq(Sample)
    PROVE  /\ OffsetsOf(w) \in Seq(Int) /\ Len(OffsetsOf(w)) = Len(w) /\ Len(w) \in Nat
           /\ DOMAIN w = 1 .. Len(w) /\ DOMAIN OffsetsOf(w) = DOMAIN w
           /\ \A i \in DOMAIN w : OffsetsOf(w)[i] = w[i].offset
<1>1. Len(w) \in Nat /\ DOMAIN w = 1 .. Len(w) /\ \A i \in DOMAIN w : w[i] \in Sample
  BY LenProperties
<1>2. OffsetsOf(w) \in [1 .. Len(w) -> Int]
  BY <1>1 DEF OffsetsOf, Sample
<1>3. OffsetsOf(w) \in Seq(Int) /\ Len(OffsetsOf(w)) = Len(w)
  BY <1>1, <1>2, IsASeq, LenProperties
<1> QED
  BY <1>1, <1>3 DEF OffsetsOf

\* The place of a percentile is one of the window.
LEMMA PercentilePlace ==
    ASSUME NEW p \in 0 .. 100, NEW n \in Nat \ {0}
    PROVE  (p * (n - 1)) \div 100 \in 0 .. n - 1
<1> DEFINE d == n - 1
           x == p * d
<1>1. d \in Nat /\ p \in Nat /\ 100 - p \in Nat
  OBVIOUS
<1>2. (100 - p) * d \in Nat /\ x \in Nat /\ (100 - p) * d = 100 * d - x
  BY <1>1
<1> HIDE DEF d, x
<1>3. x \div 100 \in 0 .. d
  BY <1>1, <1>2
<1> QED
  BY <1>3 DEF d, x

\* A percentile of a window with samples is a number, and as many samples as it
\* promises have at most this offset.
LEMMA PercentileCovers ==
    ASSUME NEW w \in Seq(Sample), w # <<>>, NEW p \in 0 .. 100
    PROVE  /\ percentileOffset(w, p) \in Int
           /\ 100 * Count(OffsetsOf(w), percentileOffset(w, p)) > p * (Len(w) - 1)
<1> DEFINE s == OffsetsOf(w)
           k == (p * (Len(w) - 1)) \div 100
<1>1. s \in Seq(Int) /\ Len(s) = Len(w) /\ Len(w) \in Nat \ {0}
  BY OffsetsType, EmptySeq
<1>2. k \in 0 .. Len(s) - 1
  BY <1>1, PercentilePlace
<1>3. percentileOffset(w, p) = Nth(s, k)
  BY DEF percentileOffset
<1> HIDE DEF s, k
<1>4. Nth(s, k) \in Int /\ k < Count(s, Nth(s, k))
  BY <1>1, <1>2, NthExists
<1>5. Count(s, Nth(s, k)) \in Nat
  BY <1>1, <1>4, CountGrows
<1> DEFINE x == p * (Len(w) - 1)
<1>6. x \in Int /\ k = x \div 100
  BY <1>1 DEF k
<1> HIDE DEF x
<1>7. 100 * Count(s, Nth(s, k)) > x
  BY <1>4, <1>5, <1>6
<1> QED
  BY <1>3, <1>4, <1>7 DEF s, x

\* The window holds the new sample, so it is not empty.
LEMMA WithSampleType ==
    ASSUME NEW E \in EstType, NEW offset \in Int, NEW t \in Int
    PROVE  /\ WithSample(E, offset, t) \in EstType
           /\ WithSample(E, offset, t).window # <<>>
           /\ SameDelay(E, WithSample(E, offset, t))
<1> DEFINE all    == Append(E.window, [at |-> t, offset |-> offset])
           young == {i \in DOMAIN all : t - all[i].at <= WindowMs}
           first  == CHOOSE i \in young : \A j \in young : i <= j
           w      == SubSeq(all, first, Len(all))
<1>1. E.window \in Seq(Sample) /\ [at |-> t, offset |-> offset] \in Sample
  BY DEF EstType, Sample
<1>2. /\ all \in Seq(Sample) /\ Len(all) \in Nat /\ DOMAIN all = 1 .. Len(all)
      /\ Len(all) \in DOMAIN all /\ all[Len(all)] = [at |-> t, offset |-> offset]
  <2>1. /\ all \in Seq(Sample) /\ Len(all) = Len(E.window) + 1
        /\ all[Len(E.window) + 1] = [at |-> t, offset |-> offset]
    BY <1>1, AppendProperties
  <2>2. Len(E.window) \in Nat /\ Len(all) \in Nat /\ DOMAIN all = 1 .. Len(all)
    BY <1>1, <2>1, LenProperties
  <2> HIDE DEF all
  <2> QED
    BY <2>1, <2>2
<1> HIDE DEF all
<1>3. Len(all) \in young
  BY <1>2, DelayAssumption
<1>4. young \subseteq Nat /\ young # {}
  BY <1>2, <1>3
<1>5. \E i \in young : \A j \in young : i <= j
  BY <1>4, LeastNatural
<1>6. first \in young
  BY <1>5
<1>7. first \in 1 .. Len(all)
  BY <1>2, <1>6
<1> HIDE DEF first, young
<1>8. \A i \in first .. Len(all) : all[i] \in Sample
  BY <1>2, <1>7
<1>9. w \in Seq(Sample) /\ Len(w) = Len(all) - first + 1
  BY <1>2, <1>7, <1>8, SubSeqProperties
<1>10. w # <<>>
  <2>1. Len(w) # 0
    BY <1>2, <1>7, <1>9
  <2> HIDE DEF w
  <2> QED
    BY <2>1, EmptySeq
<1>11. WithSample(E, offset, t) = [E EXCEPT !.window = w]
  BY DEF WithSample, all, first, young
<1> HIDE DEF w
<1> DEFINE S == [E EXCEPT !.window = w]
<1>12. S \in EstType
  BY <1>9 DEF EstType
<1>13. S.window = w
  BY DEF EstType
<1>14. SameDelay(E, S)
  BY DEF EstType, SameDelay
<1> HIDE DEF S
<1> QED
  BY <1>10, <1>11, <1>12, <1>13, <1>14 DEF S

\* The distance of two frames is a number.
LEMMA WithIntervalType ==
    ASSUME NEW E \in EstType, NEW ts \in Int
    PROVE  /\ WithInterval(E, ts) \in EstType
           /\ WithInterval(E, ts).window = E.window
           /\ SameDelay(E, WithInterval(E, ts))
<1>1. CASE E.lastTs = None
  <2> DEFINE I == [E EXCEPT !.lastTs = ts]
  <2>1. WithInterval(E, ts) = I
    BY <1>1 DEF WithInterval
  <2>2. I \in EstType
    BY DEF EstType
  <2>3. I.window = E.window /\ SameDelay(E, I)
    BY DEF EstType, SameDelay
  <2> HIDE DEF I
  <2> QED
    BY <2>1, <2>2, <2>3
<1>2. CASE E.lastTs # None
  <2> DEFINE d    == Signed(ts - E.lastTs, TsMod)
             a    == IF d < 0 THEN -d ELSE d
             all  == Append(E.deltas, a)
             kept == IF Len(all) > FrameDeltaWindow THEN Tail(all) ELSE all
             v    == Nth(kept, Len(kept) \div 4)
  <2>1. d \in Int
    <3>1. (ts - E.lastTs) % TsMod \in Int
      BY DelayAssumption DEF EstType
    <3> QED
      BY <3>1, DelayAssumption DEF Signed
  <2>2. a \in Int
    BY <2>1
  <2>3. all \in Seq(Int) /\ Len(all) = Len(E.deltas) + 1 /\ Len(E.deltas) \in Nat
    BY <2>2, AppendProperties, LenProperties DEF EstType
  <2> HIDE DEF all, a, d
  <2>4. FrameDeltaWindow \in Nat \ {0}
    BY DelayAssumption
  <2>5. kept \in Seq(Int) /\ Len(kept) \in Nat \ {0}
    <3>1. CASE Len(all) > FrameDeltaWindow
      <4>1. all # <<>> /\ Len(all) > 1
        BY <2>3, <2>4, <3>1, EmptySeq
      <4>2. Tail(all) \in Seq(Int) /\ Len(Tail(all)) = Len(all) - 1
        BY <2>3, <4>1, HeadTailProperties
      <4>3. kept = Tail(all)
        BY <3>1
      <4> HIDE DEF kept
      <4> QED
        BY <2>3, <4>1, <4>2, <4>3
    <3>2. CASE ~(Len(all) > FrameDeltaWindow)
      BY <2>3, <3>2
    <3> QED
      BY <3>1, <3>2
  <2> HIDE DEF kept
  <2>6. Len(kept) \div 4 \in 0 .. Len(kept) - 1
    BY <2>5
  <2>7. v \in Int
    BY <2>5, <2>6, NthExists
  <2> DEFINE I == [E EXCEPT !.lastTs = ts, !.deltas = kept, !.interval = v]
  <2>8. WithInterval(E, ts) = I
    BY <1>2 DEF WithInterval, kept, all, a, d
  <2> HIDE DEF v
  <2>9. I \in EstType
    BY <2>5, <2>7 DEF EstType
  <2>10. I.window = E.window /\ SameDelay(E, I)
    BY DEF EstType, SameDelay
  <2> HIDE DEF I
  <2> QED
    BY <2>8, <2>9, <2>10
<1> QED
  BY <1>1, <1>2

-----------------------------------------------------------------------------
(* The delay.                                                              *)

\* The limits are in order.
LEMMA LimitsInOrder == Lower \in Nat /\ Upper \in Nat /\ Lower <= Upper
  BY DelayAssumption DEF Lower, Upper

\* The time since the last frame.
Elapsed(E, t) == IF E.lastObserve # None /\ t > E.lastObserve THEN t - E.lastObserve ELSE 0

\* What the delay may fall in this time, in microseconds.
Fall(E, t) == DownRateMsPerSec * Elapsed(E, t)

\* A fall by drop, with what is left over.
LEMMA FallArithmetic ==
    ASSUME NEW l \in Int, NEW old \in Int, NEW left \in Int, NEW fall \in Int,
           NEW drop \in Int, NEW rest \in Int, NEW new \in Int,
           l + left < 1000 * old + 1000, fall + left = 1000 * drop + rest, new >= old - drop
    PROVE  l - fall + rest < 1000 * new + 1000
  OBVIOUS

\* The delay that results from the estimate is not under it, and has fallen by what
\* the rate allows for the elapsed time, up to the remainder.
LEMMA FollowedFalls ==
    ASSUME NEW E \in EstType, NEW raw \in Int, NEW t \in Int, NEW l \in Int
    PROVE  /\ Followed(E, raw, t) \in EstType
           /\ Followed(E, raw, t).window = E.window
           /\ Len(E.window) >= MinSamples => Followed(E, raw, t).target >= raw
           /\ /\ DownRateMsPerSec > 0
              /\ l + E.remainder < 1000 * E.target + 1000
              /\ E.target <= Upper
              => l - Fall(E, t) + Followed(E, raw, t).remainder
                     < 1000 * Smaller(Followed(E, raw, t).target, Upper) + 1000
<1> DEFINE F    == Followed(E, raw, t)
           fall == Fall(E, t)
<1>1. /\ E.target \in Int /\ E.remainder \in Nat /\ E.remainder <= 999
      /\ E.lastObserve \in Int /\ Len(E.window) \in Nat
  <2>1. E.remainder \in Remainders /\ E.window \in Seq(Sample)
    BY DEF EstType
  <2>2. E.remainder \in Nat /\ E.remainder <= 999
    BY <2>1 DEF Remainders
  <2>3. Len(E.window) \in Nat
    BY <2>1, LenProperties
  <2> QED
    BY <2>2, <2>3 DEF EstType
<1>2. MinSamples \in Nat /\ DownRateMsPerSec \in Int
  BY DelayAssumption
<1>3. Elapsed(E, t) \in Nat
  BY <1>1 DEF Elapsed
<1>4. fall \in Int /\ (DownRateMsPerSec > 0 => fall >= 0)
  BY <1>2, <1>3 DEF Fall
<1> SUFFICES /\ F \in EstType /\ F.window = E.window
             /\ Len(E.window) >= MinSamples => F.target >= raw
             /\ /\ DownRateMsPerSec > 0
                /\ l + E.remainder < 1000 * E.target + 1000
                /\ E.target <= Upper
                => l - fall + F.remainder < 1000 * Smaller(F.target, Upper) + 1000
  OBVIOUS
<1> HIDE DEF F, fall
<1>5. CASE Len(E.window) < MinSamples
  <2>1. F = E
    BY <1>5 DEF Followed, F
  <2> QED
    BY <1>1, <1>2, <1>4, <1>5, <2>1, LimitsInOrder, SMTT(60) DEF Smaller
<1>6. CASE ~(Len(E.window) < MinSamples) /\ (raw >= E.target \/ DownRateMsPerSec <= 0)
  <2> DEFINE G == [E EXCEPT !.target = raw, !.remainder = 0]
  <2>1. F = G
    BY <1>6 DEF Followed, F
  <2>2. G \in EstType
    <3>1. 0 \in Remainders
      BY DEF Remainders
    <3> QED
      BY <3>1 DEF EstType
  <2>3. G.window = E.window /\ G.target = raw /\ G.remainder = 0
    BY DEF EstType
  <2> HIDE DEF G
  <2> QED
    BY <1>1, <1>2, <1>4, <1>6, <2>1, <2>2, <2>3, LimitsInOrder, SMTT(60) DEF Smaller
<1>7. CASE ~(Len(E.window) < MinSamples) /\ ~(raw >= E.target \/ DownRateMsPerSec <= 0)
  <2> DEFINE scaled == fall + E.remainder
             drop   == scaled \div 1000
             low    == E.target - drop
             rest   == scaled % 1000
             G      == [E EXCEPT !.target = Larger(raw, low), !.remainder = rest]
  <2>1. F = G
    BY <1>7 DEF Followed, Lowered, Elapsed, Fall, F, fall
  <2>2. scaled \in Nat /\ scaled = fall + E.remainder
    BY <1>1, <1>2, <1>4, <1>7
  <2> HIDE DEF scaled
  <2>3. /\ rest \in Nat /\ rest <= 999 /\ drop \in Nat
        /\ scaled = 1000 * drop + rest
    BY <2>2
  <2> HIDE DEF rest, drop
  <2>4. low \in Int /\ low <= E.target /\ low = E.target - drop
    BY <1>1, <2>3
  <2> HIDE DEF low
  <2>5. /\ Larger(raw, low) \in Int /\ Larger(raw, low) >= raw /\ Larger(raw, low) >= low
        /\ Larger(raw, low) <= E.target
    BY <1>1, <1>2, <1>7, <2>4 DEF Larger
  <2>6. G \in EstType
    <3>1. rest \in Remainders
      BY <2>3 DEF Remainders
    <3>2. Larger(raw, low) \in Int
      BY <2>5
    <3> QED
      BY <3>1, <3>2 DEF EstType
  <2>7. G.window = E.window /\ G.target = Larger(raw, low) /\ G.remainder = rest
    BY DEF EstType
  <2> HIDE DEF G
  <2>8. F \in EstType /\ F.window = E.window /\ F.target = Larger(raw, low) /\ F.remainder = rest
    BY <2>1, <2>6, <2>7
  <2>9. ASSUME DownRateMsPerSec > 0, l + E.remainder < 1000 * E.target + 1000, E.target <= Upper
        PROVE  l - fall + F.remainder < 1000 * Smaller(F.target, Upper) + 1000
    <3>1. Smaller(F.target, Upper) = F.target
      BY <1>1, <2>5, <2>8, <2>9, LimitsInOrder DEF Smaller
    <3>2. F.target >= E.target - drop /\ F.target \in Int /\ F.remainder = rest
      BY <1>1, <2>3, <2>4, <2>5, <2>8
    <3>3. l - fall + rest < 1000 * F.target + 1000
      <4>1. fall + E.remainder = 1000 * drop + rest
        BY <2>2, <2>3
      <4>2. l + E.remainder < 1000 * E.target + 1000
        BY <2>9
      <4>3. /\ E.target \in Int /\ E.remainder \in Int /\ fall \in Int /\ drop \in Int
            /\ rest \in Int /\ F.target \in Int /\ F.target >= E.target - drop
        BY <1>1, <1>4, <2>3, <3>2
      <4> QED
        BY <4>1, <4>2, <4>3, FallArithmetic
    <3> QED
      BY <3>1, <3>2, <3>3
  <2> QED
    BY <2>5, <2>8, <2>9
<1> QED
  BY <1>5, <1>6, <1>7

\* The limits are kept, and nothing else moves the delay.
LEMMA LimitedBounds ==
    ASSUME NEW E \in EstType
    PROVE  /\ Limited(E) \in EstType
           /\ Limited(E).window = E.window /\ Limited(E).remainder = E.remainder
           /\ Lower <= Limited(E).effectiveMin /\ Limited(E).effectiveMin <= Upper
           /\ Limited(E).effectiveMin <= Limited(E).target /\ Limited(E).target <= Upper
           /\ Smaller(E.target, Upper) <= Limited(E).target
<1> DEFINE budget == IF E.rtt > 0 /\ E.interval > 0 THEN E.interval + E.rtt ELSE 0
           least  == Smaller(Larger(Lower, budget), Upper)
           x      == Larger(Smaller(E.target, Upper), least)
           L      == [E EXCEPT !.effectiveMin = least, !.target = x]
<1>1. Limited(E) = L
  BY DEF Limited
<1>2. budget \in Int /\ E.target \in Int
  BY DEF EstType
<1> HIDE DEF budget
<1>3. least \in Int /\ Lower <= least /\ least <= Upper
  BY <1>2, LimitsInOrder DEF Smaller, Larger
<1> HIDE DEF least
<1>4. x \in Int /\ least <= x /\ x <= Upper /\ Smaller(E.target, Upper) <= x
  BY <1>2, <1>3, LimitsInOrder DEF Smaller, Larger
<1> HIDE DEF x
<1>5. L \in EstType
  BY <1>3, <1>4 DEF EstType
<1>6. /\ L.window = E.window /\ L.remainder = E.remainder
      /\ L.effectiveMin = least /\ L.target = x
  BY DEF EstType
<1> HIDE DEF L
<1> QED
  BY <1>1, <1>3, <1>4, <1>5, <1>6

\* WithinLimits and CoversWindow of a value of the estimator.
Bounded(E) ==
    /\ Lower <= E.effectiveMin /\ E.effectiveMin <= Upper
    /\ E.effectiveMin <= E.target /\ E.target <= Upper

Early(E) == {i \in DOMAIN E.window : E.window[i].offset <= E.floor + E.target}

Covers(E) ==
    Len(E.window) >= MinSamples /\ E.target < Upper =>
        100 * Cardinality(Early(E)) > DelayPercentile * (Len(E.window) - 1)

\* What a frame does to the estimator when the delay adapts.
LEMMA AdaptiveStep ==
    ASSUME NEW E \in EstType, NEW offset \in Int, NEW t \in Int, NEW l \in Int
    PROVE  /\ ObserveAdaptive(E, offset, t) \in EstType
           /\ ObserveAdaptive(E, offset, t).lastObserve = t
           /\ Bounded(ObserveAdaptive(E, offset, t)) /\ Covers(ObserveAdaptive(E, offset, t))
           /\ /\ DownRateMsPerSec > 0
              /\ l + E.remainder < 1000 * E.target + 1000
              /\ E.target <= Upper
              => l - Fall(E, t) + ObserveAdaptive(E, offset, t).remainder
                     < 1000 * ObserveAdaptive(E, offset, t).target + 1000
<1> DEFINE S     == WithSample(E, offset, t)
           floor == percentileOffset(S.window, FloorPercentile)
           high  == percentileOffset(S.window, DelayPercentile)
           raw   == high - floor
           F     == Followed(S, raw, t)
           L     == Limited(F)
           A     == [L EXCEPT !.floor = floor, !.hasFloor = TRUE, !.lastObserve = t]
           early == Early(A)
           fall  == Fall(E, t)
<1>1. ObserveAdaptive(E, offset, t) = A
  BY DEF ObserveAdaptive
<1>2. S \in EstType /\ S.window # <<>> /\ SameDelay(E, S)
  BY WithSampleType
<1>3. S.window \in Seq(Sample)
  BY <1>2 DEF EstType
<1>4. FloorPercentile \in 0 .. 100 /\ DelayPercentile \in 0 .. 100
  BY DelayAssumption
<1>5. /\ floor \in Int /\ high \in Int
      /\ 100 * Count(OffsetsOf(S.window), high) > DelayPercentile * (Len(S.window) - 1)
  BY <1>2, <1>3, <1>4, PercentileCovers
<1> HIDE DEF S, floor, high
<1>6. raw \in Int /\ high = floor + raw
  BY <1>5
<1> HIDE DEF raw
<1>7. Fall(S, t) = fall /\ S.remainder = E.remainder /\ S.target = E.target
  BY <1>2 DEF Fall, Elapsed, SameDelay
<1> HIDE DEF fall
<1>8. /\ F \in EstType /\ F.window = S.window
      /\ Len(S.window) >= MinSamples => F.target >= raw
      /\ /\ DownRateMsPerSec > 0
         /\ l + E.remainder < 1000 * E.target + 1000
         /\ E.target <= Upper
         => l - fall + F.remainder < 1000 * Smaller(F.target, Upper) + 1000
  <2>1. /\ F \in EstType /\ F.window = S.window
        /\ Len(S.window) >= MinSamples => F.target >= raw
        /\ /\ DownRateMsPerSec > 0
           /\ l + S.remainder < 1000 * S.target + 1000
           /\ S.target <= Upper
           => l - Fall(S, t) + F.remainder < 1000 * Smaller(F.target, Upper) + 1000
    BY <1>2, <1>6, FollowedFalls
  <2> HIDE DEF F
  <2> QED
    BY <1>7, <2>1
<1> HIDE DEF F
<1>9. /\ L \in EstType /\ L.window = F.window /\ L.remainder = F.remainder
      /\ Lower <= L.effectiveMin /\ L.effectiveMin <= Upper
      /\ L.effectiveMin <= L.target /\ L.target <= Upper
      /\ Smaller(F.target, Upper) <= L.target
  BY <1>8, LimitedBounds
<1> HIDE DEF L
<1>10. A \in EstType
  BY <1>5, <1>9 DEF EstType
<1>11. /\ A.lastObserve = t /\ A.floor = floor /\ A.window = S.window
       /\ A.effectiveMin = L.effectiveMin /\ A.target = L.target
       /\ A.remainder = F.remainder
  BY <1>8, <1>9 DEF EstType
<1> HIDE DEF A
<1>12. A.target \in Int /\ F.target \in Int /\ A.remainder \in Int
  BY <1>8, <1>10 DEF EstType, Remainders
<1>13. ASSUME Len(S.window) >= MinSamples, A.target < Upper
       PROVE  100 * Cardinality(early) > DelayPercentile * (Len(S.window) - 1)
  <2>1. A.target >= raw
    BY <1>6, <1>8, <1>9, <1>11, <1>12, <1>13, LimitsInOrder DEF Smaller
  <2>2. high <= A.floor + A.target
    BY <1>5, <1>6, <1>11, <1>12, <2>1
  <2>3. /\ DOMAIN S.window = 1 .. Len(S.window) /\ Len(S.window) \in Nat
        /\ DOMAIN OffsetsOf(S.window) = DOMAIN S.window
        /\ \A i \in DOMAIN S.window :
              OffsetsOf(S.window)[i] = S.window[i].offset /\ S.window[i].offset \in Int
    <3>1. \A i \in DOMAIN S.window : OffsetsOf(S.window)[i] \in Int
      BY <1>3, OffsetsType, ValuesType
    <3> QED
      BY <1>3, <3>1, OffsetsType
  <2>4. UpTo(OffsetsOf(S.window), high) \subseteq early
    <3>1. A.floor + A.target \in Int /\ A.window = S.window
      BY <1>5, <1>11, <1>12
    <3> QED
      BY <1>5, <2>2, <2>3, <3>1 DEF UpTo, Early
  <2>5. IsFiniteSet(early)
    <3>1. early \in SUBSET (1 .. Len(S.window))
      BY <1>11, <2>3 DEF Early
    <3>2. IsFiniteSet(1 .. Len(S.window))
      BY <2>3, FS_Interval
    <3> QED
      BY <3>1, <3>2, FS_Subset
  <2> HIDE DEF early
  <2>6. Count(OffsetsOf(S.window), high) <= Cardinality(early)
    BY <2>4, <2>5, FS_Subset DEF Count
  <2>7. Cardinality(early) \in Nat /\ Count(OffsetsOf(S.window), high) \in Nat
    BY <1>3, <1>5, <2>5, FS_CardinalityType, OffsetsType, CountGrows
  <2> DEFINE x == DelayPercentile * (Len(S.window) - 1)
  <2>8. x \in Int /\ 100 * Count(OffsetsOf(S.window), high) > x
    BY <1>4, <1>5, <2>3
  <2> HIDE DEF x
  <2>9. 100 * Cardinality(early) > x
    BY <2>6, <2>7, <2>8
  <2> QED
    BY <2>9 DEF x
<1>14. ASSUME DownRateMsPerSec > 0, l + E.remainder < 1000 * E.target + 1000, E.target <= Upper
       PROVE  l - fall + A.remainder < 1000 * A.target + 1000
  <2>1. l - fall + A.remainder < 1000 * Smaller(F.target, Upper) + 1000
    BY <1>8, <1>11, <1>14
  <2>2. Smaller(F.target, Upper) \in Int /\ Smaller(F.target, Upper) <= A.target
    BY <1>9, <1>11, <1>12, LimitsInOrder DEF Smaller
  <2>3. fall \in Int
    <3>1. Elapsed(E, t) \in Int /\ DownRateMsPerSec \in Int
      BY DelayAssumption DEF Elapsed, EstType
    <3> QED
      BY <3>1 DEF fall, Fall
  <2> QED
    BY <1>12, <2>1, <2>2, <2>3
<1>15. Bounded(A) /\ Covers(A)
  BY <1>9, <1>11, <1>13 DEF Bounded, Covers
<1>16. /\ DownRateMsPerSec > 0
       /\ l + E.remainder < 1000 * E.target + 1000
       /\ E.target <= Upper
       => l - Fall(E, t) + A.remainder < 1000 * A.target + 1000
  BY <1>14 DEF fall
<1>17. A.lastObserve = t
  BY <1>11
<1> QED
  BY <1>1, <1>10, <1>15, <1>16, <1>17

-----------------------------------------------------------------------------
(* The invariant.                                                          *)

\* The estimator starts within it.
LEMMA DelayInit == EstimatorInit => DInv
<1> SUFFICES ASSUME EstimatorInit PROVE DInv
  OBVIOUS
<1> USE DEF EstimatorInit
<1>1. Fresh(0) \in EstType
  <2>1. 0 \in Remainders
    BY DEF Remainders
  <2>2. <<>> \in Seq(Sample) /\ <<>> \in Seq(Int)
    BY EmptySeq
  <2>3. TargetDelayMs \in Int /\ Lower \in Int /\ None \in Int
    BY DelayAssumption, LimitsInOrder DEF None
  <2> QED
    BY <2>1, <2>2, <2>3 DEF EstType, Fresh
<1>2. /\ est.window = <<>> /\ est.lastObserve = None /\ est.remainder = 0
      /\ est.target = TargetDelayMs
  BY DEF Fresh
<1>3. Slow
  BY <1>2, DelayAssumption DEF Slow
<1>4. Untouched /\ WithinLimits /\ CoversWindow
  BY <1>2 DEF Untouched, WithinLimits, CoversWindow
<1> QED
  BY <1>1, <1>2, <1>3, <1>4, DelayAssumption DEF DInv

\* A frame keeps it.
LEMMA ObserveKeeps == DInv /\ Observe => DInv'
<1> SUFFICES ASSUME DInv, Observe PROVE DInv'
  OBVIOUS
<1>1. PICK pause \in Pauses, late \in Offsets :
          LET t  == now + pause
              ts == (t - late) % TsMod
              E  == WithInterval(est, ts)
          IN  /\ t <= LastMs
              /\ now' = t
              /\ est' = IF adaptive THEN ObserveAdaptive(E, t - ts, t) ELSE ObserveFixed(E, t - ts)
              /\ level' = Larger(level - DownRateMsPerSec * pause, 1000 * est'.target)
              /\ UNCHANGED adaptive
  BY Zenon DEF Observe
<1> DEFINE t    == now + pause
           ts   == (now + pause - late) % TsMod
           E    == WithInterval(est, ts)
           dist == t - ts
           mid  == level - DownRateMsPerSec * pause
<1>2. /\ est \in EstType /\ now \in Nat /\ level \in Int /\ adaptive \in BOOLEAN
      /\ adaptive /\ est.lastObserve # None => est.lastObserve = now
      /\ ~adaptive => est.window = <<>>
      /\ Untouched /\ WithinLimits /\ Slow
  BY DEF DInv
<1>3. /\ pause \in Nat /\ late \in Int /\ t \in Nat /\ ts \in Int /\ dist \in Int
      /\ DownRateMsPerSec \in Int
  BY <1>2, DelayAssumption
<1>4. /\ now' = t /\ adaptive' = adaptive
      /\ adaptive => est' = ObserveAdaptive(E, dist, t)
      /\ ~adaptive => est' = ObserveFixed(E, dist)
      /\ level' = Larger(mid, 1000 * est'.target)
  <2>1. now' = t /\ adaptive' = adaptive
    BY <1>1
  <2>2. adaptive => est' = ObserveAdaptive(E, dist, t)
    BY <1>1, <1>2, <1>3
  <2>3. ~adaptive => est' = ObserveFixed(E, dist)
    BY <1>1, <1>2, <1>3
  <2>4. level' = Larger(mid, 1000 * est'.target)
    BY <1>1
  <2> QED
    BY <2>1, <2>2, <2>3, <2>4
<1>5. mid \in Int /\ (DownRateMsPerSec > 0 => mid <= level)
  <2>1. DownRateMsPerSec * pause \in Int /\ (DownRateMsPerSec > 0 => DownRateMsPerSec * pause >= 0)
    BY <1>3
  <2> QED
    BY <1>2, <2>1
<1>6. E \in EstType /\ E.window = est.window /\ SameDelay(est, E)
  BY <1>2, <1>3, WithIntervalType
<1> HIDE DEF E, ts, dist
<1>7. CASE adaptive
  <2> DEFINE A == ObserveAdaptive(E, dist, t)
  <2>1. est' = A
    BY <1>4, <1>7
  <2>2. /\ A \in EstType /\ A.lastObserve = t /\ Bounded(A) /\ Covers(A)
        /\ /\ DownRateMsPerSec > 0
           /\ level + E.remainder < 1000 * E.target + 1000
           /\ E.target <= Upper
           => level - Fall(E, t) + A.remainder < 1000 * A.target + 1000
    <3>1. E \in EstType /\ dist \in Int /\ t \in Int /\ level \in Int
      BY <1>2, <1>3, <1>6
    <3> HIDE DEF t
    <3> QED
      BY <3>1, AdaptiveStep
  <2> HIDE DEF A
  <2>3. A.target \in Int /\ A.remainder \in Nat /\ A.remainder < 1000 /\ A.target >= 0
    <3>1. A.target \in Int /\ A.effectiveMin \in Int /\ A.remainder \in Remainders
      BY <2>2 DEF EstType
    <3>2. Lower <= A.effectiveMin /\ A.effectiveMin <= A.target
      BY <2>2 DEF Bounded
    <3> QED
      BY <3>1, <3>2, LimitsInOrder DEF Remainders
  <2>4. level' \in Int /\ now' \in Nat /\ est' \in EstType /\ est'.lastObserve = now'
    BY <1>3, <1>4, <1>5, <2>1, <2>2, <2>3 DEF Larger
  <2>5. ASSUME DownRateMsPerSec > 0
        PROVE  mid + A.remainder < 1000 * A.target + 1000
    <3>1. CASE est.lastObserve = None
      <4>1. level = 0
        BY <1>2, <1>7, <3>1 DEF Untouched
      <4> HIDE DEF mid
      <4> QED
        BY <1>5, <2>3, <2>5, <4>1
    <3>2. CASE est.lastObserve # None
      <4>1. est.lastObserve = now /\ E.lastObserve = now
        BY <1>2, <1>6, <1>7, <3>2 DEF SameDelay
      <4>2. Elapsed(E, t) = pause
        BY <1>2, <1>3, <3>2, <4>1 DEF Elapsed
      <4>3. level - Fall(E, t) = mid
        BY <4>2 DEF Fall
      <4>4. level + E.remainder < 1000 * E.target + 1000
        BY <1>2, <1>6, <1>7, <2>5 DEF Slow, SameDelay
      <4>5. E.target <= Upper
        BY <1>2, <1>6, <1>7, <3>2 DEF WithinLimits, SameDelay
      <4> QED
        BY <2>2, <2>5, <4>3, <4>4, <4>5
    <3> QED
      BY <3>1, <3>2
  <2> HIDE DEF mid
  <2>6. Slow'
    BY <1>4, <1>5, <2>1, <2>3, <2>5 DEF Slow, Larger
  <2>7. est'.lastObserve # None
    BY <1>3, <2>1, <2>2 DEF None
  <2>8. Untouched' /\ WithinLimits'
    BY <2>1, <2>2, <2>7 DEF Untouched, WithinLimits, Bounded
  <2>9. CoversWindow'
    BY <2>1, <2>2 DEF CoversWindow, Covers, Early
  <2> QED
    BY <1>2, <1>4, <1>7, <2>4, <2>6, <2>8, <2>9 DEF DInv
<1>8. CASE ~adaptive
  <2> DEFINE floor == IF E.hasFloor THEN Smaller(E.floor, dist) ELSE dist
             A     == [E EXCEPT !.floor = floor, !.hasFloor = TRUE, !.target = TargetDelayMs]
  <2>1. est' = A
    BY <1>4, <1>8 DEF ObserveFixed
  <2>2. floor \in Int /\ TargetDelayMs \in Int
    BY <1>3, <1>6, DelayAssumption DEF EstType, Smaller
  <2> HIDE DEF floor
  <2>3. A \in EstType
    BY <1>6, <2>2 DEF EstType
  <2>4. A.window = E.window /\ A.target = TargetDelayMs
    BY <1>6 DEF EstType
  <2> HIDE DEF A, mid
  <2>5. est'.window = <<>>
    BY <1>2, <1>6, <1>8, <2>1, <2>4
  <2>6. level' \in Int
    BY <1>4, <1>5, <2>1, <2>2, <2>4 DEF Larger
  <2>7. CoversWindow' /\ WithinLimits' /\ Slow' /\ Untouched'
    BY <1>4, <1>8, <2>5 DEF CoversWindow, WithinLimits, Slow, Untouched
  <2> QED
    BY <1>2, <1>3, <1>4, <1>8, <2>1, <2>3, <2>5, <2>6, <2>7 DEF DInv
<1> QED
  BY <1>2, <1>7, <1>8

\* So do a measured round trip, which counts from the next frame on, and reset().
LEMMA OtherStepsKeep == DInv /\ (SetRttMs \/ ResetEstimator \/ UNCHANGED estimatorVars) => DInv'
<1> SUFFICES ASSUME DInv, SetRttMs \/ ResetEstimator \/ UNCHANGED estimatorVars PROVE DInv'
  OBVIOUS
<1>1. CASE SetRttMs
  <2>1. PICK rtt \in Rtts : est' = [est EXCEPT !.rtt = rtt] /\ UNCHANGED <<adaptive, now, level>>
    BY <1>1 DEF SetRttMs
  <2>2. est \in EstType /\ rtt \in Int
    BY DelayAssumption DEF DInv
  <2>3. est' \in EstType
    BY <2>1, <2>2 DEF EstType
  <2>4. /\ est'.window = est.window /\ SameDelay(est, est')
        /\ est'.effectiveMin = est.effectiveMin
    BY <2>1, <2>2 DEF EstType, SameDelay
  <2>5. UNCHANGED <<adaptive, now, level>>
    BY <2>1
  <2> QED
    BY <2>3, <2>4, <2>5
    DEF DInv, Untouched, WithinLimits, Slow, CoversWindow, SameDelay
<1>2. CASE ResetEstimator
  <2>1. est' = Fresh(est.rtt) /\ level' = 0 /\ UNCHANGED <<adaptive, now>>
    BY <1>2 DEF ResetEstimator
  <2>2. /\ est'.window = <<>> /\ est'.lastObserve = None
        /\ est'.remainder = 0 /\ est'.target = TargetDelayMs
    BY <2>1 DEF Fresh
  <2>3. est' \in EstType
    <3>1. 0 \in Remainders
      BY DEF Remainders
    <3>2. <<>> \in Seq(Sample) /\ <<>> \in Seq(Int)
      BY EmptySeq
    <3>3. TargetDelayMs \in Int /\ Lower \in Int /\ None \in Int /\ est.rtt \in Int
      BY DelayAssumption, LimitsInOrder DEF None, DInv, EstType
    <3> QED
      BY <2>1, <3>1, <3>2, <3>3 DEF EstType, Fresh
  <2>4. Slow' /\ Untouched' /\ WithinLimits' /\ CoversWindow'
    BY <2>1, <2>2, DelayAssumption DEF Slow, Untouched, WithinLimits, CoversWindow
  <2>5. level' \in Int /\ now' \in Nat /\ adaptive' \in BOOLEAN
    BY <2>1 DEF DInv
  <2> QED
    BY <2>2, <2>3, <2>4, <2>5 DEF DInv
<1>3. CASE UNCHANGED estimatorVars
  BY <1>3 DEF estimatorVars, DInv, Untouched, WithinLimits, Slow, CoversWindow
<1> QED
  BY <1>1, <1>2, <1>3

\* The invariant is inductive.
LEMMA DelayInvariance == EstimatorSpec => []DInv
<1>1. DInv /\ [EstimatorNext]_estimatorVars => DInv'
  BY ObserveKeeps, OtherStepsKeep DEF EstimatorNext
<1> QED
  BY <1>1, DelayInit, PTL DEF EstimatorSpec

-----------------------------------------------------------------------------
(* The theorems.                                                           *)

\* WithinLimits: after a frame the delay and its lower limit are within the limits of
\* the configuration, whatever the time stamps and the round trips do.
THEOREM DelayIsLimited == EstimatorSpec => []WithinLimits
<1>1. DInv => WithinLimits
  BY DEF DInv
<1> QED
  BY <1>1, DelayInvariance, PTL

\* FallsSlowly: over any number of frames the delay falls no faster than
\* DownRateMsPerSec allows, up to one millisecond; the rounding does not add up.
THEOREM DelayFallsSlowly == EstimatorSpec => []FallsSlowly
<1>1. DInv => FallsSlowly
  <2> SUFFICES ASSUME DInv, adaptive, DownRateMsPerSec > 0
               PROVE  level - 1000 * est.target < 1000
    BY DEF FallsSlowly
  <2>1. est.target \in Int /\ est.remainder \in Nat /\ level \in Int
    BY DEF DInv, EstType, Remainders
  <2>2. level + est.remainder < 1000 * est.target + 1000
    BY DEF DInv, Slow
  <2> QED
    BY <2>1, <2>2
<1> QED
  BY <1>1, DelayInvariance, PTL

\* CoversWindow: a delay below the upper limit covers the order statistic of the window
\* that DelayPercentile selects.
THEOREM DelayCovers == EstimatorSpec => []CoversWindow
<1>1. DInv => CoversWindow
  BY DEF DInv
<1> QED
  BY <1>1, DelayInvariance, PTL

-----------------------------------------------------------------------------
(* Fec.                                                                    *)

\* A datagram is a source port and a packet, and nothing else.
IsDatagram(d) == d = [port |-> d.port, packet |-> d.packet]

\* What the packets of a sender are that have been sent.
SentBy(D, port) == {d.packet : d \in {x \in D : x.port = port}}

\* The invariant of the decoder.
RecentInv ==
    /\ \A d \in data : IsDatagram(d)
    /\ recent \in Seq(SentBy(data, peer))
    /\ RecentPackets = 0 => recent = <<>>

\* The packets at hand are packets of the peer, put into words of the property.
LEMMA RecentInvIsProperty == RecentInv => RecentIsOfPeer
<1> SUFFICES ASSUME RecentInv, NEW i \in DOMAIN recent
             PROVE  [port |-> peer, packet |-> recent[i]] \in data
  BY DEF RecentIsOfPeer
<1>1. recent \in Seq(SentBy(data, peer)) /\ \A d \in data : IsDatagram(d)
  BY DEF RecentInv
<1>2. i \in 1 .. Len(recent)
  BY <1>1, LenProperties
<1>3. recent[i] \in SentBy(data, peer)
  BY <1>1, <1>2, ElementOfSeq
<1>4. PICK d \in data : d.port = peer /\ recent[i] = d.packet
  BY <1>3 DEF SentBy
<1>5. d = [port |-> d.port, packet |-> d.packet]
  BY <1>1 DEF IsDatagram
<1> QED
  BY <1>4, <1>5

\* More has been sent, and the receiver is where it was.
LEMMA SentGrows ==
    ASSUME RecentInv, data \subseteq data', \A d \in data' : IsDatagram(d),
           UNCHANGED <<peer, recent>>
    PROVE  RecentInv'
<1>1. SentBy(data, peer) \subseteq SentBy(data', peer)
  BY DEF SentBy
<1>2. recent \in Seq(SentBy(data', peer))
  BY <1>1 DEF RecentInv
<1> QED
  BY <1>2 DEF RecentInv

\* The last so many entries of a list are entries of it.
LEMMA LastEntries ==
    ASSUME NEW S, NEW s \in Seq(S), NEW k \in Nat, k > 0
    PROVE  SubSeq(s, Max({1, Len(s) - k + 1}), Len(s)) \in Seq(S)
<1> DEFINE n == Len(s)
           j == (n - k) + 1
           m == Max({1, j})
<1>1. n \in Nat /\ j \in Int
  BY LenProperties
<1> HIDE DEF n, j
<1>2. m \in {1, j} /\ m >= 1
  <2>1. \E x \in {1, j} : \A y \in {1, j} : x >= y
    BY <1>1
  <2>2. m \in {1, j} /\ \A y \in {1, j} : m >= y
    BY <2>1 DEF Max
  <2> QED
    BY <2>2
<1> HIDE DEF m
<1>3. m \in Int /\ m >= 1
  BY <1>1, <1>2
<1>4. SubSeq(s, m, n) \in Seq(S)
  <2>1. \A i \in m .. n : s[i] \in S
    <3> TAKE i \in m .. n
    <3>1. i \in 1 .. n
      BY <1>1, <1>3
    <3> QED
      BY <3>1, ElementOfSeq DEF n
  <2> QED
    BY <1>1, <1>3, <2>1, SubSeqProperties DEF n
<1> QED
  BY <1>1, <1>4 DEF m, j, n

\* onDataPacket() keeps to one sender.
LEMMA DecoderKeepsToPeer ==
    ASSUME RecentInv, ReceiveData
    PROVE  RecentInv'
<1>1. PICK d \in data :
          /\ peer' = d.port
          /\ recent' = IF RecentPackets = 0 THEN recent
                       ELSE onDataPacket(RecentOf(d.port), d.packet)
          /\ UNCHANGED <<sender, data, fecs, recovered, retransmits>>
  BY DEF ReceiveData
<1>2. /\ recent \in Seq(SentBy(data, peer)) /\ d.packet \in SentBy(data, d.port)
      /\ RecentPackets \in Nat
  BY FecAssumption DEF RecentInv, SentBy
<1>3. CASE RecentPackets = 0
  <2>1. recent' = <<>>
    BY <1>1, <1>3 DEF RecentInv
  <2>2. <<>> \in Seq(SentBy(data', peer'))
    OBVIOUS
  <2> QED
    BY <1>1, <2>1, <2>2 DEF RecentInv
<1>4. CASE RecentPackets # 0
  <2> DEFINE S == SentBy(data, d.port)
             r == RecentOf(d.port)
             all == Append(r, d.packet)
  <2>1. r \in Seq(S)
    <3>1. CASE peer = d.port
      <4>1. r = recent
        BY <3>1 DEF RecentOf
      <4> QED
        BY <1>2, <3>1, <4>1
    <3>2. CASE peer # d.port
      <4>1. r = <<>>
        BY <3>2 DEF RecentOf
      <4> HIDE DEF S
      <4> QED
        BY <4>1
    <3> QED
      BY <3>1, <3>2
  <2>2. all \in Seq(S)
    BY <1>2, <2>1, AppendProperties
  <2>3. recent' = SubSeq(all, Max({1, Len(all) - RecentPackets + 1}), Len(all))
    BY <1>1, <1>4 DEF onDataPacket
  <2> HIDE DEF all, S
  <2>4. recent' \in Seq(S)
    <3>1. RecentPackets \in Nat /\ RecentPackets > 0
      BY <1>2, <1>4
    <3>2. SubSeq(all, Max({1, Len(all) - RecentPackets + 1}), Len(all)) \in Seq(S)
      BY <2>2, <3>1, LastEntries
    <3> QED
      BY <2>3, <3>2
  <2> QED
    BY <1>1, <1>4, <2>4 DEF RecentInv, S
<1> QED
  BY <1>3, <1>4

\* Every step of the sender, the network and the receiver.
LEMMA RecentNext == RecentInv /\ [FecNext]_fecVars => RecentInv'
<1> SUFFICES ASSUME RecentInv, [FecNext]_fecVars PROVE RecentInv'
  OBVIOUS
<1>1. \A d \in data : IsDatagram(d)
  BY DEF RecentInv
<1>2. CASE SendFrame
  <2>1. PICK sent : data' = data \cup From(sender.port, sent) /\ UNCHANGED <<peer, recent>>
    BY <1>2 DEF SendFrame
  <2>2. \A d \in From(sender.port, sent) : IsDatagram(d)
    BY DEF From, IsDatagram
  <2> QED
    BY <1>1, <2>1, <2>2, SentGrows
<1>3. CASE Retransmit
  <2>1. PICK d \in data : /\ data' = data \cup {[d EXCEPT !.packet.retransmit = TRUE]}
                          /\ UNCHANGED <<peer, recent>>
    BY <1>3 DEF Retransmit
  <2> DEFINE e == [d EXCEPT !.packet.retransmit = TRUE]
  <2>2. IsDatagram(e)
    <3>1. d = [port |-> d.port, packet |-> d.packet]
      BY <1>1 DEF IsDatagram
    <3> DEFINE a == d.port
               b == d.packet
               c == [b EXCEPT !.retransmit = TRUE]
    <3>2. e = [d EXCEPT !.packet = c]
      OBVIOUS
    <3> HIDE DEF a, b, c, e
    <3>3. d = [port |-> a, packet |-> b]
      BY <3>1 DEF a, b
    <3>4. e = [port |-> a, packet |-> c]
      BY <3>2, <3>3
    <3> QED
      BY <3>4 DEF IsDatagram
  <2> HIDE DEF e
  <2>3. data' = data \cup {e}
    BY <2>1 DEF e
  <2> QED
    BY <1>1, <2>1, <2>2, <2>3, SentGrows
<1>4. CASE Restart \/ ReceiveFec \/ UNCHANGED fecVars
  BY <1>1, <1>4, SentGrows DEF Restart, ReceiveFec, fecVars
<1>5. CASE ReceiveData
  BY <1>5, DecoderKeepsToPeer
<1> QED
  BY <1>2, <1>3, <1>4, <1>5 DEF FecNext

\* trackPeer() and onDataPacket(): whatever FecDecoder holds was sent by the present peer.
THEOREM DecoderHoldsItsPeer == FecSpec => []RecentIsOfPeer
<1>1. FecInit => RecentInv
  BY DEF FecInit, RecentInv
<1> QED
  BY <1>1, RecentNext, RecentInvIsProperty, PTL DEF FecSpec

-----------------------------------------------------------------------------
(* Fec: the packets of a sender.                                           *)

LEMMA FecConstants ==
    /\ MaxPayload \in Nat \ {0} /\ SeqMod \in Nat \ {0}
    /\ GroupSize \in Nat /\ MinGroupSize \in Nat /\ MinGroupSize >= 2 /\ RecentPackets \in Nat
    /\ FirstSeq \in Nat /\ FirstSeq < SeqMod /\ Lengths \in Seq(Nat \ {0})
    /\ SentBefore[Len(Lengths)] <= SeqMod
  BY PacketizerAssumption, SeqAssumption, FecAssumption, FecStreamAssumption, LapAssumption

\* What has not been sent before slice i is there to be sent.
LEMMA SliceBounds ==
    ASSUME NEW len \in Nat \ {0}
    PROVE  /\ fragmentCount(len) \in Nat \ {0}
           /\ \A i \in 0 .. fragmentCount(len) - 1 : i * MaxPayload \in Nat /\ i * MaxPayload < len
<1> DEFINE m == MaxPayload
           q == len \div m
           r == len % m
           n == fragmentCount(len)
<1>1. m \in Nat \ {0}
  BY FecConstants
<1>2. q \in Nat /\ r \in Nat /\ r < m /\ len = q * m + r
  BY <1>1
<1>3. n = q + (IF r # 0 THEN 1 ELSE 0)
  BY DEF fragmentCount
<1> HIDE DEF m, q, r, n
<1>4. r = 0 => q # 0
  BY <1>1, <1>2
<1>5. n \in Nat \ {0}
  BY <1>2, <1>3, <1>4
<1>6. ASSUME NEW i \in 0 .. n - 1 PROVE i * m \in Nat /\ i * m < len
  <2>1. i \in Nat /\ i * m \in Nat
    BY <1>1, <1>5
  <2>2. CASE r # 0
    <3>1. q - i \in Nat
      BY <1>2, <1>3, <1>5, <2>2
    <3>2. (q - i) * m \in Nat
      BY <1>1, <3>1
    <3>3. (q - i) * m = q * m - i * m
      BY <1>1, <1>2, <2>1
    <3>4. q * m \in Nat
      BY <1>1, <1>2
    <3> QED
      BY <1>2, <2>1, <2>2, <3>2, <3>3, <3>4
  <2>3. CASE r = 0
    <3>1. (q - 1) - i \in Nat
      BY <1>2, <1>3, <1>5, <2>3
    <3>2. ((q - 1) - i) * m \in Nat
      BY <1>1, <3>1
    <3>3. ((q - 1) - i) * m = (q * m - m) - i * m
      BY <1>1, <1>2, <2>1
    <3>4. q * m \in Nat
      BY <1>1, <1>2
    <3> QED
      BY <1>1, <1>2, <2>1, <2>3, <3>2, <3>3, <3>4
  <2> QED
    BY <2>2, <2>3
<1> QED
  BY <1>5, <1>6 DEF m, n

\* The slices of frame k.
Slices(k) == fragmentCount(Lengths[k + 1])

LEMMA SlicesType ==
    /\ Len(Lengths) \in Nat
    /\ \A k \in 0 .. Len(Lengths) - 1 : Lengths[k + 1] \in Nat \ {0} /\ Slices(k) \in Nat \ {0}
<1>1. Lengths \in Seq(Nat \ {0}) /\ Len(Lengths) \in Nat
  BY FecConstants, LenProperties
<1>2. ASSUME NEW k \in 0 .. Len(Lengths) - 1
      PROVE  Lengths[k + 1] \in Nat \ {0} /\ Slices(k) \in Nat \ {0}
  <2>1. k + 1 \in 1 .. Len(Lengths)
    BY <1>1
  <2>2. Lengths[k + 1] \in Nat \ {0}
    BY <1>1, <2>1, ElementOfSeq
  <2> QED
    BY <2>2, SliceBounds DEF Slices
<1> QED
  BY <1>1, <1>2

\* How SentBefore adds up.
LEMMA SentRec ==
    /\ SentBefore \in [0 .. Len(Lengths) -> Nat] /\ SentBefore[0] = 0
    /\ \A k \in 1 .. Len(Lengths) : SentBefore[k] = SentBefore[k - 1] + Slices(k - 1)
<1> DEFINE n == Len(Lengths)
           c(k) == fragmentCount(Lengths[k])
           step == [x \in (1 .. n) \X Nat |-> x[2] + c(x[1])]
           Rec(f) == f = [k \in 0 .. n |-> IF k = 0 THEN 0 ELSE f[k - 1] + c(k)]
<1>1. n \in Nat /\ \A k \in 1 .. n : c(k) \in Nat /\ c(k) = Slices(k - 1)
  <2>1. n \in Nat
    BY SlicesType
  <2>2. ASSUME NEW k \in 1 .. n PROVE c(k) \in Nat /\ c(k) = Slices(k - 1)
    <3>1. k - 1 \in 0 .. n - 1 /\ (k - 1) + 1 = k
      BY <2>1
    <3>2. Slices(k - 1) \in Nat
      BY <3>1, SlicesType
    <3> QED
      BY <3>1, <3>2 DEF Slices
  <2> QED
    BY <2>1, <2>2
<1>4. SentBefore = CHOOSE f : Rec(f)
  BY DEF SentBefore
<1> HIDE DEF n, c
<1>2. step \in [(1 .. n) \X Nat -> Nat]
  BY <1>1
<1>3. \A k \in 1 .. n, x \in Nat : step[<<k, x>>] = x + c(k)
  OBVIOUS
<1> HIDE DEF step
<1>5. PICK g \in [0 .. n -> Nat] : Follows(g, 0, step, n)
  <2>1. 0 \in Nat
    OBVIOUS
  <2> QED
    BY <1>1, <1>2, <2>1, RecursionExists
<1>6. ASSUME NEW k \in 1 .. n
      PROVE  k - 1 \in 0 .. n /\ g[k] = g[k - 1] + c(k)
  <2>1. k - 1 \in 0 .. n
    BY <1>1
  <2>2. g[k - 1] \in Nat
    BY <1>5, <2>1
  <2> QED
    BY <1>3, <1>5, <2>1, <2>2 DEF Follows
<1>7. Rec(g)
  BY <1>1, <1>5, <1>6 DEF Follows
<1>8. Rec(SentBefore)
  BY <1>4, <1>7
<1>9. SentBefore[0] = 0 /\ \A k \in 1 .. n : SentBefore[k] = SentBefore[k - 1] + c(k)
  BY <1>1, <1>8
<1>10. \A k \in 0 .. n : SentBefore[k] = g[k]
  <2>1. SentBefore[0] = g[0] /\ GoAlike(SentBefore, g, n)
    BY <1>5, <1>6, <1>9 DEF Follows, GoAlike
  <2> QED
    BY <1>1, <2>1, SameRecursion
<1>11. SentBefore = g
  BY <1>5, <1>8, <1>10
<1>12. \A k \in 1 .. n : SentBefore[k] = SentBefore[k - 1] + Slices(k - 1)
  BY <1>1, <1>9
<1> QED
  BY <1>5, <1>9, <1>11, <1>12 DEF n

\* It grows from frame to frame.
LEMMA SentGrowing ==
    \A k \in 0 .. Len(Lengths) : \A i \in 0 .. k : SentBefore[i] <= SentBefore[k]
<1> DEFINE n == Len(Lengths)
           S == {k \in 0 .. n : \A i \in 0 .. k : SentBefore[i] <= SentBefore[k]}
<1>1. n \in Nat /\ \A k \in 1 .. n : Slices(k - 1) \in Nat
  <2>1. \A k \in 1 .. n : k - 1 \in 0 .. n - 1
    BY SlicesType
  <2> QED
    BY <2>1, SlicesType
<1>2. /\ \A k \in 0 .. n : SentBefore[k] \in Nat
      /\ \A k \in 1 .. n : SentBefore[k] = SentBefore[k - 1] + Slices(k - 1)
  BY SentRec
<1> HIDE DEF n
<1>3. 0 \in S
  BY <1>1, <1>2
<1>4. ASSUME NEW k \in 1 .. n, k - 1 \in S PROVE k \in S
  <2>1. k - 1 \in 0 .. n /\ k \in 0 .. n
    BY <1>1
  <2>2. SentBefore[k - 1] <= SentBefore[k]
    BY <1>1, <1>2, <2>1
  <2>3. ASSUME NEW i \in 0 .. k PROVE SentBefore[i] <= SentBefore[k]
    <3>1. CASE i = k
      BY <1>2, <2>1, <3>1
    <3>2. CASE i # k
      <4>1. i \in 0 .. k - 1 /\ i \in 0 .. n
        BY <1>1, <2>1, <3>2
      <4>2. SentBefore[i] <= SentBefore[k - 1]
        BY <1>4, <4>1
      <4> QED
        BY <1>2, <2>1, <2>2, <4>1, <4>2
    <3> QED
      BY <3>1, <3>2
  <2> QED
    BY <2>1, <2>3
<1>5. \A k \in 0 .. n : k \in S
  BY <1>1, <1>3, <1>4, InitialInduction
<1> QED
  BY <1>5 DEF n

\* Where the numbers of a sender begin.
Origin(port) == IF port = 1 THEN FirstSeq ELSE 0

\* The number of slice j of frame k before it is taken modulo SeqMod.
Place(port, k, j) == Origin(port) + SentBefore[k] + j

\* The frame and the slice as they were sent first.
View(port, k) == [frame |-> <<port, k>>, len |-> Lengths[k + 1], ts |-> k, key |-> k = 0]

Original(port, k, j) ==
    Wire(Fragment(View(port, k), Place(port, k, j) % SeqMod, j, Slices(k), FALSE))

\* The slices there are.
IsSlice(k, j) == k \in 0 .. Len(Lengths) - 1 /\ j \in 0 .. Slices(k) - 1

\* A copy of a packet.
Copy(p, r) == [p EXCEPT !.retransmit = r]

LEMMA OriginalFields ==
    ASSUME NEW port, NEW k, NEW j, IsSlice(k, j)
    PROVE  LET o == Original(port, k, j)
           IN  /\ o = [seq |-> Place(port, k, j) % SeqMod, ts |-> k, frame |-> <<port, k>>,
                       idx |-> j, count |-> Slices(k), key |-> k = 0, retransmit |-> FALSE,
                       len |-> o.len, payload |-> o.payload]
               /\ o.len \in 1 .. MaxPayload
               /\ \A b \in o.payload : b[1] \in 0 .. o.len - 1
<1> DEFINE v == View(port, k)
           s == Place(port, k, j) % SeqMod
           from == j * MaxPayload
           rest == v.len - from
           len == Min({MaxPayload, rest})
           pay == {<<i, <<v.frame, from + i>>>> : i \in 0 .. len - 1}
           o == Original(port, k, j)
<1>1. MaxPayload \in Nat \ {0} /\ k \in 0 .. Len(Lengths) - 1 /\ j \in 0 .. Slices(k) - 1
  BY FecConstants DEF IsSlice
<1>2. v.len \in Nat \ {0} /\ Slices(k) = fragmentCount(v.len)
  BY <1>1, SlicesType DEF View, Slices
<1>3. from \in Nat /\ rest \in Nat \ {0}
  <2> DEFINE size == v.len
  <2>1. size \in Nat \ {0} /\ j \in 0 .. fragmentCount(size) - 1
    BY <1>1, <1>2
  <2> HIDE DEF size
  <2>2. from \in Nat /\ from < size
    BY <2>1, SliceBounds
  <2> HIDE DEF from
  <2> QED
    BY <2>1, <2>2 DEF size
<1>4. o = [seq |-> s, ts |-> v.ts, frame |-> v.frame, idx |-> j, count |-> Slices(k),
           key |-> v.key, retransmit |-> FALSE, len |-> len, payload |-> pay]
  BY DEF Original, Wire, Fragment
<1>5. v.ts = k /\ v.frame = <<port, k>> /\ v.key = (k = 0)
  BY DEF View
<1> HIDE DEF v, s, from, rest
<1>6. len \in 1 .. MaxPayload
  <2>1. \E x \in {MaxPayload, rest} : \A y \in {MaxPayload, rest} : x <= y
    BY <1>1, <1>3
  <2>2. len \in {MaxPayload, rest} /\ \A y \in {MaxPayload, rest} : len <= y
    BY <2>1 DEF Min
  <2> QED
    BY <1>1, <1>3, <2>2
<1> HIDE DEF len
<1>7. ASSUME NEW b \in pay PROVE b[1] \in 0 .. len - 1
  <2>1. PICK i \in 0 .. len - 1 : b = <<i, <<v.frame, from + i>>>>
    OBVIOUS
  <2> QED
    BY <2>1
<1> HIDE DEF pay, o
<1>8. o.len = len /\ o.payload = pay
  BY <1>4
<1> QED
  BY <1>4, <1>5, <1>6, <1>7, <1>8 DEF o, s

\* The numbers of the packets of a sender, which lie within one round of them.
LEMMA PlaceBounds ==
    ASSUME NEW port, NEW k, NEW j, IsSlice(k, j)
    PROVE  /\ Origin(port) \in Nat /\ SentBefore[k] \in Nat /\ j \in Nat
           /\ Place(port, k, j) \in Nat
           /\ Origin(port) <= Place(port, k, j)
           /\ Place(port, k, j) < Origin(port) + SentBefore[k + 1]
           /\ SentBefore[k + 1] \in Nat /\ SentBefore[k + 1] <= SeqMod
           /\ Slices(k) <= SeqMod
<1> DEFINE n == Len(Lengths)
<1>1. n \in Nat /\ k \in 0 .. n - 1 /\ j \in 0 .. Slices(k) - 1 /\ Slices(k) \in Nat \ {0}
  BY SlicesType DEF IsSlice
<1>2. k \in 0 .. n /\ k + 1 \in 1 .. n /\ (k + 1) - 1 = k /\ k + 1 \in 0 .. n
  BY <1>1
<1>3. SentBefore[k] \in Nat /\ SentBefore[k + 1] \in Nat /\ SentBefore[n] \in Nat
  BY <1>1, <1>2, SentRec, SMTT(60)
<1>4. SentBefore[k + 1] = SentBefore[k] + Slices(k)
  BY <1>2, SentRec
<1>5. SentBefore[k + 1] <= SentBefore[n] /\ SentBefore[n] <= SeqMod
  BY <1>1, <1>2, SentGrowing, FecConstants, SMTT(60)
<1>6. Origin(port) \in Nat /\ SeqMod \in Nat
  BY FecConstants DEF Origin
<1> HIDE DEF n
<1> QED
  BY <1>1, <1>3, <1>4, <1>5, <1>6 DEF Place

\* Each has one place.
LEMMA OnePlace ==
    ASSUME NEW port, NEW k, NEW j, IsSlice(k, j), NEW i, NEW h, IsSlice(i, h),
           Place(port, k, j) = Place(port, i, h)
    PROVE  k = i /\ j = h
<1>1. ASSUME NEW a, NEW b, NEW c, NEW d, IsSlice(a, b), IsSlice(c, d), a < c
      PROVE  Place(port, a, b) < Place(port, c, d)
  <2>1. /\ Origin(port) \in Nat /\ Place(port, a, b) < Origin(port) + SentBefore[a + 1]
        /\ SentBefore[a + 1] \in Nat /\ Place(port, a, b) \in Nat
    BY <1>1, PlaceBounds
  <2>2. SentBefore[c] \in Nat /\ d \in Nat
    BY <1>1, PlaceBounds
  <2>3. SentBefore[a + 1] <= SentBefore[c]
    <3>1. c \in 0 .. Len(Lengths) /\ a + 1 \in 0 .. c
      BY <1>1, SlicesType DEF IsSlice
    <3> QED
      BY <3>1, SentGrowing
  <2> QED
    BY <2>1, <2>2, <2>3 DEF Place
<1>2. k \in Nat /\ i \in Nat
  BY SlicesType DEF IsSlice
<1>3. Place(port, k, j) \in Nat /\ Place(port, i, h) \in Nat
  BY PlaceBounds
<1>4. k = i
  <2>1. ~(k < i) /\ ~(i < k)
    BY <1>1, <1>3
  <2> QED
    BY <1>2, <2>1
<1>5. j \in Nat /\ h \in Nat /\ Origin(port) \in Nat /\ SentBefore[k] \in Nat
  BY PlaceBounds
<1> QED
  BY <1>4, <1>5 DEF Place

-----------------------------------------------------------------------------
(* Fec: which packets the decoder takes for members of a group.            *)

\* A group of size slices from slice a on, and the sequence number of its first.
Base0(port, k, a) == Place(port, k, a) % SeqMod

\* The decoder takes a packet of the sender for a member exactly if it is one: less
\* than a round of the numbers is about, so that the remainders tell them apart.
LEMMA InGroup ==
    ASSUME NEW port, NEW k, NEW a, NEW size \in Nat \ {0}, IsSlice(k, a),
           IsSlice(k, a + size - 1), NEW i, NEW h, IsSlice(i, h)
    PROVE  LET off == (Base0(port, i, h) - Base0(port, k, a)) % SeqMod
           IN  /\ off < size => i = k /\ h = a + off
               /\ i = k /\ h \in a .. a + size - 1 => off = h - a /\ off < size
<1> DEFINE m == SeqMod
           p == Place(port, i, h)
           b == Place(port, k, a)
           off == ((p % m) - (b % m)) % m
           o == Origin(port)
<1>1. m \in Nat \ {0}
  BY FecConstants
<1>2. /\ a \in Nat /\ SentBefore[k] \in Nat /\ o \in Nat /\ b \in Nat /\ o <= b
  BY PlaceBounds
<1>3. /\ h \in Nat /\ SentBefore[i] \in Nat /\ p \in Nat /\ o <= p
  BY PlaceBounds
<1>4. /\ Place(port, k, a + size - 1) = b + (size - 1)
      /\ b + (size - 1) < o + m
  <2>1. Place(port, k, a + size - 1) < o + SentBefore[k + 1]
        /\ SentBefore[k + 1] \in Nat /\ SentBefore[k + 1] <= m
    BY PlaceBounds
  <2>2. Place(port, k, a + size - 1) = b + (size - 1)
    BY <1>2 DEF Place
  <2> HIDE DEF o, b, m
  <2> QED
    BY <1>1, <1>2, <2>1, <2>2
<1>5. p < o + m
  <2>1. p < o + SentBefore[i + 1] /\ SentBefore[i + 1] \in Nat /\ SentBefore[i + 1] <= m
    BY PlaceBounds
  <2> HIDE DEF o, p, m
  <2> QED
    BY <1>1, <1>2, <1>3, <2>1
<1>6. p = o + SentBefore[i] + h /\ b = o + SentBefore[k] + a
  BY DEF Place
<1>7. off = IF p >= b THEN p - b ELSE (p - b) + m
  <2> HIDE DEF p, b, m, o
  <2>1. CASE p >= b
    <3>1. p \in Int /\ b \in Int /\ p - b \in 0 .. m - 1
      BY <1>1, <1>2, <1>3, <1>5, <2>1
    <3>2. off = p - b
      BY <1>1, <3>1, UnsignedDistance
    <3> QED
      BY <2>1, <3>2
  <2>2. CASE ~(p >= b)
    <3> DEFINE q == p + m
    <3>1. q \in Int /\ b \in Int /\ q - b \in 0 .. m - 1 /\ q - b = (p - b) + m
      BY <1>1, <1>2, <1>3, <1>4, <2>2
    <3>2. q % m = p % m
      <4> DEFINE d == p \div m
                 r == p % m
      <4>1. d \in Int /\ r \in 0 .. m - 1 /\ p = d * m + r
        BY <1>1, <1>3
      <4> HIDE DEF d, r
      <4>2. q = (d + 1) * m + r /\ d + 1 \in Int
        BY <1>1, <4>1
      <4>3. ((d + 1) * m + r) % m = r
        BY <1>1, <4>1, <4>2, UniqueRemainder
      <4> QED
        BY <4>2, <4>3 DEF r
    <3> HIDE DEF q
    <3>3. ((q % m) - (b % m)) % m = q - b
      BY <1>1, <3>1, UnsignedDistance
    <3> QED
      BY <2>2, <3>1, <3>2, <3>3
  <2> QED
    BY <2>1, <2>2
<1> HIDE DEF off, p, b, m, o
<1>8. ASSUME off < size PROVE i = k /\ h = a + off
  <2>1. p >= b /\ p = b + off /\ off \in Nat
    BY <1>1, <1>2, <1>3, <1>4, <1>7, <1>8
  <2>2. IsSlice(k, a + off) /\ Place(port, k, a + off) = p
    <3>1. a + off \in Nat /\ a + off <= a + size - 1
      BY <1>2, <1>8, <2>1
    <3>2. k \in 0 .. Len(Lengths) - 1 /\ a + size - 1 \in 0 .. Slices(k) - 1
          /\ Slices(k) \in Nat
      BY SlicesType DEF IsSlice
    <3>3. a + off \in 0 .. Slices(k) - 1
      BY <1>2, <3>1, <3>2
    <3>4. Place(port, k, a + off) = p
      BY <1>2, <1>6, <2>1 DEF Place, o
    <3> QED
      BY <3>2, <3>3, <3>4 DEF IsSlice
  <2> QED
    BY <2>2, OnePlace DEF p
<1>9. ASSUME i = k, h \in a .. a + size - 1 PROVE off = h - a /\ off < size
  BY <1>2, <1>3, <1>6, <1>7, <1>9
<1> QED
  BY <1>8, <1>9 DEF off, p, b, m, Base0

-----------------------------------------------------------------------------
(* Fec: XOR.                                                               *)

\* What occurs an odd number of times.
LEMMA XorOdd ==
    ASSUME NEW f, IsFiniteSet(DOMAIN f), NEW x
    PROVE  x \in Xor(f) <=> Cardinality({m \in DOMAIN f : x \in f[m]}) % 2 = 1
<1> DEFINE S == {m \in DOMAIN f : x \in f[m]}
<1>1. ASSUME Cardinality(S) % 2 = 1 PROVE x \in UNION {f[m] : m \in DOMAIN f}
  <2>1. S # {}
    <3> HIDE DEF S
    <3>1. Cardinality({}) = 0
      BY FS_EmptySet
    <3>2. Cardinality({}) % 2 = 0
      BY <3>1
    <3> QED
      BY <1>1, <3>2
  <2> QED
    BY <2>1
<1> QED
  BY <1>1 DEF Xor

\* XOR over a group and over all of it but q leaves q.
LEMMA XorLeaves ==
    ASSUME NEW f, IsFiniteSet(DOMAIN f), NEW q \in DOMAIN f, NEW n \in Nat,
           NEW at \in [1 .. n -> DOMAIN f],
           \A a, b \in 1 .. n : at[a] = at[b] => a = b,
           \A p \in DOMAIN f : p # q <=> \E a \in 1 .. n : at[a] = p,
           NEW g, DOMAIN g = 0 .. n, g[0] = Xor(f), \A a \in 1 .. n : g[a] = f[at[a]]
    PROVE  Xor(g) = f[q]
<1> SUFFICES ASSUME NEW x PROVE x \in Xor(g) <=> x \in f[q]
  OBVIOUS
<1> DEFINE All == {p \in DOMAIN f : x \in f[p]}
           Others == {p \in DOMAIN f : p # q /\ x \in f[p]}
           A == {a \in 1 .. n : x \in f[at[a]]}
           B == {a \in 0 .. n : x \in g[a]}
<1>1. IsFiniteSet(A) /\ IsFiniteSet(Others) /\ IsFiniteSet(0 .. n)
  <2>1. IsFiniteSet(1 .. n) /\ IsFiniteSet(0 .. n)
    BY FS_Interval
  <2> QED
    BY <2>1, FS_Subset
<1>2. Cardinality(A) = Cardinality(Others) /\ Cardinality(A) \in Nat
  <2> DEFINE F == [a \in A |-> at[a]]
  <2>1. \A a \in A : a \in 1 .. n /\ x \in f[at[a]] /\ at[a] \in DOMAIN f /\ at[a] # q
    OBVIOUS
  <2>2. \A p \in Others : \E a \in A : at[a] = p
    OBVIOUS
  <2>3. F \in [A -> Others]
    BY <2>1
  <2>4. \A a, b \in A : F[a] = F[b] => a = b
    BY <2>1
  <2>5. \A p \in Others : \E a \in A : F[a] = p
    BY <2>2
  <2> HIDE DEF F, A, Others
  <2>6. ExistsBijection(A, Others)
    BY <2>3, <2>4, <2>5 DEF ExistsBijection, Bijection, Injection, Surjection, IsInjective
  <2> QED
    BY <1>1, <2>6, FS_Bijection, FS_CardinalityType
<1> DEFINE c == Cardinality(A)
<1>3. Cardinality(All) = IF x \in f[q] THEN c + 1 ELSE c
  <2>1. CASE x \in f[q]
    <3>1. All = Others \cup {q} /\ q \notin Others
      BY <2>1
    <3> HIDE DEF All, Others
    <3> QED
      BY <1>1, <1>2, <2>1, <3>1, FS_AddElement
  <2>2. CASE x \notin f[q]
    <3>1. All = Others
      BY <2>2
    <3> QED
      BY <1>2, <2>2, <3>1
  <2> QED
    BY <2>1, <2>2
<1>4. Cardinality(B) = IF x \in g[0] THEN c + 1 ELSE c
  <2>0. 0 .. n = {0} \cup 1 .. n /\ 0 \notin 1 .. n
    OBVIOUS
  <2>1. CASE x \in g[0]
    <3>1. B = A \cup {0} /\ 0 \notin A
      BY <2>0, <2>1
    <3> HIDE DEF A, B
    <3> QED
      BY <1>1, <2>1, <3>1, FS_AddElement
  <2>2. CASE x \notin g[0]
    <3>1. B = A
      BY <2>0, <2>2
    <3> QED
      BY <2>2, <3>1
  <2> QED
    BY <2>1, <2>2
<1>5. x \in g[0] <=> Cardinality(All) % 2 = 1
  BY XorOdd
<1>6. x \in Xor(g) <=> Cardinality(B) % 2 = 1
  BY <1>1, XorOdd
<1> HIDE DEF All, Others, A, B, c
<1>7. c \in Nat
  BY <1>2 DEF c
<1>8. (c + 1) % 2 = 1 <=> c % 2 # 1
  BY <1>7
<1> QED
  BY <1>3, <1>4, <1>5, <1>6, <1>8

\* How the halves of a number go on.
LEMMA HalvesRec ==
    ASSUME NEW n \in Nat
    PROVE  /\ \A k \in 0 .. MaxPayload : Halves(n)[k] \in Nat
           /\ Halves(n)[0] = n
           /\ \A k \in 1 .. MaxPayload : Halves(n)[k] = Halves(n)[k - 1] \div 2
<1> DEFINE M == MaxPayload
           step == [x \in (1 .. M) \X Nat |-> x[2] \div 2]
           Rec(f) == f = [k \in 0 .. M |-> IF k = 0 THEN n ELSE f[k - 1] \div 2]
           half == CHOOSE f : Rec(f)
<1>1. M \in Nat
  BY FecConstants
<1>2. Halves(n) = half
  BY DEF Halves, LenBits
<1> HIDE DEF M
<1>3. step \in [(1 .. M) \X Nat -> Nat]
  OBVIOUS
<1>4. \A k \in 1 .. M, x \in Nat : step[<<k, x>>] = x \div 2
  OBVIOUS
<1> HIDE DEF step
<1>5. PICK g \in [0 .. M -> Nat] : Follows(g, n, step, M)
  BY <1>1, <1>3, RecursionExists
<1>6. ASSUME NEW k \in 1 .. M PROVE k - 1 \in 0 .. M /\ g[k] = g[k - 1] \div 2
  <2>1. k - 1 \in 0 .. M
    BY <1>1
  <2>2. g[k - 1] \in Nat
    BY <1>5, <2>1
  <2> QED
    BY <1>4, <1>5, <2>1, <2>2 DEF Follows
<1>7. Rec(g)
  BY <1>1, <1>5, <1>6 DEF Follows
<1>8. Rec(half)
  BY <1>7
<1> HIDE DEF half
<1>9. half[0] = n /\ \A k \in 1 .. M : half[k] = half[k - 1] \div 2
  BY <1>1, <1>8
<1>10. \A k \in 0 .. M : half[k] = g[k]
  <2>1. half[0] = g[0] /\ GoAlike(half, g, M)
    BY <1>5, <1>6, <1>9 DEF Follows, GoAlike
  <2> QED
    BY <1>1, <2>1, SameRecursion
<1> QED
  BY <1>2, <1>5, <1>9, <1>10 DEF M

\* There are enough of them.
LEMMA LastHalf ==
    ASSUME NEW n \in 0 .. 2 * MaxPayload
    PROVE  Halves(n)[MaxPayload] \in {0, 1}
<1> DEFINE M == MaxPayload
           h == Halves(n)
           S == {k \in 0 .. M : k = 0 \/ h[k] <= (M + 1) - k}
<1>1. M \in Nat \ {0} /\ n \in Nat /\ n <= 2 * M
  BY FecConstants
<1>2. /\ \A k \in 0 .. M : h[k] \in Nat
      /\ h[0] = n /\ \A k \in 1 .. M : h[k] = h[k - 1] \div 2
  BY <1>1, HalvesRec
<1> HIDE DEF M, h
<1>3. 0 \in S
  BY <1>1
<1>4. ASSUME NEW k \in 1 .. M, k - 1 \in S PROVE k \in S
  <2>1. k - 1 \in 0 .. M /\ k \in 0 .. M
    BY <1>1
  <2>2. h[k] = h[k - 1] \div 2 /\ h[k - 1] \in Nat
    BY <1>2, <2>1
  <2>3. CASE k = 1
    <3>1. h[k - 1] = n
      BY <1>2, <2>3
    <3>2. h[k] <= M
      BY <1>1, <2>2, <3>1
    <3> QED
      BY <1>1, <2>1, <2>3, <3>2
  <2>4. CASE k # 1
    <3>1. h[k - 1] <= (M + 1) - (k - 1)
      BY <1>1, <1>4, <2>4
    <3>2. h[k] <= (M + 1) - k
      BY <1>1, <2>2, <2>4, <3>1
    <3> QED
      BY <2>1, <3>2
  <2> QED
    BY <2>3, <2>4
<1>5. M \in S
  <2>1. \A k \in 0 .. M : k \in S
    BY <1>1, <1>3, <1>4, InitialInduction
  <2> QED
    BY <1>1, <2>1
<1> QED
  BY <1>1, <1>2, <1>5 DEF M, h

\* Numbers with the same digits are the same.
LEMMA DigitsTell ==
    ASSUME NEW a \in 0 .. 2 * MaxPayload, NEW b \in 0 .. 2 * MaxPayload, Digits(a) = Digits(b)
    PROVE  a = b
<1> DEFINE M == MaxPayload
           g == Halves(a)
           h == Halves(b)
           S == {j \in 0 .. M : g[M - j] = h[M - j]}
<1>1. M \in Nat \ {0} /\ a \in Nat /\ b \in Nat
  BY FecConstants
<1>2. /\ \A k \in 0 .. M : g[k] \in Nat /\ h[k] \in Nat
      /\ g[0] = a /\ h[0] = b
      /\ \A k \in 1 .. M : g[k] = g[k - 1] \div 2 /\ h[k] = h[k - 1] \div 2
  BY <1>1, HalvesRec
<1>3. g[M] \in {0, 1} /\ h[M] \in {0, 1}
  BY LastHalf
<1>4. \A k \in 0 .. M : g[k] % 2 = 1 <=> h[k] % 2 = 1
  BY DEF Digits, LenBits
<1> HIDE DEF M, g, h
<1>5. 0 \in S
  <2>1. M \in 0 .. M /\ M - 0 = M
    BY <1>1
  <2> QED
    BY <1>3, <1>4, <2>1
<1>6. ASSUME NEW j \in 1 .. M, j - 1 \in S PROVE j \in S
  <2> DEFINE k == M - j
  <2>1. k \in 0 .. M /\ k + 1 \in 1 .. M /\ k + 1 = M - (j - 1) /\ (k + 1) - 1 = k
    BY <1>1
  <2> HIDE DEF k
  <2>2. g[k + 1] = h[k + 1]
    BY <1>6, <2>1
  <2>3. g[k] \div 2 = h[k] \div 2 /\ g[k] \in Nat /\ h[k] \in Nat
    BY <1>2, <2>1, <2>2
  <2>4. g[k] % 2 = 1 <=> h[k] % 2 = 1
    BY <1>4, <2>1
  <2>5. g[k] = h[k]
    BY <2>3, <2>4
  <2> QED
    BY <1>1, <2>5 DEF k
<1>7. M \in S
  <2>1. \A k \in 0 .. M : k \in S
    BY <1>1, <1>5, <1>6, InitialInduction
  <2> QED
    BY <1>1, <2>1
<1>8. M - M = 0
  BY <1>1
<1> QED
  BY <1>2, <1>7, <1>8

LEMMA NumberOfDigits ==
    ASSUME NEW n \in 0 .. MaxPayload
    PROVE  Number(Digits(n)) = n
<1>1. n \in 0 .. 2 * MaxPayload
  BY FecConstants
<1> DEFINE ds == Digits(n)
           x == Number(ds)
<1>2. x \in 0 .. 2 * MaxPayload /\ Digits(x) = ds
  BY <1>1 DEF Number
<1> QED
  BY <1>1, <1>2, DigitsTell

-----------------------------------------------------------------------------
(* Fec: the members at hand.                                               *)

\* The first entries of the buffer, as far as they are of a group.
Selected(recent0, fec, n) ==
    {recent0[i] : i \in {j \in 1 .. n : Offset(recent0[j], fec) < fec.size}}

\* A list of the members among the first n entries: no number twice, none left out.
Lists(s, recent0, fec, n) ==
    /\ \A a, b \in DOMAIN s : s[a].seq = s[b].seq => a = b
    /\ \A a \in DOMAIN s : s[a] \in Selected(recent0, fec, n)
    /\ \A p \in Selected(recent0, fec, n) : \E a \in DOMAIN s : s[a].seq = p.seq

LEMMA MembersAreListed ==
    ASSUME NEW P, NEW r \in Seq(P), NEW fec
    PROVE  Members(r, fec) \in Seq(P) /\ Lists(Members(r, fec), r, fec, Len(r))
<1> DEFINE A == Seq(P)
           n == Len(r)
           Takes(i) == /\ Offset(r[i], fec) < fec.size
                       /\ ~\E j \in 1 .. i - 1 : r[j].seq = r[i].seq
           Next1(x, i) == IF Takes(i) THEN Append(x, r[i]) ELSE x
           step == [x \in (1 .. n) \X A |-> Next1(x[2], x[1])]
           Rec(f) == f = [i \in 0 .. n |-> IF i = 0 THEN <<>> ELSE Next1(f[i - 1], i)]
           found == CHOOSE f : Rec(f)
<1>1. n \in Nat /\ <<>> \in A /\ \A i \in 1 .. n : r[i] \in P
  BY LenProperties, ElementOfSeq
<1>2. ASSUME NEW x \in A, NEW i \in 1 .. n PROVE Next1(x, i) \in A
  BY <1>1, AppendProperties
<1>3. Members(r, fec) = found[n]
  <2>1. Rec(found) <=> found = [i \in 0 .. n |-> IF i = 0 THEN <<>>
                                  ELSE IF Takes(i) THEN Append(found[i - 1], r[i])
                                  ELSE found[i - 1]]
    OBVIOUS
  <2> QED
    BY DEF Members
<1>4. step \in [(1 .. n) \X A -> A]
  BY <1>2
<1>5. \A i \in 1 .. n, x \in A : step[<<i, x>>] = Next1(x, i)
  OBVIOUS
<1> HIDE DEF n, step, A, Next1
<1>6. PICK g \in [0 .. n -> A] : Follows(g, <<>>, step, n)
  BY <1>1, <1>4, RecursionExists
<1>7. ASSUME NEW i \in 1 .. n PROVE i - 1 \in 0 .. n /\ g[i] = Next1(g[i - 1], i)
  <2>1. i - 1 \in 0 .. n
    BY <1>1
  <2>2. g[i - 1] \in A
    BY <1>6, <2>1
  <2> QED
    BY <1>5, <1>6, <2>1, <2>2 DEF Follows
<1>8. Rec(g)
  BY <1>1, <1>6, <1>7 DEF Follows
<1>9. Rec(found)
  BY <1>8
<1> HIDE DEF found
<1>10. found[0] = <<>> /\ \A i \in 1 .. n : found[i] = Next1(found[i - 1], i)
  BY <1>1, <1>9
<1>11. \A i \in 0 .. n : found[i] = g[i]
  <2>1. found[0] = g[0] /\ GoAlike(found, g, n)
    BY <1>6, <1>7, <1>10 DEF Follows, GoAlike
  <2> QED
    BY <1>1, <2>1, SameRecursion
<1> DEFINE S == {i \in 0 .. n : Lists(found[i], r, fec, i)}
<1>12. 0 \in S
  <2>1. Lists(<<>>, r, fec, 0)
    BY DEF Lists, Selected
  <2> QED
    BY <1>1, <1>10, <2>1
<1>13. ASSUME NEW i \in 1 .. n, i - 1 \in S PROVE i \in S
  <2> DEFINE old == found[i - 1]
             k == Len(old)
  <2>1. i - 1 \in 0 .. n /\ i \in 0 .. n /\ old \in Seq(P)
    BY <1>1, <1>6, <1>11 DEF A
  <2>2. Lists(old, r, fec, i - 1) /\ found[i] = Next1(old, i)
    BY <1>10, <1>13
  <2>3. k \in Nat /\ DOMAIN old = 1 .. k
    BY <2>1, LenProperties
  <2> HIDE DEF old, k
  <2>4. Selected(r, fec, i) = Selected(r, fec, i - 1) \cup
           (IF Offset(r[i], fec) < fec.size THEN {r[i]} ELSE {})
    <3>1. 1 .. i = 1 .. i - 1 \cup {i}
      BY <1>1
    <3> QED
      BY <3>1 DEF Selected
  <2>5. CASE Takes(i)
    <3> DEFINE s == Append(old, r[i])
    <3>1. /\ DOMAIN s = 1 .. k + 1 /\ s[k + 1] = r[i] /\ \A a \in 1 .. k : s[a] = old[a]
      <4>1. Len(s) = k + 1 /\ s[k + 1] = r[i] /\ \A a \in 1 .. k : s[a] = old[a]
            /\ s \in Seq(P)
        BY <1>1, <2>1, AppendProperties DEF k
      <4> HIDE DEF s
      <4> QED
        BY <4>1, LenProperties
    <3> HIDE DEF s
    <3>2. \A p \in Selected(r, fec, i - 1) : p.seq # r[i].seq
      BY <2>5 DEF Selected
    <3>3. Lists(s, r, fec, i)
      <4>1. \A a \in 1 .. k : s[a] \in Selected(r, fec, i - 1)
        BY <2>2, <2>3, <3>1 DEF Lists
      <4>2. ASSUME NEW a \in DOMAIN s, NEW b \in DOMAIN s, s[a].seq = s[b].seq PROVE a = b
        <5>1. CASE a \in 1 .. k /\ b \in 1 .. k
          BY <2>2, <2>3, <3>1, <4>2, <5>1 DEF Lists
        <5>2. CASE a = k + 1 /\ b \in 1 .. k
          BY <3>1, <3>2, <4>1, <4>2, <5>2
        <5>3. CASE b = k + 1 /\ a \in 1 .. k
          BY <3>1, <3>2, <4>1, <4>2, <5>3
        <5> QED
          BY <2>3, <3>1, <5>1, <5>2, <5>3
      <4>3. \A a \in DOMAIN s : s[a] \in Selected(r, fec, i)
        <5>1. \A a \in DOMAIN s : a \in 1 .. k \/ a = k + 1
          BY <2>3, <3>1
        <5> QED
          BY <2>4, <2>5, <3>1, <4>1, <5>1
      <4>4. \A p \in Selected(r, fec, i) : \E a \in DOMAIN s : s[a].seq = p.seq
        <5>1. k + 1 \in DOMAIN s /\ \A a \in 1 .. k : a \in DOMAIN s
          BY <2>3, <3>1
        <5>2. \A p \in Selected(r, fec, i - 1) : \E a \in 1 .. k : s[a].seq = p.seq
          BY <2>2, <2>3, <3>1 DEF Lists
        <5> QED
          BY <2>4, <3>1, <5>1, <5>2
      <4> QED
        BY <4>2, <4>3, <4>4 DEF Lists
    <3>4. found[i] = s
      BY <2>2, <2>5 DEF Next1, s
    <3> QED
      BY <2>1, <3>3, <3>4
  <2>6. CASE ~Takes(i)
    <3>1. found[i] = old
      BY <2>2, <2>6 DEF Next1
    <3>2. \A p \in Selected(r, fec, i) :
             \E o \in Selected(r, fec, i - 1) : o.seq = p.seq
      <4> SUFFICES ASSUME Offset(r[i], fec) < fec.size
                   PROVE  \E o \in Selected(r, fec, i - 1) : o.seq = r[i].seq
        BY <2>4
      <4>1. PICK j \in 1 .. i - 1 : r[j].seq = r[i].seq
        BY <2>6
      <4>2. Offset(r[j], fec) < fec.size
        BY <4>1 DEF Offset
      <4> QED
        BY <4>1, <4>2 DEF Selected
    <3>3. Lists(old, r, fec, i)
      BY <2>2, <2>4, <3>2 DEF Lists
    <3> QED
      BY <2>1, <3>1, <3>3
  <2> QED
    BY <2>5, <2>6
<1>14. \A i \in 0 .. n : i \in S
  BY <1>1, <1>12, <1>13, InitialInduction
<1>15. n \in 0 .. n /\ found[n] \in A
  BY <1>1, <1>6, <1>11
<1> QED
  BY <1>3, <1>14, <1>15 DEF A, n

-----------------------------------------------------------------------------
(* Fec: what is recovered.                                                 *)

\* A packet that the sender has sent, first or again.
IsCopy(p, port) ==
    \E i \in Nat, h \in Nat, t \in BOOLEAN :
        IsSlice(i, h) /\ p = Copy(Original(port, i, h), t)

\* The FEC packet of the slices of frame k from a on.
GroupOf(port, k, a, size) == {Original(port, k, j) : j \in a .. a + size - 1}

ParityOf(port, k, a, size) ==
    LET G == GroupOf(port, k, a, size)
    IN  [base    |-> Base0(port, k, a),
         size    |-> size,
         lenXor  |-> Xor([p \in G |-> Digits(p.len)]),
         room    |-> Max({p.len : p \in G}),
         payload |-> Xor([p \in G |-> p.payload])]

IsGroup(k, a, size) ==
    /\ k \in Nat /\ a \in Nat /\ size \in Nat /\ size >= 2
    /\ IsSlice(k, a) /\ IsSlice(k, a + size - 1)

LEMMA GroupSlices ==
    ASSUME NEW k, NEW a, NEW size, IsGroup(k, a, size), NEW j \in a .. a + size - 1
    PROVE  IsSlice(k, j) /\ j \in Nat
<1>1. Slices(k) \in Nat /\ k \in 0 .. Len(Lengths) - 1
  BY SlicesType DEF IsGroup, IsSlice
<1> QED
  BY <1>1 DEF IsGroup, IsSlice

\* The fields of a copy.
LEMMA CopyFields ==
    ASSUME NEW port, NEW k, NEW j, IsSlice(k, j), NEW t
    PROVE  LET o == Original(port, k, j)
               p == Copy(o, t)
           IN  /\ p = [seq |-> Base0(port, k, j), ts |-> k, frame |-> <<port, k>>,
                       idx |-> j, count |-> Slices(k), key |-> k = 0, retransmit |-> t,
                       len |-> o.len, payload |-> o.payload]
               /\ p.seq = Base0(port, k, j) /\ p.idx = j /\ p.count = Slices(k)
               /\ p.len = o.len /\ p.payload = o.payload /\ p.retransmit = t
               /\ o.seq = Base0(port, k, j) /\ o.idx = j
               /\ o.len \in 1 .. MaxPayload
               /\ \A b \in o.payload : b[1] \in 0 .. o.len - 1
<1> DEFINE o == Original(port, k, j)
           p == Copy(o, t)
           s == Place(port, k, j) % SeqMod
           len == o.len
           pay == o.payload
<1>1. /\ o = [seq |-> s, ts |-> k, frame |-> <<port, k>>,
                 idx |-> j, count |-> Slices(k), key |-> k = 0, retransmit |-> FALSE,
                 len |-> len, payload |-> pay]
      /\ len \in 1 .. MaxPayload
      /\ \A b \in pay : b[1] \in 0 .. len - 1
  BY OriginalFields
<1>2. p = [o EXCEPT !.retransmit = t]
  BY DEF Copy
<1>3. s = Base0(port, k, j)
  BY DEF Base0
<1> HIDE DEF o, p, s, len, pay
<1>4. p = [seq |-> s, ts |-> k, frame |-> <<port, k>>,
           idx |-> j, count |-> Slices(k), key |-> k = 0, retransmit |-> t,
           len |-> len, payload |-> pay]
  BY <1>1, <1>2
<1>5. /\ p.seq = s /\ p.idx = j /\ p.count = Slices(k) /\ p.len = len /\ p.payload = pay
      /\ p.retransmit = t
  BY <1>4
<1>6. o.seq = s /\ o.idx = j /\ o.len = len /\ o.payload = pay
  BY <1>1
<1> QED
  BY <1>1, <1>3, <1>4, <1>5, <1>6 DEF o, p

\* What the decoder takes for a member is a copy of a slice of the group.
LEMMA MemberOfGroup ==
    ASSUME NEW port, NEW k, NEW a, NEW size, IsGroup(k, a, size), NEW p, IsCopy(p, port),
           Offset(p, ParityOf(port, k, a, size)) < size
    PROVE  /\ p.idx \in a .. a + size - 1
           /\ p.retransmit \in BOOLEAN
           /\ p = Copy(Original(port, k, p.idx), p.retransmit)
           /\ IsSlice(k, p.idx)
<1>1. PICK i \in Nat, h \in Nat, t \in BOOLEAN :
          IsSlice(i, h) /\ p = Copy(Original(port, i, h), t)
  BY DEF IsCopy
<1>2. p.seq = Base0(port, i, h) /\ p.idx = h /\ p.retransmit = t
  BY <1>1, CopyFields
<1> DEFINE off == (Base0(port, i, h) - Base0(port, k, a)) % SeqMod
<1>3. off < size
  BY <1>2 DEF Offset, ParityOf
<1>4. i = k /\ h = a + off
  BY <1>1, <1>3, InGroup DEF IsGroup
<1>5. off \in Nat
  <2>1. Base0(port, i, h) \in Int /\ Base0(port, k, a) \in Int /\ SeqMod \in Nat \ {0}
    BY <1>1, PlaceBounds, FecConstants, SMTT(60) DEF IsGroup, Base0
  <2> QED
    BY <2>1
<1>6. h \in a .. a + size - 1
  BY <1>3, <1>4, <1>5 DEF IsGroup
<1> QED
  BY <1>1, <1>2, <1>4, <1>6

\* The numbers of a group differ.
LEMMA NumbersDiffer ==
    ASSUME NEW port, NEW k, NEW a, NEW size, IsGroup(k, a, size),
           NEW i \in a .. a + size - 1, NEW h \in a .. a + size - 1,
           Base0(port, k, i) = Base0(port, k, h)
    PROVE  i = h
<1>1. ASSUME NEW x \in a .. a + size - 1
      PROVE  x \in Nat /\ (Base0(port, k, x) - Base0(port, k, a)) % SeqMod = x - a
  <2>1. IsSlice(k, x) /\ x \in Nat
    BY GroupSlices
  <2>2. size \in Nat \ {0} /\ IsSlice(k, a) /\ IsSlice(k, a + size - 1)
    BY DEF IsGroup
  <2> QED
    BY <2>1, <2>2, InGroup
<1>2. i - a = h - a
  BY <1>1
<1> QED
  BY <1>1, <1>2 DEF IsGroup

\* All but one of a set, without repetition, leave one out.
LEMMA OneIsMissing ==
    ASSUME NEW I, IsFiniteSet(I), NEW n \in Nat, Cardinality(I) = n + 1,
           NEW at \in [1 .. n -> I], \A b, c \in 1 .. n : at[b] = at[c] => b = c
    PROVE  \E q \in I : \A j \in I : j # q <=> \E b \in 1 .. n : at[b] = j
<1> DEFINE T == {at[b] : b \in 1 .. n}
<1>1. T \in SUBSET I
  OBVIOUS
<1>2. IsFiniteSet(T) /\ Cardinality(T) = n
  <2>1. IsFiniteSet(1 .. n) /\ Cardinality(1 .. n) = n
    BY FS_Interval
  <2>2. at \in [1 .. n -> T] /\ \A x \in T : \E b \in 1 .. n : at[b] = x
    OBVIOUS
  <2> HIDE DEF T
  <2>3. ExistsBijection(1 .. n, T)
    BY <2>2 DEF ExistsBijection, Bijection, Injection, Surjection, IsInjective
  <2> QED
    BY <2>1, <2>3, FS_Bijection
<1>3. \A j : j \in T <=> \E b \in 1 .. n : at[b] = j
  OBVIOUS
<1> HIDE DEF T
<1>4. PICK q \in I : q \notin T
  <2>1. I # T
    BY <1>2
  <2> QED
    BY <1>1, <2>1
<1>5. T \cup {q} \in SUBSET I /\ Cardinality(T \cup {q}) = n + 1
  BY <1>1, <1>2, <1>4, FS_AddElement
<1>6. I = T \cup {q}
  BY <1>5, FS_Subset
<1> QED
  BY <1>3, <1>4, <1>6

\* The largest of the lengths of a group.
LEMMA RoomBounds ==
    ASSUME NEW port, NEW k, NEW a, NEW size, IsGroup(k, a, size)
    PROVE  \A j \in a .. a + size - 1 :
              Original(port, k, j).len <= ParityOf(port, k, a, size).room
<1> DEFINE G == GroupOf(port, k, a, size)
           T == {p.len : p \in G}
<1>1. ASSUME NEW j \in a .. a + size - 1
      PROVE  Original(port, k, j).len \in 1 .. MaxPayload /\ Original(port, k, j).len \in T
  <2>1. Original(port, k, j).len \in 1 .. MaxPayload
    BY GroupSlices, CopyFields
  <2>2. Original(port, k, j) \in G
    BY DEF GroupOf
  <2> QED
    BY <2>1, <2>2
<1>2. T \subseteq 0 .. MaxPayload
  <2>1. \A p \in G : p.len \in 0 .. MaxPayload
    BY <1>1, FecConstants DEF GroupOf
  <2> QED
    BY <2>1
<1>3. T # {}
  <2>1. a \in a .. a + size - 1
    BY DEF IsGroup
  <2> QED
    BY <1>1, <2>1
<1> HIDE DEF T
<1>4. \A y \in T : Max(T) >= y
  <2>1. \E x \in T : \A y \in T : x >= y
    BY <1>2, <1>3, FecConstants, GreatestNatural
  <2> QED
    BY <2>1 DEF Max
<1>5. Max(T) \in T
  <2>1. \E x \in T : \A y \in T : x >= y
    BY <1>2, <1>3, FecConstants, GreatestNatural
  <2> QED
    BY <2>1 DEF Max
<1>6. ParityOf(port, k, a, size).room = Max(T)
  BY DEF ParityOf, T
<1>7. \A j \in a .. a + size - 1 : Original(port, k, j).len <= Max(T)
  BY <1>1, <1>2, <1>4, <1>5
<1> QED
  BY <1>6, <1>7

\* What takes the remainder out of a difference.
LEMMA RemainderOff ==
    ASSUME NEW m \in Nat \ {0}, NEW c \in Int, NEW y \in Int
    PROVE  (c - (y % m)) % m = (c - y) % m
<1> DEFINE p == y \div m
           r == y % m
           q == (c - y) \div m
           s == (c - y) % m
<1>1. /\ p \in Int /\ r \in 0 .. m - 1 /\ y = p * m + r
      /\ q \in Int /\ s \in 0 .. m - 1 /\ c - y = q * m + s
  OBVIOUS
<1> HIDE DEF p, r, q, s
<1>2. c - r = (q + p) * m + s
  <2>1. (q + p) * m = q * m + p * m /\ q * m \in Int /\ p * m \in Int
    BY <1>1
  <2> QED
    BY <1>1, <2>1
<1>3. q + p \in Int
  BY <1>1
<1>4. ((q + p) * m + s) % m = s
  BY <1>1, <1>3, UniqueRemainder
<1> QED
  BY <1>2, <1>4 DEF r, s

\* The place in the frame follows from the place of any other slice.
LEMMA IndexFollows ==
    ASSUME NEW port, NEW k, NEW i, NEW h, IsSlice(k, i), IsSlice(k, h)
    PROVE  (i + Base0(port, k, h) - Base0(port, k, i)) % SeqMod = h
<1> DEFINE m == SeqMod
           x == Place(port, k, h)
           y == Place(port, k, i)
           r == y % m
           d == i - r
<1>1. m \in Nat \ {0} /\ i \in Nat /\ h \in Nat /\ x \in Nat /\ y \in Nat
  BY PlaceBounds, FecConstants
<1>2. x - y = h - i
  <2>1. Origin(port) \in Nat /\ SentBefore[k] \in Nat
    BY PlaceBounds
  <2> QED
    BY <1>1, <2>1 DEF Place
<1>3. h \in 0 .. m - 1
  <2>1. k \in 0 .. Len(Lengths) - 1 /\ h \in 0 .. Slices(k) - 1 /\ Slices(k) \in Nat
    BY SlicesType DEF IsSlice
  <2>2. Slices(k) <= m
    BY PlaceBounds
  <2> HIDE DEF m
  <2> QED
    BY <1>1, <2>1, <2>2
<1> HIDE DEF x, y, m
<1>4. r \in Int /\ d \in Int
  BY <1>1
<1>5. x \in Int /\ y \in Int /\ x + i \in Int
  BY <1>1
<1>6. ((x % m) + d) % m = (x + d) % m
  BY <1>1, <1>4, <1>5, RemainderPlus
<1>7. ((x + i) - r) % m = ((x + i) - y) % m
  BY <1>1, <1>5, RemainderOff
<1>8. (x + i) - y = h
  BY <1>1, <1>2, <1>3
<1>9. h % m = h
  BY <1>1, <1>3, SmallRemainder
<1> DEFINE z == x % m
<1>10. z \in Int
  BY <1>1
<1> HIDE DEF r, z
<1>11. x + d = (x + i) - r /\ i + z - r = z + d
  BY <1>1, <1>4, <1>10
<1>12. (i + z - r) % m = h
  BY <1>6, <1>7, <1>8, <1>9, <1>11 DEF z
<1> QED
  BY <1>12 DEF z, r, x, y, m, Base0

\* All but one slice of a group are at hand: the members, each once.
AllButOne(ms, port, k, a, size) ==
    /\ ms \in Seq({ms[b] : b \in DOMAIN ms}) /\ Len(ms) = size - 1
    /\ \A b \in 1 .. size - 1 :
          /\ ms[b].idx \in a .. a + size - 1
          /\ ms[b].retransmit \in BOOLEAN
          /\ ms[b] = Copy(Original(port, k, ms[b].idx), ms[b].retransmit)
    /\ \A b, c \in 1 .. size - 1 : ms[b].seq = ms[c].seq => b = c

\* The slice that is not among them.
IsMissing(q, ms, a, size) ==
    /\ q \in a .. a + size - 1
    /\ \A j \in a .. a + size - 1 : j # q <=> \E b \in 1 .. size - 1 : ms[b].idx = j

\* What they have of their slices.
AsSent(ms, port, k, a, size) ==
    \A b \in 1 .. size - 1 :
        /\ IsSlice(k, ms[b].idx) /\ ms[b].idx \in a .. a + size - 1
        /\ ms[b].seq = Base0(port, k, ms[b].idx) /\ ms[b].count = Slices(k)
        /\ ms[b].len = Original(port, k, ms[b].idx).len
        /\ ms[b].payload = Original(port, k, ms[b].idx).payload

LEMMA MemberFields ==
    ASSUME NEW port, NEW k, NEW a, NEW size, IsGroup(k, a, size),
           NEW ms, AllButOne(ms, port, k, a, size)
    PROVE  AsSent(ms, port, k, a, size)
<1> SUFFICES ASSUME NEW b \in 1 .. size - 1
             PROVE  /\ IsSlice(k, ms[b].idx) /\ ms[b].idx \in a .. a + size - 1
                    /\ ms[b].seq = Base0(port, k, ms[b].idx) /\ ms[b].count = Slices(k)
                    /\ ms[b].len = Original(port, k, ms[b].idx).len
                    /\ ms[b].payload = Original(port, k, ms[b].idx).payload
  BY DEF AsSent
<1> DEFINE i == ms[b].idx
           t == ms[b].retransmit
<1>1. i \in a .. a + size - 1 /\ ms[b] = Copy(Original(port, k, i), t)
  BY DEF AllButOne
<1>2. IsSlice(k, i)
  BY <1>1, GroupSlices
<1> HIDE DEF i, t
<1>3. LET p == Copy(Original(port, k, i), t)
      IN  /\ p.seq = Base0(port, k, i) /\ p.count = Slices(k)
          /\ p.len = Original(port, k, i).len /\ p.payload = Original(port, k, i).payload
  BY <1>2, CopyFields
<1> QED
  BY <1>1, <1>2, <1>3 DEF i

LEMMA MissingExists ==
    ASSUME NEW port, NEW k, NEW a, NEW size, IsGroup(k, a, size),
           NEW ms, AllButOne(ms, port, k, a, size)
    PROVE  \E q \in a .. a + size - 1 : IsMissing(q, ms, a, size)
<1> DEFINE n == size - 1
           I == a .. a + size - 1
           at == [b \in 1 .. n |-> ms[b].idx]
<1>0. \A d \in 1 .. size - 1 : ms[d].seq = Base0(port, k, ms[d].idx)
  <2>1. AsSent(ms, port, k, a, size)
    BY MemberFields
  <2> QED
    BY <2>1 DEF AsSent
<1>1. n \in Nat /\ a \in Nat /\ size \in Nat /\ size >= 2
  BY DEF IsGroup
<1>2. IsFiniteSet(I) /\ Cardinality(I) = n + 1
  BY <1>1, FS_Interval
<1>3. at \in [1 .. n -> I]
  BY DEF AllButOne
<1>4. \A b, c \in 1 .. n : at[b] = at[c] => b = c
  <2> SUFFICES ASSUME NEW b \in 1 .. n, NEW c \in 1 .. n, ms[b].idx = ms[c].idx PROVE b = c
    OBVIOUS
  <2>2. ms[b].seq = ms[c].seq
    BY <1>0
  <2> QED
    BY <2>2 DEF AllButOne
<1>5. \A b \in 1 .. n : at[b] = ms[b].idx
  OBVIOUS
<1> HIDE DEF at, I
<1>6. PICK q \in I : \A j \in I : j # q <=> \E b \in 1 .. n : at[b] = j
  BY <1>1, <1>2, <1>3, <1>4, OneIsMissing, SMTT(60)
<1>7. IsMissing(q, ms, a, size)
  BY <1>5, <1>6 DEF IsMissing, I
<1> QED
  BY <1>6, <1>7 DEF I

\* g holds the XOR of f over a group, then what f assigns to each of the members.
SumsUp(g, f, ms, port, k, size) ==
    /\ DOMAIN g = 0 .. size - 1 /\ g[0] = Xor(f)
    /\ \A b \in 1 .. size - 1 : g[b] = f[Original(port, k, ms[b].idx)]

\* XOR gives back what belongs to the missing slice.
LEMMA GroupXor ==
    ASSUME NEW port, NEW k, NEW a, NEW size, IsGroup(k, a, size),
           NEW ms, AllButOne(ms, port, k, a, size), NEW q, IsMissing(q, ms, a, size),
           NEW f, DOMAIN f = GroupOf(port, k, a, size),
           NEW g, SumsUp(g, f, ms, port, k, size)
    PROVE  Xor(g) = f[Original(port, k, q)]
<1> DEFINE n == size - 1
           I == a .. a + size - 1
           G == GroupOf(port, k, a, size)
           O(j) == Original(port, k, j)
           at == [b \in 1 .. n |-> O(ms[b].idx)]
<1>0. \A d \in 1 .. size - 1 : ms[d].seq = Base0(port, k, ms[d].idx)
  <2>1. AsSent(ms, port, k, a, size)
    BY MemberFields
  <2> QED
    BY <2>1 DEF AsSent
<1>1. n \in Nat /\ a \in Int /\ a + size - 1 \in Int
  BY DEF IsGroup
<1>2. G = {O(j) : j \in I}
  BY DEF GroupOf
<1>3. \A j \in I : O(j).idx = j
  BY GroupSlices, CopyFields
<1>4. \A b \in 1 .. n : ms[b].idx \in I
  BY DEF AllButOne
<1>5. q \in I /\ \A j \in I : j # q <=> \E b \in 1 .. n : ms[b].idx = j
  BY DEF IsMissing
<1> HIDE DEF I, O
<1>6. IsFiniteSet(G)
  <2>1. IsFiniteSet(I)
    BY <1>1, FS_Interval DEF I
  <2> DEFINE F == [j \in I |-> O(j)]
  <2>2. F \in [I -> G] /\ \A p \in G : \E j \in I : F[j] = p
    BY <1>2
  <2> HIDE DEF F, G
  <2>3. F \in Surjection(I, G)
    BY <2>2 DEF Surjection
  <2> QED
    BY <2>1, <2>3, FS_Surjection
<1>7. O(q) \in G /\ at \in [1 .. n -> G]
  BY <1>2, <1>4, <1>5
<1>8. \A b \in 1 .. n : at[b] = O(ms[b].idx)
  OBVIOUS
<1> HIDE DEF at, G
<1>9. ASSUME NEW b \in 1 .. n, NEW c \in 1 .. n, at[b] = at[c] PROVE b = c
  <2>1. ms[b].idx = ms[c].idx
    BY <1>3, <1>4, <1>8, <1>9
  <2>2. ms[b].seq = ms[c].seq
    BY <1>0, <2>1
  <2> QED
    BY <2>2 DEF AllButOne
<1>10. ASSUME NEW p \in G PROVE p # O(q) <=> \E b \in 1 .. n : at[b] = p
  <2>1. PICK j \in I : p = O(j)
    BY <1>2
  <2>2. p # O(q) <=> j # q
    BY <1>3, <1>5, <2>1
  <2>3. ASSUME NEW b \in 1 .. n PROVE at[b] = p <=> ms[b].idx = j
    BY <1>3, <1>4, <1>8, <2>1
  <2> QED
    BY <1>5, <2>2, <2>3
<1>11. /\ DOMAIN f = G /\ DOMAIN g = 0 .. n /\ g[0] = Xor(f)
       /\ \A b \in 1 .. n : g[b] = f[at[b]]
  BY <1>8 DEF G, O, SumsUp
<1> HIDE DEF n
<1>12. Xor(g) = f[O(q)]
  <2> DEFINE o == O(q)
  <2>1. IsFiniteSet(DOMAIN f) /\ o \in DOMAIN f /\ at \in [1 .. n -> DOMAIN f] /\ n \in Nat
    BY <1>1, <1>6, <1>7, <1>11
  <2>2. \A b, c \in 1 .. n : at[b] = at[c] => b = c
    BY <1>9
  <2>4. \A p \in DOMAIN f : p # o <=> \E b \in 1 .. n : at[b] = p
    BY <1>10, <1>11
  <2>5. DOMAIN g = 0 .. n /\ g[0] = Xor(f)
    BY <1>11
  <2>6. \A b \in 1 .. n : g[b] = f[at[b]]
    BY <1>11
  <2> HIDE DEF o
  <2>3. Xor(g) = f[o]
    BY <2>1, <2>2, <2>4, <2>5, <2>6, XorLeaves, SMTT(60)
  <2> QED
    BY <2>3 DEF o
<1> QED
  BY <1>12 DEF O

\* The number that no member has is that of the missing slice.
LEMMA MissingNumber ==
    ASSUME NEW port, NEW k, NEW a, NEW size, IsGroup(k, a, size),
           NEW ms, AllButOne(ms, port, k, a, size), NEW q, IsMissing(q, ms, a, size)
    PROVE  MissingSeq(ms, ParityOf(port, k, a, size)) = Base0(port, k, q)
<1> DEFINE I == a .. a + size - 1
           N(j) == Base0(port, k, j)
           W == {(N(a) + o) % SeqMod : o \in 0 .. size - 1}
           Free(s) == \A i \in 1 .. size - 1 : ms[i].seq # s
<1>1. \A i \in 1 .. size - 1 : ms[i].seq = N(ms[i].idx) /\ ms[i].idx \in I
  <2>1. AsSent(ms, port, k, a, size)
    BY MemberFields
  <2> QED
    BY <2>1 DEF AsSent
<1>2. q \in I /\ \A j \in I : j # q <=> \E b \in 1 .. size - 1 : ms[b].idx = j
  BY DEF IsMissing
<1>3. \A i, h \in I : N(i) = N(h) => i = h
  BY NumbersDiffer
<1>4. W = {N(j) : j \in I}
  <2>1. ASSUME NEW o \in 0 .. size - 1 PROVE (N(a) + o) % SeqMod = N(a + o)
    <3> DEFINE x == Place(port, k, a)
    <3>1. x \in Nat /\ x \in Int /\ o \in Int /\ SeqMod \in Nat \ {0}
      BY PlaceBounds, FecConstants DEF IsGroup
    <3>2. Place(port, k, a + o) = x + o
      <4>1. Origin(port) \in Nat /\ SentBefore[k] \in Nat /\ a \in Nat
        BY PlaceBounds DEF IsGroup
      <4> QED
        BY <4>1 DEF Place
    <3> HIDE DEF x
    <3>3. ((x % SeqMod) + o) % SeqMod = (x + o) % SeqMod
      BY <3>1, RemainderPlus
    <3> QED
      BY <3>2, <3>3 DEF x, Base0
  <2>2. a \in Nat /\ size \in Nat
    BY DEF IsGroup
  <2> HIDE DEF N
  <2>3. \A o \in 0 .. size - 1 : a + o \in I
    BY <2>2
  <2>4. \A j \in I : j - a \in 0 .. size - 1 /\ a + (j - a) = j
    BY <2>2
  <2>5. W \subseteq {N(j) : j \in I}
    BY <2>1, <2>3
  <2>6. \A j \in I : N(j) \in W
    <3> TAKE j \in I
    <3> DEFINE o == j - a
    <3>1. o \in 0 .. size - 1 /\ a + o = j
      BY <2>4
    <3> HIDE DEF o, I
    <3>2. (N(a) + o) % SeqMod = N(j)
      BY <2>1, <3>1
    <3> QED
      BY <3>1, <3>2
  <2> QED
    BY <2>5, <2>6
<1>5. MissingSeq(ms, ParityOf(port, k, a, size)) = CHOOSE s \in W : Free(s)
  <2>1. DOMAIN ms = 1 .. size - 1
    BY LenProperties DEF AllButOne
  <2>2. ParityOf(port, k, a, size).base = N(a) /\ ParityOf(port, k, a, size).size = size
    BY DEF ParityOf
  <2> QED
    BY <2>1, <2>2 DEF MissingSeq
<1> HIDE DEF N, W, I
<1>6. N(q) \in W /\ Free(N(q))
  BY <1>1, <1>2, <1>3, <1>4
<1>7. ASSUME NEW s \in W, Free(s) PROVE s = N(q)
  <2>1. PICK j \in I : s = N(j)
    BY <1>4
  <2>2. j = q
    BY <1>1, <1>2, <1>7, <2>1
  <2> QED
    BY <2>1, <2>2
<1> HIDE DEF Free
<1>8. (CHOOSE s \in W : Free(s)) = N(q)
  BY <1>6, <1>7
<1> QED
  BY <1>5, <1>8 DEF N

\* The length by XOR.
LEMMA LengthComesBack ==
    ASSUME NEW port, NEW k, NEW a, NEW size, IsGroup(k, a, size),
           NEW ms, AllButOne(ms, port, k, a, size), NEW q, IsMissing(q, ms, a, size)
    PROVE  RecoveredLen(ms, ParityOf(port, k, a, size)) = Original(port, k, q).len
<1> DEFINE G == GroupOf(port, k, a, size)
           fec == ParityOf(port, k, a, size)
           f == [p \in G |-> Digits(p.len)]
           g == [i \in 0 .. Len(ms) |-> IF i = 0 THEN fec.lenXor ELSE Digits(ms[i].len)]
           O(j) == Original(port, k, j)
<1>1. Len(ms) = size - 1 /\ size \in Nat /\ size >= 2
  BY DEF AllButOne, IsGroup
<1>2. \A b \in 1 .. size - 1 : ms[b].idx \in a .. a + size - 1 /\ ms[b].len = O(ms[b].idx).len
  <2>1. AsSent(ms, port, k, a, size)
    BY MemberFields
  <2> QED
    BY <2>1 DEF AsSent
<1>3. \A j \in a .. a + size - 1 : O(j) \in G
  BY DEF GroupOf
<1>4. fec.lenXor = Xor(f)
  BY DEF ParityOf
<1>5. q \in a .. a + size - 1
  BY DEF IsMissing
<1>6. O(q).len \in 0 .. MaxPayload
  <2>1. IsSlice(k, q)
    BY <1>5, GroupSlices
  <2>2. O(q).len \in 1 .. MaxPayload
    BY <2>1, CopyFields
  <2> QED
    BY <2>2, FecConstants
<1> HIDE DEF G, fec, O
<1>7. DOMAIN f = G /\ \A p \in G : f[p] = Digits(p.len)
  OBVIOUS
<1>8. /\ DOMAIN g = 0 .. size - 1 /\ g[0] = fec.lenXor
      /\ \A b \in 1 .. size - 1 : g[b] = Digits(ms[b].len)
  BY <1>1
<1>9. RecoveredLen(ms, fec) = Number(Xor(g))
  BY DEF RecoveredLen
<1> HIDE DEF f, g
<1>10. SumsUp(g, f, ms, port, k, size)
  <2>1. ASSUME NEW b \in 1 .. size - 1 PROVE g[b] = f[O(ms[b].idx)]
    BY <1>2, <1>3, <1>7, <1>8
  <2> QED
    BY <1>4, <1>8, <2>1 DEF SumsUp, O
<1>11. Xor(g) = f[O(q)]
  BY <1>7, <1>10, GroupXor DEF G, O
<1>12. f[O(q)] = Digits(O(q).len)
  BY <1>3, <1>5, <1>7
<1>13. Number(Digits(O(q).len)) = O(q).len
  BY <1>6, NumberOfDigits
<1> QED
  BY <1>9, <1>11, <1>12, <1>13 DEF fec, O

\* The bytes by XOR.
LEMMA BytesComeBack ==
    ASSUME NEW port, NEW k, NEW a, NEW size, IsGroup(k, a, size),
           NEW ms, AllButOne(ms, port, k, a, size), NEW q, IsMissing(q, ms, a, size)
    PROVE  Xor([i \in 0 .. Len(ms) |->
                   IF i = 0 THEN ParityOf(port, k, a, size).payload ELSE ms[i].payload])
              = Original(port, k, q).payload
<1> DEFINE G == GroupOf(port, k, a, size)
           fec == ParityOf(port, k, a, size)
           f == [p \in G |-> p.payload]
           g == [i \in 0 .. Len(ms) |-> IF i = 0 THEN fec.payload ELSE ms[i].payload]
           O(j) == Original(port, k, j)
<1>1. Len(ms) = size - 1 /\ size \in Nat /\ size >= 2
  BY DEF AllButOne, IsGroup
<1>2. \A b \in 1 .. size - 1 :
          ms[b].idx \in a .. a + size - 1 /\ ms[b].payload = O(ms[b].idx).payload
  <2>1. AsSent(ms, port, k, a, size)
    BY MemberFields
  <2> QED
    BY <2>1 DEF AsSent
<1>3. \A j \in a .. a + size - 1 : O(j) \in G
  BY DEF GroupOf
<1>4. fec.payload = Xor(f)
  BY DEF ParityOf
<1>5. q \in a .. a + size - 1
  BY DEF IsMissing
<1> HIDE DEF G, fec, O
<1>7. DOMAIN f = G /\ \A p \in G : f[p] = p.payload
  OBVIOUS
<1>8. /\ DOMAIN g = 0 .. size - 1 /\ g[0] = fec.payload
      /\ \A b \in 1 .. size - 1 : g[b] = ms[b].payload
  BY <1>1
<1> HIDE DEF f, g
<1>10. SumsUp(g, f, ms, port, k, size)
  <2>1. ASSUME NEW b \in 1 .. size - 1 PROVE g[b] = f[O(ms[b].idx)]
    BY <1>2, <1>3, <1>7, <1>8
  <2> QED
    BY <1>4, <1>8, <2>1 DEF SumsUp, O
<1>11. Xor(g) = f[O(q)]
  BY <1>7, <1>10, GroupXor DEF G, O
<1>12. f[O(q)] = O(q).payload
  BY <1>3, <1>5, <1>7
<1>13. Xor(g) = O(q).payload
  BY <1>11, <1>12
<1> QED
  BY <1>13 DEF g, fec, O

\* The packet made from all the others is the missing one, with the flag of the first.
LEMMA RebuiltIsMissing ==
    ASSUME NEW port, NEW k, NEW a, NEW size, IsGroup(k, a, size),
           NEW ms, AllButOne(ms, port, k, a, size), NEW q, IsMissing(q, ms, a, size)
    PROVE  Rebuilt(ms, ParityOf(port, k, a, size))
              = Copy(Original(port, k, q), ms[1].retransmit)
<1> DEFINE fec == ParityOf(port, k, a, size)
           o == Original(port, k, q)
           i == ms[1].idx
           t == ms[1].retransmit
           s == Base0(port, k, q)
           xor == Xor([j \in 0 .. Len(ms) |->
                          IF j = 0 THEN fec.payload ELSE ms[j].payload])
<1>1. 1 \in 1 .. size - 1 /\ q \in a .. a + size - 1
  BY DEF IsGroup, IsMissing
<1>2. Head(ms) = ms[1]
  <2>1. ms # <<>> /\ ms \in Seq({ms[b] : b \in DOMAIN ms})
    BY <1>1, EmptySeq DEF AllButOne
  <2> QED
    BY <2>1, HeadTailProperties
<1>3. i \in a .. a + size - 1 /\ ms[1] = Copy(Original(port, k, i), t)
  BY <1>1 DEF AllButOne
<1>4. IsSlice(k, i) /\ IsSlice(k, q)
  BY <1>1, <1>3, GroupSlices
<1>5. MissingSeq(ms, fec) = s /\ RecoveredLen(ms, fec) = o.len /\ xor = o.payload
  BY MissingNumber, LengthComesBack, BytesComeBack
<1> DEFINE Made(h, sq, ln, bytes) ==
              [h EXCEPT !.seq = sq, !.idx = (@ + sq - h.seq) % SeqMod,
                        !.len = ln, !.payload = {b \in bytes : b[1] < ln}]
<1>6. Rebuilt(ms, fec) = Made(Head(ms), MissingSeq(ms, fec), RecoveredLen(ms, fec), xor)
  BY DEF Rebuilt
<1> HIDE DEF xor, fec, i, t
<1> DEFINE r == Original(port, k, i)
<1>7. ms[1] = [seq |-> Base0(port, k, i), ts |-> k, frame |-> <<port, k>>,
               idx |-> i, count |-> Slices(k), key |-> k = 0, retransmit |-> t,
               len |-> r.len, payload |-> r.payload]
  BY <1>3, <1>4, CopyFields
<1>8. /\ Copy(o, t) = [seq |-> s, ts |-> k, frame |-> <<port, k>>,
                       idx |-> q, count |-> Slices(k), key |-> k = 0, retransmit |-> t,
                       len |-> o.len, payload |-> o.payload]
      /\ \A b \in o.payload : b[1] \in 0 .. o.len - 1
      /\ o.len \in Nat
  BY <1>4, CopyFields
<1>9. (i + s - Base0(port, k, i)) % SeqMod = q
  BY <1>4, IndexFollows
<1> DEFINE m == ms[1]
           b0 == Base0(port, k, i)
           c == Slices(k)
           ln == o.len
           bytes == o.payload
           l0 == r.len
           p0 == r.payload
           isKey == (k = 0)
<1> HIDE DEF Made
<1>10. Rebuilt(ms, fec) = Made(m, s, ln, bytes)
  BY <1>2, <1>5, <1>6
<1>11. {b \in bytes : b[1] < ln} = bytes
  BY <1>8
<1> HIDE DEF m, b0, c, ln, bytes, l0, p0, isKey, s
<1>12. m = [seq |-> b0, ts |-> k, frame |-> <<port, k>>, idx |-> i, count |-> c,
            key |-> isKey, retransmit |-> t, len |-> l0, payload |-> p0]
  BY <1>7 DEF m, b0, c, l0, p0, isKey
<1>13. m.seq = b0 /\ m.idx = i
  BY <1>12
<1>14. (m.idx + s - m.seq) % SeqMod = q
  BY <1>9, <1>13 DEF b0
<1>15. Made(m, s, ln, bytes) =
          [m EXCEPT !.seq = s, !.idx = q, !.len = ln, !.payload = bytes]
  BY <1>11, <1>12, <1>14 DEF Made
<1>16. [m EXCEPT !.seq = s, !.idx = q, !.len = ln, !.payload = bytes] =
          [seq |-> s, ts |-> k, frame |-> <<port, k>>, idx |-> q, count |-> c,
           key |-> isKey, retransmit |-> t, len |-> ln, payload |-> bytes]
  <2> DEFINE x == [m EXCEPT !.seq = s]
             y == [x EXCEPT !.idx = q]
             z == [y EXCEPT !.len = ln]
  <2>1. [m EXCEPT !.seq = s, !.idx = q, !.len = ln, !.payload = bytes]
           = [z EXCEPT !.payload = bytes]
    OBVIOUS
  <2>2. x = [seq |-> s, ts |-> k, frame |-> <<port, k>>, idx |-> i, count |-> c,
             key |-> isKey, retransmit |-> t, len |-> l0, payload |-> p0]
    BY <1>12
  <2> HIDE DEF x
  <2>3. y = [seq |-> s, ts |-> k, frame |-> <<port, k>>, idx |-> q, count |-> c,
             key |-> isKey, retransmit |-> t, len |-> l0, payload |-> p0]
    BY <2>2
  <2> HIDE DEF y
  <2>4. z = [seq |-> s, ts |-> k, frame |-> <<port, k>>, idx |-> q, count |-> c,
             key |-> isKey, retransmit |-> t, len |-> ln, payload |-> p0]
    BY <2>3
  <2> HIDE DEF z
  <2> QED
    BY <2>1, <2>4
<1>17. Copy(o, t) = [seq |-> s, ts |-> k, frame |-> <<port, k>>, idx |-> q, count |-> c,
                     key |-> isKey, retransmit |-> t, len |-> ln, payload |-> bytes]
  BY <1>8 DEF s, c, isKey, ln, bytes
<1>18. Rebuilt(ms, fec) = Copy(o, t)
  BY <1>10, <1>15, <1>16, <1>17
<1> QED
  BY <1>18 DEF fec, t

\* The numbers of the packets of the group that are at hand.
Known(r, fec) == {s \in {r[i].seq : i \in DOMAIN r} : (s - fec.base) % SeqMod < fec.size}

\* There are as many members as numbers.
LEMMA MembersCounted ==
    ASSUME NEW P, NEW r \in Seq(P), NEW fec
    PROVE  Cardinality(Known(r, fec)) = Len(Members(r, fec))
<1> DEFINE ms == Members(r, fec)
           n == Len(ms)
           K == Known(r, fec)
           F == [b \in 1 .. n |-> ms[b].seq]
<1>1. ms \in Seq(P) /\ Lists(ms, r, fec, Len(r))
  BY MembersAreListed
<1>2. DOMAIN r = 1 .. Len(r) /\ DOMAIN ms = 1 .. n /\ n \in Nat
  BY <1>1, LenProperties
<1> HIDE DEF ms, n
<1>3. K = {p.seq : p \in Selected(r, fec, Len(r))}
  BY <1>2 DEF Known, Selected, Offset
<1> HIDE DEF K
<1>4. F \in [1 .. n -> K] /\ \A x \in K : \E b \in 1 .. n : F[b] = x
  BY <1>1, <1>2, <1>3 DEF Lists
<1>5. \A b, c \in 1 .. n : F[b] = F[c] => b = c
  BY <1>1, <1>2 DEF Lists
<1> HIDE DEF F
<1>6. ExistsBijection(1 .. n, K)
  BY <1>4, <1>5 DEF ExistsBijection, Bijection, Injection, Surjection, IsInjective
<1>7. IsFiniteSet(1 .. n) /\ Cardinality(1 .. n) = n
  BY <1>2, FS_Interval
<1> QED
  BY <1>6, <1>7, FS_Bijection DEF K, n, ms

\* If they are all but one, they are slices of the group.
LEMMA MembersAreSlices ==
    ASSUME NEW port, NEW k, NEW a, NEW size, IsGroup(k, a, size),
           NEW P, NEW r \in Seq(P), \A i \in DOMAIN r : IsCopy(r[i], port),
           Len(Members(r, ParityOf(port, k, a, size))) = size - 1
    PROVE  AllButOne(Members(r, ParityOf(port, k, a, size)), port, k, a, size)
<1> DEFINE fec == ParityOf(port, k, a, size)
           ms == Members(r, fec)
<1>1. ms \in Seq(P) /\ Lists(ms, r, fec, Len(r))
  BY MembersAreListed
<1>2. DOMAIN r = 1 .. Len(r) /\ DOMAIN ms = 1 .. size - 1 /\ fec.size = size
  BY <1>1, LenProperties DEF ParityOf
<1>3. ASSUME NEW b \in 1 .. size - 1
      PROVE  /\ ms[b].idx \in a .. a + size - 1
             /\ ms[b].retransmit \in BOOLEAN
             /\ ms[b] = Copy(Original(port, k, ms[b].idx), ms[b].retransmit)
  <2> DEFINE p == ms[b]
  <2>1. p \in Selected(r, fec, Len(r))
    BY <1>1, <1>2 DEF Lists
  <2> HIDE DEF p
  <2>2. IsCopy(p, port) /\ Offset(p, fec) < size
    BY <1>2, <2>1 DEF Selected
  <2>3. /\ p.idx \in a .. a + size - 1
        /\ p.retransmit \in BOOLEAN
        /\ p = Copy(Original(port, k, p.idx), p.retransmit)
    BY <2>2, MemberOfGroup
  <2> QED
    BY <2>3 DEF p
<1>4. \A b, c \in 1 .. size - 1 : ms[b].seq = ms[c].seq => b = c
  BY <1>1, <1>2 DEF Lists
<1>5. ms \in Seq({ms[b] : b \in DOMAIN ms})
  <2> HIDE DEF ms
  <2>1. ms \in [1 .. Len(ms) -> P] /\ Len(ms) \in Nat
    BY <1>1, LenProperties
  <2>2. ms \in [1 .. Len(ms) -> {ms[b] : b \in DOMAIN ms}]
    BY <2>1
  <2> QED
    BY <2>1, <2>2, SeqDef
<1> QED
  BY <1>3, <1>4, <1>5 DEF AllButOne

\* What the decoder recovers is a slice of the group as it was sent, and it recovers
\* one exactly if it has all the others.
LEMMA Recovery ==
    ASSUME RecentPackets > 0, NEW port, NEW k, NEW a, NEW size, IsGroup(k, a, size),
           NEW P, NEW r \in Seq(P), \A i \in DOMAIN r : IsCopy(r[i], port)
    PROVE  LET fec == ParityOf(port, k, a, size)
           IN  /\ \A p \in onFecPacket(r, fec) : \E q \in a .. a + size - 1, t \in BOOLEAN :
                      p = Copy(Original(port, k, q), t)
               /\ onFecPacket(r, fec) # {} <=> Cardinality(Known(r, fec)) = size - 1
<1> DEFINE fec == ParityOf(port, k, a, size)
           ms == Members(r, fec)
           Sent(p) == \E q \in a .. a + size - 1, t \in BOOLEAN : p = Copy(Original(port, k, q), t)
<1>1. fec.size = size
  BY DEF ParityOf
<1>2. Cardinality(Known(r, fec)) = Len(ms)
  BY MembersCounted
<1>3. CASE Len(ms) # size - 1
  BY <1>1, <1>2, <1>3 DEF onFecPacket
<1>4. CASE Len(ms) = size - 1
  <2>1. AllButOne(ms, port, k, a, size)
    BY <1>4, MembersAreSlices
  <2>2. AsSent(ms, port, k, a, size)
    BY <2>1, MemberFields
  <2>3. PICK q \in a .. a + size - 1 : IsMissing(q, ms, a, size)
    BY <2>1, MissingExists
  <2> DEFINE t == ms[1].retransmit
             p == Rebuilt(ms, fec)
  <2>4. p = Copy(Original(port, k, q), t)
    BY <2>1, <2>3, RebuiltIsMissing
  <2>5. t \in BOOLEAN
    BY <2>1 DEF AllButOne, IsGroup
  <2>6. IsSlice(k, q)
    BY GroupSlices
  <2>7. /\ p.len = Original(port, k, q).len /\ p.len \in 1 .. MaxPayload
        /\ p.idx = q /\ p.count = Slices(k)
    BY <2>4, <2>6, CopyFields
  <2>8. \A j \in a .. a + size - 1 : Original(port, k, j).len <= fec.room
    BY RoomBounds
  <2>9. \A b \in DOMAIN ms : ms[b].len <= fec.room
    <3>1. DOMAIN ms = 1 .. size - 1
      BY <2>1, LenProperties DEF AllButOne
    <3> HIDE DEF ms, fec
    <3> QED
      BY <2>2, <2>8, <3>1 DEF AsSent
  <2>10. p.len # 0 /\ p.len <= fec.room /\ p.idx < p.count
    <3>1. q < Slices(k)
      BY <2>6, SlicesType DEF IsSlice
    <3> HIDE DEF p, fec
    <3> QED
      BY <2>7, <2>8, <3>1, FecConstants
  <2> HIDE DEF p, ms, fec
  <2>11. onFecPacket(r, fec) = {p}
    BY <1>1, <1>4, <2>9, <2>10 DEF onFecPacket, p, ms
  <2>12. Sent(p)
    BY <2>4, <2>5
  <2> QED
    BY <1>2, <1>4, <2>11, <2>12 DEF fec
<1> QED
  BY <1>3, <1>4

-----------------------------------------------------------------------------
(* Fec: the sender.                                                        *)

\* Which numbers have the quotient of j.
LEMMA SameQuotient ==
    ASSUME NEW m \in Nat \ {0}, NEW j \in Nat, NEW i \in Nat
    PROVE  i \div m = j \div m <=> i \in (j \div m) * m .. (j \div m) * m + m - 1
<1> DEFINE g == j \div m
           p == i \div m
           r == i % m
<1>1. g \in Nat /\ p \in Nat /\ r \in 0 .. m - 1 /\ i = p * m + r
  OBVIOUS
<1> HIDE DEF g, p, r
<1>2. g * m \in Int /\ p * m \in Int
  BY <1>1
<1>3. CASE p = g
  BY <1>1, <1>2, <1>3 DEF g, p
<1>4. CASE p - g >= 1
  <2>1. ((p - g) - 1) * m >= 0
    BY <1>1, <1>4
  <2>2. ((p - g) - 1) * m = (p * m - g * m) - m
    BY <1>1
  <2> QED
    BY <1>1, <1>2, <1>4, <2>1, <2>2 DEF g, p
<1>5. CASE g - p >= 1
  <2>1. ((g - p) - 1) * m >= 0
    BY <1>1, <1>5
  <2>2. ((g - p) - 1) * m = (g * m - p * m) - m
    BY <1>1
  <2> QED
    BY <1>1, <1>2, <1>5, <2>1, <2>2 DEF g, p
<1> QED
  BY <1>1, <1>3, <1>4, <1>5

\* The slices with the quotient of one of them follow each other.
LEMMA SlicesOfGroup ==
    ASSUME NEW m \in Nat \ {0}, NEW n \in Nat, NEW j \in 0 .. n - 1
    PROVE  \E size \in Nat \ {0} :
              /\ (j \div m) * m \in Nat /\ (j \div m) * m + size - 1 \in 0 .. n - 1
              /\ \A i \in 0 .. n - 1 : i \div m = j \div m <=>
                    i \in (j \div m) * m .. (j \div m) * m + size - 1
<1> DEFINE a == (j \div m) * m
           size == IF a + m <= n THEN m ELSE n - a
<1>1. j \in a .. a + m - 1
  BY SameQuotient
<1>2. a \in Nat
  BY SMTT(30)
<1>3. ASSUME NEW i \in 0 .. n - 1 PROVE i \div m = j \div m <=> i \in a .. a + m - 1
  <2>1. i \in Nat /\ j \in Nat
    OBVIOUS
  <2> QED
    BY <2>1, SameQuotient
<1> HIDE DEF a
<1>4. size \in Nat \ {0} /\ a + size - 1 \in 0 .. n - 1
  BY <1>1, <1>2
<1>5. \A i \in 0 .. n - 1 : i \in a .. a + m - 1 <=> i \in a .. a + size - 1
  BY <1>1, <1>2
<1> HIDE DEF size
<1> QED
  BY <1>2, <1>3, <1>4, <1>5 DEF a

\* The packets of a frame as sendLoop() makes them, and what it makes of them.
SentWith(port, k, next) == {Wire(p) : p \in Packets(View(port, k), next)}

\* They are the slices of the frame with the numbers of their places.
LEMMA FrameIsSlices ==
    ASSUME NEW port, NEW k \in 0 .. Len(Lengths) - 1, NEW next, next = Base0(port, k, 0)
    PROVE  /\ SentWith(port, k, next) = {Original(port, k, j) : j \in 0 .. Slices(k) - 1}
           /\ Cardinality(SentWith(port, k, next)) = Slices(k)
           /\ \A i \in 0 .. Slices(k) - 1 : (next + i) % SeqMod = Base0(port, k, i)
<1> DEFINE n == Slices(k)
           O(j) == Original(port, k, j)
           I == 0 .. n - 1
<1>1. n \in Nat \ {0} /\ \A j \in I : IsSlice(k, j)
  BY SlicesType DEF IsSlice
<1>2. ASSUME NEW i \in I PROVE (next + i) % SeqMod = Base0(port, k, i)
  <2> DEFINE x == Place(port, k, 0)
  <2>0. 0 \in I
    BY <1>1
  <2>1. x \in Int /\ i \in Int /\ SeqMod \in Nat \ {0}
    BY <1>1, <2>0, PlaceBounds, FecConstants
  <2>2. Place(port, k, i) = x + i
    <3>1. Origin(port) \in Nat /\ SentBefore[k] \in Nat
      BY <1>1, <2>0, PlaceBounds
    <3> QED
      BY <2>1, <3>1 DEF Place
  <2>3. next = x % SeqMod
    BY DEF Base0
  <2> HIDE DEF x
  <2>4. ((x % SeqMod) + i) % SeqMod = (x + i) % SeqMod
    BY <2>1, RemainderPlus
  <2> QED
    BY <2>2, <2>3, <2>4 DEF Base0
<1>3. SentWith(port, k, next) = {O(j) : j \in I}
  <2> DEFINE F(s, j) == Fragment(View(port, k), s, j, n, FALSE)
  <2>1. Packets(View(port, k), next) = {F((next + j) % SeqMod, j) : j \in I}
    <3>1. fragmentCount(View(port, k).len) = n
      BY DEF View, Slices
    <3> QED
      BY <3>1 DEF Packets
  <2>2. \A j \in I : O(j) = Wire(F((next + j) % SeqMod, j))
    BY <1>2 DEF Original, Base0
  <2> HIDE DEF F, O, I
  <2> QED
    BY <2>1, <2>2 DEF SentWith
<1>4. Cardinality(SentWith(port, k, next)) = n
  <2> DEFINE S == SentWith(port, k, next)
             F == [j \in I |-> O(j)]
  <2>1. \A j \in I : O(j).idx = j
    BY <1>1, CopyFields
  <2> HIDE DEF O
  <2>2. F \in [I -> S] /\ \A p \in S : \E j \in I : F[j] = p
    BY <1>3
  <2>3. \A i, j \in I : F[i] = F[j] => i = j
    BY <2>1
  <2>4. IsFiniteSet(I) /\ Cardinality(I) = n
    <3> HIDE DEF n
    <3>1. 0 \in Int /\ n - 1 \in Int /\ (n - 1) - 0 + 1 = n /\ ~(0 > n - 1)
      BY <1>1
    <3> QED
      BY <3>1, FS_Interval
  <2> HIDE DEF F, S, I
  <2>5. ExistsBijection(I, S)
    BY <2>2, <2>3 DEF ExistsBijection, Bijection, Injection, Surjection, IsInjective
  <2> QED
    BY <2>4, <2>5, FS_Bijection DEF S
<1> QED
  BY <1>2, <1>3, <1>4

\* The FEC packet of some group of the frame, and the group is all in S.
IsParity(f, port, k, S) ==
    \E a, size : /\ IsGroup(k, a, size) /\ f = ParityOf(port, k, a, size)
                 /\ GroupOf(port, k, a, size) \subseteq S

\* buildForFrame() covers runs of slices.
LEMMA GroupsAreRuns ==
    ASSUME NEW port, NEW k \in 0 .. Len(Lengths) - 1, NEW next, next = Base0(port, k, 0),
           NEW f \in buildForFrame(SentWith(port, k, next), next)
    PROVE  IsParity(f, port, k, SentWith(port, k, next))
<1> DEFINE n == Slices(k)
           O(j) == Original(port, k, j)
           S == SentWith(port, k, next)
           m == GroupSize
<1>1. n \in Nat \ {0} /\ m \in Nat /\ MinGroupSize \in Nat /\ MinGroupSize >= 2
  BY SlicesType, FecConstants
<1>2. \A j \in 0 .. n - 1 : O(j).idx = j
  <2>1. \A j \in 0 .. n - 1 : IsSlice(k, j)
    BY DEF IsSlice
  <2> QED
    BY <2>1, CopyFields
<1>3. S = {O(j) : j \in 0 .. n - 1}
  BY FrameIsSlices
<1>4. m # 0 /\ \E p \in S : /\ Cardinality(Group(S, p.idx \div m)) >= MinGroupSize
                            /\ f = Parity(Group(S, p.idx \div m), next, p.idx \div m)
  BY DEF buildForFrame
<1> HIDE DEF O, S, m, n
<1>5. PICK j \in 0 .. n - 1 :
          /\ Cardinality(Group(S, j \div m)) >= MinGroupSize
          /\ f = Parity(Group(S, j \div m), next, j \div m)
  BY <1>2, <1>3, <1>4
<1> DEFINE g == j \div m
           a == g * m
<1>6. PICK size \in Nat \ {0} :
          /\ a \in Nat /\ a + size - 1 \in 0 .. n - 1
          /\ \A i \in 0 .. n - 1 : i \div m = g <=> i \in a .. a + size - 1
  BY <1>1, <1>4, SlicesOfGroup
<1>7. \A i \in a .. a + size - 1 : i \in 0 .. n - 1
  <2> HIDE DEF a
  <2> QED
    BY <1>1, <1>6
<1> HIDE DEF a
<1>8. Group(S, g) = {O(i) : i \in a .. a + size - 1}
  BY <1>2, <1>3, <1>6, <1>7 DEF Group, m
<1>9. Group(S, g) = GroupOf(port, k, a, size)
  BY <1>8 DEF GroupOf, O
<1>10. Cardinality(Group(S, g)) = size
  <2> DEFINE I == a .. a + size - 1
             T == Group(S, g)
             F == [i \in I |-> O(i)]
  <2>1. IsFiniteSet(I) /\ Cardinality(I) = size
    <3> DEFINE z == a + size - 1
    <3>1. a \in Int /\ z \in Int /\ z - a + 1 = size /\ ~(a > z)
      BY <1>6
    <3> HIDE DEF z
    <3> QED
      BY <3>1, FS_Interval DEF z
  <2>2. F \in [I -> T] /\ \A p \in T : \E i \in I : F[i] = p
    BY <1>8
  <2>3. \A i, h \in I : F[i] = F[h] => i = h
    BY <1>2, <1>7
  <2> HIDE DEF F, T, I
  <2>4. ExistsBijection(I, T)
    BY <2>2, <2>3 DEF ExistsBijection, Bijection, Injection, Surjection, IsInjective
  <2> QED
    BY <2>1, <2>4, FS_Bijection DEF T
<1>11. (next + a) % SeqMod = Base0(port, k, a)
  <2>1. a \in 0 .. n - 1
    BY <1>6, <1>7
  <2> QED
    BY <2>1, FrameIsSlices DEF n
<1>12. IsGroup(k, a, size)
  <2>1. size >= 2
    BY <1>1, <1>5, <1>6, <1>10
  <2>2. a \in 0 .. n - 1
    BY <1>6, <1>7
  <2> QED
    BY <1>6, <2>1, <2>2, SlicesType DEF IsGroup, IsSlice, n
<1>13. f = ParityOf(port, k, a, size)
  <2>1. f = Parity(GroupOf(port, k, a, size), next, g)
    BY <1>5, <1>9
  <2>2. Cardinality(GroupOf(port, k, a, size)) = size
    BY <1>9, <1>10
  <2>3. (next + g * GroupSize) % SeqMod = Base0(port, k, a)
    BY <1>11 DEF a, m
  <2> HIDE DEF g
  <2> QED
    BY <2>1, <2>2, <2>3 DEF Parity, ParityOf
<1>14. GroupOf(port, k, a, size) \subseteq S
  BY <1>9 DEF Group
<1> QED
  BY <1>12, <1>13, <1>14 DEF IsParity, S

-----------------------------------------------------------------------------
(* Fec: the invariant.                                                     *)

\* The sender is between two frames.
SenderInv ==
    /\ sender = [port |-> sender.port, nextSeq |-> sender.nextSeq, frames |-> sender.frames]
    /\ sender.port \in Nat \ {0}
    /\ sender.frames \in 0 .. Len(Lengths)
    /\ sender.nextSeq = Base0(sender.port, sender.frames, 0)

\* Every FEC packet is that of slices which have been sent.
ParityInv ==
    \A f \in fecs :
        /\ IsDatagram(f)
        /\ \E k : IsParity(f.packet, f.port, k, SentBy(data, f.port))

\* What has been sent, and what the decoder makes of it.
FecInv ==
    /\ SenderInv
    /\ \A d \in data : IsCopy(d.packet, d.port)
    /\ ParityInv
    /\ RecentInv
    /\ arrived = recent
    /\ RecoveredIsOriginal

\* Copying once more changes nothing but the flag.
LEMMA CopyOfCopy ==
    ASSUME NEW port, NEW k, NEW j, IsSlice(k, j), NEW t, NEW r
    PROVE  LET o == Original(port, k, j)
           IN  Copy(Copy(o, t), r) = Copy(o, r)
<1> DEFINE o == Original(port, k, j)
           s == Base0(port, k, j)
           ln == o.len
           pl == o.payload
           c == Slices(k)
           isKey == (k = 0)
           Fields(x) == [seq |-> s, ts |-> k, frame |-> <<port, k>>,
                         idx |-> j, count |-> c, key |-> isKey, retransmit |-> x,
                         len |-> ln, payload |-> pl]
<1>1. ASSUME NEW x PROVE Copy(o, x) = Fields(x)
  BY CopyFields
<1> HIDE DEF s, ln, pl, c, o, isKey
<1>2. [Fields(t) EXCEPT !.retransmit = r] = Fields(r)
  OBVIOUS
<1> HIDE DEF Fields
<1>3. Copy(Copy(o, t), r) = Copy(o, r)
  BY <1>1, <1>2 DEF Copy
<1> QED
  BY <1>3 DEF o

\* What is sent first is a copy like any other.
LEMMA FirstCopy ==
    ASSUME NEW port, NEW k, NEW j, IsSlice(k, j)
    PROVE  Original(port, k, j) = Copy(Original(port, k, j), FALSE)
<1> DEFINE o == Original(port, k, j)
           s == Place(port, k, j) % SeqMod
           ln == o.len
           pl == o.payload
           c == Slices(k)
           isKey == (k = 0)
<1>1. /\ o = [seq |-> s, ts |-> k, frame |-> <<port, k>>,
              idx |-> j, count |-> c, key |-> isKey, retransmit |-> FALSE,
              len |-> ln, payload |-> pl]
      /\ ln \in 1 .. MaxPayload
      /\ \A b \in pl : b[1] \in 0 .. ln - 1
  BY OriginalFields
<1> DEFINE no == FALSE
           f == [seq |-> s, ts |-> k, frame |-> <<port, k>>,
                 idx |-> j, count |-> c, key |-> isKey, retransmit |-> no,
                 len |-> ln, payload |-> pl]
<1> HIDE DEF o, s, ln, pl, c, isKey, no
<1>3. [f EXCEPT !.retransmit = no] = f
  OBVIOUS
<1>2. [o EXCEPT !.retransmit = FALSE] = o
  <2>1. o = f
    BY <1>1 DEF no
  <2> HIDE DEF f
  <2>2. [o EXCEPT !.retransmit = no] = o
    BY <1>3, <2>1
  <2> QED
    BY <2>2 DEF no
<1> QED
  BY <1>2 DEF o, Copy

\* More DATA packets leave the FEC packets and the recovered ones what they are.
LEMMA ParityKept ==
    ASSUME ParityInv, data \subseteq data', UNCHANGED fecs
    PROVE  ParityInv'
<1> SUFFICES ASSUME NEW f \in fecs
             PROVE  \E k : IsParity(f.packet, f.port, k, SentBy(data', f.port))
  BY DEF ParityInv
<1>1. PICK k : IsParity(f.packet, f.port, k, SentBy(data, f.port))
  BY DEF ParityInv
<1>2. SentBy(data, f.port) \subseteq SentBy(data', f.port)
  BY DEF SentBy
<1> QED
  BY <1>1, <1>2 DEF IsParity

LEMMA RecoveredKept ==
    ASSUME RecoveredIsOriginal, data \subseteq data', UNCHANGED recovered
    PROVE  RecoveredIsOriginal'
  BY DEF RecoveredIsOriginal

\* sendLoop() with a frame.
LEMMA FrameKeepsSender ==
    ASSUME SenderInv, SendFrame
    PROVE  /\ sender.frames \in 0 .. Len(Lengths) - 1
           /\ SenderInv'
<1> DEFINE port == sender.port
           k == sender.frames
           next == sender.nextSeq
           n == Slices(k)
<1>1. k \in 0 .. Len(Lengths) - 1
  BY SlicesType DEF SendFrame, SenderInv
<1>2. sender' = [sender EXCEPT !.frames = k + 1,
                               !.nextSeq = (next + Cardinality(SentWith(port, k, next))) % SeqMod]
  BY DEF SendFrame, SentWith, View
<1>3. next = Base0(port, k, 0)
  BY DEF SenderInv
<1>4. Cardinality(SentWith(port, k, next)) = n
  BY <1>1, <1>3, FrameIsSlices
<1>5. (next + n) % SeqMod = Base0(port, k + 1, 0)
  <2> DEFINE x == Place(port, k, 0)
  <2>1. IsSlice(k, 0) /\ n \in Nat
    BY <1>1, SlicesType DEF IsSlice
  <2>2. x \in Int /\ n \in Int /\ SeqMod \in Nat \ {0}
    BY <2>1, PlaceBounds, FecConstants
  <2>3. Place(port, k + 1, 0) = x + n
    <3>1. Origin(port) \in Nat /\ SentBefore[k] \in Nat
      BY <2>1, PlaceBounds
    <3>2. k + 1 \in 1 .. Len(Lengths) /\ (k + 1) - 1 = k
      BY <1>1, SlicesType
    <3>3. SentBefore[k + 1] = SentBefore[k] + n
      BY <3>2, SentRec
    <3> QED
      BY <2>1, <3>1, <3>3 DEF Place
  <2> HIDE DEF x, n
  <2>4. ((x % SeqMod) + n) % SeqMod = (x + n) % SeqMod
    BY <2>2, RemainderPlus
  <2> QED
    BY <1>3, <2>3, <2>4 DEF x, Base0
<1>6. sender' = [port |-> port, nextSeq |-> Base0(port, k + 1, 0), frames |-> k + 1]
  <2> DEFINE b == Base0(port, k + 1, 0)
             y == [sender EXCEPT !.frames = k + 1]
  <2>1. sender' = [y EXCEPT !.nextSeq = b]
    BY <1>2, <1>4, <1>5
  <2>2. y = [port |-> port, nextSeq |-> next, frames |-> k + 1]
    BY DEF SenderInv
  <2> HIDE DEF y, b
  <2> QED
    BY <2>1, <2>2 DEF b
<1>7. k + 1 \in 0 .. Len(Lengths) /\ port \in Nat \ {0}
  BY <1>1, SlicesType DEF SenderInv
<1> QED
  BY <1>1, <1>6, <1>7 DEF SenderInv

LEMMA FrameKeepsPackets ==
    ASSUME FecInv, SendFrame
    PROVE  /\ \A d \in data' : IsCopy(d.packet, d.port)
           /\ ParityInv'
           /\ data \subseteq data'
<1> DEFINE port == sender.port
           k == sender.frames
           next == sender.nextSeq
           S == SentWith(port, k, next)
<1>1. k \in 0 .. Len(Lengths) - 1 /\ next = Base0(port, k, 0)
  BY FrameKeepsSender DEF FecInv, SenderInv
<1>2. /\ data' = data \cup From(port, S)
      /\ fecs' = fecs \cup From(port, buildForFrame(S, next))
  BY DEF SendFrame, SentWith, View
<1>3. ASSUME NEW p \in S PROVE IsCopy(p, port)
  <2>1. PICK j \in 0 .. Slices(k) - 1 : p = Original(port, k, j)
    BY <1>1, <1>3, FrameIsSlices
  <2>2. IsSlice(k, j) /\ j \in Nat /\ k \in Nat
    BY <1>1 DEF IsSlice
  <2>3. p = Copy(Original(port, k, j), FALSE)
    BY <2>1, <2>2, FirstCopy
  <2> QED
    BY <2>2, <2>3 DEF IsCopy
<1> HIDE DEF S
<1>4. \A d \in From(port, S) : d.port = port /\ d.packet \in S
  BY DEF From
<1>5. \A d \in data' : IsCopy(d.packet, d.port)
  BY <1>2, <1>3, <1>4 DEF FecInv
<1>6. ASSUME NEW f \in fecs'
      PROVE  IsDatagram(f) /\ \E i : IsParity(f.packet, f.port, i, SentBy(data', f.port))
  <2>1. CASE f \in fecs
    <3>1. PICK i : IsParity(f.packet, f.port, i, SentBy(data, f.port))
      BY <2>1 DEF FecInv, ParityInv
    <3>2. SentBy(data, f.port) \subseteq SentBy(data', f.port)
      BY <1>2 DEF SentBy
    <3>3. IsParity(f.packet, f.port, i, SentBy(data', f.port))
      BY <3>1, <3>2 DEF IsParity
    <3> QED
      BY <2>1, <3>3 DEF FecInv, ParityInv
  <2>2. CASE f \in From(port, buildForFrame(S, next))
    <3>1. IsDatagram(f) /\ f.port = port /\ f.packet \in buildForFrame(S, next)
      BY <2>2 DEF From, IsDatagram
    <3>2. IsParity(f.packet, port, k, S)
      BY <1>1, <3>1, GroupsAreRuns DEF S
    <3>3. S \subseteq SentBy(data', port)
      <4> SUFFICES ASSUME NEW p \in S PROVE p \in SentBy(data', port)
        OBVIOUS
      <4> DEFINE d == [port |-> port, packet |-> p]
      <4>1. d \in data' /\ d.port = port /\ d.packet = p
        BY <1>2 DEF From
      <4> HIDE DEF d
      <4> QED
        BY <4>1 DEF SentBy
    <3>4. IsParity(f.packet, port, k, SentBy(data', port))
      BY <3>2, <3>3 DEF IsParity
    <3> QED
      BY <3>1, <3>4
  <2> QED
    BY <1>2, <2>1, <2>2
<1>7. ParityInv'
  BY <1>6 DEF ParityInv
<1> QED
  BY <1>2, <1>5, <1>7

\* drainReverseChannel() answers a NACK.
LEMMA RepeatsAreCopies ==
    ASSUME FecInv, Retransmit
    PROVE  /\ \A d \in data' : IsCopy(d.packet, d.port)
           /\ data \subseteq data'
<1>1. PICK d \in data : data' = data \cup {[d EXCEPT !.packet.retransmit = TRUE]}
  BY DEF Retransmit
<1> DEFINE p == d.packet
           port == d.port
           e == [d EXCEPT !.packet.retransmit = TRUE]
<1>2. d = [port |-> port, packet |-> p]
  BY DEF FecInv, RecentInv, IsDatagram
<1>3. PICK i \in Nat, h \in Nat, t \in BOOLEAN :
          IsSlice(i, h) /\ p = Copy(Original(port, i, h), t)
  BY DEF FecInv, IsCopy
<1> DEFINE o == Original(port, i, h)
<1>4. Copy(p, TRUE) = Copy(o, TRUE)
  <2> DEFINE yes == TRUE
  <2> HIDE DEF p, port, yes
  <2>1. Copy(Copy(o, t), yes) = Copy(o, yes)
    BY <1>3, CopyOfCopy
  <2> HIDE DEF o
  <2>2. p = Copy(o, t)
    BY <1>3 DEF o
  <2> QED
    BY <2>1, <2>2 DEF yes
<1>5. e.port = port /\ e.packet = Copy(p, TRUE)
  BY <1>2 DEF Copy
<1>6. IsCopy(e.packet, e.port)
  <2> HIDE DEF e, p, port
  <2> QED
    BY <1>3, <1>4, <1>5 DEF IsCopy
<1> HIDE DEF e
<1> QED
  BY <1>1, <1>6 DEF FecInv, e

\* The decoder has the last packets that have arrived.
LEMMA NothingElseIsKept ==
    ASSUME FecInv, ReceiveData
    PROVE  arrived' = recent'
<1>1. PICK d \in data :
          /\ recent' = IF RecentPackets = 0 THEN recent
                       ELSE onDataPacket(RecentOf(d.port), d.packet)
          /\ arrived' = LET all == Append(IF peer = d.port THEN arrived ELSE <<>>, d.packet)
                        IN  SubSeq(all, Max({1, Len(all) - RecentPackets + 1}), Len(all))
  BY DEF ReceiveData
<1> DEFINE r == IF peer = d.port THEN recent ELSE <<>>
           all == Append(r, d.packet)
           n == Len(all)
<1>2. arrived' = SubSeq(all, Max({1, n - RecentPackets + 1}), n)
  BY <1>1 DEF FecInv
<1>3. CASE RecentPackets # 0
  BY <1>1, <1>2, <1>3 DEF onDataPacket, RecentOf
<1>4. CASE RecentPackets = 0
  <2>1. recent = <<>> /\ recent' = <<>>
    BY <1>1, <1>4 DEF FecInv, RecentInv
  <2>2. r = <<>>
    BY <2>1
  <2>3. all \in Seq({d.packet}) /\ n = 1
    <3> HIDE DEF r
    <3>1. r \in Seq({d.packet}) /\ Len(r) = 0
      BY <2>2
    <3> QED
      BY <3>1, AppendProperties
  <2> HIDE DEF all, n
  <2>4. n - RecentPackets + 1 = 2
    BY <1>4, <2>3
  <2>5. Max({1, 2}) = 2
    <3>1. \E x \in {1, 2} : \A y \in {1, 2} : x >= y
      OBVIOUS
    <3> QED
      BY <3>1 DEF Max
  <2>6. SubSeq(all, 2, 1) = <<>>
    <3>1. SubSeq(all, 2, 1) \in Seq({d.packet}) /\ Len(SubSeq(all, 2, 1)) = 0
      BY <2>3, SubSeqProperties
    <3> QED
      BY <3>1, EmptySeq
  <2> QED
    BY <1>2, <2>1, <2>3, <2>4, <2>5, <2>6
<1> QED
  BY <1>3, <1>4

\* What an FEC packet of the peer gives.
LEMMA RecoveryOfPeer ==
    ASSUME FecInv, NEW f \in fecs, f.port = peer
    PROVE  /\ \A p \in onFecPacket(recent, f.packet) : \E o :
                 /\ [port |-> peer, packet |-> o] \in data
                 /\ p = Copy(o, p.retransmit)
           /\ onFecPacket(recent, f.packet) # {} <=>
                 Cardinality(Known(recent, f.packet)) = f.packet.size - 1
<1>1. PICK k : IsParity(f.packet, peer, k, SentBy(data, peer))
  BY DEF FecInv, ParityInv
<1>2. PICK a, size : /\ IsGroup(k, a, size) /\ f.packet = ParityOf(peer, k, a, size)
                     /\ GroupOf(peer, k, a, size) \subseteq SentBy(data, peer)
  BY <1>1 DEF IsParity
<1> DEFINE fec == ParityOf(peer, k, a, size)
           P == SentBy(data, peer)
<1>3. recent \in Seq(P)
  BY DEF FecInv, RecentInv
<1>4. fec.size = size
  BY DEF ParityOf
<1>5. CASE RecentPackets = 0
  <2>1. recent = <<>>
    BY <1>5 DEF FecInv, RecentInv
  <2>2. Known(recent, fec) = {}
    BY <2>1 DEF Known
  <2>3. Cardinality(Known(recent, fec)) = 0
    BY <2>2, FS_EmptySet
  <2>4. onFecPacket(recent, fec) = {}
    BY <1>5 DEF onFecPacket
  <2>5. size - 1 # 0
    BY <1>2 DEF IsGroup
  <2> HIDE DEF fec
  <2> QED
    BY <1>2, <1>4, <2>3, <2>4, <2>5 DEF fec
<1>6. CASE RecentPackets # 0
  <2>1. RecentPackets > 0
    BY <1>6, FecConstants
  <2>2. \A i \in DOMAIN recent : IsCopy(recent[i], peer)
    <3>1. \A p \in P : IsCopy(p, peer)
      BY DEF SentBy, FecInv
    <3>2. DOMAIN recent = 1 .. Len(recent)
      BY <1>3, LenProperties
    <3> QED
      BY <1>3, <3>1, <3>2, ElementOfSeq
  <2>3. /\ \A p \in onFecPacket(recent, fec) : \E q \in a .. a + size - 1, t \in BOOLEAN :
              p = Copy(Original(peer, k, q), t)
        /\ onFecPacket(recent, fec) # {} <=> Cardinality(Known(recent, fec)) = size - 1
    BY <1>2, <1>3, <2>1, <2>2, Recovery
  <2>4. ASSUME NEW p \in onFecPacket(recent, fec)
        PROVE  \E o : [port |-> peer, packet |-> o] \in data /\ p = Copy(o, p.retransmit)
    <3>1. PICK q \in a .. a + size - 1, t \in BOOLEAN : p = Copy(Original(peer, k, q), t)
      BY <2>3, <2>4
    <3>2. p.retransmit = t
      <4>1. IsSlice(k, q)
        BY <1>2, GroupSlices
      <4> QED
        BY <3>1, <4>1, CopyFields
    <3>3. Original(peer, k, q) \in P
      BY <1>2 DEF GroupOf
    <3>4. PICK d \in data : d.port = peer /\ d.packet = Original(peer, k, q)
      BY <3>3 DEF SentBy
    <3>5. d = [port |-> d.port, packet |-> d.packet]
      BY DEF FecInv, RecentInv, IsDatagram
    <3> QED
      BY <3>1, <3>2, <3>4, <3>5
  <2> HIDE DEF fec
  <2> QED
    BY <1>2, <1>4, <2>3, <2>4 DEF fec
<1> QED
  BY <1>5, <1>6

LEMMA RecoveredAsSent ==
    ASSUME FecInv, ReceiveFec
    PROVE  RecoveredIsOriginal'
<1>1. PICK f \in fecs :
          /\ recovered' = {[port |-> f.port, peer |-> peer, packet |-> p] :
                             p \in onFecPacket(recent, f.packet)}
          /\ UNCHANGED data
  BY DEF ReceiveFec
<1> SUFFICES ASSUME NEW r \in recovered', r.port = r.peer
             PROVE  \E d \in data : /\ d.port = r.port
                        /\ [d.packet EXCEPT !.retransmit = r.packet.retransmit] = r.packet
  BY <1>1 DEF RecoveredIsOriginal
<1>2. PICK p \in onFecPacket(recent, f.packet) :
          r = [port |-> f.port, peer |-> peer, packet |-> p]
  BY <1>1
<1>3. r.packet = p /\ r.port = peer /\ f.port = peer
  BY <1>2
<1>4. PICK o : [port |-> peer, packet |-> o] \in data /\ p = Copy(o, p.retransmit)
  BY <1>3, RecoveryOfPeer
<1> DEFINE d == [port |-> peer, packet |-> o]
<1>5. d \in data /\ d.port = peer /\ d.packet = o
  BY <1>4
<1> HIDE DEF d
<1> QED
  BY <1>3, <1>4, <1>5 DEF Copy

LEMMA FecInvIsProperty == FecInv => RecoveredIsOriginal /\ OneLossIsRecovered
<1> SUFFICES ASSUME FecInv PROVE OneLossIsRecovered
  BY DEF FecInv
<1> SUFFICES ASSUME NEW f \in fecs, f.port = peer
             PROVE  onFecPacket(recent, f.packet) # {} <=>
                       Cardinality({s \in Arrived : (s - f.packet.base) % SeqMod < f.packet.size})
                           = f.packet.size - 1
  BY DEF OneLossIsRecovered
<1>1. {s \in Arrived : (s - f.packet.base) % SeqMod < f.packet.size} = Known(recent, f.packet)
  BY DEF Arrived, Known, FecInv
<1> QED
  BY <1>1, RecoveryOfPeer

LEMMA FecInvInit == FecInit => FecInv
<1> SUFFICES ASSUME FecInit PROVE FecInv
  OBVIOUS
<1>1. SenderInv
  <2>1. /\ sender = [port |-> 1, nextSeq |-> FirstSeq, frames |-> 0]
        /\ sender.port = 1 /\ sender.nextSeq = FirstSeq /\ sender.frames = 0
    BY DEF FecInit
  <2>2. Base0(1, 0, 0) = FirstSeq
    <3>1. FirstSeq \in 0 .. SeqMod - 1 /\ SeqMod \in Nat \ {0}
      BY FecConstants
    <3>2. Place(1, 0, 0) = FirstSeq
      BY <3>1, SentRec DEF Place, Origin
    <3> QED
      BY <3>1, <3>2, SmallRemainder DEF Base0
  <2>3. 0 \in 0 .. Len(Lengths)
    BY SlicesType
  <2> QED
    BY <2>1, <2>2, <2>3 DEF SenderInv
<1> QED
  BY <1>1 DEF FecInit, FecInv, ParityInv, RecentInv, RecoveredIsOriginal

LEMMA FecInvNext == FecInv /\ [FecNext]_fecVars => FecInv'
<1> SUFFICES ASSUME FecInv, [FecNext]_fecVars PROVE FecInv'
  OBVIOUS
<1>0. RecentInv'
  BY RecentNext DEF FecInv
<1>1. CASE SendFrame
  <2>1. UNCHANGED <<recent, arrived, recovered>>
    BY <1>1 DEF SendFrame
  <2> QED
    BY <1>0, <1>1, <2>1, FrameKeepsSender, FrameKeepsPackets, RecoveredKept DEF FecInv
<1>2. CASE Retransmit
  <2>1. UNCHANGED <<sender, fecs, recent, arrived, recovered>>
    BY <1>2 DEF Retransmit
  <2>2. SenderInv'
    BY <2>1 DEF FecInv, SenderInv
  <2> QED
    BY <1>0, <1>2, <2>1, <2>2, RepeatsAreCopies, ParityKept, RecoveredKept DEF FecInv
<1>3. CASE Restart
  <2>1. /\ sender' = [port |-> sender.port + 1, nextSeq |-> 0, frames |-> 0]
        /\ UNCHANGED <<data, fecs, recent, arrived, recovered>>
    BY <1>3 DEF Restart
  <2>2. SenderInv'
    <3>1. /\ sender'.port = sender.port + 1 /\ sender'.nextSeq = 0 /\ sender'.frames = 0
      BY <2>1
    <3>2. sender.port + 1 \in Nat \ {0} /\ sender.port + 1 # 1
      BY DEF FecInv, SenderInv
    <3>3. Base0(sender.port + 1, 0, 0) = 0
      <4>1. SeqMod \in Nat \ {0} /\ 0 \in 0 .. SeqMod - 1
        BY FecConstants
      <4>2. Place(sender.port + 1, 0, 0) = 0
        BY <3>2, SentRec DEF Place, Origin
      <4> QED
        BY <4>1, <4>2, SmallRemainder DEF Base0
    <3>4. 0 \in 0 .. Len(Lengths)
      BY SlicesType
    <3> QED
      BY <2>1, <3>1, <3>2, <3>3, <3>4 DEF SenderInv
  <2>3. ParityInv' /\ RecoveredIsOriginal'
    BY <2>1, ParityKept, RecoveredKept DEF FecInv
  <2> QED
    BY <1>0, <2>1, <2>2, <2>3 DEF FecInv
<1>4. CASE ReceiveData
  <2>1. UNCHANGED <<sender, data, fecs, recovered>>
    BY <1>4 DEF ReceiveData
  <2>2. SenderInv' /\ ParityInv' /\ RecoveredIsOriginal'
    BY <2>1, ParityKept, RecoveredKept DEF FecInv, SenderInv
  <2> QED
    BY <1>0, <1>4, <2>1, <2>2, NothingElseIsKept DEF FecInv
<1>5. CASE ReceiveFec
  <2>1. UNCHANGED <<sender, data, fecs, recent, arrived>>
    BY <1>5 DEF ReceiveFec
  <2>2. SenderInv' /\ ParityInv'
    BY <2>1, ParityKept DEF FecInv, SenderInv
  <2> QED
    BY <1>0, <1>5, <2>1, <2>2, RecoveredAsSent DEF FecInv
<1>6. CASE UNCHANGED fecVars
  <2>1. UNCHANGED <<sender, data, fecs, recent, arrived, recovered>>
    BY <1>6 DEF fecVars
  <2>2. SenderInv' /\ ParityInv' /\ RecoveredIsOriginal'
    BY <2>1, ParityKept, RecoveredKept DEF FecInv, SenderInv
  <2> QED
    BY <1>0, <2>1, <2>2 DEF FecInv
<1> QED
  BY <1>1, <1>2, <1>3, <1>4, <1>5, <1>6 DEF FecNext

\* FecEncoder.buildForFrame() and FecDecoder.onFecPacket(): a recovered packet is the
\* one that was lost, in number, frame, place, length and bytes.
THEOREM RecoveryIsExact == FecSpec => []RecoveredIsOriginal
  BY FecInvInit, FecInvNext, FecInvIsProperty, PTL DEF FecSpec

\* FecDecoder.onFecPacket(): it recovers a packet exactly if the others of its group
\* are among those that it keeps.
THEOREM OneLossRecovery == FecSpec => []OneLossIsRecovered
  BY FecInvInit, FecInvNext, FecInvIsProperty, PTL DEF FecSpec

=============================================================================
