----------------------- MODULE ReceiverPipelineProofs -----------------------
(***************************************************************************)
(* The safety properties of the receiver's three threads, proved for all   *)
(* capacities, limits and streams.                                         *)
(*                                                                         *)
(* The frames are numbered 1, 2, 3, ... and the argument is about numbers: *)
(* Numbered says that the extended ids the jitter buffer computes are      *)
(* those numbers.  InLine puts the places a frame can be in one behind the *)
(* other, from the picture shown last to the frame that arrived last, and  *)
(* gives the order of the pictures.  Ends follows the threads through the  *)
(* shutdown.  Hold says that the jitter buffer has the newest frames       *)
(* without a gap, Links that each frame in the decoder's hands and in      *)
(* queue A may follow the one before it, up to those in the jitter buffer. *)
(***************************************************************************)
EXTENDS ReceiverPipeline, FiniteSetTheorems, FunctionTheorems, SharedLemmas

-----------------------------------------------------------------------------
(* The inductive invariants.                                               *)

StopPcs == {"storeStopping", "closeA", "closeB", "done"}

ThreadsOK ==
    /\ pc = [t \in Roles |-> pc[t]] /\ ret = [t \in Roles |-> ret[t]]
    /\ pc["recv"] \in StopPcs \cup {"loop", "due", "deliver", "rejected", "fuse", "drain",
                                    "closeQueueA"}
    /\ pc["decode"] \in StopPcs \cup {Off, "loop", "pop", "closed", "decode", "output",
                                      "ended", "flushed", "closeQueueB"}
    /\ pc["render"] \in StopPcs \cup {Off, "open", "loop", "pop", "isClosed", "ended"}
    /\ ret["recv"] \in {"due", "done"}
    /\ ret["decode"] \in {"ended", "done"} /\ ret["render"] \in {"ended", "done"}
    /\ pc["decode"] = Off <=> pc["render"] = Off

QueuesOK == A \in QueueOf(Nat) /\ B \in QueueOf(Nat)

DecoderOK ==
    /\ coded \in Nat /\ fed \in Nat /\ shown \in Nat
    /\ inside \in Seq(Nat) /\ out \in Seq(Nat)

\* The numbers of the frames in a jitter buffer.
Exts(K) == {e.ext : e \in K.pending}

\* Extended ids are numbers, of at most the r frames that have arrived.
NumberedTo(K, r) ==
    /\ K \in JitterType
    /\ \A e \in K.pending : e.ext = e.frame.n /\ e.ext \in 1 .. r
    /\ \A d, e \in K.pending : d.ext = e.ext => d = e
    /\ K.refExt \in 0 .. r /\ (K.hasRef => K.refId = K.refExt)
    /\ K.hasOut => K.lastOut \in 0 .. r

\* An entry is due unless it is among the SoftLimit newest.
PacedTo(K, r) == \A e \in K.pending : e.due \/ r - e.ext < SoftLimit

Numbered == received \in 0 .. Sent /\ NumberedTo(J, received)

-----------------------------------------------------------------------------
(* The jitter buffer.                                                      *)

\* A small distance between ids is itself, and so is its sum with an id.
LEMMA ExtendedIsNumber ==
    ASSUME NEW K, NEW r \in 0 .. Sent, NumberedTo(K, r), r < Sent
    PROVE  Extended(K, r + 1) = r + 1
<1>1. /\ Sent \in Nat /\ IdMod \in Nat \ {0} /\ 2 * Sent < IdMod
      /\ ExtMod \in Nat \ {0} /\ ExtMod >= IdMod
  BY StreamAssumption, IdAssumption
<1>2. CASE ~K.hasRef
  BY <1>2 DEF Extended
<1>3. CASE K.hasRef
  <2>1. PICK x \in 0 .. r : x = K.refExt /\ x = K.refId
    BY <1>3 DEF NumberedTo
  <2> DEFINE d == (r + 1) - x
  <2>2. d \in 0 .. IdMod - 1 /\ 2 * d < IdMod /\ x + d = r + 1 /\ r + 1 \in 0 .. ExtMod - 1
    BY <1>1
  <2>3. d % IdMod = d
    BY <1>1, <2>2, SmallRemainder
  <2>4. Signed(d, IdMod) = d
    BY <2>2, <2>3 DEF Signed
  <2>5. (x + d) % ExtMod = r + 1
    BY <1>1, <2>2, SmallRemainder
  <2> HIDE DEF d
  <2>6. Extended(K, r + 1) = (x + Signed((r + 1) - x, IdMod)) % ExtMod
    BY <1>3, <2>1 DEF Extended
  <2> QED
    BY <2>4, <2>5, <2>6 DEF d
<1> QED
  BY <1>2, <1>3

\* enforceCapacity() keeps entries with their ids and frames, and at most makes
\* them due.
LEMMA CappedEntries ==
    ASSUME NEW P \in SUBSET Entry
    PROVE  /\ Capped(P) \in SUBSET Entry
           /\ \A f \in Capped(P) : \E e \in P : f.ext = e.ext /\ f.frame = e.frame
           /\ (\A d, e \in P : d.ext = e.ext => d = e) =>
                 \A f, g \in Capped(P) : f.ext = g.ext => f = g
<1> DEFINE kept == Newest(P, HardLimit)
           now(e) == [e EXCEPT !.due = e.due \/ e \notin Newest(kept, SoftLimit)]
<1>1. Capped(P) = {now(e) : e \in kept}
  BY DEF Capped
<1>2. kept \subseteq P
  BY DEF Newest
<1>3. ASSUME NEW e \in P
      PROVE  now(e) \in Entry /\ now(e).ext = e.ext /\ now(e).frame = e.frame
  <2>1. PICK b \in BOOLEAN : b = (e.due \/ e \notin Newest(kept, SoftLimit))
    OBVIOUS
  <2>2. now(e) = [e EXCEPT !.due = b]
    BY <2>1
  <2> HIDE DEF now
  <2> QED
    BY <2>2 DEF Entry
<1> HIDE DEF kept, now
<1>4. Capped(P) \in SUBSET Entry
  BY <1>1, <1>2, <1>3
<1>5. \A f \in Capped(P) : \E e \in P : f.ext = e.ext /\ f.frame = e.frame
  BY <1>1, <1>2, <1>3
<1>6. ASSUME \A d, e \in P : d.ext = e.ext => d = e,
             NEW f \in Capped(P), NEW g \in Capped(P), f.ext = g.ext
      PROVE  f = g
  <2>1. PICK d \in kept : f = now(d)
    BY <1>1
  <2>2. PICK e \in kept : g = now(e)
    BY <1>1
  <2>3. d = e
    BY <1>2, <1>3, <1>6, <2>1, <2>2
  <2> QED
    BY <2>1, <2>2, <2>3
<1> QED
  BY <1>4, <1>5, <1>6

\* In a table that holds the frames lo + 1 .. r there are r - e.ext frames newer
\* than e, which says whether e is among the k newest.
LEMMA NewerEntries ==
    ASSUME NEW P \in SUBSET Entry, NEW lo \in Nat, NEW r \in Nat,
           \A e \in P : e.ext \in lo + 1 .. r,
           \A y \in lo + 1 .. r : \E e \in P : e.ext = y,
           \A d, e \in P : d.ext = e.ext => d = e,
           NEW e \in P, NEW k \in Nat
    PROVE  e \in Newest(P, k) <=> r - e.ext < k
<1> DEFINE D == {d \in P : d.ext > e.ext}
           to == [d \in D |-> d.ext]
<1>1. PICK x \in lo + 1 .. r : x = e.ext
  OBVIOUS
<1>2. to \in Bijection(D, x + 1 .. r)
  <2>1. to \in [D -> x + 1 .. r]
    <3>1. ASSUME NEW d \in D PROVE d.ext \in x + 1 .. r
      <4>1. d.ext \in lo + 1 .. r /\ d.ext > x
        BY <1>1
      <4> QED
        BY <1>1, <4>1
    <3> QED
      BY <3>1
  <2>2. \A c, d \in D : to[c] = to[d] => c = d
    OBVIOUS
  <2>3. ASSUME NEW y \in x + 1 .. r PROVE \E d \in D : to[d] = y
    <3>1. y \in lo + 1 .. r /\ y > x
      BY <1>1
    <3>2. PICK d \in P : d.ext = y
      BY <3>1
    <3>3. d \in D
      BY <1>1, <3>1, <3>2
    <3> QED
      BY <3>2, <3>3
  <2> HIDE DEF D, to
  <2> QED
    BY <2>1, <2>2, <2>3 DEF Bijection, Injection, Surjection, IsInjective
<1> HIDE DEF to
<1>3. IsFiniteSet(x + 1 .. r) /\ Cardinality(x + 1 .. r) = r - x
  <2> DEFINE c == Cardinality(x + 1 .. r)
  <2>1. x + 1 \in Int /\ r \in Int
    BY <1>1
  <2>2. IsFiniteSet(x + 1 .. r) /\ c = IF x + 1 > r THEN 0 ELSE r - (x + 1) + 1
    BY <2>1, FS_Interval
  <2> HIDE DEF c
  <2>3. c = r - x
    BY <1>1, <2>2
  <2> QED
    BY <2>2, <2>3 DEF c
<1>4. Cardinality(D) = Cardinality(x + 1 .. r)
  <2> HIDE DEF D
  <2>1. ExistsBijection(x + 1 .. r, D)
    BY <1>2, Fun_ExistsBijSymmetric DEF ExistsBijection
  <2> QED
    BY <1>3, <2>1, FS_Bijection
<1> QED
  BY <1>1, <1>3, <1>4 DEF Newest

\* The frame that arrives next.
IsNext(f, r) == f \in Frame /\ f.id = r + 1 /\ f.n = r + 1

\* push() of the next frame: the numbers it leaves are old ones and the new one.
LEMMA PushedNumbers ==
    ASSUME NEW K, NEW r \in 0 .. Sent, NumberedTo(K, r), r < Sent,
           NEW f, IsNext(f, r), NEW due \in BOOLEAN
    PROVE  /\ NumberedTo(Pushed(K, f, due), r + 1)
           /\ Pushed(K, f, due).refExt = r + 1
           /\ Exts(Pushed(K, f, due)) \subseteq Exts(K) \cup {r + 1}
<1> DEFINE x == Extended(K, f.id)
           v == Verdict(K, f)
           entry == [ext |-> x, frame |-> f, due |-> due]
           pool == K.pending \cup {entry}
           table == IF v = "kept" THEN Capped(pool) ELSE K.pending
           open == K.started \/ v \in {"tooLate", "kept"}
           N == Pushed(K, f, due)
<1>1. /\ Sent \in Nat /\ 2 * Sent < IdMod /\ IdMod \in Nat /\ ExtMod \in Nat
      /\ IdMod <= ExtMod
  BY StreamAssumption, IdAssumption
<1>2. x = r + 1 /\ r + 1 \in 0 .. ExtMod - 1 /\ r + 1 \in 0 .. IdMod - 1
  BY <1>1, ExtendedIsNumber DEF IsNext
<1>3. entry \in Entry /\ entry.ext = r + 1 /\ entry.frame.n = r + 1
  BY <1>2 DEF Entry, IsNext
<1>4. pool \in SUBSET Entry
  BY <1>3 DEF NumberedTo, JitterType
<1>5. \A d, e \in pool : d.ext = e.ext => d = e
  <2>1. \A e \in K.pending : e.ext # r + 1
    BY DEF NumberedTo
  <2> QED
    BY <1>3, <2>1 DEF NumberedTo
<1> HIDE DEF entry
<1>6. /\ table \in SUBSET Entry
      /\ \A e \in table : e.ext = e.frame.n /\ e.ext \in 1 .. r + 1
      /\ \A d, e \in table : d.ext = e.ext => d = e
      /\ \A e \in table : e.ext \in Exts(K) \cup {r + 1}
  <2>1. /\ \A e \in pool : e.ext = e.frame.n /\ e.ext \in 1 .. r + 1
        /\ \A e \in pool : e.ext \in Exts(K) \cup {r + 1}
    BY <1>3 DEF NumberedTo, Exts
  <2>2. CASE v = "kept"
    <3> HIDE DEF pool
    <3> QED
      BY <1>4, <1>5, <2>1, <2>2, CappedEntries
  <2>3. CASE v # "kept"
    BY <2>1, <2>3 DEF NumberedTo, JitterType
  <2> QED
    BY <2>2, <2>3
<1>7. open \in BOOLEAN
  OBVIOUS
<1>8. N = [K EXCEPT !.hasRef = TRUE, !.refId = f.id, !.refExt = x,
                    !.started = open, !.pending = table]
  BY Zenon DEF Pushed, entry
<1> HIDE DEF x, v, table, open, N, pool
<1>9. N \in JitterType
  BY <1>2, <1>6, <1>7, <1>8 DEF JitterType, NumberedTo, IsNext
<1>10. /\ N.pending = table /\ N.refExt = r + 1 /\ N.refId = r + 1
       /\ N.hasOut = K.hasOut /\ N.lastOut = K.lastOut
  BY <1>2, <1>8 DEF JitterType, NumberedTo, IsNext
<1>11. N.hasOut => N.lastOut \in 0 .. r + 1
  BY <1>10 DEF NumberedTo
<1>12. NumberedTo(N, r + 1)
  BY <1>6, <1>9, <1>10, <1>11 DEF NumberedTo
<1>13. Exts(N) \subseteq Exts(K) \cup {r + 1}
  BY <1>6, <1>10 DEF Exts
<1> QED
  BY <1>10, <1>12, <1>13 DEF N

\* While the gate is closed a frame that is no key frame changes neither the table
\* nor the gate.
LEMMA PushedBeforeKey ==
    ASSUME NEW K, NEW r \in 0 .. Sent, NumberedTo(K, r), r < Sent,
           NEW f, IsNext(f, r), NEW due \in BOOLEAN, ~K.started, ~f.key
    PROVE  Pushed(K, f, due).pending = K.pending /\ ~Pushed(K, f, due).started
<1>1. Verdict(K, f) \in {"duplicate", "beforeKey"}
  BY DEF Verdict
<1> DEFINE v == Verdict(K, f)
           N == Pushed(K, f, due)
<1> HIDE DEF v
<1>2. N = [K EXCEPT !.hasRef = TRUE, !.refId = f.id, !.refExt = Extended(K, f.id)]
  <2>1. (K.started \/ v \in {"tooLate", "kept"}) = FALSE
    BY <1>1 DEF v
  <2>2. K.started = FALSE
    BY DEF NumberedTo, JitterType
  <2>3. N = [K EXCEPT !.hasRef = TRUE, !.refId = f.id, !.refExt = Extended(K, f.id),
                      !.started = K.started, !.pending = K.pending]
    BY <1>1, <2>1, <2>2, Zenon DEF Pushed, v
  <2>4. K \in JitterType
    BY DEF NumberedTo
  <2> QED
    BY <2>3, <2>4 DEF JitterType
<1>3. N.pending = K.pending /\ N.started = K.started
  BY <1>2 DEF NumberedTo, JitterType
<1> QED
  BY <1>3 DEF N

\* With the gate open, or for a key frame, a table that is not over the soft limit
\* gets the next frame and loses none.
LEMMA PushedKept ==
    ASSUME NEW K, NEW r \in 0 .. Sent, NumberedTo(K, r), r < Sent,
           NEW f, IsNext(f, r), NEW due \in BOOLEAN,
           K.started \/ f.key, HardLimit > SoftLimit,
           NEW lo \in 0 .. r, Exts(K) = lo + 1 .. r, r - lo <= SoftLimit
    PROVE  /\ Exts(Pushed(K, f, due)) = lo + 1 .. r + 1
           /\ PacedTo(Pushed(K, f, due), r + 1)
           /\ Pushed(K, f, due).started
<1> DEFINE x == Extended(K, f.id)
           v == Verdict(K, f)
           entry == [ext |-> x, frame |-> f, due |-> due]
           pool == K.pending \cup {entry}
           N == Pushed(K, f, due)
<1>1. /\ Sent \in Nat /\ ExtMod \in Nat /\ SoftLimit \in Nat /\ HardLimit \in Nat
      /\ 2 * Sent < IdMod /\ IdMod \in Nat /\ IdMod <= ExtMod
  BY StreamAssumption, IdAssumption, LimitAssumption DEF HardLimit
<1>2. x = r + 1 /\ r + 1 \in 0 .. ExtMod - 1
  BY <1>1, ExtendedIsNumber DEF IsNext
<1>3. entry \in Entry /\ entry.ext = r + 1
  BY <1>2 DEF Entry, IsNext
<1>4. v = "kept"
  <2>1. \A e \in K.pending : e.ext # r + 1
    BY DEF NumberedTo
  <2>2. K.hasOut => ~(r + 1 <= K.lastOut)
    BY DEF NumberedTo
  <2> QED
    BY <1>2, <2>1, <2>2 DEF Verdict
<1>5. pool \in SUBSET Entry
  BY <1>3 DEF NumberedTo, JitterType
<1>6. \A d, e \in pool : d.ext = e.ext => d = e
  <2>1. \A e \in K.pending : e.ext # r + 1
    BY DEF NumberedTo
  <2> QED
    BY <1>3, <2>1 DEF NumberedTo
<1>7. {e.ext : e \in pool} = lo + 1 .. r + 1
  <2> HIDE DEF entry
  <2>1. {e.ext : e \in pool} = Exts(K) \cup {r + 1}
    BY <1>3 DEF Exts
  <2>2. lo + 1 .. r + 1 = (lo + 1 .. r) \cup {r + 1}
    OBVIOUS
  <2> QED
    BY <2>1, <2>2
<1>8. N.pending = Capped(pool) /\ N.started
  <2>1. K \in JitterType
    BY DEF NumberedTo
  <2> DEFINE open == K.started \/ v \in {"tooLate", "kept"}
  <2>2. N = [K EXCEPT !.hasRef = TRUE, !.refId = f.id, !.refExt = x,
                      !.started = open, !.pending = Capped(pool)]
    BY <1>4, Zenon DEF Pushed
  <2>3. open = TRUE
    BY <1>4
  <2> HIDE DEF x, v, open, N, pool
  <2>4. N.pending = Capped(pool) /\ N.started = open
    BY <2>1, <2>2 DEF JitterType
  <2> QED
    BY <2>3, <2>4
<1> HIDE DEF entry, pool, N
<1> DEFINE now(e) == [e EXCEPT !.due = e.due \/ e \notin Newest(pool, SoftLimit)]
<1>9. /\ \A e \in pool : e.ext \in lo + 1 .. r + 1
      /\ \A y \in lo + 1 .. r + 1 : \E e \in pool : e.ext = y
  BY <1>7
<1>10. ASSUME NEW e \in pool, NEW k \in Nat
       PROVE  e \in Newest(pool, k) <=> (r + 1) - e.ext < k
  <2>1. lo \in Nat /\ r + 1 \in Nat
    BY <1>1
  <2> QED
    BY <1>5, <1>6, <1>9, <1>10, <2>1, NewerEntries
<1>11. Newest(pool, HardLimit) = pool
  <2>1. ASSUME NEW e \in pool PROVE e \in Newest(pool, HardLimit)
    <3>1. PICK y \in lo + 1 .. r + 1 : y = e.ext
      BY <1>9, <2>1
    <3>2. (r + 1) - y < HardLimit
      BY <1>1
    <3> QED
      BY <1>1, <1>10, <2>1, <3>1, <3>2
  <2> QED
    BY <2>1 DEF Newest
<1>12. Capped(pool) = {now(e) : e \in pool}
  BY <1>11, Zenon DEF Capped
<1>13. ASSUME NEW e \in pool
       PROVE  now(e).ext = e.ext /\ (now(e).due \/ (r + 1) - e.ext < SoftLimit)
  <2>1. PICK b \in BOOLEAN : b = (e.due \/ e \notin Newest(pool, SoftLimit))
    OBVIOUS
  <2>2. now(e) = [e EXCEPT !.due = b]
    BY <2>1
  <2> HIDE DEF now
  <2>3. e \in Entry
    BY <1>5
  <2>4. now(e).ext = e.ext /\ now(e).due = b
    BY <2>2, <2>3 DEF Entry
  <2>5. ~b => (r + 1) - e.ext < SoftLimit
    BY <1>1, <1>13, <1>10, <2>1
  <2> QED
    BY <2>4, <2>5
<1> HIDE DEF now
<1>14. Exts(N) = {e.ext : e \in pool}
  BY <1>8, <1>12, <1>13 DEF Exts
<1>15. PacedTo(N, r + 1)
  BY <1>8, <1>12, <1>13 DEF PacedTo
<1> QED
  BY <1>7, <1>8, <1>14, <1>15 DEF N

\* pop() of a due entry takes the least number out.
LEMMA PoppedNumbers ==
    ASSUME NEW K, NEW r \in 0 .. Sent, NumberedTo(K, r), NEW e, IsDue(K, e)
    PROVE  /\ e.ext = e.frame.n /\ e.ext \in Exts(K) /\ e.ext \in 1 .. r
           /\ \A x \in Exts(K) : e.ext <= x
           /\ NumberedTo(Popped(K, e), r)
           /\ Exts(Popped(K, e)) = Exts(K) \ {e.ext}
           /\ Popped(K, e).refExt = K.refExt /\ Popped(K, e).started = K.started
           /\ PacedTo(K, r) => PacedTo(Popped(K, e), r)
<1> DEFINE N == Popped(K, e)
           table == K.pending \ {e}
<1>1. e \in K.pending /\ \A d \in K.pending : e.ext <= d.ext
  BY DEF IsDue, IsOldest
<1>2. K \in JitterType /\ K.pending \in SUBSET Entry
  BY DEF NumberedTo, JitterType
<1>3. N = [K EXCEPT !.pending = table, !.lastOut = e.ext, !.hasOut = TRUE]
  BY DEF Popped
<1>4. e.ext \in 0 .. ExtMod - 1 /\ table \in SUBSET Entry
  BY <1>1, <1>2 DEF Entry
<1> HIDE DEF N, table
<1>5. N \in JitterType
  BY <1>2, <1>3, <1>4 DEF JitterType
<1>6. /\ N.pending = table /\ N.lastOut = e.ext /\ N.refExt = K.refExt
      /\ N.hasRef = K.hasRef /\ N.refId = K.refId /\ N.started = K.started
  BY <1>2, <1>3 DEF JitterType
<1>7. e.ext = e.frame.n /\ e.ext \in 1 .. r /\ e.ext \in 0 .. r
  BY <1>1 DEF NumberedTo
<1>8. table \subseteq K.pending
  BY DEF table
<1>9. NumberedTo(N, r)
  BY <1>5, <1>6, <1>7, <1>8 DEF NumberedTo
<1>10. Exts(N) = Exts(K) \ {e.ext}
  <2>1. \A d \in K.pending : d \in table <=> d.ext # e.ext
    BY <1>1 DEF NumberedTo, table
  <2> QED
    BY <1>6, <1>8, <2>1 DEF Exts
<1>11. PacedTo(K, r) => PacedTo(N, r)
  BY <1>6, <1>8 DEF PacedTo
<1> QED
  BY <1>1, <1>6, <1>7, <1>9, <1>10, <1>11 DEF N, Exts

\* When nothing is due, the table is within the soft limit.
LEMMA NothingDueIsFew ==
    ASSUME NEW K, NEW r \in 0 .. Sent, NumberedTo(K, r), PacedTo(K, r),
           \A e \in K.pending : ~IsDue(K, e)
    PROVE  \A x \in Exts(K) : r - x < SoftLimit
<1> SUFFICES ASSUME NEW x \in Exts(K) PROVE r - x < SoftLimit
  OBVIOUS
<1>1. Exts(K) \subseteq Nat /\ \A y \in Exts(K) : y \in 1 .. r
  BY DEF NumberedTo, Exts
<1>2. PICK y \in Exts(K) : \A z \in Exts(K) : y <= z
  BY <1>1, LeastNatural
<1>3. PICK e \in K.pending : e.ext = y
  BY DEF Exts
<1>4. \A d \in K.pending : d.ext \in Exts(K)
  BY DEF Exts
<1>5. IsOldest(K, e)
  BY <1>2, <1>3, <1>4 DEF IsOldest
<1>6. ~e.due
  BY <1>5 DEF IsDue
<1>7. r - y < SoftLimit
  BY <1>3, <1>6 DEF PacedTo
<1> QED
  BY <1>1, <1>2, <1>7, LimitAssumption

\* Time changes no number.
LEMMA RipenedNumbers ==
    ASSUME NEW K, NEW r \in 0 .. Sent, NumberedTo(K, r), NEW e \in K.pending
    PROVE  /\ NumberedTo(Ripened(K, e), r)
           /\ Exts(Ripened(K, e)) = Exts(K)
           /\ Ripened(K, e).refExt = K.refExt /\ Ripened(K, e).started = K.started
           /\ PacedTo(K, r) => PacedTo(Ripened(K, e), r)
<1> DEFINE N == Ripened(K, e)
           ripe == [e EXCEPT !.due = TRUE]
           table == (K.pending \ {e}) \cup {ripe}
<1>1. K \in JitterType /\ K.pending \in SUBSET Entry /\ e \in Entry
  BY DEF NumberedTo, JitterType
<1>2. N = [K EXCEPT !.pending = table]
  BY DEF Ripened
<1>3. ripe \in Entry /\ ripe.ext = e.ext /\ ripe.frame = e.frame /\ ripe.due
  BY <1>1 DEF Entry
<1> HIDE DEF N, ripe
<1>4. table \in SUBSET Entry
  BY <1>1, <1>3
<1>5. /\ \A d \in table : d.ext = d.frame.n /\ d.ext \in 1 .. r
      /\ \A c, d \in table : c.ext = d.ext => c = d
  BY <1>3 DEF NumberedTo
<1>6. {d.ext : d \in table} = {d.ext : d \in K.pending}
  BY <1>3
<1>7. PacedTo(K, r) => \A d \in table : d.due \/ r - d.ext < SoftLimit
  BY <1>3 DEF PacedTo
<1> HIDE DEF table
<1>8. N \in JitterType
  BY <1>1, <1>2, <1>4 DEF JitterType
<1>9. /\ N.pending = table /\ N.refExt = K.refExt /\ N.started = K.started
      /\ N.hasRef = K.hasRef /\ N.refId = K.refId
      /\ N.hasOut = K.hasOut /\ N.lastOut = K.lastOut
  BY <1>1, <1>2 DEF JitterType
<1>10. NumberedTo(N, r)
  BY <1>5, <1>8, <1>9 DEF NumberedTo
<1>11. Exts(N) = Exts(K)
  BY <1>6, <1>9 DEF Exts
<1>12. PacedTo(K, r) => PacedTo(N, r)
  BY <1>7, <1>9 DEF PacedTo
<1> QED
  BY <1>9, <1>10, <1>11, <1>12 DEF N

\* dropUntilKeyFrame() empties the table and closes the gate.
LEMMA ClosedNumbers ==
    ASSUME NEW K, NEW r \in 0 .. Sent, NumberedTo(K, r)
    PROVE  /\ NumberedTo(ClosedUntilKey(K), r)
           /\ Exts(ClosedUntilKey(K)) = {}
           /\ ClosedUntilKey(K).refExt = K.refExt
           /\ StartOnKeyFrame => ~ClosedUntilKey(K).started
<1> DEFINE N == ClosedUntilKey(K)
<1>1. K \in JitterType
  BY DEF NumberedTo
<1>2. PICK b \in BOOLEAN : b = ~StartOnKeyFrame
  OBVIOUS
<1>3. N = [K EXCEPT !.pending = {}, !.started = b]
  BY <1>2 DEF ClosedUntilKey
<1> HIDE DEF N
<1>4. N \in JitterType
  BY <1>1, <1>3 DEF JitterType
<1>5. /\ N.pending = {} /\ N.started = b /\ N.refExt = K.refExt
      /\ N.hasRef = K.hasRef /\ N.refId = K.refId
      /\ N.hasOut = K.hasOut /\ N.lastOut = K.lastOut
  BY <1>1, <1>3 DEF JitterType
<1>6. NumberedTo(N, r)
  BY <1>4, <1>5 DEF NumberedTo
<1> QED
  BY <1>2, <1>5, <1>6 DEF N, Exts

-----------------------------------------------------------------------------
(* Queues and numbered sequences.                                          *)

\* The numbers in s rise from above lo to at most hi.
Between(s, lo, hi) ==
    /\ lo <= hi
    /\ \A i \in 1 .. Len(s) : lo < s[i] /\ s[i] <= hi
    /\ \A i, j \in 1 .. Len(s) : i < j => s[i] < s[j]

\* Leaving out the counters changes neither the items nor the closed flag.
LEMMA UncountedItems ==
    ASSUME NEW q \in QueueOf(Nat)
    PROVE  /\ Uncounted(q) \in QueueOf(Nat)
           /\ Uncounted(q).items = q.items
           /\ Uncounted(q).closed = q.closed
  BY DEF Uncounted, QueueOf

\* A queue appended to.
LEMMA AppendedItems ==
    ASSUME NEW q \in QueueOf(Nat), NEW x \in Nat
    PROVE  /\ Uncounted(Enqueued(q, x)) \in QueueOf(Nat)
           /\ Uncounted(Enqueued(q, x)).items = Append(q.items, x)
           /\ Uncounted(Enqueued(q, x)).closed = q.closed
<1>1. /\ Enqueued(q, x) \in QueueOf(Nat)
      /\ Enqueued(q, x).items = Append(q.items, x)
      /\ Enqueued(q, x).closed = q.closed
  BY EnqueuedItems
<1> QED
  BY <1>1, UncountedItems

\* A queue emptied.
LEMMA ClearedItems ==
    ASSUME NEW q \in QueueOf(Nat)
    PROVE  /\ Uncounted(Cleared(q)) \in QueueOf(Nat)
           /\ Uncounted(Cleared(q)).items = <<>>
           /\ Uncounted(Cleared(q)).closed = q.closed
<1>1. q.items \in Seq(Nat) /\ q.dropped \in Nat /\ Len(q.items) \in Nat
  BY LenProperties DEF QueueOf
<1>2. PICK n \in Nat : n = q.dropped + Len(q.items)
  BY <1>1
<1>3. Cleared(q) = [q EXCEPT !.items = <<>>, !.dropped = n]
  BY <1>2 DEF Cleared
<1>4. /\ Cleared(q) \in QueueOf(Nat)
      /\ Cleared(q).items = <<>>
      /\ Cleared(q).closed = q.closed
  BY <1>3, EmptySeq DEF QueueOf
<1> QED
  BY <1>4, UncountedItems

\* A queue that takes an item in any case, and may give up its first.
LEMMA ForcedItems ==
    ASSUME NEW q \in QueueOf(Nat), NEW x \in Nat, NEW cap \in Nat \ {0}
    PROVE  /\ Uncounted(Forced(q, cap, x)) \in QueueOf(Nat)
           /\ \/ Uncounted(Forced(q, cap, x)).items = Append(q.items, x)
              \/ /\ q.items # <<>>
                 /\ Uncounted(Forced(q, cap, x)).items = Append(Tail(q.items), x)
           /\ Uncounted(Forced(q, cap, x)).closed = q.closed
<1>1. CASE ~IsFull(q, cap)
  <2>1. Forced(q, cap, x) = Enqueued(q, x)
    BY <1>1 DEF Forced
  <2> QED
    BY <2>1, AppendedItems
<1>2. CASE IsFull(q, cap)
  <2>1. q.items \in Seq(Nat) /\ q.dropped + 1 \in Nat
    BY DEF QueueOf
  <2>2. q.items # <<>>
    BY <1>2, <2>1, EmptySeq DEF IsFull
  <2>3. /\ Dequeued(q) \in QueueOf(Nat)
        /\ Dequeued(q).items = Tail(q.items)
        /\ Dequeued(q).closed = q.closed
    BY <2>2, DequeuedItems
  <2>4. PICK d \in QueueOf(Nat) : d = Dequeued(q)
    BY <2>3
  <2>5. PICK n \in Nat : n = d.dropped + 1
    BY DEF QueueOf
  <2>6. PICK c : c = [d EXCEPT !.dropped = n]
    OBVIOUS
  <2>7. c \in QueueOf(Nat) /\ c.items = Tail(q.items) /\ c.closed = q.closed
    BY <2>3, <2>4, <2>6 DEF QueueOf
  <2>8. Forced(q, cap, x) = Enqueued(c, x)
    BY <1>2, <2>4, <2>5, <2>6 DEF Forced
  <2> QED
    BY <2>2, <2>7, <2>8, AppendedItems, ZenonT(60)
<1> QED
  BY <1>1, <1>2

\* Nothing rises between any bounds, and bounds may be widened.
LEMMA BetweenWider ==
    /\ \A lo, hi \in Nat : lo <= hi => Between(<<>>, lo, hi)
    /\ \A s \in Seq(Nat) : \A lo, hi, l, h \in Nat :
          Between(s, lo, hi) /\ l <= lo /\ hi <= h => Between(s, l, h)
<1>1. \A lo, hi \in Nat : lo <= hi => Between(<<>>, lo, hi)
  BY DEF Between
<1>2. ASSUME NEW s \in Seq(Nat), NEW lo \in Nat, NEW hi \in Nat, NEW l \in Nat, NEW h \in Nat,
             Between(s, lo, hi), l <= lo, hi <= h
      PROVE  Between(s, l, h)
  <2>1. \A i \in 1 .. Len(s) : s[i] \in Nat
    BY ElementOfSeq
  <2> QED
    BY <1>2, <2>1 DEF Between
<1> QED
  BY <1>1, <1>2

\* A higher number at the end.
LEMMA BetweenAppend ==
    ASSUME NEW s \in Seq(Nat), NEW lo \in Nat, NEW hi \in Nat, Between(s, lo, hi),
           NEW x \in Nat, hi < x
    PROVE  Between(Append(s, x), lo, x)
<1> DEFINE r == Append(s, x)
<1>1. /\ Len(s) \in Nat /\ Len(r) = Len(s) + 1
      /\ \A i \in 1 .. Len(s) : r[i] = s[i] /\ s[i] \in Nat
      /\ r[Len(s) + 1] = x
  BY AppendProperties, LenProperties, ElementOfSeq
<1> HIDE DEF r
<1>2. ASSUME NEW i \in 1 .. Len(r) PROVE lo < r[i] /\ r[i] <= x
  <2>1. CASE i \in 1 .. Len(s)
    BY <1>1, <2>1 DEF Between
  <2>2. CASE i = Len(s) + 1
    BY <1>1, <2>2 DEF Between
  <2> QED
    BY <1>1, <2>1, <2>2
<1>3. ASSUME NEW i \in 1 .. Len(r), NEW j \in 1 .. Len(r), i < j PROVE r[i] < r[j]
  <2>1. i \in 1 .. Len(s)
    BY <1>1, <1>3
  <2>2. CASE j \in 1 .. Len(s)
    BY <1>1, <1>3, <2>1, <2>2 DEF Between
  <2>3. CASE j = Len(s) + 1
    BY <1>1, <2>1, <2>3 DEF Between
  <2> QED
    BY <1>1, <2>2, <2>3
<1>4. lo <= x
  BY DEF Between
<1> QED
  BY <1>2, <1>3, <1>4 DEF Between, r

\* The first number taken away: the rest lies above it.
LEMMA BetweenTail ==
    ASSUME NEW s \in Seq(Nat), NEW lo \in Nat, NEW hi \in Nat, Between(s, lo, hi), s # <<>>
    PROVE  /\ Head(s) \in Nat /\ lo < Head(s) /\ Head(s) <= hi
           /\ Tail(s) \in Seq(Nat) /\ Between(Tail(s), Head(s), hi)
<1> DEFINE r == Tail(s)
<1>1. Len(s) \in Nat \ {0}
  BY EmptySeq
<1>2. /\ Head(s) = s[1] /\ r \in Seq(Nat) /\ Len(r) = Len(s) - 1
      /\ \A i \in 1 .. Len(r) : r[i] = s[i + 1]
      /\ \A i \in 1 .. Len(s) : s[i] \in Nat
  BY HeadTailProperties, ElementOfSeq
<1> HIDE DEF r
<1>3. Head(s) \in Nat /\ lo < Head(s) /\ Head(s) <= hi
  BY <1>1, <1>2 DEF Between
<1>4. ASSUME NEW i \in 1 .. Len(r) PROVE Head(s) < r[i] /\ r[i] <= hi
  <2>1. i + 1 \in 1 .. Len(s) /\ 1 \in 1 .. Len(s) /\ 1 < i + 1
    BY <1>1, <1>2
  <2> QED
    BY <1>2, <2>1 DEF Between
<1>5. ASSUME NEW i \in 1 .. Len(r), NEW j \in 1 .. Len(r), i < j PROVE r[i] < r[j]
  <2>1. i + 1 \in 1 .. Len(s) /\ j + 1 \in 1 .. Len(s) /\ i + 1 < j + 1
    BY <1>1, <1>2, <1>5
  <2> QED
    BY <1>2, <2>1 DEF Between
<1> QED
  BY <1>2, <1>3, <1>4, <1>5 DEF Between, r

\* Cut in two.
LEMMA BetweenCut ==
    ASSUME NEW s \in Seq(Nat), NEW lo \in Nat, NEW hi \in Nat, Between(s, lo, hi),
           NEW k \in 0 .. Len(s)
    PROVE  /\ SubSeq(s, 1, k) \in Seq(Nat) /\ SubSeq(s, k + 1, Len(s)) \in Seq(Nat)
           /\ \E m \in Nat : /\ Between(SubSeq(s, 1, k), lo, m)
                             /\ Between(SubSeq(s, k + 1, Len(s)), m, hi)
<1> DEFINE u == SubSeq(s, 1, k)
           v == SubSeq(s, k + 1, Len(s))
           m == IF k = 0 THEN lo ELSE s[k]
<1>1. Len(s) \in Nat /\ \A i \in 1 .. Len(s) : s[i] \in Nat
  BY LenProperties, ElementOfSeq
<1>2. /\ u \in Seq(Nat) /\ Len(u) = k
      /\ \A i \in 1 .. k : u[i] = s[i]
  <2>1. \A i \in 1 .. k : s[i] \in Nat
    BY <1>1
  <2>2. /\ u \in Seq(Nat) /\ Len(u) = IF 1 <= k THEN k - 1 + 1 ELSE 0
        /\ \A i \in 1 .. k - 1 + 1 : u[i] = s[1 + i - 1]
    BY <1>1, <2>1, SubSeqProperties
  <2> HIDE DEF u
  <2> QED
    BY <1>1, <2>2
<1>3. /\ v \in Seq(Nat) /\ Len(v) = Len(s) - k
      /\ \A i \in 1 .. Len(s) - k : v[i] = s[k + i]
  <2>1. \A i \in k + 1 .. Len(s) : s[i] \in Nat
    BY <1>1
  <2>2. /\ v \in Seq(Nat)
        /\ Len(v) = IF k + 1 <= Len(s) THEN Len(s) - (k + 1) + 1 ELSE 0
        /\ \A i \in 1 .. Len(s) - (k + 1) + 1 : v[i] = s[(k + 1) + i - 1]
    BY <1>1, <2>1, SubSeqProperties
  <2> HIDE DEF v
  <2> QED
    BY <1>1, <2>2
<1> HIDE DEF u, v
<1>4. m \in Nat /\ lo <= m /\ m <= hi
  BY <1>1 DEF Between
<1>5. Between(u, lo, m)
  <2>1. ASSUME NEW i \in 1 .. k PROVE s[i] <= m
    <3>1. k \in 1 .. Len(s) /\ m = s[k]
      BY <1>1
    <3>2. CASE i = k
      BY <1>1, <3>1, <3>2
    <3>3. CASE i < k
      BY <1>1, <3>1, <3>3 DEF Between
    <3> QED
      BY <3>2, <3>3
  <2>2. ASSUME NEW i \in 1 .. k PROVE lo < u[i] /\ u[i] <= m
    <3>1. i \in 1 .. Len(s)
      BY <1>1
    <3> QED
      BY <1>2, <2>1, <3>1 DEF Between
  <2>3. ASSUME NEW i \in 1 .. k, NEW j \in 1 .. k, i < j PROVE u[i] < u[j]
    <3>1. i \in 1 .. Len(s) /\ j \in 1 .. Len(s)
      BY <1>1
    <3> QED
      BY <1>2, <2>3, <3>1 DEF Between
  <2> HIDE DEF m
  <2> QED
    BY <1>2, <1>4, <2>2, <2>3 DEF Between
<1>6. Between(v, m, hi)
  <2>1. ASSUME NEW i \in 1 .. Len(s) - k PROVE m < s[k + i]
    <3>1. k + i \in 1 .. Len(s)
      BY <1>1
    <3>2. CASE k = 0
      BY <1>1, <3>1, <3>2 DEF Between
    <3>3. CASE k # 0
      <4>1. k \in 1 .. Len(s) /\ k < k + i /\ m = s[k]
        BY <1>1, <3>3
      <4> QED
        BY <3>1, <4>1 DEF Between
    <3> QED
      BY <3>2, <3>3
  <2>2. ASSUME NEW i \in 1 .. Len(s) - k, NEW j \in 1 .. Len(s) - k, i < j
        PROVE  v[i] < v[j]
    <3>1. k + i \in 1 .. Len(s) /\ k + j \in 1 .. Len(s) /\ k + i < k + j
      BY <1>1, <2>2
    <3> QED
      BY <1>3, <3>1 DEF Between
  <2>3. ASSUME NEW i \in 1 .. Len(s) - k PROVE m < v[i] /\ v[i] <= hi
    <3>1. k + i \in 1 .. Len(s)
      BY <1>1
    <3> QED
      BY <1>3, <2>1, <3>1 DEF Between
  <2> HIDE DEF m
  <2> QED
    BY <1>3, <1>4, <2>2, <2>3 DEF Between
<1> QED
  BY <1>2, <1>3, <1>4, <1>5, <1>6 DEF u, v

-----------------------------------------------------------------------------
(* Types.                                                                  *)

\* Every thread stays on its own path.
LEMMA ThreadsNext ==
    ASSUME ThreadsOK, [Next]_vars
    PROVE  ThreadsOK'
<1> USE DEF ThreadsOK, StopPcs, Roles, Off, At, Go, StopThen
<1>1. CASE RecvReceive \/ RecvMayDeliver \/ RecvDeliver \/ RecvRejected
  BY <1>1 DEF RecvReceive, RecvMayDeliver, RecvDeliver, Deliver, RecvRejected, AfterLoop,
     AfterDue
<1>2. CASE RecvFuse \/ RecvDrain \/ RecvCloseA
  BY <1>2 DEF RecvFuse, Resumed, AfterDue, AfterLoop, RecvDrain, Deliver, RecvCloseA
<1>3. CASE DecodeLoop \/ DecodePop \/ DecodeClosed \/ DecodeFrame
  BY <1>3 DEF DecodeLoop, DecodePop, DecodeClosed, DecodeFrame
<1>4. CASE DecodeOutput \/ DecodeEnded \/ DecodeCloseB
  BY <1>4 DEF DecodeOutput, Output, DecodeEnded, DecodeCloseB
<1>5. CASE RenderOpen \/ RenderLoop \/ RenderPop \/ RenderIsClosed \/ RenderEnded
  BY <1>5 DEF RenderOpen, RenderLoop, RenderPop, RenderIsClosed, RenderEnded
<1>6. CASE RequestStop("recv") \/ RequestStop("decode") \/ RequestStop("render")
  BY <1>6 DEF RequestStop
<1>7. CASE TimePasses \/ StopRequest \/ UNCHANGED vars
  BY <1>7 DEF TimePasses, StopRequest, vars
<1> QED
  BY <1>1, <1>2, <1>3, <1>4, <1>5, <1>6, <1>7
     DEF Next, RecvStep, DecodeStep, RenderStep, Returned

\* What the steps do to queue A, in items: what is appended is the frame popped.
LEMMA StepsOfA ==
    ASSUME QueuesOK, Numbered, [Next]_vars
    PROVE  /\ A' \in QueueOf(Nat)
           /\ \/ A'.items = A.items
              \/ RecvFuse /\ A'.items = <<>>
              \/ DecodePop /\ A.items # <<>> /\ A'.items = Tail(A.items)
              \/ /\ RecvDeliver \/ RecvDrain
                 /\ \E e \in J.pending :
                       /\ IsDue(J, e) /\ J' = Popped(J, e)
                       /\ e.ext \in Nat /\ A'.items = Append(A.items, e.ext)
<1>1. A \in QueueOf(Nat)
  BY DEF QueuesOK
<1>2. CASE RecvFuse
  BY <1>1, <1>2, ClearedItems DEF RecvFuse
<1>3. CASE RecvDeliver \/ RecvDrain
  <2>1. CASE A' = A
    BY <1>1, <2>1
  <2>2. CASE A' # A
    <3>1. PICK e \in J.pending : /\ IsDue(J, e)
                                 /\ J' = Popped(J, e)
                                 /\ A' = Uncounted(Enqueued(A, e.frame.n))
      BY <1>3, <2>2 DEF RecvDeliver, RecvDrain, Deliver
    <3>2. e.ext \in Nat /\ e.frame.n = e.ext
      BY DEF Numbered, NumberedTo
    <3> QED
      BY <1>1, <1>3, <3>1, <3>2, AppendedItems
  <2> QED
    BY <2>1, <2>2
<1>4. CASE RecvCloseA
  BY <1>1, <1>4, ClosedItems DEF RecvCloseA
<1>5. CASE RequestStop("recv") \/ RequestStop("decode") \/ RequestStop("render")
  BY <1>1, <1>5, ClosedItems DEF RequestStop
<1>6. CASE DecodePop
  BY <1>1, <1>6, DequeuedItems DEF DecodePop, IsEmpty
<1>7. CASE RecvReceive \/ RecvMayDeliver \/ RecvRejected
  BY <1>1, <1>7 DEF RecvReceive, RecvMayDeliver, RecvRejected, shared
<1>8. CASE DecodeLoop \/ DecodeClosed \/ DecodeFrame \/ DecodeOutput \/ DecodeEnded
           \/ DecodeCloseB
  BY <1>1, <1>8 DEF DecodeLoop, DecodeClosed, DecodeFrame, DecodeOutput, DecodeEnded,
     DecodeCloseB, shared
<1>9. CASE RenderStep /\ ~RequestStop("render")
  BY <1>1, <1>9 DEF RenderStep, RenderOpen, RenderLoop, RenderPop, RenderIsClosed,
     RenderEnded, shared
<1>10. CASE TimePasses \/ StopRequest \/ UNCHANGED vars
  BY <1>1, <1>10 DEF TimePasses, StopRequest, vars, shared
<1> QED
  BY <1>2, <1>3, <1>4, <1>5, <1>6, <1>7, <1>8, <1>9, <1>10
     DEF Next, RecvStep, DecodeStep, RenderStep, Returned

\* And to queue B.
LEMMA StepsOfB ==
    ASSUME QueuesOK, DecoderOK, [Next]_vars
    PROVE  /\ B' \in QueueOf(Nat)
           /\ \/ B'.items = B.items
              \/ RenderPop /\ B.items # <<>> /\ B'.items = Tail(B.items)
              \/ /\ DecodeOutput /\ out # <<>>
                 /\ out' = Tail(out)
                 /\ \/ B'.items = Append(B.items, Head(out))
                    \/ B.items # <<>> /\ B'.items = Append(Tail(B.items), Head(out))
<1>1. B \in QueueOf(Nat)
  BY DEF QueuesOK
<1>2. CASE DecodeOutput
  <2>1. CASE B' = B
    BY <1>1, <2>1
  <2>2. CASE B' # B
    <3>1. /\ out # <<>> /\ out' = Tail(out)
          /\ B' = Uncounted(Forced(B, BCap, Head(out)))
      BY <1>2, <2>2 DEF DecodeOutput, Output
    <3>2. Head(out) \in Nat
      BY <3>1, HeadTailProperties DEF DecoderOK
    <3> QED
      BY <1>1, <1>2, <3>1, <3>2, ForcedItems, QueueAssumption
  <2> QED
    BY <2>1, <2>2
<1>3. CASE DecodeCloseB
  BY <1>1, <1>3, ClosedItems DEF DecodeCloseB
<1>4. CASE RequestStop("recv") \/ RequestStop("decode") \/ RequestStop("render")
  BY <1>1, <1>4, ClosedItems, ZenonT(60) DEF RequestStop
<1>5. CASE RenderPop
  BY <1>1, <1>5, DequeuedItems DEF RenderPop, IsEmpty
<1>6. CASE RecvStep /\ ~RequestStop("recv")
  BY <1>1, <1>6 DEF RecvStep, RecvReceive, RecvMayDeliver, RecvDeliver, RecvRejected,
     RecvFuse, RecvDrain, RecvCloseA, shared
<1>7. CASE DecodeLoop \/ DecodePop \/ DecodeClosed \/ DecodeFrame \/ DecodeEnded
  BY <1>1, <1>7 DEF DecodeLoop, DecodePop, DecodeClosed, DecodeFrame, DecodeEnded, shared
<1>8. CASE RenderOpen \/ RenderLoop \/ RenderIsClosed \/ RenderEnded
  BY <1>1, <1>8 DEF RenderOpen, RenderLoop, RenderIsClosed, RenderEnded, shared
<1>9. CASE TimePasses \/ StopRequest \/ UNCHANGED vars
  BY <1>1, <1>9 DEF TimePasses, StopRequest, vars, shared
<1> QED
  BY <1>2, <1>3, <1>4, <1>5, <1>6, <1>7, <1>8, <1>9
     DEF Next, RecvStep, DecodeStep, RenderStep, Returned

\* What they do to the jitter buffer.
LEMMA StepsOfJ ==
    ASSUME Numbered, [Next]_vars
    PROVE  \/ J' = J /\ received' = received
           \/ /\ RecvReceive /\ received < Sent /\ received' = received + 1
              /\ \/ J' = J
                 \/ /\ Rendering
                    /\ \E due \in BOOLEAN : J' = Pushed(J, FrameOf(received + 1), due)
           \/ /\ RecvDeliver \/ RecvDrain
              /\ received' = received
              /\ \E e \in J.pending : IsDue(J, e) /\ J' = Popped(J, e)
           \/ RecvFuse /\ received' = received /\ J' = ClosedUntilKey(J)
           \/ /\ TimePasses /\ received' = received
              /\ \E e \in J.pending : J' = Ripened(J, e)
<1>1. CASE RecvReceive
  BY <1>1 DEF RecvReceive
<1>2. CASE RecvDeliver \/ RecvDrain
  BY <1>2 DEF RecvDeliver, RecvDrain, Deliver
<1>3. CASE RecvFuse
  BY <1>3 DEF RecvFuse
<1>4. CASE TimePasses
  BY <1>4 DEF TimePasses
<1>5. CASE RecvMayDeliver \/ RecvRejected \/ RecvCloseA
  BY <1>5 DEF RecvMayDeliver, RecvRejected, RecvCloseA, recv
<1>6. CASE RequestStop("recv") \/ RequestStop("decode") \/ RequestStop("render")
  BY <1>6 DEF RequestStop, recv
<1>7. CASE DecodeStep /\ ~RequestStop("decode")
  BY <1>7 DEF DecodeStep, DecodeLoop, DecodePop, DecodeClosed, DecodeFrame, DecodeOutput,
     DecodeEnded, DecodeCloseB, recv
<1>8. CASE RenderStep /\ ~RequestStop("render")
  BY <1>8 DEF RenderStep, RenderOpen, RenderLoop, RenderPop, RenderIsClosed, RenderEnded,
     recv
<1>9. CASE StopRequest \/ UNCHANGED vars
  BY <1>9 DEF StopRequest, vars, recv
<1> QED
  BY <1>1, <1>2, <1>3, <1>4, <1>5, <1>6, <1>7, <1>8, <1>9
     DEF Next, RecvStep, DecodeStep, RenderStep, Returned

\* What they do to the decode thread's own state.
LEMMA StepsOfDecode ==
    ASSUME QueuesOK, [Next]_vars
    PROVE  \/ UNCHANGED <<coded, inside, out>>
           \/ /\ DecodePop /\ A.items # <<>>
              /\ coded' = Head(A.items) /\ A'.items = Tail(A.items)
              /\ UNCHANGED <<inside, out>>
           \/ /\ DecodeFrame /\ coded' = 0
              /\ \/ UNCHANGED <<inside, out>>
                 \/ \E k \in 0 .. Len(inside) + 1 :
                      /\ out' = SubSeq(Append(inside, coded), 1, k)
                      /\ inside' = SubSeq(Append(inside, coded), k + 1,
                                          Len(Append(inside, coded)))
           \/ /\ DecodeOutput /\ out # <<>> /\ out' = Tail(out)
              /\ UNCHANGED <<coded, inside>>
           \/ DecodeEnded /\ out' = inside /\ inside' = <<>> /\ coded' = coded
<1>1. CASE RecvStep /\ ~RequestStop("recv")
  BY <1>1 DEF RecvStep, RecvReceive, RecvMayDeliver, RecvDeliver, RecvRejected, RecvFuse,
     RecvDrain, RecvCloseA, decode
<1>2. CASE RequestStop("recv") \/ RequestStop("decode") \/ RequestStop("render")
  BY <1>2 DEF RequestStop, decode
<1>3. CASE DecodePop
  BY <1>3, DequeuedItems DEF DecodePop, IsEmpty, QueuesOK
<1>4. CASE DecodeFrame
  BY <1>4 DEF DecodeFrame
<1>5. CASE DecodeOutput
  BY <1>5 DEF DecodeOutput, Output
<1>6. CASE DecodeEnded
  BY <1>6 DEF DecodeEnded
<1>7. CASE DecodeLoop \/ DecodeClosed \/ DecodeCloseB
  BY <1>7 DEF DecodeLoop, DecodeClosed, DecodeCloseB, decode
<1>8. CASE RenderStep /\ ~RequestStop("render")
  BY <1>8 DEF RenderStep, RenderOpen, RenderLoop, RenderPop, RenderIsClosed, RenderEnded,
     decode
<1>9. CASE TimePasses \/ StopRequest \/ UNCHANGED vars
  BY <1>9 DEF TimePasses, StopRequest, vars, decode
<1> QED
  BY <1>1, <1>2, <1>3, <1>4, <1>5, <1>6, <1>7, <1>8, <1>9
     DEF Next, RecvStep, DecodeStep, RenderStep, Returned

\* Only the decode thread gives a frame to the decoder, only the render thread
\* shows a picture.
LEMMA StepsOfHistory ==
    ASSUME QueuesOK, [Next]_vars
    PROVE  /\ fed' = fed \/ (DecodeFrame /\ ~shouldStop /\ fed' = coded)
           /\ \/ shown' = shown
              \/ /\ RenderPop /\ B.items # <<>>
                 /\ shown' = Head(B.items) /\ B'.items = Tail(B.items)
<1>1. CASE RecvStep /\ ~RequestStop("recv")
  BY <1>1 DEF RecvStep, RecvReceive, RecvMayDeliver, RecvDeliver, RecvRejected, RecvFuse,
     RecvDrain, RecvCloseA, history
<1>2. CASE RequestStop("recv") \/ RequestStop("decode") \/ RequestStop("render")
  BY <1>2 DEF RequestStop, history
<1>3. CASE DecodeStep /\ ~RequestStop("decode")
  BY <1>3 DEF DecodeStep, DecodeLoop, DecodePop, DecodeClosed, DecodeFrame, DecodeOutput,
     DecodeEnded, DecodeCloseB, history
<1>4. CASE RenderStep /\ ~RequestStop("render")
  BY <1>4, DequeuedItems DEF RenderStep, RenderOpen, RenderLoop, RenderPop, RenderIsClosed,
     RenderEnded, history, IsEmpty, QueuesOK
<1>5. CASE TimePasses \/ StopRequest \/ UNCHANGED vars
  BY <1>5 DEF TimePasses, StopRequest, vars, history
<1> QED
  BY <1>1, <1>2, <1>3, <1>4, <1>5 DEF Next, RecvStep, DecodeStep, RenderStep, Returned

-----------------------------------------------------------------------------
(* The places a frame can be in, one behind the other.                     *)

\* Queue B ends at frame b, the pictures of the decoder at o, the frames inside
\* it at i, the one in hand at c and queue A at a; what waits in the jitter buffer
\* is newer still.
Line(b, o, i, c, a) ==
    /\ Between(B.items, shown, b) /\ Between(out, b, o) /\ Between(inside, o, i)
    /\ i <= c /\ (coded # 0 => i < coded /\ coded <= c)
    /\ Between(A.items, c, a)
    /\ a <= received /\ \A x \in Exts(J) : a < x

InLine ==
    /\ \E b, o, i, c, a \in Nat : Line(b, o, i, c, a)
    /\ pc["decode"] = "decode" => coded # 0

\* The invariant behind the order of the pictures.
OrderInv == ThreadsOK /\ QueuesOK /\ DecoderOK /\ Numbered /\ InLine

\* The next frame is a frame.
LEMMA NextFrame ==
    ASSUME NEW r \in 0 .. Sent, r < Sent
    PROVE  IsNext(FrameOf(r + 1), r) /\ (FrameOf(r + 1).key <=> r + 1 \in keys)
<1>1. r + 1 \in 0 .. IdMod - 1 /\ r + 1 \in Nat
  BY StreamAssumption, IdAssumption
<1>2. PICK k \in BOOLEAN : k <=> r + 1 \in keys
  OBVIOUS
<1>3. FrameOf(r + 1) = [id |-> r + 1, n |-> r + 1, key |-> k]
  BY <1>2 DEF FrameOf
<1> QED
  BY <1>1, <1>2, <1>3 DEF IsNext, Frame

\* The numbers in the jitter buffer stay numbers; only the frame that has arrived is
\* new among them.
LEMMA NumberedNext ==
    ASSUME Numbered, [Next]_vars
    PROVE  /\ Numbered'
           /\ received' \in {received, received + 1}
           /\ \A x \in Exts(J') : x \in Exts(J) \/ (x = received + 1 /\ x = received')
<1>1. received \in 0 .. Sent /\ NumberedTo(J, received) /\ Sent \in Nat
  BY StreamAssumption DEF Numbered
<1>2. CASE J' = J /\ received' = received
  BY <1>1, <1>2 DEF Numbered
<1>3. CASE received < Sent /\ received' = received + 1 /\ J' = J
  <2>1. NumberedTo(J, received + 1)
    <3>1. /\ \A n \in 1 .. received : n \in 1 .. received + 1
          /\ \A n \in 0 .. received : n \in 0 .. received + 1
      BY <1>1
    <3> QED
      BY <1>1, <3>1 DEF NumberedTo
  <2>2. received + 1 \in 0 .. Sent
    BY <1>1, <1>3
  <2> QED
    BY <1>3, <2>1, <2>2 DEF Numbered
<1>4. CASE /\ received < Sent /\ received' = received + 1
           /\ \E due \in BOOLEAN : J' = Pushed(J, FrameOf(received + 1), due)
  <2>1. PICK due \in BOOLEAN : J' = Pushed(J, FrameOf(received + 1), due)
    BY <1>4
  <2>2. /\ NumberedTo(J', received + 1)
        /\ Exts(J') \subseteq Exts(J) \cup {received + 1}
    BY <1>1, <1>4, <2>1, NextFrame, PushedNumbers
  <2>3. received + 1 \in 0 .. Sent
    BY <1>1, <1>4
  <2> QED
    BY <1>4, <2>2, <2>3 DEF Numbered
<1>5. CASE /\ received' = received
           /\ \E e \in J.pending : IsDue(J, e) /\ J' = Popped(J, e)
  <2>1. NumberedTo(J', received) /\ Exts(J') \subseteq Exts(J)
    BY <1>1, <1>5, PoppedNumbers
  <2> QED
    BY <1>1, <1>5, <2>1 DEF Numbered
<1>6. CASE received' = received /\ J' = ClosedUntilKey(J)
  <2>1. NumberedTo(J', received) /\ Exts(J') \subseteq Exts(J)
    BY <1>1, <1>6, ClosedNumbers
  <2> QED
    BY <1>1, <1>6, <2>1 DEF Numbered
<1>7. CASE received' = received /\ \E e \in J.pending : J' = Ripened(J, e)
  <2>1. NumberedTo(J', received) /\ Exts(J') \subseteq Exts(J)
    BY <1>1, <1>7, RipenedNumbers
  <2> QED
    BY <1>1, <1>7, <2>1 DEF Numbered
<1> QED
  BY <1>2, <1>3, <1>4, <1>5, <1>6, <1>7, StepsOfJ

\* What the threads hold stays of its type.
LEMMA TypesNext ==
    ASSUME QueuesOK, DecoderOK, Numbered, [Next]_vars
    PROVE  QueuesOK' /\ DecoderOK'
<1>1. QueuesOK'
  BY StepsOfA, StepsOfB DEF QueuesOK
<1>2. /\ A.items \in Seq(Nat) /\ B.items \in Seq(Nat)
      /\ A.items # <<>> => Head(A.items) \in Nat
      /\ B.items # <<>> => Head(B.items) \in Nat
  BY HeadTailProperties DEF QueuesOK, QueueOf
<1>3. fed' \in Nat /\ shown' \in Nat
  BY <1>2, StepsOfHistory DEF DecoderOK
<1>4. coded' \in Nat /\ inside' \in Seq(Nat) /\ out' \in Seq(Nat)
  <2> DEFINE all == Append(inside, coded)
  <2>1. all \in Seq(Nat) /\ Len(all) = Len(inside) + 1 /\ Len(inside) \in Nat
    BY AppendProperties, LenProperties DEF DecoderOK
  <2>2. \A i \in 1 .. Len(all) : all[i] \in Nat
    BY <2>1, ElementOfSeq
  <2> HIDE DEF all
  <2>3. ASSUME NEW k \in 0 .. Len(inside) + 1
        PROVE  SubSeq(all, 1, k) \in Seq(Nat) /\ SubSeq(all, k + 1, Len(all)) \in Seq(Nat)
    <3>1. \A i \in 1 .. k : all[i] \in Nat
      BY <2>1, <2>2
    <3>2. \A i \in k + 1 .. Len(all) : all[i] \in Nat
      BY <2>1, <2>2
    <3>3. SubSeq(all, 1, k) \in Seq(Nat)
      BY <2>1, <3>1, SubSeqProperties
    <3>4. SubSeq(all, k + 1, Len(all)) \in Seq(Nat)
      BY <2>1, <3>2, SubSeqProperties
    <3> QED
      BY <3>3, <3>4
  <2>4. out # <<>> => Tail(out) \in Seq(Nat)
    BY HeadTailProperties DEF DecoderOK
  <2>5. <<>> \in Seq(Nat)
    BY EmptySeq
  <2>6. (\E k \in 0 .. Len(inside) + 1 : /\ out' = SubSeq(all, 1, k)
                                          /\ inside' = SubSeq(all, k + 1, Len(all)))
           => inside' \in Seq(Nat) /\ out' \in Seq(Nat)
    BY <2>3
  <2>7. \/ UNCHANGED <<inside, out>>
        \/ \E k \in 0 .. Len(inside) + 1 : /\ out' = SubSeq(all, 1, k)
                                           /\ inside' = SubSeq(all, k + 1, Len(all))
        \/ out # <<>> /\ out' = Tail(out) /\ inside' = inside
        \/ out' = inside /\ inside' = <<>>
    BY StepsOfDecode DEF all
  <2>8. inside' \in Seq(Nat) /\ out' \in Seq(Nat)
    BY <2>4, <2>5, <2>6, <2>7 DEF DecoderOK
  <2>9. coded' \in Nat
    BY <1>2, StepsOfDecode, SMTT(60) DEF DecoderOK
  <2> QED
    BY <2>8, <2>9
<1> QED
  BY <1>1, <1>3, <1>4 DEF DecoderOK

\* The decode thread is at decode() with the frame it has just taken.
LEMMA InHand ==
    ASSUME ThreadsOK, QueuesOK, [Next]_vars, pc'["decode"] = "decode"
    PROVE  \/ pc["decode"] = "decode" /\ coded' = coded
           \/ DecodePop /\ A.items # <<>> /\ coded' = Head(A.items)
<1> USE DEF ThreadsOK, At, Go, StopThen, Off, Roles
<1>1. CASE RecvReceive \/ RecvMayDeliver \/ RecvDeliver \/ RecvRejected
  BY <1>1 DEF RecvReceive, RecvMayDeliver, RecvDeliver, Deliver, RecvRejected, decode, recv
<1>2. CASE RecvFuse \/ RecvDrain \/ RecvCloseA
  BY <1>2 DEF RecvFuse, RecvDrain, Deliver, RecvCloseA, decode, recv
<1>3. CASE DecodePop
  BY <1>3 DEF DecodePop, IsEmpty
<1>4. CASE DecodeLoop \/ DecodeClosed \/ DecodeFrame \/ DecodeOutput \/ DecodeEnded
           \/ DecodeCloseB
  <2>1. pc'["decode"] # "decode" \/ (pc["decode"] = "decode" /\ coded' = coded)
    BY <1>4 DEF DecodeLoop, DecodeClosed, DecodeFrame, DecodeOutput, Output,
       DecodeEnded, DecodeCloseB, decode
  <2> QED
    BY <2>1
<1>5. CASE RenderStep /\ ~RequestStop("render")
  BY <1>5 DEF RenderStep, RenderOpen, RenderLoop, RenderPop, RenderIsClosed, RenderEnded,
     decode
<1>6. CASE RequestStop("recv") \/ RequestStop("decode") \/ RequestStop("render")
  BY <1>6 DEF RequestStop, decode
<1>7. CASE TimePasses \/ StopRequest \/ UNCHANGED vars
  BY <1>7 DEF TimePasses, StopRequest, vars, decode
<1> QED
  BY <1>1, <1>2, <1>3, <1>4, <1>5, <1>6, <1>7
     DEF Next, RecvStep, DecodeStep, RenderStep, Returned

\* The other steps move no frame from place to place.
LEMMA QuietSteps ==
    ASSUME QueuesOK, [Next]_vars,
           ~DecodePop, ~DecodeFrame, ~DecodeOutput, ~DecodeEnded, ~RenderPop,
           ~RecvDeliver, ~RecvDrain, ~RecvFuse
    PROVE  /\ A'.items = A.items /\ B'.items = B.items
           /\ UNCHANGED <<coded, inside, out, shown>>
<1>1. Closed(A).items = A.items /\ Closed(B).items = B.items
  BY ClosedItems DEF QueuesOK
<1>2. CASE RecvReceive \/ RecvMayDeliver \/ RecvRejected \/ RecvCloseA
  BY <1>1, <1>2 DEF RecvReceive, RecvMayDeliver, RecvRejected, RecvCloseA, shared, decode,
     history
<1>3. CASE DecodeLoop \/ DecodeClosed \/ DecodeCloseB
  BY <1>1, <1>3 DEF DecodeLoop, DecodeClosed, DecodeCloseB, shared, decode, history
<1>4. CASE RenderOpen \/ RenderLoop \/ RenderIsClosed \/ RenderEnded
  BY <1>4 DEF RenderOpen, RenderLoop, RenderIsClosed, RenderEnded, shared, decode, history
<1>5. CASE RequestStop("recv") \/ RequestStop("decode") \/ RequestStop("render")
  BY <1>1, <1>5 DEF RequestStop, decode, history
<1>6. CASE TimePasses \/ StopRequest \/ UNCHANGED vars
  BY <1>6 DEF TimePasses, StopRequest, vars, shared, decode, history
<1> QED
  BY <1>2, <1>3, <1>4, <1>5, <1>6 DEF Next, RecvStep, DecodeStep, RenderStep, Returned

\* The order of the places is kept by every step.
LEMMA LineNext ==
    ASSUME OrderInv, [Next]_vars
    PROVE  InLine'
<1>1. PICK b \in Nat, o \in Nat, i \in Nat, c \in Nat, a \in Nat : Line(b, o, i, c, a)
  BY DEF OrderInv, InLine
<1>2. /\ QueuesOK /\ Numbered /\ DecoderOK
      /\ QueuesOK' /\ Numbered' /\ DecoderOK'
  BY TypesNext, NumberedNext DEF OrderInv
<1>3. A.items \in Seq(Nat) /\ B.items \in Seq(Nat) /\ A \in QueueOf(Nat) /\ B \in QueueOf(Nat)
  BY <1>2 DEF QueuesOK, QueueOf
<1>4. /\ inside \in Seq(Nat) /\ out \in Seq(Nat)
      /\ coded \in Nat /\ coded' \in Nat /\ shown \in Nat /\ shown' \in Nat
  BY <1>2 DEF DecoderOK
<1>5. /\ received \in Nat /\ received' \in Nat /\ received <= received'
      /\ \A x \in Exts(J) : x \in Nat /\ x <= received
      /\ \A x \in Exts(J') : x \in Exts(J) \/ x = received + 1
  <2>1. received \in Nat /\ received' \in Nat
    BY <1>2 DEF Numbered
  <2>2. \A x \in Exts(J) : x \in 1 .. received
    BY <1>2 DEF Numbered, NumberedTo, Exts
  <2> QED
    BY <1>2, <2>1, <2>2, NumberedNext
<1>6. /\ Between(B.items, shown, b) /\ Between(out, b, o) /\ Between(inside, o, i)
      /\ i <= c /\ (coded # 0 => i < coded /\ coded <= c)
      /\ Between(A.items, c, a)
      /\ a <= received /\ \A x \in Exts(J) : a < x
  BY <1>1 DEF Line
<1>7. shown <= b /\ b <= o /\ o <= i /\ c <= a
  BY <1>6 DEF Between
<1>8. pc'["decode"] = "decode" => coded' # 0
  <2>1. A.items # <<>> => Head(A.items) # 0
    <3>1. A.items # <<>> => c < Head(A.items) /\ Head(A.items) \in Nat
      BY <1>3, <1>6, BetweenTail
    <3> QED
      BY <3>1
  <2> QED
    BY <1>2, <2>1, InHand DEF OrderInv, InLine
<1>9. a <= received' /\ \A x \in Exts(J') : a < x
  <2>1. a <= received'
    BY <1>5, <1>6
  <2>2. ASSUME NEW x \in Exts(J') PROVE a < x
    <3>1. CASE x \in Exts(J)
      BY <1>6, <3>1
    <3>2. CASE x = received + 1
      BY <1>5, <1>6, <3>2
    <3> QED
      BY <1>5, <3>1, <3>2
  <2> QED
    BY <2>1, <2>2
<1>10. CASE DecodePop
  <2>1. B' = B /\ UNCHANGED <<inside, out, shown>>
    BY <1>10 DEF DecodePop, history
  <2>2. CASE A.items = <<>>
    <3>1. A' = A /\ coded' = coded
      BY <1>10, <2>2 DEF DecodePop, IsEmpty
    <3>2. Line(b, o, i, c, a)'
      BY <1>6, <1>9, <2>1, <3>1 DEF Line
    <3> QED
      BY <1>8, <3>2 DEF InLine
  <2>3. CASE A.items # <<>>
    <3>1. coded' = Head(A.items) /\ A'.items = Tail(A.items)
      BY <1>3, <1>10, <2>3, DequeuedItems DEF DecodePop, IsEmpty
    <3>2. /\ coded' \in Nat /\ c < coded' /\ coded' <= a
          /\ Between(A'.items, coded', a)
      BY <1>3, <1>6, <2>3, <3>1, BetweenTail
    <3>3. i <= coded' /\ i < coded'
      BY <1>6, <3>2
    <3>4. PICK x \in Nat : x = coded'
      BY <3>2
    <3>5. Line(b, o, i, x, a)'
      BY <1>6, <1>9, <2>1, <3>2, <3>3, <3>4 DEF Line
    <3> QED
      BY <1>8, <3>5 DEF InLine
  <2> QED
    BY <2>2, <2>3
<1>11. CASE DecodeFrame
  <2>1. A' = A /\ B' = B /\ shown' = shown /\ coded' = 0 /\ At("decode", "decode")
    BY <1>11 DEF DecodeFrame
  <2>2. coded # 0 /\ i < coded /\ coded <= c
    BY <1>6, <2>1 DEF OrderInv, InLine, At
  <2> DEFINE all == Append(inside, coded)
  <2>3. CASE UNCHANGED <<inside, out>>
    <3>1. Line(b, o, i, c, a)'
      BY <1>6, <1>9, <2>1, <2>3 DEF Line
    <3> QED
      BY <1>8, <3>1 DEF InLine
  <2>4. CASE \E k \in 0 .. Len(inside) + 1 : /\ out' = SubSeq(all, 1, k)
                                             /\ inside' = SubSeq(all, k + 1, Len(all))
    <3>1. all \in Seq(Nat) /\ Len(all) = Len(inside) + 1
      BY <1>4, AppendProperties
    <3>2. Between(all, o, coded)
      BY <1>4, <1>6, <2>2, BetweenAppend
    <3> HIDE DEF all
    <3>3. PICK k \in 0 .. Len(all) : /\ out' = SubSeq(all, 1, k)
                                     /\ inside' = SubSeq(all, k + 1, Len(all))
      BY <2>4, <3>1
    <3>4. PICK m \in Nat : Between(out', o, m) /\ Between(inside', m, coded)
      BY <1>4, <3>1, <3>2, <3>3, BetweenCut
    <3>5. Between(out', b, m)
      <4>1. out' \in Seq(Nat)
        BY <1>2 DEF DecoderOK
      <4> QED
        BY <1>7, <3>4, <4>1, BetweenWider
    <3>6. PICK x \in Nat : x = coded
      BY <1>4
    <3>7. Line(b, m, x, c, a)'
      BY <1>6, <1>9, <2>1, <2>2, <3>4, <3>5, <3>6 DEF Line
    <3> QED
      BY <1>8, <3>7 DEF InLine
  <2> QED
    BY <1>11, <2>3, <2>4 DEF DecodeFrame
<1>12. CASE DecodeOutput
  <2>1. A' = A /\ UNCHANGED <<coded, inside, shown>>
    BY <1>12 DEF DecodeOutput, history
  <2>2. CASE B' = B /\ out' = out
    <3>1. Line(b, o, i, c, a)'
      BY <1>6, <1>9, <2>1, <2>2 DEF Line
    <3> QED
      BY <1>8, <3>1 DEF InLine
  <2>3. CASE ~(B' = B /\ out' = out)
    <3>1. /\ out # <<>> /\ out' = Tail(out)
          /\ B' = Uncounted(Forced(B, BCap, Head(out)))
      BY <1>12, <2>3 DEF DecodeOutput, Output
    <3>2. /\ Head(out) \in Nat /\ b < Head(out) /\ Head(out) <= o
          /\ Between(out', Head(out), o)
      BY <1>4, <1>6, <3>1, BetweenTail
    <3>3. PICK x \in Nat : x = Head(out)
      BY <3>2
    <3>4. \/ B'.items = Append(B.items, x)
          \/ B.items # <<>> /\ B'.items = Append(Tail(B.items), x)
      BY <1>3, <3>1, <3>3, ForcedItems, QueueAssumption
    <3>5. Between(Append(B.items, x), shown, x)
      BY <1>3, <1>4, <1>6, <3>2, <3>3, BetweenAppend
    <3>6. ASSUME B.items # <<>>
          PROVE  Between(Append(Tail(B.items), x), shown, x)
      <4>1. /\ Tail(B.items) \in Seq(Nat) /\ Head(B.items) \in Nat /\ shown <= Head(B.items)
            /\ Between(Tail(B.items), Head(B.items), b)
        BY <1>3, <1>4, <1>6, <3>6, BetweenTail, SMTT(60)
      <4>2. Between(Tail(B.items), shown, b)
        <5>1. PICK h \in Nat : h = Head(B.items)
          BY <4>1
        <5>2. shown <= h /\ b <= b /\ Between(Tail(B.items), h, b)
          BY <4>1, <5>1
        <5> QED
          BY <1>4, <4>1, <5>2, BetweenWider
      <4> QED
        BY <1>4, <3>2, <3>3, <4>1, <4>2, BetweenAppend
    <3>7. Between(B'.items, shown', x)
      BY <2>1, <3>4, <3>5, <3>6
    <3>8. Line(x, o, i, c, a)'
      BY <1>6, <1>9, <2>1, <3>2, <3>3, <3>7 DEF Line
    <3> QED
      BY <1>8, <3>8 DEF InLine
  <2> QED
    BY <2>2, <2>3
<1>13. CASE DecodeEnded
  <2>1. A' = A /\ B' = B /\ UNCHANGED <<coded, shown>>
    BY <1>13 DEF DecodeEnded, history
  <2>2. CASE UNCHANGED <<inside, out>>
    <3>1. Line(b, o, i, c, a)'
      BY <1>6, <1>9, <2>1, <2>2 DEF Line
    <3> QED
      BY <1>8, <3>1 DEF InLine
  <2>3. CASE out' = inside /\ inside' = <<>>
    <3>1. Between(out', b, i) /\ Between(inside', i, i)
      BY <1>4, <1>6, <1>7, <2>3, BetweenWider
    <3>2. Line(b, i, i, c, a)'
      BY <1>6, <1>9, <2>1, <3>1 DEF Line
    <3> QED
      BY <1>8, <3>2 DEF InLine
  <2> QED
    BY <1>13, <2>2, <2>3 DEF DecodeEnded
<1>14. CASE RenderPop
  <2>1. A' = A /\ UNCHANGED <<coded, inside, out>>
    BY <1>14 DEF RenderPop, decode
  <2>2. CASE B' = B /\ shown' = shown
    <3>1. Line(b, o, i, c, a)'
      BY <1>6, <1>9, <2>1, <2>2 DEF Line
    <3> QED
      BY <1>8, <3>1 DEF InLine
  <2>3. CASE ~(B' = B /\ shown' = shown)
    <3>1. B.items # <<>> /\ B' = Dequeued(B) /\ shown' = Head(B.items)
      BY <1>14, <2>3 DEF RenderPop, IsEmpty
    <3>2. B'.items = Tail(B.items)
      BY <1>3, <3>1, DequeuedItems
    <3>3. Between(B'.items, shown', b)
      BY <1>3, <1>4, <1>6, <3>1, <3>2, BetweenTail
    <3>4. Line(b, o, i, c, a)'
      BY <1>6, <1>9, <2>1, <3>3 DEF Line
    <3> QED
      BY <1>8, <3>4 DEF InLine
  <2> QED
    BY <2>2, <2>3
<1>15. CASE RecvDeliver \/ RecvDrain
  <2>1. B' = B /\ UNCHANGED <<coded, inside, out, shown>>
    BY <1>15 DEF RecvDeliver, RecvDrain, decode, history
  <2>2. CASE A' = A
    <3>1. Line(b, o, i, c, a)'
      BY <1>6, <1>9, <2>1, <2>2 DEF Line
    <3> QED
      BY <1>8, <3>1 DEF InLine
  <2>3. CASE A' # A
    <3>1. PICK e \in J.pending : /\ IsDue(J, e) /\ J' = Popped(J, e)
                                 /\ A' = Uncounted(Enqueued(A, e.frame.n))
      BY <1>15, <2>3 DEF RecvDeliver, RecvDrain, Deliver
    <3>2. /\ e.ext = e.frame.n /\ e.ext \in Exts(J) /\ e.ext \in 1 .. received
          /\ \A x \in Exts(J) : e.ext <= x
          /\ Exts(J') = Exts(J) \ {e.ext}
      BY <1>2, <3>1, PoppedNumbers DEF Numbered
    <3>3. PICK x \in Nat : x = e.ext
      BY <3>2
    <3>4. A'.items = Append(A.items, x)
      <4>1. A' = Uncounted(Enqueued(A, x))
        BY <3>1, <3>2, <3>3
      <4>2. A \in QueueOf(Nat)
        BY <1>3
      <4> QED
        BY <4>1, <4>2, AppendedItems
    <3>5. a < x
      BY <1>6, <3>2, <3>3
    <3>6. Between(A'.items, c, x)
      BY <1>3, <1>6, <3>4, <3>5, BetweenAppend
    <3>7. x <= received' /\ \A y \in Exts(J') : x < y
      BY <1>5, <3>2, <3>3
    <3>8. Line(b, o, i, c, x)'
      BY <1>6, <2>1, <3>6, <3>7 DEF Line
    <3> QED
      BY <1>8, <3>8 DEF InLine
  <2> QED
    BY <2>2, <2>3
<1>16. CASE RecvFuse
  <2>1. B' = B /\ UNCHANGED <<coded, inside, out, shown>> /\ A'.items = <<>>
    BY <1>3, <1>16, ClearedItems DEF RecvFuse, decode, history
  <2>2. Between(A'.items, c, a)
    BY <1>7, <2>1, BetweenWider
  <2>3. Line(b, o, i, c, a)'
    BY <1>6, <1>9, <2>1, <2>2 DEF Line
  <2> QED
    BY <1>8, <2>3 DEF InLine
<1>17. CASE /\ ~DecodePop /\ ~DecodeFrame /\ ~DecodeOutput /\ ~DecodeEnded /\ ~RenderPop
            /\ ~RecvDeliver /\ ~RecvDrain /\ ~RecvFuse
  <2>1. /\ A'.items = A.items /\ B'.items = B.items
        /\ UNCHANGED <<coded, inside, out, shown>>
    BY <1>2, <1>17, QuietSteps
  <2>2. Line(b, o, i, c, a)'
    BY <1>6, <1>9, <2>1 DEF Line
  <2> QED
    BY <1>8, <2>2 DEF InLine
<1> QED
  BY <1>10, <1>11, <1>12, <1>13, <1>14, <1>15, <1>16, <1>17

-----------------------------------------------------------------------------
(* The order of the pictures.                                              *)

\* At the start every place is empty.
LEMMA InitOrder == Init => OrderInv
<1> SUFFICES ASSUME Init PROVE OrderInv
  OBVIOUS
<1>1. ThreadsOK
  <2>1. \/ pc = [recv |-> "loop", decode |-> "loop", render |-> "open"]
        \/ pc = [recv |-> "loop", decode |-> Off, render |-> Off]
    BY DEF Init
  <2>2. ret = [t \in Roles |-> "done"]
    BY DEF Init
  <2> QED
    BY <2>1, <2>2 DEF ThreadsOK, StopPcs, Roles, Off
<1>2. EmptyQueue \in QueueOf(Nat) /\ EmptyQueue.items = <<>>
  BY EmptySeq DEF EmptyQueue, QueueOf
<1>3. A = EmptyQueue /\ B = EmptyQueue
  BY DEF Init
<1>4. /\ coded = 0 /\ fed = 0 /\ shown = 0 /\ inside = <<>> /\ out = <<>>
      /\ received = 0 /\ J = EmptyJitter
  BY DEF Init
<1>5. QueuesOK /\ DecoderOK
  BY <1>2, <1>3, <1>4, EmptySeq DEF QueuesOK, DecoderOK
<1>6. /\ EmptyJitter \in JitterType /\ EmptyJitter.pending = {}
      /\ EmptyJitter.refExt = 0 /\ EmptyJitter.hasRef = FALSE
      /\ EmptyJitter.hasOut = FALSE
  BY IdAssumption, StartAssumption DEF EmptyJitter, JitterType
<1>7. Numbered
  BY <1>4, <1>6, StreamAssumption DEF Numbered, NumberedTo
<1>8. Line(0, 0, 0, 0, 0)
  <2>1. Between(<<>>, 0, 0)
    BY BetweenWider
  <2> QED
    BY <1>2, <1>3, <1>4, <1>6, <2>1 DEF Line, Exts
<1>9. pc["decode"] # "decode"
  BY DEF Init, Off
<1> QED
  BY <1>1, <1>5, <1>7, <1>8, <1>9 DEF OrderInv, InLine

\* No step brings two frames out of order.
LEMMA OrderNext ==
    ASSUME OrderInv, [Next]_vars
    PROVE  OrderInv'
<1>1. ThreadsOK' /\ QueuesOK' /\ DecoderOK' /\ Numbered'
  BY ThreadsNext, TypesNext, NumberedNext DEF OrderInv
<1>2. InLine'
  BY LineNext
<1> QED
  BY <1>1, <1>2 DEF OrderInv

\* In every state the frames stand in line, from the screen to the jitter buffer.
THEOREM OrderInvariance == Spec => []OrderInv
<1> QED
  BY InitOrder, OrderNext, PTL DEF Spec

\* The picture a step shows is newer than the one shown before it.
LEMMA ShowsNewer ==
    ASSUME OrderInv, [Next]_vars, shown' # shown
    PROVE  shown' > shown
<1>1. PICK b \in Nat, o \in Nat, i \in Nat, c \in Nat, a \in Nat : Line(b, o, i, c, a)
  BY DEF OrderInv, InLine
<1>2. Between(B.items, shown, b) /\ B.items \in Seq(Nat) /\ shown \in Nat
  BY <1>1 DEF Line, OrderInv, QueuesOK, QueueOf, DecoderOK
<1>3. B.items # <<>> /\ shown' = Head(B.items)
  BY StepsOfHistory DEF OrderInv
<1>4. Head(B.items) \in Nat /\ shown < Head(B.items)
  BY <1>2, <1>3, BetweenTail
<1> QED
  BY <1>2, <1>3, <1>4

\* Pictures are shown in stream order: queueB_ gives up its oldest picture when the
\* render thread is slow, fuse and flush throw frames away or let them out, and no
\* picture is ever shown after a newer one (ReceiverPipeline.cpp).
THEOREM PicturesInOrder == Spec => ShownInOrder
<1>1. ASSUME OrderInv, [Next]_vars PROVE [shown' # shown => shown' > shown]_vars
  BY <1>1, ShowsNewer
<1> QED
  BY <1>1, OrderInvariance, PTL DEF Spec, ShownInOrder

-----------------------------------------------------------------------------
(* The shutdown.                                                           *)

Somewhere(l) == At("recv", l) \/ At("decode", l) \/ At("render", l)

\* Who stops the pipeline, who closes which queue, and what each thread leaves
\* behind when it ends by itself.
Ends ==
    /\ Somewhere("closeA") \/ Somewhere("closeB") => stopping
    /\ failed => stopping \/ Somewhere("storeStopping")
    /\ A.closed => stopping \/ At("recv", "done")
    /\ B.closed => stopping \/ At("decode", "done")
    /\ (At("recv", "closeQueueA") \/ At("recv", "done")) /\ Rendering =>
          shouldStop \/ J.pending = {}
    /\ At("decode", "closed") \/ drained => IsEmpty(A) /\ A.closed
    /\ At("decode", "ended") => shouldStop \/ drained
    /\ At("decode", "flushed") \/ At("decode", "closeQueueB") \/ At("decode", "done") =>
          shouldStop \/ (drained /\ inside = <<>>)
    /\ At("decode", "closeQueueB") \/ At("decode", "done") => shouldStop \/ out = <<>>

\* The invariant behind the end of a run.
EndInv == ThreadsOK /\ QueuesOK /\ DecoderOK /\ Numbered /\ Ends

\* The renderer is there from the start or never.
LEMMA RenderingStays ==
    ASSUME ThreadsOK, [Next]_vars
    PROVE  Rendering' <=> Rendering
<1> USE DEF ThreadsOK, Rendering, StopPcs, Roles, Off, At, Go, StopThen
<1>1. CASE RecvReceive \/ RecvMayDeliver \/ RecvDeliver \/ RecvRejected
  BY <1>1 DEF RecvReceive, RecvMayDeliver, RecvDeliver, Deliver, RecvRejected
<1>2. CASE RecvFuse \/ RecvDrain \/ RecvCloseA
  BY <1>2 DEF RecvFuse, RecvDrain, Deliver, RecvCloseA
<1>3. CASE DecodeLoop \/ DecodePop \/ DecodeClosed \/ DecodeFrame
  BY <1>3 DEF DecodeLoop, DecodePop, DecodeClosed, DecodeFrame
<1>4. CASE DecodeOutput \/ DecodeEnded \/ DecodeCloseB
  BY <1>4 DEF DecodeOutput, Output, DecodeEnded, DecodeCloseB
<1>5. CASE RenderOpen \/ RenderLoop \/ RenderPop \/ RenderIsClosed \/ RenderEnded
  BY <1>5 DEF RenderOpen, RenderLoop, RenderPop, RenderIsClosed, RenderEnded
<1>6. CASE RequestStop("recv") \/ RequestStop("decode") \/ RequestStop("render")
  BY <1>6 DEF RequestStop
<1>7. CASE TimePasses \/ StopRequest \/ UNCHANGED vars
  BY <1>7 DEF TimePasses, StopRequest, vars
<1> QED
  BY <1>1, <1>2, <1>3, <1>4, <1>5, <1>6, <1>7
     DEF Next, RecvStep, DecodeStep, RenderStep, Returned

\* The receive thread's steps through the shutdown.
LEMMA RecvEnds ==
    ASSUME EndInv, RecvStep, ~RequestStop("recv"), Rendering' <=> Rendering
    PROVE  Ends'
<1> USE DEF ThreadsOK, EndInv, QueuesOK, Ends, Somewhere, At, Go, StopThen, Roles,
            Fail, shouldStop
<1>1. CASE RecvReceive
  BY <1>1 DEF RecvReceive, AfterLoop, Off, decode, IsEmpty
<1>2. CASE RecvMayDeliver \/ RecvRejected
  BY <1>2 DEF RecvMayDeliver, RecvRejected, AfterDue, AfterLoop, shared, decode, recv, IsEmpty
<1>3. CASE RecvDeliver \/ RecvDrain
  <2>1. A' = A \/ (~A.closed /\ A'.closed = A.closed)
    <3>1. CASE A' # A
      <4>1. PICK e \in J.pending : /\ A' = Uncounted(Enqueued(A, e.frame.n))
                                   /\ ~A.closed
        BY <1>3, <3>1 DEF RecvDeliver, RecvDrain, Deliver
      <4>2. e.frame.n \in Nat
        BY DEF Numbered, NumberedTo
      <4> QED
        BY <4>1, <4>2, AppendedItems
    <3> QED
      BY <3>1
  <2>2. /\ pc' = pc \/ (pc' = [pc EXCEPT !["recv"] = pc'["recv"]] /\ UNCHANGED ret)
        /\ pc'["recv"] \in {"deliver", "rejected", "loop", "drain", "done", "closeQueueA"}
        /\ At("recv", "deliver") \/ At("recv", "drain")
    BY <1>3 DEF RecvDeliver, RecvDrain, Deliver, AfterDue, AfterLoop
  <2>3. pc'["recv"] \in {"closeQueueA", "done"} /\ Rendering => shouldStop \/ J'.pending = {}
    BY <1>3, <2>2 DEF RecvDeliver, RecvDrain, Deliver, AfterDue, AfterLoop, Off
  <2>4. UNCHANGED <<B, stop, stopping, failed, decode>>
    BY <1>3 DEF RecvDeliver, RecvDrain
  <2> QED
    BY <2>1, <2>2, <2>3, <2>4 DEF decode, IsEmpty
<1>4. CASE RecvFuse
  BY <1>4, ClearedItems DEF RecvFuse, Resumed, AfterDue, AfterLoop, decode, IsEmpty
<1>5. CASE RecvCloseA
  BY <1>5, ClosedItems DEF RecvCloseA, decode, recv, IsEmpty
<1> QED
  BY <1>1, <1>2, <1>3, <1>4, <1>5 DEF RecvStep

\* The decode thread's.
LEMMA DecodeEnds ==
    ASSUME EndInv, DecodeStep, ~RequestStop("decode"), Rendering' <=> Rendering
    PROVE  Ends'
<1> USE DEF ThreadsOK, EndInv, QueuesOK, Ends, Somewhere, At, Go, StopThen, Roles,
            Fail, shouldStop
<1>1. CASE DecodeLoop \/ DecodeClosed
  <2>1. UNCHANGED <<A, B, stop, stopping, failed, J, inside, out, ret>>
    BY <1>1 DEF DecodeLoop, DecodeClosed, shared, decode, recv
  <2>2. CASE DecodeLoop
    BY <2>1, <2>2 DEF DecodeLoop, decode, IsEmpty
  <2>3. CASE DecodeClosed
    <3>1. /\ pc["decode"] = "closed" /\ pc' = [pc EXCEPT !["decode"] = "ended"]
          /\ shouldStop => ~drained'
          /\ ~shouldStop => drained'
      BY <2>3, Zenon DEF DecodeClosed
    <3> QED
      BY <2>1, <3>1 DEF IsEmpty
  <2> QED
    BY <1>1, <2>2, <2>3
<1>2. CASE DecodePop
  <2>1. \/ /\ ~IsEmpty(A) /\ A'.closed = A.closed
           /\ pc' = [pc EXCEPT !["decode"] = "decode"]
        \/ /\ IsEmpty(A) /\ A.closed /\ A' = A
           /\ pc' = [pc EXCEPT !["decode"] = "closed"]
    BY <1>2, DequeuedItems DEF DecodePop, IsEmpty
  <2>2. /\ UNCHANGED <<B, stop, stopping, failed, J, inside, out, drained, ret>>
        /\ pc["decode"] = "pop"
    BY <1>2 DEF DecodePop, recv
  <2> QED
    BY <2>1, <2>2 DEF IsEmpty
<1>3. CASE DecodeFrame
  BY <1>3 DEF DecodeFrame, recv, IsEmpty
<1>4. CASE DecodeOutput
  <2>1. B' = B \/ (~B.closed /\ B'.closed = B.closed /\ UNCHANGED <<pc, ret>>)
    <3>1. CASE B' # B
      <4>1. /\ out # <<>> /\ B' = Uncounted(Forced(B, BCap, Head(out)))
            /\ ~B.closed /\ UNCHANGED <<pc, ret>>
        BY <1>4, <3>1 DEF DecodeOutput, Output
      <4>2. Head(out) \in Nat
        BY <4>1, HeadTailProperties DEF DecoderOK
      <4> QED
        BY <4>1, <4>2, ForcedItems, QueueAssumption
    <3> QED
      BY <3>1
  <2>2. /\ At("decode", "output") \/ At("decode", "flushed")
        /\ UNCHANGED <<A, stop, stopping, failed, recv, coded, inside, drained>>
    BY <1>4 DEF DecodeOutput
  <2>3. \/ pc' = pc
        \/ At("decode", "output") /\ pc' = [pc EXCEPT !["decode"] = "loop"]
        \/ At("decode", "output") /\ pc' = [pc EXCEPT !["decode"] = "ended"] /\ B.closed
        \/ /\ At("decode", "flushed") /\ pc' = [pc EXCEPT !["decode"] = "closeQueueB"]
           /\ B.closed \/ (out' = <<>> /\ out = <<>>)
    BY <1>4 DEF DecodeOutput, Output
  <2> QED
    BY <2>1, <2>2, <2>3 DEF recv, IsEmpty
<1>5. CASE DecodeEnded
  BY <1>5 DEF DecodeEnded, recv, IsEmpty
<1>6. CASE DecodeCloseB
  BY <1>6, ClosedItems DEF DecodeCloseB, recv, decode, IsEmpty
<1> QED
  BY <1>1, <1>2, <1>3, <1>4, <1>5, <1>6 DEF DecodeStep

\* The render thread's, time and the signal.
LEMMA OthersEnd ==
    ASSUME EndInv, Rendering' <=> Rendering,
           \/ RenderStep /\ ~RequestStop("render")
           \/ TimePasses \/ StopRequest \/ UNCHANGED vars
    PROVE  Ends'
<1> USE DEF ThreadsOK, EndInv, QueuesOK, Ends, Somewhere, At, Go, StopThen, Roles,
            Fail, shouldStop
<1>1. CASE RenderOpen \/ RenderLoop
  BY <1>1 DEF RenderOpen, RenderLoop, shared, decode, recv, IsEmpty
<1>2. CASE RenderPop
  BY <1>2, DequeuedItems DEF RenderPop, decode, recv, IsEmpty
<1>3. CASE RenderIsClosed \/ RenderEnded
  BY <1>3 DEF RenderIsClosed, RenderEnded, shared, decode, recv, IsEmpty
<1>4. CASE TimePasses
  BY <1>4 DEF TimePasses, shared, decode, IsEmpty
<1>5. CASE StopRequest \/ UNCHANGED vars
  BY <1>5 DEF StopRequest, vars, shared, decode, recv, IsEmpty
<1> QED
  BY <1>1, <1>2, <1>3, <1>4, <1>5 DEF RenderStep

\* requestStop(), whichever thread is in it.
LEMMA StopEnds ==
    ASSUME EndInv, Rendering' <=> Rendering,
           RequestStop("recv") \/ RequestStop("decode") \/ RequestStop("render")
    PROVE  Ends'
<1> USE DEF ThreadsOK, EndInv, QueuesOK, Ends, Somewhere, At, Go, Roles, shouldStop
<1>1. /\ A' = A \/ (A'.closed /\ A'.items = A.items)
      /\ B' = B \/ (B'.closed /\ B'.items = B.items)
  <2>1. /\ A' = A \/ A' = Closed(A)
        /\ B' = B \/ B' = Closed(B)
    BY DEF RequestStop
  <2>2. A \in QueueOf(Nat) /\ B \in QueueOf(Nat)
    OBVIOUS
  <2> QED
    BY <2>1, <2>2, ClosedItems
<1>2. ASSUME NEW t \in Roles, RequestStop(t)
      PROVE  /\ \/ /\ pc[t] = "storeStopping" /\ stopping'
                   /\ pc' = [pc EXCEPT ![t] = "closeA"] /\ ret' = ret
                   /\ A' = A /\ B' = B
                \/ /\ pc[t] = "closeA" /\ stopping' = stopping
                   /\ pc' = [pc EXCEPT ![t] = "closeB"] /\ ret' = ret
                   /\ B' = B
                \/ /\ pc[t] = "closeB" /\ stopping' = stopping
                   /\ pc' = [pc EXCEPT ![t] = ret[t]]
                   /\ ret' = [ret EXCEPT ![t] = "done"]
                   /\ A' = A
             /\ UNCHANGED <<stop, failed, J, coded, inside, out, drained>>
  BY <1>2 DEF RequestStop, recv, decode
<1>3. CASE RequestStop("recv")
  BY <1>1, <1>2, <1>3 DEF IsEmpty
<1>4. CASE RequestStop("decode")
  BY <1>1, <1>2, <1>4 DEF IsEmpty
<1>5. CASE RequestStop("render")
  BY <1>1, <1>2, <1>5 DEF IsEmpty
<1> QED
  BY <1>3, <1>4, <1>5

\* No step of any thread breaks the order of the shutdown.
LEMMA EndNext ==
    ASSUME EndInv, [Next]_vars
    PROVE  EndInv'
<1>1. ThreadsOK' /\ QueuesOK' /\ DecoderOK' /\ Numbered' /\ (Rendering' <=> Rendering)
  BY ThreadsNext, TypesNext, NumberedNext, RenderingStays DEF EndInv
<1>2. Ends'
  BY <1>1, RecvEnds, DecodeEnds, OthersEnd, StopEnds
     DEF Next, RecvStep, DecodeStep, RenderStep, Returned
<1> QED
  BY <1>1, <1>2 DEF EndInv

\* At the start no thread is at its end.
LEMMA InitEnd == Init => EndInv
<1> SUFFICES ASSUME Init PROVE EndInv
  OBVIOUS
<1>1. ThreadsOK /\ QueuesOK /\ DecoderOK /\ Numbered
  BY InitOrder DEF OrderInv
<1>2. A.closed = FALSE /\ B.closed = FALSE /\ failed = FALSE /\ drained = FALSE
  BY DEF Init, EmptyQueue
<1>3. /\ pc["recv"] = "loop" /\ pc["decode"] \in {"loop", Off}
      /\ pc["render"] \in {"open", Off}
  BY DEF Init, Off
<1>4. Ends
  BY <1>2, <1>3 DEF Ends, Somewhere, At, Off
<1> QED
  BY <1>1, <1>4 DEF EndInv

\* In every state the shutdown is in order.
THEOREM EndInvariance == Spec => []EndInv
<1> QED
  BY InitEnd, EndNext, PTL DEF Spec

\* The end of a run nobody stopped and in which no thread failed leaves no frame in
\* jitter_, queueA_ or the decoder: each thread waits for what is in front of it
\* (recvLoop()'s drain, inputClosedNormally and flush() of decodeLoop()).
THEOREM RunEndsEmpty == Spec => []NothingLeftInside
<1>1. EndInv => NothingLeftInside
  <2> SUFFICES ASSUME EndInv, UnstoppedEnd
               PROVE  ~failed /\ J.pending = {} /\ IsEmpty(A) /\ inside = <<>> /\ out = <<>>
    BY DEF NothingLeftInside
  <2>1. ~shouldStop /\ Rendering /\ \A t \in Roles : pc[t] \in {"done", Off}
    BY DEF UnstoppedEnd, Finished, shouldStop
  <2>2. pc["recv"] = "done" /\ pc["decode"] = "done" /\ pc["render"] = "done"
    BY <2>1 DEF Roles, EndInv, ThreadsOK, Rendering, StopPcs, Off
  <2> QED
    BY <2>1, <2>2 DEF EndInv, Ends, Somewhere, At, shouldStop
<1> QED
  BY <1>1, EndInvariance, PTL

-----------------------------------------------------------------------------
(* The reference chain.  Two conditions on the configuration are needed,   *)
(* which the program's own satisfies: the gate of the jitter buffer closes *)
(* when frames are thrown away (startOnKeyFrame is left at true), and the  *)
(* hard limit lies above the soft one (hardLimitFrames is left at 0).      *)

\* y may follow x in the decoder, in a stream with these key frames.
Linked(Keys, x, y) == y \in Keys \/ y = x + 1

\* The frames of s may follow x, one after the other.
Chain(Keys, x, s) ==
    /\ s # <<>> => Linked(Keys, x, s[1])
    /\ \A i \in 1 .. Len(s) - 1 : Linked(Keys, s[i], s[i + 1])

LastOf(x, s) == IF s = <<>> THEN x ELSE s[Len(s)]

\* The frames lo + 1 .. r are waiting.
Waiting(K, r, lo) == lo \in 0 .. r /\ Exts(K) = lo + 1 .. r

\* Of r frames the newest are waiting, none behind a closed gate.
Held(K, r) == PacedTo(K, r) /\ \E lo \in Nat : Waiting(K, r, lo) /\ (K.started \/ lo = r)

Few(K, r) == \A x \in Exts(K) : r - x < SoftLimit

\* What waits in an open jitter buffer may follow x.
Continues(K, r, Keys, x) ==
    K.started => \E lo \in Nat : /\ Waiting(K, r, lo) /\ x <= lo
                                 /\ lo = x \/ lo + 1 \in Keys

\* One more at the end of a chain.
LEMMA ChainAppend ==
    ASSUME NEW Keys, NEW x \in Nat, NEW s \in Seq(Nat), Chain(Keys, x, s),
           NEW y \in Nat, Linked(Keys, LastOf(x, s), y)
    PROVE  Chain(Keys, x, Append(s, y)) /\ LastOf(x, Append(s, y)) = y
<1> DEFINE t == Append(s, y)
<1>1. /\ Len(s) \in Nat /\ Len(t) = Len(s) + 1
      /\ \A i \in 1 .. Len(s) : t[i] = s[i]
      /\ t[Len(s) + 1] = y /\ t # <<>>
  BY AppendProperties, LenProperties
<1>2. s = <<>> <=> Len(s) = 0
  BY EmptySeq
<1> HIDE DEF t
<1>3. LastOf(x, t) = y
  BY <1>1 DEF LastOf
<1>4. Linked(Keys, x, t[1])
  <2>1. CASE s = <<>>
    BY <1>1, <1>2, <2>1 DEF LastOf
  <2>2. CASE s # <<>>
    <3>1. t[1] = s[1]
      BY <1>1, <1>2, <2>2
    <3> QED
      BY <2>2, <3>1 DEF Chain
  <2> QED
    BY <2>1, <2>2
<1>5. ASSUME NEW i \in 1 .. Len(t) - 1 PROVE Linked(Keys, t[i], t[i + 1])
  <2>1. i \in 1 .. Len(s) /\ t[i] = s[i] /\ s # <<>>
    BY <1>1, <1>2
  <2>2. CASE i = Len(s)
    BY <1>1, <2>1, <2>2 DEF LastOf
  <2>3. CASE i # Len(s)
    <3>1. i \in 1 .. Len(s) - 1 /\ i + 1 \in 1 .. Len(s)
      BY <1>1, <2>1, <2>3
    <3> QED
      BY <1>1, <2>1, <3>1 DEF Chain
  <2> QED
    BY <2>2, <2>3
<1> QED
  BY <1>3, <1>4, <1>5 DEF Chain, t

\* The first one handed on.
LEMMA ChainTail ==
    ASSUME NEW Keys, NEW x \in Nat, NEW s \in Seq(Nat), Chain(Keys, x, s), s # <<>>
    PROVE  /\ Linked(Keys, x, Head(s))
           /\ Chain(Keys, Head(s), Tail(s))
           /\ LastOf(Head(s), Tail(s)) = LastOf(x, s)
<1> DEFINE t == Tail(s)
<1>1. Len(s) \in Nat \ {0} /\ t \in Seq(Nat)
  BY EmptySeq, HeadTailProperties
<1>2. /\ Len(t) = Len(s) - 1 /\ Head(s) = s[1]
      /\ \A i \in 1 .. Len(t) : t[i] = s[i + 1]
  BY HeadTailProperties
<1>3. t = <<>> <=> Len(t) = 0
  BY <1>1, EmptySeq
<1> HIDE DEF t
<1>4. Linked(Keys, x, Head(s))
  BY <1>2 DEF Chain
<1>5. LastOf(Head(s), t) = LastOf(x, s)
  BY <1>1, <1>2, <1>3 DEF LastOf
<1>6. t # <<>> => Linked(Keys, Head(s), t[1])
  <2> SUFFICES ASSUME t # <<>> PROVE Linked(Keys, s[1], t[1])
    BY <1>2
  <2>1. 1 \in 1 .. Len(s) - 1 /\ t[1] = s[1 + 1]
    BY <1>1, <1>2, <1>3
  <2> QED
    BY <2>1 DEF Chain
<1>7. ASSUME NEW i \in 1 .. Len(t) - 1 PROVE Linked(Keys, t[i], t[i + 1])
  <2>1. PICK j \in Nat : j = i + 1
    BY <1>1, <1>2
  <2>2. i \in 1 .. Len(t) /\ j \in 1 .. Len(t) /\ j \in 1 .. Len(s) - 1
    BY <1>1, <1>2, <2>1
  <2>3. t[i] = s[j] /\ t[j] = s[j + 1]
    BY <1>2, <2>1, <2>2
  <2> QED
    BY <2>1, <2>2, <2>3 DEF Chain
<1> QED
  BY <1>4, <1>5, <1>6, <1>7 DEF Chain, t

\* The last of a chain of rising numbers is within their bound.
LEMMA LastIsBounded ==
    ASSUME NEW x \in Nat, NEW s \in Seq(Nat), NEW lo \in Nat, NEW hi \in Nat,
           Between(s, lo, hi), x <= hi
    PROVE  LastOf(x, s) \in Nat /\ LastOf(x, s) <= hi
<1>1. CASE s = <<>>
  BY <1>1 DEF LastOf
<1>2. CASE s # <<>>
  <2>1. Len(s) \in 1 .. Len(s) /\ s[Len(s)] \in Nat
    BY <1>2, EmptySeq, LenProperties, ElementOfSeq
  <2> QED
    BY <1>2, <2>1 DEF LastOf, Between
<1> QED
  BY <1>1, <1>2

\* push() of the next frame keeps what waits in a row, and what may follow x.
LEMMA HeldPush ==
    ASSUME HardLimit > SoftLimit,
           NEW K, NEW r \in 0 .. Sent, NumberedTo(K, r), r < Sent, Held(K, r), Few(K, r),
           NEW f, IsNext(f, r), NEW due \in BOOLEAN
    PROVE  /\ Held(Pushed(K, f, due), r + 1)
           /\ \A Keys, x : /\ f.key <=> r + 1 \in Keys
                           /\ x \in Nat /\ x <= r /\ Continues(K, r, Keys, x)
                           => Continues(Pushed(K, f, due), r + 1, Keys, x)
<1> DEFINE N == Pushed(K, f, due)
<1>1. PICK lo \in Nat : Waiting(K, r, lo) /\ (K.started \/ lo = r)
  BY DEF Held
<1>2. lo \in 0 .. r /\ Exts(K) = lo + 1 .. r
  BY <1>1 DEF Waiting
<1>3. CASE K.started \/ f.key
  <2>1. r - lo <= SoftLimit
    <3>1. SoftLimit \in Nat
      BY LimitAssumption
    <3>2. CASE lo = r
      BY <1>2, <3>1, <3>2
    <3>3. CASE lo # r
      <4>1. PICK y \in Nat : y = lo + 1
        BY <1>2
      <4>2. y \in Exts(K)
        BY <1>2, <3>3, <4>1
      <4>3. r - y < SoftLimit
        BY <4>2 DEF Few
      <4> QED
        BY <1>2, <3>1, <4>1, <4>3
    <3> QED
      BY <3>2, <3>3
  <2>2. Exts(N) = lo + 1 .. r + 1 /\ PacedTo(N, r + 1) /\ N.started
    BY <1>2, <1>3, <2>1, PushedKept
  <2>3. lo \in 0 .. r + 1
    BY <1>2
  <2>4. Waiting(N, r + 1, lo)
    BY <2>2, <2>3 DEF Waiting
  <2>5. ASSUME NEW Keys, NEW x \in Nat, f.key <=> r + 1 \in Keys, x <= r,
               Continues(K, r, Keys, x)
        PROVE  Continues(N, r + 1, Keys, x)
    <3>1. CASE K.started
      <4>1. PICK l \in Nat : Waiting(K, r, l) /\ x <= l /\ (l = x \/ l + 1 \in Keys)
        BY <2>5, <3>1 DEF Continues
      <4>2. l = lo \/ (l = r /\ lo = r)
        <5>1. l \in 0 .. r /\ l + 1 .. r = lo + 1 .. r
          BY <1>2, <4>1 DEF Waiting
        <5>2. CASE l = r \/ lo = r
          <6>1. CASE l = r /\ lo # r
            <7>1. lo + 1 \in lo + 1 .. r /\ lo + 1 \notin l + 1 .. r
              BY <1>2, <6>1
            <7> QED
              BY <5>1, <7>1
          <6>2. CASE lo = r /\ l # r
            <7>1. l + 1 \in l + 1 .. r /\ l + 1 \notin lo + 1 .. r
              BY <5>1, <6>2
            <7> QED
              BY <5>1, <7>1
          <6> QED
            BY <5>2, <6>1, <6>2
        <5>3. CASE l # r /\ lo # r
          <6>1. l + 1 \in l + 1 .. r /\ lo + 1 \in lo + 1 .. r
            BY <1>2, <5>1, <5>3
          <6>2. l + 1 \in lo + 1 .. r /\ lo + 1 \in l + 1 .. r
            BY <5>1, <6>1
          <6> QED
            BY <6>2
        <5> QED
          BY <5>2, <5>3
      <4> QED
        BY <2>4, <4>1, <4>2 DEF Continues
    <3>2. CASE ~K.started
      BY <1>1, <1>3, <2>4, <2>5, <3>2 DEF Continues
    <3> QED
      BY <3>1, <3>2
  <2>6. Held(N, r + 1)
    BY <2>2, <2>4 DEF Held
  <2> QED
    BY <2>5, <2>6
<1>4. CASE ~K.started /\ ~f.key
  <2>1. N.pending = K.pending /\ ~N.started
    BY <1>4, PushedBeforeKey
  <2>2. lo = r
    BY <1>1, <1>4
  <2>3. Exts(K) = {} /\ (r + 1) + 1 .. r + 1 = {}
    BY <1>2, <2>2
  <2>4. Exts(N) = {} /\ N.pending = {}
    BY <2>1, <2>3 DEF Exts
  <2>5. r + 1 \in 0 .. r + 1 /\ r + 1 \in Nat
    OBVIOUS
  <2>6. Waiting(N, r + 1, r + 1) /\ PacedTo(N, r + 1)
    BY <2>3, <2>4, <2>5 DEF Waiting, PacedTo
  <2>7. Held(N, r + 1)
    BY <2>5, <2>6 DEF Held
  <2> QED
    BY <2>1, <2>7 DEF Continues
<1> QED
  BY <1>3, <1>4

\* pop() of the oldest keeps them in a row and hands on the one that may follow.
LEMMA HeldPop ==
    ASSUME NEW K, NEW r \in 0 .. Sent, NumberedTo(K, r), Held(K, r), NEW e, IsDue(K, e)
    PROVE  /\ Held(Popped(K, e), r)
           /\ \A Keys : \A x \in Nat : Continues(K, r, Keys, x) =>
                 /\ Linked(Keys, x, e.ext)
                 /\ Continues(Popped(K, e), r, Keys, e.ext)
<1> DEFINE N == Popped(K, e)
<1>1. /\ e.ext \in Exts(K) /\ e.ext \in 1 .. r /\ \A x \in Exts(K) : e.ext <= x
      /\ Exts(N) = Exts(K) \ {e.ext} /\ N.started = K.started
      /\ PacedTo(N, r)
  BY PoppedNumbers DEF Held
<1>2. PICK z \in Nat : z = e.ext
  BY <1>1
<1> HIDE DEF N
<1>3. ASSUME NEW lo \in Nat, Waiting(K, r, lo)
      PROVE  z = lo + 1 /\ Waiting(N, r, z)
  <2>1. lo \in 0 .. r /\ Exts(K) = lo + 1 .. r
    BY <1>3 DEF Waiting
  <2>2. z \in lo + 1 .. r
    BY <1>1, <1>2, <2>1
  <2>3. lo + 1 \in Exts(K)
    BY <2>1, <2>2
  <2>4. z = lo + 1
    BY <1>1, <1>2, <2>2, <2>3
  <2>5. Exts(N) = z + 1 .. r
    BY <1>1, <1>2, <2>1, <2>2, <2>4
  <2>6. z \in 0 .. r
    BY <2>1, <2>2
  <2> QED
    BY <2>4, <2>5, <2>6 DEF Waiting
<1>4. PICK lo \in Nat : Waiting(K, r, lo) /\ (K.started \/ lo = r)
  BY DEF Held
<1>5. K.started
  <2>1. lo # r
    BY <1>1, <1>2, <1>3, <1>4
  <2> QED
    BY <1>4, <2>1
<1>6. Held(N, r)
  BY <1>1, <1>3, <1>4, <1>5 DEF Held
<1>7. ASSUME NEW Keys, NEW x \in Nat, Continues(K, r, Keys, x)
      PROVE  Linked(Keys, x, z) /\ Continues(N, r, Keys, z)
  <2>1. PICK l \in Nat : Waiting(K, r, l) /\ x <= l /\ (l = x \/ l + 1 \in Keys)
    BY <1>5, <1>7 DEF Continues
  <2>2. z = l + 1 /\ Waiting(N, r, z)
    BY <1>3, <2>1
  <2>3. Linked(Keys, x, z)
    BY <2>1, <2>2 DEF Linked
  <2>4. Continues(N, r, Keys, z)
    BY <2>2 DEF Continues
  <2> QED
    BY <2>3, <2>4
<1> QED
  BY <1>2, <1>6, <1>7 DEF N

\* Time and dropUntilKeyFrame().
LEMMA HeldOtherwise ==
    ASSUME NEW K, NEW r \in 0 .. Sent, NumberedTo(K, r)
    PROVE  /\ \A e \in K.pending :
                 /\ Held(K, r) => Held(Ripened(K, e), r)
                 /\ \A Keys, x : Continues(K, r, Keys, x)
                                    => Continues(Ripened(K, e), r, Keys, x)
           /\ Held(ClosedUntilKey(K), r) /\ Exts(ClosedUntilKey(K)) = {}
           /\ StartOnKeyFrame =>
                 \A Keys, x : Continues(ClosedUntilKey(K), r, Keys, x)
<1>1. ASSUME NEW e \in K.pending
      PROVE  /\ Held(K, r) => Held(Ripened(K, e), r)
             /\ \A Keys, x : Continues(K, r, Keys, x)
                                => Continues(Ripened(K, e), r, Keys, x)
  <2>1. /\ Exts(Ripened(K, e)) = Exts(K) /\ Ripened(K, e).started = K.started
        /\ PacedTo(K, r) => PacedTo(Ripened(K, e), r)
    BY <1>1, RipenedNumbers
  <2> QED
    BY <2>1 DEF Held, Continues, Waiting
<1>2. Exts(ClosedUntilKey(K)) = {} /\ (StartOnKeyFrame => ~ClosedUntilKey(K).started)
  BY ClosedNumbers
<1>3. ClosedUntilKey(K).pending = {}
  BY <1>2 DEF Exts
<1>4. r + 1 .. r = {} /\ r \in 0 .. r /\ r \in Nat
  BY StreamAssumption
<1>5. Waiting(ClosedUntilKey(K), r, r) /\ PacedTo(ClosedUntilKey(K), r)
  BY <1>2, <1>3, <1>4 DEF Waiting, PacedTo
<1>6. Held(ClosedUntilKey(K), r)
  BY <1>4, <1>5 DEF Held
<1>7. StartOnKeyFrame => \A Keys, x : Continues(ClosedUntilKey(K), r, Keys, x)
  BY <1>2 DEF Continues
<1> QED
  BY <1>1, <1>2, <1>6, <1>7

\* Every frame that has arrived has been pushed.
Intact == J.refExt = received

AtWork == {"loop", "due", "deliver", "rejected", "fuse", "drain"}

\* What waits in the jitter buffer while the receive thread is at work.
Hold ==
    Rendering /\ ~shouldStop /\ pc["recv"] \in AtWork =>
        /\ Intact /\ Held(J, received)
        /\ pc["recv"] = "loop" => Few(J, received)

\* The steps of the others leave the receive thread where it is, and no step takes
\* back a stop.
LEMMA RecvStays ==
    ASSUME ThreadsOK, [Next]_vars
    PROVE  /\ shouldStop => shouldStop'
           /\ ~RecvStep => pc'["recv"] = pc["recv"] /\ received' = received
                           /\ (~TimePasses => J' = J)
<1>1. shouldStop => shouldStop'
  <2> USE DEF shouldStop
  <2>1. CASE RecvStep /\ ~RequestStop("recv")
    BY <2>1 DEF RecvStep, RecvReceive, RecvMayDeliver, RecvDeliver, RecvRejected, RecvFuse,
       RecvDrain, RecvCloseA, shared
  <2>2. CASE DecodeStep /\ ~RequestStop("decode")
    BY <2>2 DEF DecodeStep, DecodeLoop, DecodePop, DecodeClosed, DecodeFrame, DecodeOutput,
       DecodeEnded, DecodeCloseB, shared
  <2>3. CASE RenderStep /\ ~RequestStop("render")
    BY <2>3 DEF RenderStep, RenderOpen, RenderLoop, RenderPop, RenderIsClosed, RenderEnded,
       shared
  <2>4. CASE RequestStop("recv") \/ RequestStop("decode") \/ RequestStop("render")
    BY <2>4 DEF RequestStop
  <2>5. CASE TimePasses \/ StopRequest \/ UNCHANGED vars
    BY <2>5 DEF TimePasses, StopRequest, vars, shared
  <2> QED
    BY <2>1, <2>2, <2>3, <2>4, <2>5 DEF Next, RecvStep, DecodeStep, RenderStep, Returned
<1>2. ASSUME ~RecvStep
      PROVE  pc'["recv"] = pc["recv"] /\ received' = received /\ (~TimePasses => J' = J)
  <2> USE DEF ThreadsOK, Roles, At, Go, StopThen
  <2>1. CASE DecodeLoop \/ DecodePop \/ DecodeClosed \/ DecodeFrame
    BY <2>1 DEF DecodeLoop, DecodePop, DecodeClosed, DecodeFrame, recv
  <2>2. CASE DecodeOutput \/ DecodeEnded \/ DecodeCloseB
    BY <2>2 DEF DecodeOutput, Output, DecodeEnded, DecodeCloseB, recv
  <2>3. CASE RenderStep /\ ~RequestStop("render")
    BY <2>3 DEF RenderStep, RenderOpen, RenderLoop, RenderPop, RenderIsClosed, RenderEnded,
       recv
  <2>4. CASE RequestStop("decode") \/ RequestStop("render")
    BY <2>4 DEF RequestStop, recv
  <2>5. CASE TimePasses \/ StopRequest \/ UNCHANGED vars
    BY <2>5 DEF TimePasses, StopRequest, vars, recv
  <2> QED
    BY <1>2, <2>1, <2>2, <2>3, <2>4, <2>5 DEF Next, DecodeStep, RenderStep, Returned
<1> QED
  BY <1>1, <1>2

\* Where a step of the receive thread leads.
LEMMA RecvMoves ==
    ASSUME ThreadsOK, RecvStep
    PROVE  \/ /\ RecvReceive /\ pc["recv"] = "loop"
              /\ \/ pc'["recv"] = "storeStopping"
                 \/ /\ ~shouldStop /\ pc'["recv"] \in {"due", AfterLoop}
                    /\ J' = J /\ received' = received
                 \/ /\ ~shouldStop /\ pc'["recv"] = "due"
                    /\ received < Sent /\ received' = received + 1
                    /\ \E due \in BOOLEAN :
                          J' = IF Rendering THEN Pushed(J, FrameOf(received + 1), due) ELSE J
           \/ /\ RecvMayDeliver /\ pc["recv"] = "due"
              /\ \/ pc'["recv"] = "deliver" /\ Rendering /\ ~shouldStop
                 \/ pc'["recv"] \in {"loop", AfterLoop} /\ ~(Rendering /\ ~shouldStop)
           \/ /\ RecvDeliver \/ RecvDrain
              /\ pc["recv"] \in {"deliver", "drain"}
              /\ \/ pc'["recv"] \in {pc["recv"], "rejected"}
                 \/ /\ pc["recv"] = "deliver" /\ pc'["recv"] \in {"loop", AfterLoop}
                    /\ NothingDue /\ A' = A /\ J' = J
                 \/ pc["recv"] = "drain" /\ pc'["recv"] = "closeQueueA" /\ A' = A /\ J' = J
           \/ /\ RecvRejected /\ pc["recv"] = "rejected"
              /\ \/ pc'["recv"] = "fuse"
                 \/ shouldStop /\ pc'["recv"] \in {"closeQueueA", "loop", AfterLoop}
           \/ /\ RecvFuse /\ pc["recv"] = "fuse" /\ pc'["recv"] \in {"loop", AfterLoop, "drain"}
           \/ RecvCloseA /\ pc'["recv"] = "done"
           \/ /\ RequestStop("recv")
              /\ \/ pc'["recv"] \in {"closeA", "closeB"}
                 \/ pc["recv"] = "closeB" /\ pc'["recv"] \in {"due", "done"}
<1> USE DEF ThreadsOK, Roles, At, Go, StopThen, AfterDue
<1>1. CASE RecvReceive
  BY <1>1 DEF RecvReceive
<1>2. CASE RecvMayDeliver
  BY <1>2 DEF RecvMayDeliver
<1>3. CASE RecvDeliver
  BY <1>3 DEF RecvDeliver, Deliver
<1>4. CASE RecvDrain
  BY <1>4 DEF RecvDrain, Deliver
<1>5. CASE RecvRejected
  BY <1>5 DEF RecvRejected
<1>6. CASE RecvFuse
  BY <1>6 DEF RecvFuse, Resumed
<1>7. CASE RecvCloseA
  BY <1>7 DEF RecvCloseA
<1>8. CASE RequestStop("recv")
  BY <1>8 DEF RequestStop
<1> QED
  BY <1>1, <1>2, <1>3, <1>4, <1>5, <1>6, <1>7, <1>8 DEF RecvStep

\* What waits in the jitter buffer stays in a row until a stop.
LEMMA HoldNext ==
    ASSUME HardLimit > SoftLimit, EndInv, Hold, [Next]_vars
    PROVE  Hold'
<1> SUFFICES ASSUME Rendering', ~shouldStop', pc'["recv"] \in AtWork
             PROVE  /\ Intact' /\ Held(J, received)'
                    /\ pc'["recv"] = "loop" => Few(J, received)'
  BY DEF Hold
<1>1. /\ ThreadsOK /\ Numbered /\ Rendering /\ ~shouldStop
      /\ received \in 0 .. Sent /\ NumberedTo(J, received) /\ Sent \in Nat
  BY RenderingStays, RecvStays, StreamAssumption DEF EndInv, Numbered
<1>2. AfterLoop = "drain"
  BY <1>1 DEF AfterLoop
<1>3. pc["recv"] # "closeB"
  BY <1>1 DEF EndInv, Ends, Somewhere, At, shouldStop
<1>4. pc["recv"] \in AtWork
  <2>1. CASE RecvStep
    BY <1>1, <1>2, <1>3, <2>1, RecvMoves DEF AtWork
  <2>2. CASE ~RecvStep
    BY <1>1, <2>2, RecvStays
  <2> QED
    BY <2>1, <2>2
<1>5. /\ J.refExt = received /\ Held(J, received) /\ PacedTo(J, received)
      /\ pc["recv"] = "loop" => Few(J, received)
  BY <1>1, <1>4 DEF Hold, Intact, Held
<1>6. CASE RecvReceive
  <2>1. pc["recv"] = "loop" /\ pc'["recv"] # "loop"
    BY <1>1, <1>2, <1>6, RecvMoves DEF RecvReceive, At, ThreadsOK, Roles, Go, StopThen
  <2>2. CASE J' = J /\ received' = received
    BY <1>5, <2>1, <2>2 DEF Intact
  <2>3. CASE ~(J' = J /\ received' = received)
    <3>1. /\ received < Sent /\ received' = received + 1
          /\ \E due \in BOOLEAN : J' = Pushed(J, FrameOf(received + 1), due)
      <4>1. pc'["recv"] # "storeStopping"
        BY DEF AtWork
      <4> QED
        BY <1>1, <1>6, <2>3, <4>1 DEF RecvReceive, At, ThreadsOK, Roles, StopThen
    <3>2. PICK due \in BOOLEAN : J' = Pushed(J, FrameOf(received + 1), due)
      BY <3>1
    <3>3. J'.refExt = received + 1
      BY <1>1, <3>1, <3>2, NextFrame, PushedNumbers
    <3>4. Held(J', received + 1)
      BY <1>1, <1>5, <2>1, <3>1, <3>2, NextFrame, HeldPush
    <3> QED
      BY <2>1, <3>1, <3>3, <3>4 DEF Intact
  <2> QED
    BY <2>2, <2>3
<1>7. CASE RecvDeliver \/ RecvDrain
  <2>1. received' = received
    BY <1>7 DEF RecvDeliver, RecvDrain
  <2>2. CASE J' = J
    <3>1. pc'["recv"] = "loop" => NothingDue
      BY <1>1, <1>2, <1>7 DEF RecvDeliver, RecvDrain, Deliver, At, Go, ThreadsOK, Roles
    <3>2. pc'["recv"] = "loop" => Few(J, received)
      BY <1>1, <1>5, <3>1, NothingDueIsFew DEF NothingDue, Few
    <3> QED
      BY <1>5, <2>1, <2>2, <3>2 DEF Intact
  <2>3. CASE J' # J
    <3>1. PICK e \in J.pending : IsDue(J, e) /\ J' = Popped(J, e)
      BY <1>7, <2>3 DEF RecvDeliver, RecvDrain, Deliver
    <3>2. J'.refExt = J.refExt
      BY <1>1, <3>1, PoppedNumbers
    <3>3. Held(J', received)
      BY <1>1, <1>5, <3>1, HeldPop
    <3>4. pc'["recv"] # "loop"
      BY <1>1, <1>7, <2>3 DEF RecvDeliver, RecvDrain, Deliver, At, Go, ThreadsOK, Roles
    <3> QED
      BY <1>5, <2>1, <3>2, <3>3, <3>4 DEF Intact
  <2> QED
    BY <2>2, <2>3
<1>8. CASE RecvFuse
  <2>1. J' = ClosedUntilKey(J) /\ received' = received
    BY <1>8 DEF RecvFuse
  <2>2. /\ Held(ClosedUntilKey(J), received) /\ Exts(ClosedUntilKey(J)) = {}
        /\ ClosedUntilKey(J).refExt = J.refExt
    BY <1>1, ClosedNumbers, HeldOtherwise
  <2>3. Few(J, received)'
    BY <2>1, <2>2 DEF Few
  <2> QED
    BY <1>5, <2>1, <2>2, <2>3 DEF Intact
<1>9. CASE TimePasses
  <2>1. PICK e \in J.pending : J' = Ripened(J, e)
    BY <1>9 DEF TimePasses
  <2>2. received' = received /\ pc' = pc
    BY <1>9 DEF TimePasses
  <2>3. /\ J'.refExt = J.refExt /\ Exts(J') = Exts(J) /\ Held(J', received)
    BY <1>1, <1>5, <2>1, RipenedNumbers, HeldOtherwise
  <2> QED
    BY <1>5, <2>2, <2>3 DEF Intact, Few
<1>10. CASE ~RecvReceive /\ ~RecvDeliver /\ ~RecvDrain /\ ~RecvFuse /\ ~TimePasses
  <2>1. J' = J /\ received' = received
    BY <1>1, <1>10, StepsOfJ
  <2>2. pc'["recv"] = "loop" => pc["recv"] = "loop"
    <3>1. CASE RecvStep
      BY <1>1, <1>2, <1>10, <3>1, RecvMoves
    <3>2. CASE ~RecvStep
      BY <1>1, <3>2, RecvStays
    <3> QED
      BY <3>1, <3>2
  <2> QED
    BY <1>5, <2>1, <2>2 DEF Intact
<1> QED
  BY <1>6, <1>7, <1>8, <1>9, <1>10
-----------------------------------------------------------------------------
\* The decode thread is before the end of its loop.
Decoding == pc["decode"] \in {"loop", "pop", "decode", "output"}

\* The frame the decode thread has taken last.
Taken == IF coded # 0 THEN coded ELSE fed

\* The links of the chain, from the frame decoded last to the frames that wait.
Links ==
    /\ fed <= received
    /\ Decoding /\ ~shouldStop =>
          /\ coded # 0 <=> pc["decode"] = "decode"
          /\ coded # 0 => Linked(keys, fed, coded)
          /\ Chain(keys, Taken, A.items)
          /\ pc["recv"] \in {"loop", "due", "deliver", "drain"} =>
                Continues(J, received, keys, LastOf(Taken, A.items))

\* The invariant behind the reference chain.
ChainInv == OrderInv /\ EndInv /\ Hold /\ Links

\* Where the decode thread's steps in its loop come from.
LEMMA DecodeMoves ==
    ASSUME ThreadsOK, QueuesOK, [Next]_vars, Decoding'
    PROVE  /\ Decoding
           /\ \/ /\ ~DecodePop /\ ~DecodeFrame
                 /\ UNCHANGED <<coded, fed>>
                 /\ pc'["decode"] = "decode" <=> pc["decode"] = "decode"
              \/ /\ DecodePop /\ pc["decode"] = "pop" /\ pc'["decode"] = "decode"
                 /\ A.items # <<>> /\ coded' = Head(A.items) /\ A'.items = Tail(A.items)
                 /\ UNCHANGED <<fed, J, received>> /\ pc'["recv"] = pc["recv"]
              \/ /\ DecodeFrame /\ pc["decode"] = "decode" /\ pc'["decode"] # "decode"
                 /\ coded' = 0 /\ fed' = coded
                 /\ UNCHANGED <<A, J, received>> /\ pc'["recv"] = pc["recv"]
<1> USE DEF Decoding, ThreadsOK, At, Go, StopThen, Off, Roles, StopPcs
<1>1. CASE RecvReceive \/ RecvMayDeliver \/ RecvDeliver \/ RecvRejected
  BY <1>1 DEF RecvReceive, RecvMayDeliver, RecvDeliver, Deliver, RecvRejected, decode, recv,
     history, DecodePop, DecodeFrame
<1>2. CASE RecvFuse \/ RecvDrain \/ RecvCloseA
  BY <1>2 DEF RecvFuse, RecvDrain, Deliver, RecvCloseA, decode, recv, history,
     DecodePop, DecodeFrame
<1>3. CASE DecodePop
  <2>1. ~IsEmpty(A) /\ A' = Dequeued(A) /\ A.items # <<>>
    BY <1>3 DEF DecodePop, IsEmpty
  <2>2. A'.items = Tail(A.items)
    BY <2>1, DequeuedItems DEF QueuesOK
  <2> QED
    BY <1>3, <2>1, <2>2 DEF DecodePop, recv, history
<1>4. CASE DecodeFrame
  BY <1>4 DEF DecodeFrame, recv
<1>5. CASE DecodeLoop \/ DecodeClosed \/ DecodeOutput \/ DecodeEnded \/ DecodeCloseB
  BY <1>5 DEF DecodeLoop, DecodeClosed, DecodeOutput, Output, DecodeEnded, DecodeCloseB,
     decode, history, DecodePop, DecodeFrame
<1>6. CASE RenderStep /\ ~RequestStop("render")
  BY <1>6 DEF RenderStep, RenderOpen, RenderLoop, RenderPop, RenderIsClosed, RenderEnded,
     decode, history, DecodePop, DecodeFrame
<1>7. CASE RequestStop("recv") \/ RequestStop("decode") \/ RequestStop("render")
  BY <1>7 DEF RequestStop, decode, history, DecodePop, DecodeFrame
<1>8. CASE TimePasses \/ StopRequest \/ UNCHANGED vars
  BY <1>8 DEF TimePasses, StopRequest, vars, decode, history, DecodePop, DecodeFrame
<1> QED
  BY <1>1, <1>2, <1>3, <1>4, <1>5, <1>6, <1>7, <1>8
     DEF Next, RecvStep, DecodeStep, RenderStep, Returned

\* The frame in the decoder's hands has arrived, and so has the last one in queue A.
LEMMA TakenHasArrived ==
    ASSUME OrderInv, fed <= received
    PROVE  /\ coded \in Nat /\ coded <= received /\ Taken \in Nat
           /\ LastOf(Taken, A.items) \in Nat /\ LastOf(Taken, A.items) <= received
           /\ A.items # <<>> => Head(A.items) \in Nat \ {0}
<1>1. PICK b \in Nat, o \in Nat, i \in Nat, c \in Nat, a \in Nat : Line(b, o, i, c, a)
  BY DEF OrderInv, InLine
<1>2. /\ A.items \in Seq(Nat) /\ coded \in Nat /\ fed \in Nat /\ received \in Nat
  BY StreamAssumption DEF OrderInv, QueuesOK, QueueOf, DecoderOK, Numbered
<1>3. Between(A.items, c, a) /\ c <= a /\ a <= received /\ (coded # 0 => coded <= c)
  BY <1>1 DEF Line, Between
<1>4. coded <= received
  BY <1>2, <1>3
<1>5. Taken \in Nat /\ Taken <= received
  BY <1>2, <1>4 DEF Taken
<1>6. Between(A.items, c, received)
  BY <1>2, <1>3, BetweenWider
<1>7. LastOf(Taken, A.items) \in Nat /\ LastOf(Taken, A.items) <= received
  BY <1>2, <1>5, <1>6, LastIsBounded
<1>8. A.items # <<>> => Head(A.items) \in Nat \ {0}
  <2>1. A.items # <<>> => Head(A.items) \in Nat /\ c < Head(A.items)
    BY <1>2, <1>3, BetweenTail
  <2> QED
    BY <2>1
<1> QED
  BY <1>2, <1>4, <1>5, <1>7, <1>8

\* Every step keeps the links.
LEMMA LinksNext ==
    ASSUME StartOnKeyFrame, HardLimit > SoftLimit, ChainInv, [Next]_vars
    PROVE  Links'
<1>1. /\ OrderInv /\ EndInv /\ Hold /\ ThreadsOK /\ QueuesOK /\ DecoderOK /\ Numbered
      /\ received \in 0 .. Sent /\ NumberedTo(J, received) /\ fed <= received
      /\ received \in Nat /\ fed \in Nat /\ A.items \in Seq(Nat)
      /\ received' \in {received, received + 1}
  BY NumberedNext, StreamAssumption
     DEF ChainInv, OrderInv, Numbered, Links, DecoderOK, QueuesOK, QueueOf
<1>2. /\ coded \in Nat /\ coded <= received /\ Taken \in Nat
      /\ LastOf(Taken, A.items) \in Nat /\ LastOf(Taken, A.items) <= received
      /\ A.items # <<>> => Head(A.items) \in Nat \ {0}
  BY <1>1, TakenHasArrived
<1>3. fed' <= received'
  <2>1. fed' = fed \/ fed' = coded
    BY <1>1, StepsOfHistory
  <2> QED
    BY <1>1, <1>2, <2>1
<1> DEFINE delivers == {"loop", "due", "deliver", "drain"}
<1> SUFFICES ASSUME Decoding', ~shouldStop'
             PROVE  /\ coded' # 0 <=> pc'["decode"] = "decode"
                    /\ coded' # 0 => Linked(keys', fed', coded')
                    /\ Chain(keys', Taken', A'.items)
                    /\ pc'["recv"] \in delivers =>
                          Continues(J', received', keys', LastOf(Taken', A'.items))
  BY <1>3 DEF Links
<1>4. Decoding /\ ~shouldStop /\ keys' = keys
  BY <1>1, DecodeMoves, RecvStays DEF Next, vars
<1>5. /\ coded # 0 <=> pc["decode"] = "decode"
      /\ coded # 0 => Linked(keys, fed, coded)
      /\ Chain(keys, Taken, A.items)
      /\ pc["recv"] \in delivers => Continues(J, received, keys, LastOf(Taken, A.items))
  BY <1>4 DEF ChainInv, Links
<1>6. Rendering /\ AfterLoop = "drain"
  BY <1>1, <1>4 DEF Decoding, ThreadsOK, Rendering, AfterLoop, Off
<1>7. pc["recv"] # "closeB"
  BY <1>1, <1>4 DEF EndInv, Ends, Somewhere, At, shouldStop
<1>8. CASE DecodePop
  <2>1. /\ pc["decode"] = "pop" /\ pc'["decode"] = "decode"
        /\ A.items # <<>> /\ coded' = Head(A.items) /\ A'.items = Tail(A.items)
        /\ UNCHANGED <<fed, J, received>> /\ pc'["recv"] = pc["recv"]
    BY <1>1, <1>8, DecodeMoves DEF DecodeFrame, DecodePop, At
  <2>2. coded = 0 /\ Taken = fed
    BY <1>5, <2>1 DEF Taken
  <2>3. /\ Linked(keys, fed, Head(A.items))
        /\ Chain(keys, Head(A.items), Tail(A.items))
        /\ LastOf(Head(A.items), Tail(A.items)) = LastOf(Taken, A.items)
    BY <1>1, <1>5, <2>1, <2>2, ChainTail
  <2>4. coded' # 0 /\ Taken' = Head(A.items)
    BY <1>2, <2>1 DEF Taken
  <2> QED
    BY <1>4, <1>5, <2>1, <2>3, <2>4
<1>9. CASE DecodeFrame
  <2>1. /\ pc["decode"] = "decode" /\ pc'["decode"] # "decode"
        /\ coded' = 0 /\ fed' = coded
        /\ UNCHANGED <<A, J, received>> /\ pc'["recv"] = pc["recv"]
    BY <1>1, <1>9, DecodeMoves DEF DecodeFrame, DecodePop, At
  <2>2. Taken' = Taken
    BY <1>5, <2>1 DEF Taken
  <2> QED
    BY <1>4, <1>5, <2>1, <2>2
<1>10. ASSUME ~DecodePop, ~DecodeFrame
       PROVE  /\ UNCHANGED <<coded, fed>> /\ Taken' = Taken
              /\ coded' # 0 <=> pc'["decode"] = "decode"
              /\ coded' # 0 => Linked(keys', fed', coded')
  <2>1. /\ UNCHANGED <<coded, fed>>
        /\ pc'["decode"] = "decode" <=> pc["decode"] = "decode"
    BY <1>1, <1>10, DecodeMoves
  <2> QED
    BY <1>4, <1>5, <2>1 DEF Taken
<1>11. DecodePop \/ DecodeFrame => pc'["decode"] # pc["decode"]
  BY <1>1 DEF DecodePop, DecodeFrame, At, Go, StopThen, ThreadsOK, Roles
<1>12. CASE RecvReceive
  <2>1. A' = A /\ pc'["decode"] = pc["decode"] /\ pc["recv"] = "loop"
    BY <1>1, <1>12 DEF RecvReceive, At, Go, StopThen, ThreadsOK, Roles
  <2>2. /\ Taken' = Taken
        /\ coded' # 0 <=> pc'["decode"] = "decode"
        /\ coded' # 0 => Linked(keys', fed', coded')
    BY <1>10, <1>11, <2>1
  <2>3. Intact /\ Held(J, received) /\ Few(J, received)
    BY <1>1, <1>4, <1>6, <2>1 DEF Hold, AtWork
  <2>4. PICK x \in Nat : x = LastOf(Taken, A.items)
    BY <1>2
  <2>5. Continues(J, received, keys, x)
    BY <1>5, <2>1, <2>4
  <2>6. pc'["recv"] \in delivers => Continues(J', received', keys, x)
    <3>1. CASE J' = J /\ received' = received
      BY <2>5, <3>1
    <3>2. CASE pc'["recv"] \in delivers /\ ~(J' = J /\ received' = received)
      <4>1. /\ received < Sent /\ received' = received + 1
            /\ \E due \in BOOLEAN : J' = Pushed(J, FrameOf(received + 1), due)
        BY <1>1, <1>6, <1>12, <3>2 DEF RecvReceive, At, ThreadsOK, Roles, StopThen
      <4>2. PICK due \in BOOLEAN : J' = Pushed(J, FrameOf(received + 1), due)
        BY <4>1
      <4>3. /\ IsNext(FrameOf(received + 1), received)
            /\ FrameOf(received + 1).key <=> received + 1 \in keys
        BY <1>1, <4>1, NextFrame
      <4>4. x <= received
        BY <1>2, <2>4
      <4>5. Continues(Pushed(J, FrameOf(received + 1), due), received + 1, keys, x)
        BY <1>1, <2>3, <2>5, <4>1, <4>3, <4>4, HeldPush
      <4> QED
        BY <4>1, <4>2, <4>5
    <3> QED
      BY <3>1, <3>2
  <2> QED
    BY <1>4, <1>5, <2>1, <2>2, <2>4, <2>6
<1>13. CASE RecvDeliver \/ RecvDrain
  <2>1. /\ pc'["decode"] = pc["decode"] /\ pc["recv"] \in {"deliver", "drain"}
        /\ received' = received
    BY <1>1, <1>13 DEF RecvDeliver, RecvDrain, Deliver, At, Go, ThreadsOK, Roles
  <2>2. /\ Taken' = Taken
        /\ coded' # 0 <=> pc'["decode"] = "decode"
        /\ coded' # 0 => Linked(keys', fed', coded')
    BY <1>10, <1>11, <2>1
  <2>3. Held(J, received)
    BY <1>1, <1>4, <1>6, <2>1 DEF Hold, AtWork
  <2>4. Continues(J, received, keys, LastOf(Taken, A.items))
    BY <1>5, <2>1
  <2>5. CASE A' = A
    <3>1. CASE J' = J
      BY <1>4, <1>5, <2>1, <2>2, <2>4, <2>5, <3>1
    <3>2. CASE J' # J
      <4>1. pc'["recv"] = "rejected"
        <5>1. \A e \in J.pending : A' # Uncounted(Enqueued(A, e.frame.n))
          <6>1. ASSUME NEW e \in J.pending PROVE A' # Uncounted(Enqueued(A, e.frame.n))
            <7>1. PICK y \in Nat : y = e.frame.n
              BY <1>1, <6>1 DEF NumberedTo
            <7>2. Uncounted(Enqueued(A, y)).items = Append(A.items, y)
              BY <1>1, AppendedItems DEF QueuesOK
            <7>3. Append(A.items, y) # A.items
              BY <1>1, AppendProperties, LenProperties
            <7> QED
              BY <2>5, <7>1, <7>2, <7>3
          <6> QED
            BY <6>1
        <5> QED
          BY <1>1, <1>13, <3>2, <5>1 DEF RecvDeliver, RecvDrain, Deliver, At, Go, ThreadsOK,
             Roles
      <4> QED
        BY <1>4, <1>5, <2>2, <2>5, <4>1
    <3> QED
      BY <3>1, <3>2
  <2>6. CASE A' # A
    <3>1. PICK e \in J.pending : /\ IsDue(J, e) /\ J' = Popped(J, e)
                                 /\ A' = Uncounted(Enqueued(A, e.frame.n))
      BY <1>13, <2>6 DEF RecvDeliver, RecvDrain, Deliver
    <3>2. e.ext = e.frame.n /\ e.ext \in Nat
      BY <1>1, <3>1 DEF NumberedTo
    <3>3. PICK y \in Nat : y = e.ext
      BY <3>2
    <3>4. A'.items = Append(A.items, y)
      <4>1. A' = Uncounted(Enqueued(A, y)) /\ A \in QueueOf(Nat)
        BY <1>1, <3>1, <3>2, <3>3 DEF QueuesOK
      <4> QED
        BY <4>1, AppendedItems
    <3>5. /\ Linked(keys, LastOf(Taken, A.items), y)
          /\ Continues(J', received, keys, y)
      BY <1>1, <1>2, <2>3, <2>4, <3>1, <3>3, HeldPop
    <3>6. Chain(keys, Taken, A'.items) /\ LastOf(Taken, A'.items) = y
      BY <1>1, <1>2, <1>5, <3>4, <3>5, ChainAppend
    <3> QED
      BY <1>4, <2>1, <2>2, <3>5, <3>6
  <2> QED
    BY <2>5, <2>6
<1>14. CASE RecvFuse
  <2>1. /\ J' = ClosedUntilKey(J) /\ received' = received /\ A' = Uncounted(Cleared(A))
        /\ pc'["decode"] = pc["decode"]
    BY <1>1, <1>14 DEF RecvFuse, At, Go, ThreadsOK, Roles
  <2>2. /\ Taken' = Taken
        /\ coded' # 0 <=> pc'["decode"] = "decode"
        /\ coded' # 0 => Linked(keys', fed', coded')
    BY <1>10, <1>11, <2>1
  <2>3. A'.items = <<>>
    BY <1>1, <2>1, ClearedItems DEF QueuesOK
  <2>4. Chain(keys, Taken, A'.items)
    BY <2>3, EmptySeq DEF Chain
  <2>5. Continues(J', received, keys, LastOf(Taken, A'.items))
    BY <1>1, <2>1, HeldOtherwise
  <2> QED
    BY <1>4, <2>1, <2>2, <2>4, <2>5
<1>15. CASE TimePasses
  <2>1. UNCHANGED <<A, pc, received>> /\ \E e \in J.pending : J' = Ripened(J, e)
    BY <1>15 DEF TimePasses, shared
  <2>2. /\ Taken' = Taken
        /\ coded' # 0 <=> pc'["decode"] = "decode"
        /\ coded' # 0 => Linked(keys', fed', coded')
    BY <1>10, <1>11, <2>1
  <2>3. PICK e \in J.pending : J' = Ripened(J, e)
    BY <2>1
  <2>4. Continues(J, received, keys, LastOf(Taken, A.items))
           => Continues(J', received, keys, LastOf(Taken, A.items))
    BY <1>1, <2>3, HeldOtherwise
  <2> QED
    BY <1>4, <1>5, <2>1, <2>2, <2>4
<1>16. CASE /\ ~DecodePop /\ ~DecodeFrame /\ ~RecvReceive /\ ~RecvDeliver /\ ~RecvDrain
            /\ ~RecvFuse /\ ~TimePasses
  <2>1. J' = J /\ received' = received /\ A'.items = A.items
    BY <1>1, <1>16, StepsOfJ, StepsOfA
  <2>2. pc'["recv"] \in delivers => pc["recv"] \in delivers
    <3>1. CASE RecvStep
      BY <1>1, <1>4, <1>6, <1>7, <1>16, <3>1, RecvMoves
    <3>2. CASE ~RecvStep
      BY <1>1, <3>2, RecvStays
    <3> QED
      BY <3>1, <3>2
  <2> QED
    BY <1>4, <1>5, <1>10, <1>16, <2>1, <2>2
<1> QED
  BY <1>8, <1>9, <1>12, <1>13, <1>14, <1>15, <1>16

\* At the start nothing has been decoded and the gate is closed.
THEOREM ChainInvariance ==
    ASSUME StartOnKeyFrame, HardLimit > SoftLimit
    PROVE  Spec => []ChainInv
<1>1. Init => ChainInv
  <2> SUFFICES ASSUME Init PROVE ChainInv
    OBVIOUS
  <2>1. OrderInv /\ EndInv
    BY InitOrder, InitEnd
  <2>2. /\ received = 0 /\ fed = 0 /\ coded = 0 /\ J = EmptyJitter
        /\ A.items = <<>> /\ pc["decode"] # "decode"
    BY DEF Init, EmptyQueue, Off
  <2>3. J.pending = {} /\ J.refExt = 0 /\ ~J.started
    BY <2>2 DEF EmptyJitter
  <2>4. Hold
    <3>1. Waiting(J, 0, 0) /\ PacedTo(J, 0) /\ Few(J, 0)
      BY <2>3 DEF Waiting, PacedTo, Few, Exts
    <3> QED
      BY <2>2, <2>3, <3>1 DEF Hold, Intact, Held
  <2>5. Links
    BY <2>2, <2>3, EmptySeq DEF Links, Chain, Continues
  <2> QED
    BY <2>1, <2>4, <2>5 DEF ChainInv
<1>2. ChainInv /\ [Next]_vars => ChainInv'
  BY OrderNext, EndNext, HoldNext, LinksNext DEF ChainInv
<1> QED
  BY <1>1, <1>2, PTL DEF Spec

\* The decoder never gets a frame whose reference the pipeline has thrown away, in
\* queueA_.clear() and jitter_.dropUntilKeyFrame() after an overflow or at the hard
\* limit: a frame that is not a key frame follows the one decoded before it.
THEOREM DecoderGetsAChain ==
    ASSUME StartOnKeyFrame, HardLimit > SoftLimit
    PROVE  Spec => DecoderChain
<1>1. ASSUME ChainInv, [Next]_vars
      PROVE  [fed' # fed => fed' \in keys \/ fed' = fed + 1]_vars
  <2> SUFFICES ASSUME fed' # fed PROVE fed' \in keys \/ fed' = fed + 1
    OBVIOUS
  <2>1. DecodeFrame /\ ~shouldStop /\ fed' = coded
    BY <1>1, StepsOfHistory DEF ChainInv, OrderInv
  <2>2. Decoding /\ pc["decode"] = "decode"
    BY <2>1 DEF DecodeFrame, At, Decoding
  <2> QED
    BY <1>1, <2>1, <2>2 DEF ChainInv, Links, Linked
<1> QED
  BY <1>1, ChainInvariance, PTL DEF Spec, DecoderChain

=============================================================================
