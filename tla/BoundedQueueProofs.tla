------------------------- MODULE BoundedQueueProofs -------------------------
(***************************************************************************)
(* The queue's safety properties, proved for every set of threads, every   *)
(* capacity and every bound on the number of items.                        *)
(***************************************************************************)
EXTENDS BoundedQueue, SharedLemmas, FiniteSetTheorems

\* The queue's members when n items were accepted: the part of Conservation
\* that speaks of Q alone, and the type of Q.
Holds(q, n) ==
    /\ q \in QueueOf(Nat)
    /\ EndsAt(q.items, n)
    /\ Len(q.items) <= q.peak /\ q.peak <= Cap

\* Enqueueing the next item below the capacity.
LEMMA EnqueuedHolds ==
    ASSUME NEW q, NEW n \in Nat, Holds(q, n), ~IsFull(q, Cap)
    PROVE  /\ Holds(Enqueued(q, n + 1), n + 1)
           /\ Len(Enqueued(q, n + 1).items) = Len(q.items) + 1
           /\ Enqueued(q, n + 1).dropped = q.dropped
           /\ Enqueued(q, n + 1).closed = q.closed
<1> DEFINE pk == IF Len(q.items) + 1 > q.peak THEN Len(q.items) + 1 ELSE q.peak
           s  == Append(q.items, n + 1)
<1>1. q \in QueueOf(Nat) /\ Len(q.items) \in Nat /\ q.peak \in Nat
  BY DEF Holds, QueueOf
<1>2. Enqueued(q, n + 1) = [q EXCEPT !.items = s, !.peak = pk]
  BY DEF Enqueued
<1>3. /\ pk \in Nat /\ Len(q.items) + 1 <= pk /\ pk <= Cap
  BY <1>1, CapAssumption DEF IsFull, Holds
<1>4. EndsAt(s, n + 1) /\ Len(s) = Len(q.items) + 1
  BY AppendEndsAt DEF Holds
<1>5. s \in Seq(Nat)
  BY <1>4 DEF EndsAt
<1> HIDE DEF pk, s
<1>6. [q EXCEPT !.items = s, !.peak = pk] \in QueueOf(Nat)
  BY <1>1, <1>3, <1>5 DEF QueueOf
<1>7. /\ Enqueued(q, n + 1).items = s
      /\ Enqueued(q, n + 1).peak = pk
      /\ Enqueued(q, n + 1).dropped = q.dropped
      /\ Enqueued(q, n + 1).closed = q.closed
  BY <1>1, <1>2 DEF QueueOf
<1>8. QED
  BY <1>2, <1>3, <1>4, <1>6, <1>7 DEF Holds

\* Removing the front item.
LEMMA DequeuedHolds ==
    ASSUME NEW q, NEW n \in Nat, Holds(q, n), ~IsEmpty(q)
    PROVE  /\ Holds(Dequeued(q), n)
           /\ Len(q.items) \in Nat \ {0}
           /\ Len(Dequeued(q).items) = Len(q.items) - 1
           /\ Dequeued(q).dropped = q.dropped
           /\ Dequeued(q).closed = q.closed
           /\ Head(q.items) = (n - Len(q.items)) + 1
<1> DEFINE s == Tail(q.items)
<1>1. q \in QueueOf(Nat) /\ q.peak \in Nat
  BY DEF Holds, QueueOf
<1>2. Dequeued(q) = [q EXCEPT !.items = s]
  BY DEF Dequeued
<1>3. /\ EndsAt(s, n) /\ Len(q.items) \in Nat \ {0}
      /\ Len(s) = Len(q.items) - 1
      /\ Head(q.items) = (n - Len(q.items)) + 1
  BY TailEndsAt DEF Holds, IsEmpty
<1>4. s \in Seq(Nat)
  BY <1>3 DEF EndsAt
<1> HIDE DEF s
<1>5. [q EXCEPT !.items = s] \in QueueOf(Nat)
  BY <1>1, <1>4 DEF QueueOf
<1>6. /\ Dequeued(q).items = s
      /\ Dequeued(q).peak = q.peak
      /\ Dequeued(q).dropped = q.dropped
      /\ Dequeued(q).closed = q.closed
  BY <1>1, <1>2 DEF QueueOf
<1>7. Len(s) <= q.peak /\ q.peak <= Cap
  BY <1>1, <1>3, CapAssumption DEF Holds
<1>8. QED
  BY <1>2, <1>3, <1>5, <1>6, <1>7 DEF Holds

-----------------------------------------------------------------------------
(* The inductive invariant.  TypeOK, Conservation and EndIsFinal are        *)
(* inductive together: Conservation's count needs the length bound that     *)
(* forcePush() keeps, and EndIsFinal needs the guards on closed_.  It is    *)
(* split into what speaks of the threads and what speaks of the data.       *)

Positions == pc \in [Threads -> Wanting \cup Sleeping \cup Owing \cup {"idle"}]

\* The counts: a accepted, k taken, l the last taken, d dropped, n inside.
Ledger(a, k, l, d, n) ==
    /\ a \in Nat /\ k \in Nat /\ l \in Nat /\ d \in Nat /\ n \in Nat
    /\ a = k + (d + n)
    /\ l <= a - n

Data ==
    /\ Holds(Q, accepted)
    /\ Ledger(accepted, taken, lastTaken, Q.dropped, Len(Q.items))
    /\ ended \in BOOLEAN
    /\ EndIsFinal

\* How the counts move when an item is accepted (perhaps in exchange for a
\* dropped one), is taken, and when the queue is cleared.
LEMMA LedgerAccept ==
    ASSUME NEW a, NEW k, NEW l, NEW d, NEW n, Ledger(a, k, l, d, n),
           NEW d2 \in Nat, NEW n2 \in Nat, d2 + n2 = (d + n) + 1, n2 <= n + 1
    PROVE  Ledger(a + 1, k, l, d2, n2)
BY DEF Ledger

\* Taking the first item leaves the ledger balanced: one in the queue less, one taken more.
LEMMA LedgerTake ==
    ASSUME NEW a, NEW k, NEW l, NEW d, NEW n, Ledger(a, k, l, d, n), n # 0
    PROVE  Ledger(a, k + 1, (a - n) + 1, d, n - 1) /\ (a - n) + 1 > l
BY DEF Ledger

\* Clearing moves what the queue held to the dropped ones.
LEMMA LedgerClear ==
    ASSUME NEW a, NEW k, NEW l, NEW d, NEW n, Ledger(a, k, l, d, n)
    PROVE  Ledger(a, k, l, d + n, 0)
BY DEF Ledger

\* The types the data part gives to the other proofs.
LEMMA DataTypes ==
    ASSUME Data
    PROVE  /\ Q \in QueueOf(Nat)
           /\ Q.items \in Seq(Nat) /\ Len(Q.items) \in Nat
           /\ Q.dropped \in Nat /\ Q.peak \in Nat /\ Q.closed \in BOOLEAN
           /\ Len(Q.items) <= Cap
           /\ accepted \in Nat /\ taken \in Nat /\ lastTaken \in Nat
<1>1. /\ Q \in QueueOf(Nat) /\ Q.items \in Seq(Nat) /\ Len(Q.items) \in Nat
      /\ Q.dropped \in Nat /\ Q.peak \in Nat /\ Q.closed \in BOOLEAN
  BY DEF Data, Holds, QueueOf
<1>2. Len(Q.items) <= Cap
  BY <1>1, CapAssumption DEF Data, Holds
<1>3. accepted \in Nat /\ taken \in Nat /\ lastTaken \in Nat
  BY DEF Data, Ledger
<1>4. QED
  BY <1>1, <1>2, <1>3

\* The two conjuncts are exactly the invariants of the runs.
LEMMA InvariantParts ==
    Positions /\ Data <=> TypeOK /\ Conservation /\ EndIsFinal
<1>1. Q \in QueueOf(Nat) => Q.items \in Seq(Nat) /\ Len(Q.items) \in Nat /\ Q.peak \in Nat
  BY DEF QueueOf
<1>2. ASSUME Positions, Data PROVE TypeOK /\ Conservation /\ EndIsFinal
  <2>1. TypeOK
    BY <1>2, DataTypes DEF Positions, Data, TypeOK
  <2>2. Conservation
    BY <1>2 DEF Data, Holds, EndsAt, Ledger, Conservation
  <2>3. QED
    BY <1>2, <2>1, <2>2 DEF Data
<1>3. ASSUME TypeOK, Conservation, EndIsFinal PROVE Positions /\ Data
  <2>1. /\ Q \in QueueOf(Nat) /\ Q.items \in Seq(Nat) /\ Len(Q.items) \in Nat
        /\ Q.dropped \in Nat /\ accepted \in Nat /\ taken \in Nat /\ lastTaken \in Nat
    BY <1>1, <1>3 DEF TypeOK, QueueOf
  <2>2. Ledger(accepted, taken, lastTaken, Q.dropped, Len(Q.items))
    BY <1>3, <2>1 DEF Conservation, Ledger
  <2>3. Len(Q.items) <= accepted
    BY <2>2 DEF Ledger
  <2>4. Holds(Q, accepted)
    BY <1>3, <2>1, <2>3 DEF Conservation, Holds, EndsAt
  <2>5. QED
    BY <1>3, <2>2, <2>4 DEF TypeOK, Positions, Data
<1>4. QED
  BY <1>2, <1>3

\* At the start the queue is empty and every thread idle.
LEMMA InitInvariant == Init => Positions /\ Data
<1> SUFFICES ASSUME Init PROVE Positions /\ Data
  OBVIOUS
<1>1. Q.items = <<>> /\ Q.closed = FALSE /\ Q.dropped = 0 /\ Q.peak = 0
  BY DEF Init, EmptyQueue
<1>2. <<>> \in Seq(Nat) /\ Len(<<>>) = 0
  BY EmptySeq
<1>3. Q \in QueueOf(Nat)
  BY <1>2 DEF Init, EmptyQueue, QueueOf
<1>4. Positions
  BY DEF Init, Positions
<1>5. Len(Q.items) = 0 /\ Holds(Q, 0)
  BY <1>1, <1>2, <1>3, CapAssumption DEF Holds, EndsAt
<1>6. ended \in BOOLEAN /\ EndIsFinal
  BY DEF Init, EndIsFinal
<1>7. accepted = 0 /\ Ledger(accepted, taken, lastTaken, Q.dropped, Len(Q.items))
  BY <1>1, <1>5 DEF Init, Ledger
<1>8. QED
  BY <1>4, <1>5, <1>6, <1>7 DEF Data

\* A step that only moves a thread, or wakes others, keeps the data.
LEMMA MoveKeepsData ==
    ASSUME Data, UNCHANGED <<Q, accepted, taken, lastTaken, ended>>
    PROVE  Data'
BY DEF Data, Holds, EndsAt, QueueOf, EndIsFinal, IsEmpty

\* An accepted item: the new queue holds one more item, or as many and one
\* more was dropped.
LEMMA AcceptKeepsData ==
    ASSUME Data, NEW t \in Threads, NEW newQ, Accept(t, newQ), ~Q.closed,
           Holds(newQ, accepted + 1), newQ.closed = Q.closed,
           newQ.dropped + Len(newQ.items) = (Q.dropped + Len(Q.items)) + 1,
           Len(newQ.items) <= Len(Q.items) + 1
    PROVE  Data'
<1>1. /\ Q' = newQ /\ accepted' = accepted + 1
      /\ taken' = taken /\ lastTaken' = lastTaken /\ ended' = ended
  BY DEF Accept
<1>2. ~ended
  BY DEF Data, EndIsFinal
<1>3. /\ newQ.dropped \in Nat /\ Len(newQ.items) \in Nat
      /\ Q.dropped \in Nat /\ Len(Q.items) \in Nat
  BY DataTypes DEF Holds, QueueOf
<1>4. Ledger(accepted, taken, lastTaken, Q.dropped, Len(Q.items))'
  BY <1>1, <1>3, LedgerAccept DEF Data
<1>5. Holds(Q, accepted)'
  BY <1>1 DEF Holds, EndsAt, QueueOf
<1>6. EndIsFinal'
  BY <1>1, <1>2 DEF EndIsFinal
<1>7. ended' \in BOOLEAN
  BY <1>1 DEF Data
<1>8. QED
  BY <1>4, <1>5, <1>6, <1>7 DEF Data

\* Appending below the capacity satisfies what AcceptKeepsData asks.
LEMMA EnqueueKeepsData ==
    ASSUME Data, NEW t \in Threads, ~Q.closed, ~IsFull(Q, Cap),
           Accept(t, Enqueued(Q, accepted + 1))
    PROVE  Data'
<1>1. /\ Holds(Enqueued(Q, accepted + 1), accepted + 1)
      /\ Len(Enqueued(Q, accepted + 1).items) = Len(Q.items) + 1
      /\ Enqueued(Q, accepted + 1).dropped = Q.dropped
      /\ Enqueued(Q, accepted + 1).closed = Q.closed
  BY EnqueuedHolds, DataTypes DEF Data
<1>2. Q.dropped \in Nat /\ Len(Q.items) \in Nat
  BY DataTypes
<1> DEFINE r == Enqueued(Q, accepted + 1)
<1> HIDE DEF r
<1>3. /\ r.dropped + Len(r.items) = (Q.dropped + Len(Q.items)) + 1
      /\ Len(r.items) <= Len(Q.items) + 1
  BY <1>1, <1>2 DEF r
<1>4. QED
  BY <1>1, <1>3, AcceptKeepsData DEF r

\* forcePush() does so too, on a full queue by dropping one item first.
LEMMA ForceKeepsData ==
    ASSUME Data, NEW t \in Threads, ~Q.closed,
           Accept(t, Forced(Q, Cap, accepted + 1))
    PROVE  Data'
<1>1. CASE ~IsFull(Q, Cap)
  BY <1>1, EnqueueKeepsData DEF Forced
<1>2. CASE IsFull(Q, Cap)
  <2> DEFINE d == Dequeued(Q)
             e == [d EXCEPT !.dropped = @ + 1]
             r == Enqueued(e, accepted + 1)
  <2>1. Holds(Q, accepted) /\ accepted \in Nat
    BY DataTypes DEF Data
  <2>2. ~IsEmpty(Q)
    BY <1>2, DataTypes, CapAssumption, EmptySeq DEF IsFull, IsEmpty
  <2>3. /\ Holds(d, accepted) /\ Len(Q.items) \in Nat \ {0}
        /\ Len(d.items) = Len(Q.items) - 1
        /\ d.dropped = Q.dropped /\ d.closed = Q.closed
    BY <2>1, <2>2, DequeuedHolds
  <2> HIDE DEF d
  <2>4. d \in QueueOf(Nat) /\ d.dropped \in Nat
    BY <2>3 DEF Holds, QueueOf
  <2>5. /\ e \in QueueOf(Nat) /\ e.items = d.items /\ e.peak = d.peak
        /\ e.dropped = d.dropped + 1 /\ e.closed = d.closed
    BY <2>4 DEF QueueOf
  <2> HIDE DEF e
  <2>6. Holds(e, accepted)
    BY <2>3, <2>5 DEF Holds
  <2>7. ~IsFull(e, Cap)
    BY <2>3, <2>5, DataTypes, CapAssumption DEF IsFull
  <2>8. /\ Holds(r, accepted + 1)
        /\ Len(r.items) = Len(e.items) + 1
        /\ r.dropped = e.dropped /\ r.closed = e.closed
    BY <2>1, <2>6, <2>7, EnqueuedHolds
  <2> HIDE DEF r
  <2>9. Forced(Q, Cap, accepted + 1) = r
    BY <1>2 DEF Forced, d, e, r
  <2>10. /\ r.dropped + Len(r.items) = (Q.dropped + Len(Q.items)) + 1
         /\ Len(r.items) <= Len(Q.items) + 1
    <3>1. Len(Q.items) \in Nat /\ Q.dropped \in Nat
      BY DataTypes
    <3>2. Len(r.items) = Len(Q.items) /\ r.dropped = Q.dropped + 1
      BY <2>3, <2>5, <2>8, <3>1
    <3>3. QED
      BY <3>1, <3>2
  <2>11. QED
    BY <2>3, <2>5, <2>8, <2>9, <2>10, AcceptKeepsData
<1>3. QED
  BY <1>1, <1>2

\* A consumer takes the oldest item; no pop() can have reported the end.
LEMMA TakeKeepsData ==
    ASSUME Data, NEW t \in Threads, ~IsEmpty(Q), Take(t)
    PROVE  Data' /\ lastTaken' > lastTaken
<1>1. /\ Q' = Dequeued(Q) /\ taken' = taken + 1 /\ lastTaken' = Head(Q.items)
      /\ accepted' = accepted /\ ended' = ended
  BY DEF Take
<1>2. /\ Holds(Dequeued(Q), accepted)
      /\ Len(Q.items) \in Nat \ {0}
      /\ Len(Dequeued(Q).items) = Len(Q.items) - 1
      /\ Dequeued(Q).dropped = Q.dropped
      /\ Head(Q.items) = (accepted - Len(Q.items)) + 1
  BY DequeuedHolds, DataTypes DEF Data
<1>3. ~ended
  BY DEF Data, EndIsFinal
<1>5. /\ Ledger(accepted, taken, lastTaken, Q.dropped, Len(Q.items))'
      /\ lastTaken' > lastTaken
  BY <1>1, <1>2, LedgerTake DEF Data
<1>6. Holds(Q, accepted)'
  BY <1>1, <1>2 DEF Holds, EndsAt, QueueOf
<1>7. EndIsFinal'
  BY <1>1, <1>3 DEF EndIsFinal
<1>8. ended' \in BOOLEAN
  BY <1>1 DEF Data
<1>9. QED
  BY <1>5, <1>6, <1>7, <1>8 DEF Data

\* clear() moves the whole content into dropped_; close() sets one flag.
LEMMA ClearKeepsData ==
    ASSUME Data, NEW t \in Threads, Clear(t)
    PROVE  Data'
<1>1. /\ Q' = [Q EXCEPT !.items = <<>>, !.dropped = @ + Len(Q.items)]
      /\ UNCHANGED <<accepted, taken, lastTaken, ended>>
  BY DEF Clear, Cleared
<1>2. <<>> \in Seq(Nat) /\ Len(<<>>) = 0
  BY EmptySeq
<1>3. /\ Q'.items = <<>> /\ Q'.dropped = Q.dropped + Len(Q.items)
      /\ Q'.peak = Q.peak /\ Q'.closed = Q.closed
  BY <1>1, DataTypes DEF QueueOf
<1>4. Q' \in QueueOf(Nat)
  <2>1. Q.dropped + Len(Q.items) \in Nat
    BY DataTypes
  <2>2. QED
    BY <1>1, <1>2, <2>1, DataTypes DEF QueueOf
<1>5. Holds(Q, accepted)'
  BY <1>1, <1>2, <1>3, <1>4, DataTypes, CapAssumption DEF Data, Holds, EndsAt
<1>6. Ledger(accepted, taken, lastTaken, Q.dropped, Len(Q.items))'
  BY <1>1, <1>2, <1>3, LedgerClear DEF Data
<1>7. EndIsFinal'
  BY <1>1, <1>3 DEF Data, EndIsFinal, IsEmpty
<1>8. QED
  BY <1>1, <1>5, <1>6, <1>7 DEF Data

\* close() changes no item and no count.
LEMMA CloseKeepsData ==
    ASSUME Data, NEW t \in Threads, Close(t)
    PROVE  Data'
<1>1. /\ Q' = [Q EXCEPT !.closed = TRUE]
      /\ UNCHANGED <<accepted, taken, lastTaken, ended>>
  BY DEF Close, Closed
<1>2. /\ Q' \in QueueOf(Nat) /\ Q'.items = Q.items /\ Q'.dropped = Q.dropped
      /\ Q'.peak = Q.peak /\ Q'.closed = TRUE
  BY <1>1, DataTypes DEF QueueOf
<1>3. QED
  BY <1>1, <1>2 DEF Data, Holds, EndsAt, EndIsFinal, IsEmpty

-----------------------------------------------------------------------------
(* Every action, by the effect it has on the data.                          *)

\* Where a thread goes on after its wait.
LEMMA ResumeType == \A l \in Wanting \cup Sleeping \cup Owing \cup {"idle"} :
                        Resume(l) \in Wanting \cup Sleeping \cup Owing \cup {"idle"}
BY DEF Resume, Wanting, Pushes, Pops, Sleeping, Owing

\* A thread that moves stays on its own path.
LEMMA GoKeepsPositions ==
    ASSUME Positions, NEW t, NEW l \in Wanting \cup Sleeping \cup Owing \cup {"idle"}, Go(t, l)
    PROVE  Positions'
BY DEF Positions, Go

\* So does every thread a notify wakes.
LEMMA NotifyKeepsPositions ==
    ASSUME Positions, NEW t \in Threads, Notify(t)
    PROVE  Positions'
<1> DEFINE L == Wanting \cup Sleeping \cup Owing \cup {"idle"}
<1>0. pc \in [Threads -> L] /\ \A l \in L : Resume(l) \in L
  BY ResumeType DEF Positions
<1>1. "idle" \in L /\ "closeNotEmpty" \in L
  BY DEF Owing
<1> HIDE DEF L
<1>2. ASSUME NEW S, NEW next \in L, NotifyAll(t, S, next) PROVE pc' \in [Threads -> L]
  BY <1>0, <1>2 DEF NotifyAll
<1>3. ASSUME NEW S \in SUBSET Threads, NEW next \in L, NotifyOne(t, S, next)
      PROVE  pc' \in [Threads -> L]
  <2>1. CASE S = {}
    BY <1>0, <1>3, <2>1 DEF NotifyOne, Go
  <2>2. CASE S # {}
    <3>1. PICK s \in S : pc' = [pc EXCEPT ![t] = next, ![s] = Resume(@)]
      BY <1>3, <2>2 DEF NotifyOne
    <3>2. QED
      BY <1>0, <3>1
  <2>3. QED
    BY <2>1, <2>2
<1>4. NotEmptySleepers \in SUBSET Threads /\ NotFullSleepers \in SUBSET Threads
  BY DEF NotEmptySleepers, NotFullSleepers, ThreadsAt
<1>5. pc' \in [Threads -> L]
  BY <1>1, <1>2, <1>3, <1>4 DEF Notify
<1>6. QED
  BY <1>5 DEF Positions, L

\* No step takes a thread off its path.
LEMMA PositionsInvariant == Positions /\ [Next]_vars => Positions'
<1> SUFFICES ASSUME Positions, [Next]_vars PROVE Positions'
  OBVIOUS
<1>1. CASE UNCHANGED vars
  BY <1>1 DEF vars, Positions
<1>2. ASSUME NEW t \in Threads, NEW op \in Wanting, Call(t, op) PROVE Positions'
  BY <1>2, GoKeepsPositions DEF Call, Move
<1>3. ASSUME NEW t \in Threads, Step(t) PROVE Positions'
  <2> USE GoKeepsPositions DEF Owing, Sleeping
  <2>1. CASE Push(t)
    BY <2>1 DEF Push, Accept, Sleep, Refuse, Move
  <2>2. CASE TryPush(t)
    BY <2>2 DEF TryPush, Accept, Refuse, Move
  <2>3. CASE ForcePush(t)
    BY <2>3 DEF ForcePush, Accept, Refuse, Move
  <2>4. CASE Pop(t)
    BY <2>4 DEF Pop, Take, Sleep, Move
  <2>5. CASE PopFor(t)
    BY <2>5 DEF PopFor, Take, Sleep, Refuse, Move
  <2>6. CASE Clear(t)
    BY <2>6 DEF Clear
  <2>7. CASE Close(t)
    BY <2>7 DEF Close
  <2>8. CASE Notify(t)
    BY <2>8, NotifyKeepsPositions
  <2>9. QED
    BY <1>3, <2>1, <2>2, <2>3, <2>4, <2>5, <2>6, <2>7, <2>8 DEF Step
<1>4. ASSUME NEW t \in Threads, WakeAlone(t) PROVE Positions'
  <2>1. Resume(pc[t]) \in Wanting \cup Sleeping \cup Owing \cup {"idle"}
    BY ResumeType DEF Positions
  <2>2. QED
    BY <1>4, <2>1, GoKeepsPositions DEF WakeAlone, Move
<1>5. QED
  BY <1>1, <1>2, <1>3, <1>4 DEF Next

\* No step loses count of an item.
LEMMA DataInvariant ==
    Data /\ [Next]_vars => Data' /\ (lastTaken' # lastTaken => lastTaken' > lastTaken)
<1> SUFFICES ASSUME Data, [Next]_vars
             PROVE  Data' /\ (lastTaken' # lastTaken => lastTaken' > lastTaken)
  OBVIOUS
<1> DEFINE Same == UNCHANGED <<Q, accepted, taken, lastTaken, ended>>
<1>1. CASE Same
  BY <1>1, MoveKeepsData
<1>2. ASSUME NEW t \in Threads, NEW newQ, Accept(t, newQ) PROVE lastTaken' = lastTaken
  BY <1>2 DEF Accept
<1>3. ASSUME NEW t \in Threads, Step(t)
      PROVE  Data' /\ (lastTaken' # lastTaken => lastTaken' > lastTaken)
  <2>1. CASE Push(t)
    BY <2>1, <1>1, <1>2, EnqueueKeepsData DEF Push, Sleep, Refuse, Move
  <2>2. CASE TryPush(t)
    BY <2>2, <1>1, <1>2, EnqueueKeepsData DEF TryPush, Refuse, Move
  <2>3. CASE ForcePush(t)
    BY <2>3, <1>1, <1>2, ForceKeepsData DEF ForcePush, Refuse, Move
  <2>4. CASE Pop(t)
    <3>1. CASE IsEmpty(Q) /\ ~Q.closed /\ Sleep(t, "waitNotEmpty")
      BY <3>1, <1>1 DEF Sleep, Move
    <3>2. CASE /\ IsEmpty(Q) /\ Q.closed /\ ended' = TRUE
               /\ UNCHANGED <<Q, accepted, taken, lastTaken>>
      BY <3>2 DEF Data, Holds, EndsAt, QueueOf, EndIsFinal, IsEmpty, Ledger
    <3>3. CASE ~IsEmpty(Q) /\ Take(t)
      BY <3>3, TakeKeepsData
    <3>4. QED
      BY <2>4, <3>1, <3>2, <3>3 DEF Pop
  <2>5. CASE PopFor(t)
    BY <2>5, <1>1, TakeKeepsData DEF PopFor, Sleep, Refuse, Move
  <2>6. CASE Clear(t)
    BY <2>6, ClearKeepsData DEF Clear
  <2>7. CASE Close(t)
    BY <2>7, CloseKeepsData DEF Close
  <2>8. CASE Notify(t)
    BY <2>8, <1>1 DEF Notify
  <2>9. QED
    BY <1>3, <2>1, <2>2, <2>3, <2>4, <2>5, <2>6, <2>7, <2>8 DEF Step
<1>4. CASE UNCHANGED vars
  BY <1>4, <1>1 DEF vars
<1>5. CASE Next
  BY <1>5, <1>1, <1>3 DEF Next, Call, WakeAlone, Move
<1>6. QED
  BY <1>4, <1>5

\* Type correctness, conservation and finality of pop()'s false, for every
\* number of threads: the queue never reorders, duplicates or silently loses
\* an item, and a consumer that leaves on false has missed nothing.
THEOREM QueueIsSafe == Spec => [](TypeOK /\ Conservation /\ EndIsFinal)
<1>1. Init => Positions /\ Data
  BY InitInvariant
<1>2. Positions /\ Data /\ [Next]_vars => (Positions /\ Data)'
  BY PositionsInvariant, DataInvariant
<1>3. Positions /\ Data => TypeOK /\ Conservation /\ EndIsFinal
  BY InvariantParts
<1>4. QED
  BY <1>1, <1>2, <1>3, PTL DEF Spec

\* Items leave the queue in the order in which it accepted them, although
\* forcePush() and clear() may remove some of them at any time.
THEOREM QueueIsFifo == Spec => TakenInOrder
<1>1. Init => Data
  BY InitInvariant
<1>2. Data /\ [Next]_vars => Data'
  BY DataInvariant
<1>3. Data /\ [Next]_vars => [lastTaken' # lastTaken => lastTaken' > lastTaken]_vars
  BY DataInvariant
<1>4. QED
  BY <1>1, <1>2, <1>3, PTL DEF Spec, TakenInOrder

-----------------------------------------------------------------------------
(* No lost wake-up.  Both condition variables have the same argument: each  *)
(* unit of work (an item, a free place) is matched by a thread that will    *)
(* look at it, and once the queue is closed the closer itself is the        *)
(* helper, which makes the invariant inductive (Released).                  *)

\* Where a thread sleeps for items, releases all that do, or will look at one.
SE == {"waitNotEmpty", "waitNotEmptyFor"}
CE == {"closeNotFull", "closeNotEmpty"}
AE == {"oneNotEmpty"} \cup Pops

\* The same for free places.
SF == {"waitNotFull"}
CF == {"allNotFull", "closeNotFull"}
AF == {"oneNotFull", "push"}

Num(S)       == Cardinality(ThreadsAt(S))
Has(l, S)    == IF l \in S THEN 1 ELSE 0
Woken(S, C)  == ThreadsAt(S) # {} => ThreadsAt(C) # {}
Side(n, S, C, A) == ThreadsAt(S) # {} => ThreadsAt(C) # {} \/ n <= Num(A)

Released == Q.closed => Woken(SF, {"closeNotFull"}) /\ Woken(SE, CE)

Matched ==
    /\ Side(Len(Q.items), SE, CE, AE)
    /\ Side(Cap - Len(Q.items), SF, CF, AF)
    /\ Released

\* Matched has the run's invariant as its first part.
LEMMA MatchedIsEnough == Matched => NoLostWakeup
  BY DEF Matched, Side, NoLostWakeup, NotEmptySleepers, NotFullSleepers, Num,
         SE, CE, AE, SF, CF, AF

\* How many threads are in S after t has moved to l.
LEMMA GoCount ==
    ASSUME Positions, NEW t \in Threads, NEW l, Go(t, l), NEW S
    PROVE  /\ Num(S) \in Nat /\ Num(S)' \in Nat
           /\ Num(S)' + Has(pc[t], S) = Num(S) + Has(l, S)
           /\ ThreadsAt(S)' = IF l \in S THEN ThreadsAt(S) \cup {t}
                                         ELSE ThreadsAt(S) \ {t}
<1> DEFINE T == ThreadsAt(S)
           T2 == IF l \in S THEN T \cup {t} ELSE T \ {t}
<1>1. ThreadsAt(S)' = T2 /\ T \subseteq Threads /\ (t \in T <=> pc[t] \in S)
  BY DEF Positions, Go, ThreadsAt
<1> HIDE DEF T
<1>2. IsFiniteSet(T) /\ Cardinality(T) \in Nat
  BY <1>1, ThreadsAssumption, FS_Subset, FS_CardinalityType
<1>3. /\ Cardinality(T \cup {t}) = IF t \in T THEN Cardinality(T) ELSE Cardinality(T) + 1
      /\ Cardinality(T \ {t}) = IF t \in T THEN Cardinality(T) - 1 ELSE Cardinality(T)
  BY <1>2, FS_AddElement, FS_RemoveElement
<1>4. IsFiniteSet(T2) /\ Cardinality(T2) \in Nat
  BY <1>2, FS_AddElement, FS_RemoveElement, FS_CardinalityType
<1>5. Num(S) = Cardinality(T) /\ Num(S)' = Cardinality(T2)
  BY <1>1 DEF Num, T
<1>6. Cardinality(T2) + Has(pc[t], S) = Cardinality(T) + Has(l, S)
  <2>1. CASE l \in S
    BY <1>1, <1>2, <1>3, <2>1 DEF Has
  <2>2. CASE l \notin S
    BY <1>1, <1>2, <1>3, <2>2 DEF Has
  <2> QED
    BY <2>1, <2>2
<1> HIDE DEF T2
<1> QED
  BY <1>1, <1>2, <1>4, <1>5, <1>6 DEF T, T2

\* A thread moves and the work left is matched as before.
LEMMA GoSide ==
    ASSUME Positions, NEW t \in Threads, NEW l, Go(t, l),
           NEW S, NEW C, NEW A, NEW n \in Int, NEW m \in Int, Side(n, S, C, A),
           pc[t] \in C => l \in C,
           m <= 0 \/ (l \notin S /\ m + Has(pc[t], A) <= n + Has(l, A))
    PROVE  Side(m, S, C, A)'
<1>1. /\ Num(A) \in Nat /\ Num(A)' \in Nat
      /\ Num(A)' + Has(pc[t], A) = Num(A) + Has(l, A)
  BY GoCount
<1>2. CASE m <= 0
  <2>1. m <= Num(A)'
    BY <1>1, <1>2
  <2> QED
    BY <2>1 DEF Side
<1>3. CASE l \notin S /\ m + Has(pc[t], A) <= n + Has(l, A)
  <2>1. ThreadsAt(S)' = ThreadsAt(S) \ {t}
    BY <1>3, GoCount
  <2>2. ThreadsAt(C) # {} => ThreadsAt(C)' # {}
    <3>1. ThreadsAt(C)' = IF l \in C THEN ThreadsAt(C) \cup {t} ELSE ThreadsAt(C) \ {t}
      BY GoCount
    <3>2. t \in ThreadsAt(C) => pc[t] \in C
      BY DEF ThreadsAt
    <3> QED
      BY <3>1, <3>2
  <2>3. Has(pc[t], A) \in Nat /\ Has(l, A) \in Nat
    BY DEF Has
  <2>4. n <= Num(A) => m <= Num(A)'
    BY <1>1, <1>3, <2>3
  <2> QED
    BY <2>1, <2>2, <2>4 DEF Side
<1> QED
  BY <1>2, <1>3

\* A move keeps a close that wakes everybody awaited, if it keeps those still owing it.
LEMMA GoWoken ==
    ASSUME Positions, NEW t \in Threads, NEW l, Go(t, l),
           NEW S, NEW C, Woken(S, C), pc[t] \in C => l \in C, l \notin S \/ l \in C
    PROVE  Woken(S, C)'
<1>1. /\ ThreadsAt(S)' = IF l \in S THEN ThreadsAt(S) \cup {t} ELSE ThreadsAt(S) \ {t}
      /\ ThreadsAt(C)' = IF l \in C THEN ThreadsAt(C) \cup {t} ELSE ThreadsAt(C) \ {t}
  BY GoCount
<1>2. t \in ThreadsAt(C) => pc[t] \in C
  BY DEF ThreadsAt
<1> QED
  BY <1>1, <1>2 DEF Woken

\* What a thread that moves from a to l without notifying must keep: k items
\* were inside, j are.
LEMMA GoMatched ==
    ASSUME Positions, Matched, NEW t \in Threads, NEW l, Go(t, l),
           NEW k \in Int, NEW j \in Int, k = Len(Q.items), j = Len(Q.items)',
           pc[t] \in CE => l \in CE, pc[t] \in CF => l \in CF,
           pc[t] # "closeNotFull",
           j <= 0 \/ (l \notin SE /\ j + Has(pc[t], AE) <= k + Has(l, AE)),
           l \in CF \/ Cap - j <= 0
               \/ (l \notin SF /\ (Cap - j) + Has(pc[t], AF) <= (Cap - k) + Has(l, AF))
               \/ Q'.closed,
           Q'.closed => l = "closeNotFull" \/ (Q.closed /\ l \notin SF \cup SE)
    PROVE  Matched'
<1>1. Cap \in Int /\ Cap - k \in Int /\ Cap - j \in Int
  BY CapAssumption
<1>2. Side(j, SE, CE, AE)'
  BY GoSide DEF Matched
<1>3. Released'
  <2>1. CASE l = "closeNotFull"
    <3>1. l \in CE /\ l \in {"closeNotFull"}
      BY <2>1 DEF CE
    <3>2. t \in ThreadsAt(CE)' /\ t \in ThreadsAt({"closeNotFull"})'
      BY <3>1 DEF ThreadsAt, Go, Positions
    <3> QED
      BY <3>2 DEF Released, Woken
  <2>2. CASE Q.closed /\ l \notin SF \cup SE
    <3>1. Woken(SF, {"closeNotFull"}) /\ Woken(SE, CE)
      BY <2>2 DEF Matched, Released
    <3>2. Woken(SF, {"closeNotFull"})'
      BY <2>2, <3>1, GoWoken
    <3>3. Woken(SE, CE)'
      BY <2>2, <3>1, GoWoken
    <3> QED
      BY <3>2, <3>3 DEF Released
  <2>3. CASE ~Q'.closed
    BY <2>3 DEF Released
  <2> QED
    BY <2>1, <2>2, <2>3
<1>4. Side(Cap - j, SF, CF, AF)'
  <2>1. CASE l \in CF
    <3>1. t \in ThreadsAt(CF)'
      BY <2>1 DEF ThreadsAt, Go, Positions
    <3> QED
      BY <3>1 DEF Side
  <2>2. CASE Q'.closed
    <3>1. "closeNotFull" \in CF
      BY DEF CF
    <3>2. ThreadsAt({"closeNotFull"})' \subseteq ThreadsAt(CF)'
      BY <3>1 DEF ThreadsAt
    <3> QED
      BY <1>3, <2>2, <3>2 DEF Released, Woken, Side
  <2>3. CASE Cap - j <= 0
             \/ (l \notin SF /\ (Cap - j) + Has(pc[t], AF) <= (Cap - k) + Has(l, AF))
    BY <1>1, <2>3, GoSide DEF Matched
  <2> QED
    BY <2>1, <2>2, <2>3
<1> QED
  BY <1>2, <1>3, <1>4 DEF Matched

\* Where a thread is on either side, by its position.
LEMMA Places ==
    /\ \A l \in {"idle", "clear", "close", "tryPush", "forcePush"} :
           /\ l \notin SE \cup CE \cup SF \cup CF
           /\ Has(l, AE) = 0 /\ Has(l, AF) = 0
    /\ "push" \notin SE \cup CE \cup SF \cup CF
    /\ Has("push", AE) = 0 /\ Has("push", AF) = 1
    /\ \A l \in {"pop", "popFor", "oneNotEmpty"} :
           /\ l \notin SE \cup CE \cup SF \cup CF
           /\ Has(l, AE) = 1 /\ Has(l, AF) = 0
    /\ "oneNotFull" \notin SE \cup CE \cup SF \cup CF
    /\ Has("oneNotFull", AE) = 0 /\ Has("oneNotFull", AF) = 1
    /\ \A l \in SE : /\ l \notin CE \cup SF \cup CF
                     /\ Has(l, AE) = 0 /\ Has(l, AF) = 0
    /\ "waitNotFull" \notin SE \cup CE \cup CF
    /\ Has("waitNotFull", AE) = 0 /\ Has("waitNotFull", AF) = 0
    /\ "allNotFull" \in CF /\ "allNotFull" \notin SE \cup CE \cup SF
    /\ Has("allNotFull", AE) = 0 /\ Has("allNotFull", AF) = 0
    /\ "closeNotFull" \in CE \cap CF /\ "closeNotFull" \notin SE \cup SF
    /\ Has("closeNotFull", AE) = 0 /\ Has("closeNotFull", AF) = 0
    /\ "closeNotEmpty" \in CE /\ "closeNotEmpty" \notin SE \cup SF \cup CF
    /\ Has("closeNotEmpty", AE) = 0 /\ Has("closeNotEmpty", AF) = 0
  BY DEF SE, CE, AE, SF, CF, AF, Has, Pops

\* An accepted item: whatever happened to the queue's length, it did not shrink,
\* grew by at most one, and the thread now owes the notify.
LEMMA AcceptMatched ==
    ASSUME Positions, Matched, Data, NEW t \in Threads, NEW newQ, Accept(t, newQ),
           ~Q.closed, newQ.closed = Q.closed,
           pc[t] \in Pushes,
           \/ Len(newQ.items) = Len(Q.items) + 1
           \/ Len(newQ.items) = Len(Q.items) /\ pc[t] # "push"
    PROVE  Matched'
<1> DEFINE k == Len(Q.items)
           j == Len(newQ.items)
<1>1. /\ Go(t, "oneNotEmpty") /\ Q' = newQ /\ ~Q'.closed /\ k \in Nat
  BY DataTypes DEF Accept
<1>2. k \in Int /\ j \in Int /\ k = Len(Q.items) /\ j = Len(Q.items)'
  BY <1>1
<1> HIDE DEF k, j
<1>3. pc[t] \in {"push", "tryPush", "forcePush"}
  BY DEF Pushes
<1>4. pc[t] \notin CE \cup CF /\ pc[t] # "closeNotFull" /\ Has(pc[t], AE) = 0
  BY <1>3, Places
<1>5. "oneNotEmpty" \notin SE \cup SF /\ Has("oneNotEmpty", AE) = 1
      /\ Has("oneNotEmpty", AF) = 0
  BY Places
<1>6. j + Has(pc[t], AE) <= k + Has("oneNotEmpty", AE)
  BY <1>2, <1>4, <1>5 DEF k, j
<1>7. (Cap - j) + Has(pc[t], AF) <= (Cap - k) + Has("oneNotEmpty", AF)
  <2>1. Has(pc[t], AF) = IF pc[t] = "push" THEN 1 ELSE 0
    BY <1>3, Places
  <2>2. Cap \in Nat
    BY CapAssumption
  <2> QED
    BY <1>2, <1>5, <2>1, <2>2 DEF k, j
<1>8. QED
  BY <1>1, <1>2, <1>4, <1>5, <1>6, <1>7, GoMatched

\* A consumer takes an item and owes the notify for the free place.
LEMMA TakeMatched ==
    ASSUME Positions, Matched, Data, NEW t \in Threads, ~IsEmpty(Q), Take(t),
           pc[t] \in Pops
    PROVE  Matched'
<1> DEFINE k == Len(Q.items)
           j == Len(Dequeued(Q).items)
<1>1. /\ Go(t, "oneNotFull") /\ Q' = Dequeued(Q)
      /\ j = k - 1 /\ k \in Nat \ {0} /\ Q'.closed = Q.closed
  BY DequeuedHolds, DataTypes DEF Take, Data
<1>2. k \in Int /\ j \in Int /\ k = Len(Q.items) /\ j = Len(Q.items)'
  BY <1>1
<1> HIDE DEF k, j
<1>3. pc[t] \in {"pop", "popFor"}
  BY DEF Pops
<1>4. pc[t] \notin CE \cup CF /\ pc[t] # "closeNotFull"
      /\ Has(pc[t], AE) = 1 /\ Has(pc[t], AF) = 0
  BY <1>3, Places
<1>5. "oneNotFull" \notin SE \cup SF /\ Has("oneNotFull", AE) = 0
      /\ Has("oneNotFull", AF) = 1
  BY Places
<1>6. /\ j + Has(pc[t], AE) <= k + Has("oneNotFull", AE)
      /\ (Cap - j) + Has(pc[t], AF) <= (Cap - k) + Has("oneNotFull", AF)
  BY <1>1, <1>4, <1>5, CapAssumption
<1>7. ~Q'.closed \/ Q.closed
  BY <1>1
<1>8. QED
  BY <1>1, <1>2, <1>4, <1>5, <1>6, <1>7, GoMatched

\* A thread only moves: the queue stays as it is.
LEMMA MoveMatched ==
    ASSUME Positions, Matched, Data, NEW t \in Threads, NEW l, Go(t, l), Q' = Q,
           pc[t] \notin CE \cup CF, l \notin CE,
           \/ IsEmpty(Q)
           \/ l \notin SE /\ Has(pc[t], AE) <= Has(l, AE),
           \/ IsFull(Q, Cap) /\ ~Q.closed
           \/ l \notin SF /\ (Q.closed \/ Has(pc[t], AF) <= Has(l, AF)),
           Q.closed => l \notin SE
    PROVE  Matched'
<1> DEFINE k == Len(Q.items)
<1>1. k \in Nat /\ k = Len(Q.items) /\ k = Len(Q.items)' /\ Q'.closed = Q.closed
  BY DataTypes
<1>2. IsEmpty(Q) => k = 0
  BY EmptySeq DEF IsEmpty
<1>3. IsFull(Q, Cap) => Cap - k <= 0
  BY <1>1, CapAssumption DEF IsFull
<1> HIDE DEF k
<1>4. Has(pc[t], AE) \in Int /\ Has(l, AE) \in Int
      /\ Has(pc[t], AF) \in Int /\ Has(l, AF) \in Int
  BY DEF Has
<1>5. pc[t] # "closeNotFull"
  BY DEF CE
<1>6. k <= 0 \/ (l \notin SE /\ k + Has(pc[t], AE) <= k + Has(l, AE))
  BY <1>1, <1>2, <1>4
<1>7. \/ Cap - k <= 0 \/ Q'.closed
      \/ l \notin SF /\ (Cap - k) + Has(pc[t], AF) <= (Cap - k) + Has(l, AF)
  BY <1>1, <1>3, <1>4, CapAssumption
<1>8. Q'.closed => Q.closed /\ l \notin SF \cup SE
  BY <1>1
<1>9. QED
  BY <1>1, <1>5, <1>6, <1>7, <1>8, GoMatched

\* notify_one: the notifier is replaced by the thread it releases, which will
\* look at what there is.
LEMMA NotifyOneMatched ==
    ASSUME Positions, NEW t \in Threads, NEW S, NEW C, NEW A, NEW n \in Int,
           Side(n, S, C, A), NotifyOne(t, ThreadsAt(S), "idle"),
           pc[t] \in A, pc[t] \notin S \cup C, "idle" \notin S \cup C \cup A,
           \A l \in S : l \notin A \cup C /\ Resume(l) \in A /\ Resume(l) \notin S \cup C
    PROVE  /\ Side(n, S, C, A)'
           /\ ThreadsAt(S)' \subseteq ThreadsAt(S)
           /\ \A X : /\ pc[t] \notin X /\ "idle" \notin X
                     /\ \A l \in S : l \notin X /\ Resume(l) \notin X
                     => ThreadsAt(X)' = ThreadsAt(X)
<1>1. CASE ThreadsAt(S) = {}
  <2>1. Go(t, "idle")
    BY <1>1 DEF NotifyOne
  <2>2. ThreadsAt(S)' = {}
    BY <1>1, <2>1 DEF Go, ThreadsAt, Positions
  <2>3. \A X : pc[t] \notin X /\ "idle" \notin X => ThreadsAt(X)' = ThreadsAt(X)
    BY <2>1 DEF Go, ThreadsAt, Positions
  <2> QED
    BY <2>2, <2>3 DEF Side
<1>2. CASE ThreadsAt(S) # {}
  <2>1. PICK s \in ThreadsAt(S) : pc' = [pc EXCEPT ![t] = "idle", ![s] = Resume(@)]
    BY <1>2 DEF NotifyOne
  <2>2. /\ s \in Threads /\ pc[s] \in S /\ s # t
    BY DEF ThreadsAt
  <2> DEFINE l == Resume(pc[s])
  <2>3. /\ pc' = [pc EXCEPT ![t] = "idle", ![s] = l]
        /\ l \in A /\ l \notin S \cup C /\ pc[s] \notin A \cup C
    BY <2>1, <2>2 DEF Positions
  <2> HIDE DEF l
  <2>4. \A u \in Threads : pc'[u] = IF u = s THEN l ELSE IF u = t THEN "idle" ELSE pc[u]
    BY <2>2, <2>3 DEF Positions
  <2>5. ThreadsAt(S)' \subseteq ThreadsAt(S)
    BY <2>3, <2>4 DEF ThreadsAt
  <2>6. ThreadsAt(C)' = ThreadsAt(C)
    BY <2>2, <2>3, <2>4 DEF ThreadsAt
  <2>7. ASSUME NEW X, pc[t] \notin X, "idle" \notin X,
               \A i \in S : i \notin X /\ Resume(i) \notin X
        PROVE  ThreadsAt(X)' = ThreadsAt(X)
    <3>1. l \notin X /\ pc[s] \notin X
      BY <2>2, <2>7 DEF l
    <3> QED
      BY <2>2, <2>4, <2>7, <3>1 DEF ThreadsAt
  <2>8. Num(A)' = Num(A)
    <3> DEFINE T == ThreadsAt(A)
               T1 == T \ {t}
    <3>1. ThreadsAt(A)' = T1 \cup {s} /\ t \in T /\ s \notin T /\ T \subseteq Threads
      BY <2>2, <2>3, <2>4 DEF ThreadsAt
    <3> HIDE DEF T
    <3>2. IsFiniteSet(T) /\ Cardinality(T) \in Nat
      BY <3>1, ThreadsAssumption, FS_Subset, FS_CardinalityType
    <3>3. IsFiniteSet(T1) /\ Cardinality(T1) = Cardinality(T) - 1
      BY <3>1, <3>2, FS_RemoveElement
    <3>4. s \notin T1
      BY <3>1
    <3> HIDE DEF T1
    <3>5. Cardinality(T1 \cup {s}) = Cardinality(T1) + 1
      BY <3>3, <3>4, FS_AddElement
    <3>6. Cardinality(T1 \cup {s}) = Cardinality(T)
      BY <3>2, <3>3, <3>5
    <3> QED
      BY <3>1, <3>6 DEF Num, T
  <2> QED
    BY <2>5, <2>6, <2>7, <2>8 DEF Side
<1> QED
  BY <1>1, <1>2

\* notify_all leaves no sleeper; what is neither theirs nor the notifier's stays.
LEMMA NotifyAllMoves ==
    ASSUME Positions, NEW t \in Threads, NEW S, NEW next,
           NotifyAll(t, ThreadsAt(S), next), pc[t] \notin S, next \notin S,
           \A l \in S : Resume(l) \notin S
    PROVE  /\ ThreadsAt(S)' = {}
           /\ \A X : /\ (pc[t] \in X <=> next \in X)
                     /\ \A l \in S : l \notin X /\ Resume(l) \notin X
                     => ThreadsAt(X)' = ThreadsAt(X)
<1>1. \A u \in Threads : pc'[u] = IF u = t THEN next
                                  ELSE IF pc[u] \in S THEN Resume(pc[u]) ELSE pc[u]
  BY DEF NotifyAll, ThreadsAt
<1>2. ThreadsAt(S)' = {}
  BY <1>1 DEF ThreadsAt
<1>3. ASSUME NEW X, pc[t] \in X <=> next \in X,
             \A l \in S : l \notin X /\ Resume(l) \notin X
      PROVE  ThreadsAt(X)' = ThreadsAt(X)
  BY <1>1, <1>3 DEF ThreadsAt
<1> QED
  BY <1>2, <1>3

\* Where a released sleeper goes.
LEMMA ResumePlaces ==
    /\ \A l \in SE : /\ Resume(l) \in AE
                     /\ Resume(l) \notin SE \cup CE \cup SF \cup CF \cup AF
    /\ \A l \in SF : /\ Resume(l) \in AF
                     /\ Resume(l) \notin SE \cup CE \cup AE \cup SF \cup CF
  BY DEF Resume, SE, CE, AE, SF, CF, AF, Pops

\* A notify passes what is owed to a sleeper, or nobody sleeps.
LEMMA NotifyMatched ==
    ASSUME Positions, Matched, Data, NEW t \in Threads, Notify(t)
    PROVE  Matched'
<1>0. PICK k \in Int : k = Len(Q.items)
  BY DataTypes
<1>1. /\ Q' = Q /\ Cap - k \in Int
  BY CapAssumption DEF Notify
<1>2. NotEmptySleepers = ThreadsAt(SE) /\ NotFullSleepers = ThreadsAt(SF)
  BY DEF NotEmptySleepers, NotFullSleepers, SE, SF
<1>3. Side(k, SE, CE, AE) /\ Side(Cap - k, SF, CF, AF)
  BY <1>0 DEF Matched
<1>4. ASSUME Side(k, SE, CE, AE)', Side(Cap - k, SF, CF, AF)',
             Q.closed => Woken(SF, {"closeNotFull"})' /\ Woken(SE, CE)'
      PROVE  Matched'
  BY <1>0, <1>1, <1>4 DEF Matched, Released
<1>5. CASE At(t, "oneNotEmpty") /\ NotifyOne(t, NotEmptySleepers, "idle")
  <2>1. /\ pc[t] \in AE /\ pc[t] \notin SE \cup CE \cup SF \cup CF \cup AF
        /\ pc[t] \notin {"closeNotFull"}
    BY <1>5 DEF At, AE, SE, CE, SF, CF, AF
  <2>2. "idle" \notin SE \cup CE \cup AE \cup SF \cup CF \cup AF
    BY DEF AE, SE, CE, SF, CF, AF, Pops
  <2>3. \A l \in SE : l \notin AE \cup CE \cup SF \cup CF \cup AF
    BY DEF AE, SE, CE, SF, CF, AF, Pops
  <2>4. /\ Side(k, SE, CE, AE)' /\ ThreadsAt(SE)' \subseteq ThreadsAt(SE)
        /\ \A X : /\ pc[t] \notin X /\ "idle" \notin X
                  /\ \A l \in SE : l \notin X /\ Resume(l) \notin X
                  => ThreadsAt(X)' = ThreadsAt(X)
    BY <1>1, <1>2, <1>3, <1>5, <2>1, <2>2, <2>3, ResumePlaces, NotifyOneMatched
  <2>5. {"closeNotFull"} \subseteq CF
    BY DEF CF
  <2>6. /\ ThreadsAt(CE)' = ThreadsAt(CE) /\ ThreadsAt(SF)' = ThreadsAt(SF)
        /\ ThreadsAt(CF)' = ThreadsAt(CF) /\ ThreadsAt(AF)' = ThreadsAt(AF)
        /\ ThreadsAt({"closeNotFull"})' = ThreadsAt({"closeNotFull"})
    BY <2>1, <2>2, <2>3, <2>4, <2>5, ResumePlaces
  <2>7. Side(Cap - k, SF, CF, AF)'
    BY <1>3, <2>6 DEF Side, Num
  <2>8. Q.closed => Woken(SF, {"closeNotFull"})' /\ Woken(SE, CE)'
    BY <2>4, <2>6 DEF Matched, Released, Woken
  <2> QED
    BY <1>4, <2>4, <2>7, <2>8
<1>6. CASE At(t, "oneNotFull") /\ NotifyOne(t, NotFullSleepers, "idle")
  <2>1. /\ pc[t] \in AF /\ pc[t] \notin SE \cup CE \cup SF \cup CF \cup AE
        /\ pc[t] \notin {"closeNotFull"}
    BY <1>6 DEF At, AE, SE, CE, SF, CF, AF, Pops
  <2>2. "idle" \notin SE \cup CE \cup AE \cup SF \cup CF \cup AF
    BY DEF AE, SE, CE, SF, CF, AF, Pops
  <2>3. \A l \in SF : l \notin AE \cup CE \cup SE \cup CF \cup AF
    BY DEF AE, SE, CE, SF, CF, AF, Pops
  <2>4. /\ Side(Cap - k, SF, CF, AF)' /\ ThreadsAt(SF)' \subseteq ThreadsAt(SF)
        /\ \A X : /\ pc[t] \notin X /\ "idle" \notin X
                  /\ \A l \in SF : l \notin X /\ Resume(l) \notin X
                  => ThreadsAt(X)' = ThreadsAt(X)
    BY <1>1, <1>2, <1>3, <1>6, <2>1, <2>2, <2>3, ResumePlaces, NotifyOneMatched
  <2>5. {"closeNotFull"} \subseteq CF
    BY DEF CF
  <2>6. /\ ThreadsAt(CE)' = ThreadsAt(CE) /\ ThreadsAt(SE)' = ThreadsAt(SE)
        /\ ThreadsAt(AE)' = ThreadsAt(AE)
        /\ ThreadsAt({"closeNotFull"})' = ThreadsAt({"closeNotFull"})
    BY <2>1, <2>2, <2>3, <2>4, <2>5, ResumePlaces
  <2>7. Side(k, SE, CE, AE)'
    BY <1>3, <2>6 DEF Side, Num
  <2>8. Q.closed => Woken(SF, {"closeNotFull"})' /\ Woken(SE, CE)'
    BY <2>4, <2>6 DEF Matched, Released, Woken
  <2> QED
    BY <1>4, <2>4, <2>7, <2>8
<1>7. ASSUME NEW next, NotifyAll(t, ThreadsAt(SF), next), pc[t] \notin SF, next \notin SF,
             pc[t] \in CE <=> next \in CE, pc[t] \notin SE \cup AE, next \notin SE \cup AE
      PROVE  Matched'
  <2>1. \A l \in SF : l \notin SE \cup CE \cup AE
    BY DEF AE, SE, CE, SF, Pops
  <2>2. /\ ThreadsAt(SF)' = {}
        /\ \A X : /\ (pc[t] \in X <=> next \in X)
                  /\ \A l \in SF : l \notin X /\ Resume(l) \notin X
                  => ThreadsAt(X)' = ThreadsAt(X)
    BY <1>7, ResumePlaces, NotifyAllMoves
  <2>3. /\ ThreadsAt(SE)' = ThreadsAt(SE) /\ ThreadsAt(CE)' = ThreadsAt(CE)
        /\ ThreadsAt(AE)' = ThreadsAt(AE)
    BY <1>7, <2>1, <2>2, ResumePlaces
  <2>4. Side(k, SE, CE, AE)'
    BY <1>3, <2>3 DEF Side, Num
  <2>5. Side(Cap - k, SF, CF, AF)' /\ Woken(SF, {"closeNotFull"})'
    BY <2>2 DEF Side, Woken
  <2>6. Q.closed => Woken(SE, CE)'
    BY <2>3 DEF Matched, Released, Woken
  <2> QED
    BY <1>4, <2>4, <2>5, <2>6
<1>8. CASE At(t, "allNotFull") /\ NotifyAll(t, NotFullSleepers, "idle")
  <2>1. /\ pc[t] \notin SE \cup CE \cup AE \cup SF /\ "idle" \notin SE \cup CE \cup AE \cup SF
    BY <1>8 DEF At, AE, SE, CE, SF, Pops
  <2> QED
    BY <1>2, <1>7, <1>8, <2>1
<1>9. CASE At(t, "closeNotFull") /\ NotifyAll(t, NotFullSleepers, "closeNotEmpty")
  <2>1. /\ pc[t] \notin SE \cup AE \cup SF /\ "closeNotEmpty" \notin SE \cup AE \cup SF
        /\ pc[t] \in CE /\ "closeNotEmpty" \in CE
    BY <1>9 DEF At, AE, SE, CE, SF, Pops
  <2> QED
    BY <1>2, <1>7, <1>9, <2>1
<1>10. CASE At(t, "closeNotEmpty") /\ NotifyAll(t, NotEmptySleepers, "idle")
  <2>1. /\ pc[t] \notin SE \cup SF \cup CF \cup AF
        /\ "idle" \notin SE \cup SF \cup CF \cup AF
        /\ pc[t] \notin {"closeNotFull"} /\ "idle" \notin {"closeNotFull"}
        /\ \A l \in SE : l \notin SF \cup CF \cup AF
        /\ {"closeNotFull"} \subseteq CF
    BY <1>10 DEF At, SE, SF, CF, AF
  <2>2. /\ ThreadsAt(SE)' = {}
        /\ \A X : /\ (pc[t] \in X <=> "idle" \in X)
                  /\ \A l \in SE : l \notin X /\ Resume(l) \notin X
                  => ThreadsAt(X)' = ThreadsAt(X)
    BY <1>2, <1>10, <2>1, ResumePlaces, NotifyAllMoves
  <2>3. /\ ThreadsAt(SF)' = ThreadsAt(SF) /\ ThreadsAt(CF)' = ThreadsAt(CF)
        /\ ThreadsAt(AF)' = ThreadsAt(AF)
        /\ ThreadsAt({"closeNotFull"})' = ThreadsAt({"closeNotFull"})
    BY <2>1, <2>2, ResumePlaces
  <2>4. Side(Cap - k, SF, CF, AF)'
    BY <1>3, <2>3 DEF Side, Num
  <2>5. Side(k, SE, CE, AE)' /\ Woken(SE, CE)'
    BY <2>2 DEF Side, Woken
  <2>6. Q.closed => Woken(SF, {"closeNotFull"})'
    BY <2>3 DEF Matched, Released, Woken
  <2> QED
    BY <1>4, <2>4, <2>5, <2>6
<1>11. QED
  BY <1>5, <1>6, <1>8, <1>9, <1>10 DEF Notify

\* forcePush() leaves as many items inside, or one more.
LEMMA ForcedLength ==
    ASSUME Data
    PROVE  LET r == Forced(Q, Cap, accepted + 1)
           IN  /\ Len(r.items) = Len(Q.items) + 1 \/ Len(r.items) = Len(Q.items)
               /\ r.closed = Q.closed
<1>1. CASE ~IsFull(Q, Cap)
  BY <1>1, EnqueuedHolds, DataTypes DEF Forced, Data
<1>2. CASE IsFull(Q, Cap)
  <2> DEFINE d == Dequeued(Q)
             e == [d EXCEPT !.dropped = @ + 1]
             r == Enqueued(e, accepted + 1)
  <2>1. Holds(Q, accepted) /\ accepted \in Nat
    BY DataTypes DEF Data
  <2>2. ~IsEmpty(Q)
    BY <1>2, DataTypes, CapAssumption, EmptySeq DEF IsFull, IsEmpty
  <2>3. /\ Holds(d, accepted) /\ Len(Q.items) \in Nat \ {0}
        /\ Len(d.items) = Len(Q.items) - 1 /\ d.closed = Q.closed
    BY <2>1, <2>2, DequeuedHolds
  <2> HIDE DEF d
  <2>4. d \in QueueOf(Nat) /\ d.dropped \in Nat
    BY <2>3 DEF Holds, QueueOf
  <2>5. /\ e \in QueueOf(Nat) /\ e.items = d.items /\ e.peak = d.peak
        /\ e.closed = d.closed
    BY <2>4 DEF QueueOf
  <2> HIDE DEF e
  <2>6. Holds(e, accepted) /\ ~IsFull(e, Cap)
    <3>1. Holds(e, accepted)
      BY <2>3, <2>5 DEF Holds
    <3>2. ~IsFull(e, Cap)
      BY <2>3, <2>5, DataTypes, CapAssumption DEF IsFull
    <3> QED
      BY <3>1, <3>2
  <2>7. Len(r.items) = Len(e.items) + 1 /\ r.closed = e.closed
    BY <2>1, <2>6, EnqueuedHolds
  <2> HIDE DEF r
  <2>8. Forced(Q, Cap, accepted + 1) = r
    BY <1>2 DEF Forced, d, e, r
  <2>9. Len(r.items) = Len(Q.items) /\ r.closed = Q.closed
    BY <2>3, <2>5, <2>7
  <2> QED
    BY <2>8, <2>9
<1> QED
  BY <1>1, <1>2

\* Every step of every thread keeps the sleepers matched.
LEMMA MatchedInvariant ==
    Positions /\ Data /\ Matched /\ [Next]_vars => Matched'
<1> SUFFICES ASSUME Positions, Data, Matched, [Next]_vars PROVE Matched'
  OBVIOUS
<1>1. CASE UNCHANGED vars
  BY <1>1 DEF vars, Matched, Side, Released, Woken, Num, ThreadsAt
<1>2. ASSUME NEW t \in Threads, NEW op \in Wanting, Call(t, op) PROVE Matched'
  <2>1. /\ pc[t] = "idle" /\ Go(t, op) /\ Q' = Q
    BY <1>2 DEF Call, Move, At
  <2>2. op \in {"push", "tryPush", "forcePush", "pop", "popFor", "clear", "close"}
    BY DEF Wanting, Pushes, Pops
  <2>3. /\ op \notin SE \cup CE \cup SF /\ Has(op, AE) \in {0, 1} /\ Has(op, AF) \in {0, 1}
    BY <2>2, Places
  <2>4. pc[t] \notin CE \cup CF /\ Has(pc[t], AE) = 0 /\ Has(pc[t], AF) = 0
    BY <2>1, Places
  <2> QED
    BY <2>1, <2>3, <2>4, MoveMatched
<1>3. ASSUME NEW t \in Threads, WakeAlone(t) PROVE Matched'
  <2> DEFINE l == Resume(pc[t])
  <2>1. pc[t] \in SE \cup SF /\ Go(t, l) /\ Q' = Q
    BY <1>3 DEF WakeAlone, Move, Sleeping, SE, SF
  <2>2. /\ pc[t] \notin CE \cup CF /\ Has(pc[t], AE) = 0 /\ Has(pc[t], AF) = 0
    <3>1. pc[t] \in SE \/ pc[t] = "waitNotFull"
      BY <2>1 DEF SF
    <3> QED
      BY <3>1, Places
  <2>3. l \notin SE \cup CE \cup SF /\ Has(l, AE) \in {0, 1} /\ Has(l, AF) \in {0, 1}
    BY <2>1, ResumePlaces DEF Has
  <2> HIDE DEF l
  <2> QED
    BY <2>1, <2>2, <2>3, MoveMatched
<1>4. ASSUME NEW t \in Threads, Step(t) PROVE Matched'
  <2>0. ASSUME NEW l \in {"idle", "waitNotFull", "waitNotEmpty", "waitNotEmptyFor"}
        PROVE  /\ l \notin CE /\ Has(l, AE) = 0 /\ Has(l, AF) = 0
               /\ l \in SF <=> l = "waitNotFull"
               /\ l = "idle" => l \notin SE
               /\ l = "waitNotFull" => l \notin SE
    BY DEF CE, SE, SF, AE, AF, Has, Pops
  <2> DEFINE new == Enqueued(Q, accepted + 1)
  <2>a. ASSUME pc[t] \in {"push", "tryPush"}, Accept(t, new), ~Q.closed, ~IsFull(Q, Cap)
        PROVE  Matched'
    <3>1. /\ Len(new.items) = Len(Q.items) + 1 /\ new.closed = Q.closed
      BY <2>a, EnqueuedHolds, DataTypes DEF Data
    <3>2. pc[t] \in Pushes
      BY <2>a DEF Pushes
    <3> HIDE DEF new
    <3> QED
      BY <2>a, <3>1, <3>2, AcceptMatched
  <2>b. ASSUME NEW l \in {"idle", "waitNotEmpty", "waitNotEmptyFor"},
               pc[t] \in {"pop", "popFor"}, IsEmpty(Q), Go(t, l), Q' = Q,
               l = "idle" \/ ~Q.closed
        PROVE  Matched'
    <3>1. /\ pc[t] \notin CE \cup CF /\ Has(pc[t], AF) = 0
      BY <2>b, Places
    <3>2. /\ l \notin CE /\ Has(l, AF) = 0 /\ l \notin SF /\ (Q.closed => l \notin SE)
      BY <2>0, <2>b
    <3> QED
      BY <2>b, <3>1, <3>2, MoveMatched
  <2>1. CASE Push(t)
    <3>1. /\ pc[t] = "push" /\ pc[t] \notin CE \cup CF /\ Has(pc[t], AE) = 0
      BY <2>1, Places DEF Push, At
    <3>2. CASE IsFull(Q, Cap) /\ ~Q.closed /\ Sleep(t, "waitNotFull")
      <4>1. Go(t, "waitNotFull") /\ Q' = Q
        BY <3>2 DEF Sleep, Move
      <4>2. /\ "waitNotFull" \notin CE \cup SE /\ Has(pc[t], AE) <= Has("waitNotFull", AE)
        BY <2>0, <3>1
      <4> QED
        BY <3>1, <3>2, <4>1, <4>2, MoveMatched
    <3>3. CASE Q.closed /\ Refuse(t)
      <4>1. Go(t, "idle") /\ Q' = Q
        BY <3>3 DEF Refuse, Move
      <4>2. /\ "idle" \notin CE \cup SE \cup SF /\ Has(pc[t], AE) <= Has("idle", AE)
        BY <2>0, <3>1
      <4> QED
        BY <3>1, <3>3, <4>1, <4>2, MoveMatched
    <3>4. CASE ~IsFull(Q, Cap) /\ ~Q.closed /\ Accept(t, new)
      BY <2>a, <3>1, <3>4
    <3> QED
      BY <2>1, <3>2, <3>3, <3>4 DEF Push
  <2>2. CASE TryPush(t)
    <3>1. /\ pc[t] = "tryPush" /\ pc[t] \notin CE \cup CF
          /\ Has(pc[t], AE) = 0 /\ Has(pc[t], AF) = 0
      BY <2>2, Places DEF TryPush, At
    <3>2. CASE Refuse(t)
      <4>1. Go(t, "idle") /\ Q' = Q
        BY <3>2 DEF Refuse, Move
      <4>2. /\ "idle" \notin CE \cup SE \cup SF /\ Has(pc[t], AE) <= Has("idle", AE)
            /\ Has(pc[t], AF) <= Has("idle", AF)
        BY <2>0, <3>1
      <4> QED
        BY <3>1, <4>1, <4>2, MoveMatched
    <3>3. CASE ~Q.closed /\ ~IsFull(Q, Cap) /\ Accept(t, new)
      BY <2>a, <3>1, <3>3
    <3> QED
      BY <2>2, <3>2, <3>3 DEF TryPush
  <2>3. CASE ForcePush(t)
    <3>1. /\ pc[t] = "forcePush" /\ pc[t] \notin CE \cup CF /\ pc[t] \in Pushes
          /\ Has(pc[t], AE) = 0 /\ Has(pc[t], AF) = 0
      BY <2>3, Places DEF ForcePush, At, Pushes
    <3>2. CASE Q.closed /\ Refuse(t)
      <4>1. Go(t, "idle") /\ Q' = Q
        BY <3>2 DEF Refuse, Move
      <4>2. /\ "idle" \notin CE \cup SE \cup SF /\ Has(pc[t], AE) <= Has("idle", AE)
        BY <2>0, <3>1
      <4> QED
        BY <3>1, <3>2, <4>1, <4>2, MoveMatched
    <3>3. CASE ~Q.closed /\ Accept(t, Forced(Q, Cap, accepted + 1))
      <4> DEFINE r == Forced(Q, Cap, accepted + 1)
      <4>1. /\ Len(r.items) = Len(Q.items) + 1 \/ Len(r.items) = Len(Q.items)
            /\ r.closed = Q.closed
        BY ForcedLength
      <4> HIDE DEF r
      <4>2. Accept(t, r) /\ ~Q.closed /\ pc[t] # "push"
        BY <3>1, <3>3 DEF r
      <4> QED
        BY <3>1, <4>1, <4>2, AcceptMatched
    <3> QED
      BY <2>3, <3>2, <3>3 DEF ForcePush
  <2>4. CASE Pop(t)
    <3>1. pc[t] = "pop" /\ pc[t] \in Pops
      BY <2>4 DEF Pop, At, Pops
    <3>2. CASE IsEmpty(Q) /\ ~Q.closed /\ Sleep(t, "waitNotEmpty")
      BY <2>b, <3>1, <3>2 DEF Sleep, Move
    <3>3. CASE IsEmpty(Q) /\ Go(t, "idle") /\ UNCHANGED <<Q, accepted, taken, lastTaken>>
      BY <2>b, <3>1, <3>3
    <3>4. CASE ~IsEmpty(Q) /\ Take(t)
      BY <3>1, <3>4, TakeMatched
    <3> QED
      BY <2>4, <3>2, <3>3, <3>4 DEF Pop
  <2>5. CASE PopFor(t)
    <3>1. pc[t] = "popFor" /\ pc[t] \in Pops
      BY <2>5 DEF PopFor, At, Pops
    <3>2. CASE IsEmpty(Q) /\ ~Q.closed /\ Sleep(t, "waitNotEmptyFor")
      BY <2>b, <3>1, <3>2 DEF Sleep, Move
    <3>3. CASE IsEmpty(Q) /\ Refuse(t)
      BY <2>b, <3>1, <3>3 DEF Refuse, Move
    <3>4. CASE ~IsEmpty(Q) /\ Take(t)
      BY <3>1, <3>4, TakeMatched
    <3> QED
      BY <2>5, <3>2, <3>3, <3>4 DEF PopFor
  <2>6. CASE Clear(t)
    <3>1. /\ pc[t] = "clear" /\ Go(t, "allNotFull") /\ Q' = Cleared(Q)
      BY <2>6 DEF Clear, At
    <3>2. /\ Q'.closed = Q.closed /\ Len(Q'.items) = 0
      BY <3>1, DataTypes DEF Cleared, QueueOf
    <3>3. pc[t] \notin CE \cup CF /\ pc[t] # "closeNotFull"
      BY <3>1, Places
    <3>4. "allNotFull" \in CF /\ "allNotFull" \notin SE \cup SF
      BY Places
    <3>5. PICK k \in Int : k = Len(Q.items)
      BY DataTypes
    <3> QED
      BY <3>1, <3>2, <3>3, <3>4, <3>5, GoMatched
  <2>7. CASE Close(t)
    <3>1. /\ pc[t] = "close" /\ Go(t, "closeNotFull") /\ Q' = Closed(Q)
      BY <2>7 DEF Close, At
    <3>2. Q'.items = Q.items
      BY <3>1, DataTypes DEF Closed, QueueOf
    <3>3. /\ pc[t] \notin CE \cup CF /\ pc[t] # "closeNotFull"
          /\ Has(pc[t], AE) = 0
      BY <3>1, Places
    <3>4. /\ "closeNotFull" \in CF /\ "closeNotFull" \notin SE
          /\ Has("closeNotFull", AE) = 0
      BY Places
    <3>5. PICK k \in Int : k = Len(Q.items)
      BY DataTypes
    <3>6. k = Len(Q.items)' /\ k + Has(pc[t], AE) <= k + Has("closeNotFull", AE)
      BY <3>2, <3>3, <3>4, <3>5
    <3> QED
      BY <3>1, <3>3, <3>4, <3>5, <3>6, GoMatched
  <2>8. CASE Notify(t)
    BY <2>8, NotifyMatched
  <2>9. QED
    BY <1>4, <2>1, <2>2, <2>3, <2>4, <2>5, <2>6, <2>7, <2>8 DEF Step
<1>5. QED
  BY <1>1, <1>2, <1>3, <1>4 DEF Next

\* Nobody sleeps through an item or a free place, for any number of threads: a
\* notify_one issued after the unlock may hit a consumer that finds the queue
\* emptied by another, but never leaves an item nobody will look at.
THEOREM NobodySleepsThrough == Spec => []NoLostWakeup
<1>1. Init => Positions /\ Data /\ Matched
  <2> SUFFICES ASSUME Init PROVE Positions /\ Data /\ Matched
    OBVIOUS
  <2>1. ThreadsAt(SE) = {} /\ ThreadsAt(SF) = {}
    BY DEF Init, ThreadsAt, SE, SF
  <2> QED
    BY <2>1, InitInvariant DEF Matched, Side, Released, Woken
<1>2. Positions /\ Data /\ Matched /\ [Next]_vars => (Positions /\ Data /\ Matched)'
  BY PositionsInvariant, DataInvariant, MatchedInvariant
<1>3. Matched => NoLostWakeup
  BY MatchedIsEnough
<1>4. QED
  BY <1>1, <1>2, <1>3, PTL DEF Spec

=============================================================================
