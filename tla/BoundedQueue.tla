---------------------------- MODULE BoundedQueue ----------------------------
(***************************************************************************)
(* common/BoundedQueue.h: a bounded FIFO shared by threads, one mutex and  *)
(* two condition variables.  A critical section is one step.  What the     *)
(* code does outside the mutex is a step of its own: notify_one and        *)
(* notify_all run after the unlock, a waiter that was woken has to take    *)
(* the mutex again and evaluate its predicate again, and any operation of  *)
(* another thread may come in between.                                     *)
(*                                                                         *)
(* Every thread may call every operation, in any order, as the header      *)
(* allows.  Items are numbered in the order in which the queue accepts     *)
(* them, so an item's number is its position in the accepted stream.       *)
(***************************************************************************)
EXTENDS QueueOps, FiniteSets

CONSTANTS
    Threads,     \* the threads that share the queue
    Cap,         \* cap_
    MaxItems     \* bound: no push begins once this many items were accepted

ASSUME ThreadsAssumption == IsFiniteSet(Threads)
ASSUME CapAssumption     == Cap \in Nat \ {0}      \* the constructor's assert
ASSUME MaxItemsAssumption == MaxItems \in Nat

VARIABLES
    Q,           \* the queue's members
    pc,          \* where each thread is inside the class
    accepted,    \* history: items accepted so far
    taken,       \* history: items handed to consumers so far
    lastTaken,   \* history: the item handed out last, 0 before the first
    ended        \* history: some pop() reported the end of the stream

vars == <<Q, pc, accepted, taken, lastTaken, ended>>

Pushes == {"push", "tryPush", "forcePush"}
Pops   == {"pop", "popFor"}

\* A thread is outside the class, wants the mutex for an operation (also when
\* it was just woken), sleeps on a condition variable, or has released the
\* mutex and still has to notify.
Wanting  == Pushes \cup Pops \cup {"clear", "close"}
Sleeping == {"waitNotFull", "waitNotEmpty", "waitNotEmptyFor"}
Owing    == {"oneNotEmpty", "oneNotFull", "allNotFull", "closeNotFull", "closeNotEmpty"}

At(t, l)     == pc[t] = l
Go(t, l)     == pc' = [pc EXCEPT ![t] = l]
ThreadsAt(S) == {t \in Threads : pc[t] \in S}

-----------------------------------------------------------------------------
(* Where a wake-up leads: the sleeper wants the mutex for its operation.   *)

Resume(l) == CASE l = "waitNotFull"     -> "push"
               [] l = "waitNotEmpty"    -> "pop"
               [] l = "waitNotEmptyFor" -> "popFor"
               [] OTHER                 -> l

NotFullSleepers  == ThreadsAt({"waitNotFull"})
NotEmptySleepers == ThreadsAt({"waitNotEmpty", "waitNotEmptyFor"})

\* notify_one by t: one sleeper, any, is released; with none it is lost.
NotifyOne(t, sleepers, next) ==
    IF sleepers = {}
    THEN Go(t, next)
    ELSE \E s \in sleepers : pc' = [pc EXCEPT ![t] = next, ![s] = Resume(@)]

\* notify_all by t: every sleeper is released.
NotifyAll(t, sleepers, next) ==
    pc' = [s \in Threads |-> IF s = t THEN next
                             ELSE IF s \in sleepers THEN Resume(pc[s])
                             ELSE pc[s]]

-----------------------------------------------------------------------------
(* The critical sections.                                                  *)

\* Only the thread's position changes.
Move(t, l) ==
    /\ Go(t, l)
    /\ UNCHANGED <<Q, accepted, taken, lastTaken, ended>>

Refuse(t)   == Move(t, "idle")      \* return false
Sleep(t, l) == Move(t, l)           \* wait on a condition variable

Call(t, op) ==
    /\ At(t, "idle")
    /\ op \in Pushes => accepted < MaxItems
    /\ Move(t, op)

\* enqueueLocked() followed by the unlock: a notify_one(notEmpty_) is owed.
Accept(t, newQ) ==
    /\ Q' = newQ
    /\ accepted' = accepted + 1
    /\ Go(t, "oneNotEmpty")
    /\ UNCHANGED <<taken, lastTaken, ended>>

\* The front item leaves; the unlock leaves a notify_one(notFull_) owed.
Take(t) ==
    /\ Q' = Dequeued(Q)
    /\ taken' = taken + 1
    /\ lastTaken' = Head(Q.items)
    /\ Go(t, "oneNotFull")
    /\ UNCHANGED <<accepted, ended>>

Push(t) ==
    /\ At(t, "push")
    /\ \/ /\ IsFull(Q, Cap) /\ ~Q.closed
          /\ Sleep(t, "waitNotFull")
       \/ Q.closed /\ Refuse(t)
       \/ /\ ~IsFull(Q, Cap) /\ ~Q.closed
          /\ Accept(t, Enqueued(Q, accepted + 1))

TryPush(t) ==
    /\ At(t, "tryPush")
    /\ \/ (Q.closed \/ IsFull(Q, Cap)) /\ Refuse(t)
       \/ /\ ~Q.closed /\ ~IsFull(Q, Cap)
          /\ Accept(t, Enqueued(Q, accepted + 1))

ForcePush(t) ==
    /\ At(t, "forcePush")
    /\ \/ Q.closed /\ Refuse(t)
       \/ ~Q.closed /\ Accept(t, Forced(Q, Cap, accepted + 1))

Pop(t) ==
    /\ At(t, "pop")
    /\ \/ IsEmpty(Q) /\ ~Q.closed /\ Sleep(t, "waitNotEmpty")
       \/ /\ IsEmpty(Q) /\ Q.closed          \* the end: return false
          /\ ended' = TRUE
          /\ Go(t, "idle")
          /\ UNCHANGED <<Q, accepted, taken, lastTaken>>
       \/ ~IsEmpty(Q) /\ Take(t)

\* The wait is timed: an empty queue returns false at the deadline too.
PopFor(t) ==
    /\ At(t, "popFor")
    /\ \/ IsEmpty(Q) /\ ~Q.closed /\ Sleep(t, "waitNotEmptyFor")
       \/ IsEmpty(Q) /\ Refuse(t)
       \/ ~IsEmpty(Q) /\ Take(t)

\* Fault: clear() frees several places and wakes one producer.
ClearWakesOne(t) ==
    /\ At(t, "clear")
    /\ Q' = Cleared(Q)
    /\ Go(t, "oneNotFull")
    /\ UNCHANGED <<accepted, taken, lastTaken, ended>>

Clear(t) ==
    /\ At(t, "clear")
    /\ Q' = Cleared(Q)
    /\ Go(t, "allNotFull")
    /\ UNCHANGED <<accepted, taken, lastTaken, ended>>

\* Fault: close() forgets the blocked producers.
CloseWakesConsumers(t) ==
    /\ At(t, "close")
    /\ Q' = Closed(Q)
    /\ Go(t, "closeNotEmpty")
    /\ UNCHANGED <<accepted, taken, lastTaken, ended>>

Close(t) ==
    /\ At(t, "close")
    /\ Q' = Closed(Q)
    /\ Go(t, "closeNotFull")
    /\ UNCHANGED <<accepted, taken, lastTaken, ended>>

-----------------------------------------------------------------------------
(* After the unlock.                                                       *)

Notify(t) ==
    /\ \/ At(t, "oneNotEmpty")   /\ NotifyOne(t, NotEmptySleepers, "idle")
       \/ At(t, "oneNotFull")    /\ NotifyOne(t, NotFullSleepers, "idle")
       \/ At(t, "allNotFull")    /\ NotifyAll(t, NotFullSleepers, "idle")
       \/ At(t, "closeNotFull")  /\ NotifyAll(t, NotFullSleepers, "closeNotEmpty")
       \/ At(t, "closeNotEmpty") /\ NotifyAll(t, NotEmptySleepers, "idle")
    /\ UNCHANGED <<Q, accepted, taken, lastTaken, ended>>

\* A sleeper wakes without a notify: spuriously, or at popFor()'s deadline.
WakeAlone(t) ==
    /\ pc[t] \in Sleeping
    /\ Move(t, Resume(pc[t]))

-----------------------------------------------------------------------------
Init ==
    /\ Q = EmptyQueue
    /\ pc = [t \in Threads |-> "idle"]
    /\ accepted = 0 /\ taken = 0 /\ lastTaken = 0
    /\ ended = FALSE

\* What a thread does once it is inside the class and not asleep.
Step(t) == \/ Push(t) \/ TryPush(t) \/ ForcePush(t)
           \/ Pop(t) \/ PopFor(t) \/ Clear(t) \/ Close(t)
           \/ Notify(t)

Next == \E t \in Threads :
            \/ \E op \in Wanting : Call(t, op)
            \/ Step(t)
            \/ WakeAlone(t)

Spec == Init /\ [][Next]_vars

\* A thread that is runnable is eventually run.  Nobody is obliged to call,
\* no spurious wake-up is promised.
FairSpec == Spec /\ \A t \in Threads : WF_vars(Step(t))

-----------------------------------------------------------------------------
(* Properties.                                                             *)

\* Type correctness of the queue's members and of every thread's position.
TypeOK ==
    /\ Q \in QueueOf(Nat)
    /\ pc \in [Threads -> Wanting \cup Sleeping \cup Owing \cup {"idle"}]
    /\ accepted \in Nat /\ taken \in Nat /\ lastTaken \in Nat
    /\ ended \in BOOLEAN

\* The queue holds exactly the newest accepted items, oldest first and at most
\* Cap of them; everything else was handed out or is counted in dropped_, and
\* what was handed out is older than what is still inside.  forcePush() and
\* clear() may therefore lose a prefix but never reorder, duplicate or lose an
\* item silently (the dropped() contract).
Conservation ==
    /\ Len(Q.items) <= Q.peak /\ Q.peak <= Cap
    /\ accepted = taken + (Q.dropped + Len(Q.items))
    /\ \A i \in 1 .. Len(Q.items) : Q.items[i] = accepted - Len(Q.items) + i
    /\ lastTaken <= accepted - Len(Q.items)

\* An item handed out is newer than every item handed out before it, whatever
\* forcePush() and clear() removed in between.
TakenInOrder == [][lastTaken' # lastTaken => lastTaken' > lastTaken]_vars

\* Nobody sleeps through an item: while consumers sleep on notEmpty_, every
\* item inside is matched by a notify that is still owed or by a consumer that
\* is on its way to the mutex, although notify_one is issued after the unlock
\* and may hit a consumer that then finds the queue emptied by another.  Nobody
\* sleeps through free space either: the same for producers blocked in push(),
\* with clear() releasing all of them at once.
NoLostWakeup ==
    /\ NotEmptySleepers # {} =>
           \/ ThreadsAt({"closeNotFull", "closeNotEmpty"}) # {}
           \/ Len(Q.items) <= Cardinality(ThreadsAt({"oneNotEmpty"} \cup Pops))
    /\ NotFullSleepers # {} =>
           \/ ThreadsAt({"allNotFull", "closeNotFull"}) # {}
           \/ Cap - Len(Q.items) <= Cardinality(ThreadsAt({"oneNotFull", "push"}))

\* pop()'s false is final: a thread that leaves its loop on it has missed
\* nothing, because the queue is closed and empty and stays so.
EndIsFinal == ended => Q.closed /\ IsEmpty(Q)

\* close() releases every blocked call, the ones that go to sleep while the
\* closer is still on its way to the two notify_all included.
CloseReleasesAll ==
    \A t \in Threads : Q.closed ~> (pc[t] \notin Sleeping)

=============================================================================
