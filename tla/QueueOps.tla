------------------------------ MODULE QueueOps ------------------------------
(***************************************************************************)
(* What the critical sections of common/BoundedQueue.h do to a queue, as   *)
(* functions of the queue's value.  BoundedQueue builds the mutex and the  *)
(* condition variables around them; the pipelines, whose threads share     *)
(* queues, use them as the atomic steps BoundedQueue shows them to be.     *)
(***************************************************************************)
EXTENDS Integers, Sequences

\* The members of a BoundedQueue (q_, closed_, dropped_, peak_); cap_ is a
\* constructor argument and stays a parameter of the operators.
QueueOf(Item) ==
    [items: Seq(Item), closed: BOOLEAN, dropped: Nat, peak: Nat]

EmptyQueue == [items |-> <<>>, closed |-> FALSE, dropped |-> 0, peak |-> 0]

IsEmpty(Q) == Q.items = <<>>

IsFull(Q, cap) == Len(Q.items) >= cap

\* Fault: the new item goes to the front.
EnqueuedInFront(Q, x) ==
    [Q EXCEPT !.items = <<x>> \o @,
              !.peak  = IF Len(Q.items) + 1 > @ THEN Len(Q.items) + 1 ELSE @]

\* enqueueLocked(): append at the back and raise the high-water mark.
Enqueued(Q, x) ==
    [Q EXCEPT !.items = Append(@, x),
              !.peak  = IF Len(Q.items) + 1 > @ THEN Len(Q.items) + 1 ELSE @]

\* out = move(q_.front()); q_.pop_front()
Dequeued(Q) == [Q EXCEPT !.items = Tail(@)]

\* Fault: a full queue gives up its newest item.
ForcedNewest(Q, cap, x) ==
    IF IsFull(Q, cap)
    THEN Enqueued([Q EXCEPT !.items = SubSeq(@, 1, Len(@) - 1), !.dropped = @ + 1], x)
    ELSE Enqueued(Q, x)

\* forcePush() past its closed_ test: a full queue gives up its oldest item.
Forced(Q, cap, x) ==
    IF IsFull(Q, cap)
    THEN Enqueued([Dequeued(Q) EXCEPT !.dropped = @ + 1], x)
    ELSE Enqueued(Q, x)

\* clear() under the lock.
Cleared(Q) == [Q EXCEPT !.items = <<>>, !.dropped = @ + Len(Q.items)]

\* close() under the lock.
Closed(Q) == [Q EXCEPT !.closed = TRUE]

=============================================================================
