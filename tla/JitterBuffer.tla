---------------------------- MODULE JitterBuffer ----------------------------
(***************************************************************************)
(* modules/transport/JitterBuffer.cpp between a network that loses,        *)
(* repeats and reorders frames and a receive thread that takes whatever is *)
(* due.  The sender numbers its frames First, First + 1, ... and puts the  *)
(* number modulo IdMod on the wire, so a short run crosses the wraparound. *)
(***************************************************************************)
EXTENDS JitterOps

CONSTANTS
    First,       \* number of the first frame that can arrive
    KeyFrames,   \* the numbers of the key frames
    Reorder,     \* a frame arrives at most this far from the one before it
    MaxPushes    \* bound: calls of push() between two resets

\* Two frames in a row are less than half the id space apart, which int32_t
\* arithmetic needs, and extended ids do not run out.
ASSUME ReorderAssumption ==
    /\ First \in Nat /\ Reorder \in Nat /\ MaxPushes \in Nat
    /\ 2 * Reorder < IdMod
    /\ First + (MaxPushes + 1) * (Reorder + 1) < ExtMod
ASSUME KeyAssumption == KeyFrames \subseteq Nat

VARIABLES
    J,           \* the buffer
    stats,       \* stats_: where the frames went
    latest,      \* environment: number of the frame that arrived last
    delivered,   \* history: number of the frame delivered last, or -1
    gated        \* history: nothing delivered since the gate was closed

vars == <<J, stats, latest, delivered, gated>>

Fates == {"duplicate", "beforeKey", "tooLate", "dropped", "resync", "out"}

\* Every frame that can arrive first has its id on the same side of the wrap as
\* First: extended ids start at the first id seen.
JoinsBeforeWrap == (First % IdMod) + Reorder < IdMod

FrameOf(n) == [id |-> n % IdMod, n |-> n, key |-> n \in KeyFrames]

Pushes == stats.in

-----------------------------------------------------------------------------
\* framesIn, then the counter of the branch push() leaves by; framesDropped
\* counts what enforceCapacity() evicted.
Counted(v) ==
    IF v = "kept"
    THEN [stats EXCEPT
              !.in = @ + 1,
              !.dropped = @ + Cardinality(J.pending) + 1 - Cardinality(J'.pending)]
    ELSE [stats EXCEPT !.in = @ + 1, ![v] = @ + 1]

\* A frame the sender has sent arrives, and any frame of its neighbourhood may
\* be next: late, early, again.
Push ==
    /\ Pushes < MaxPushes
    /\ \E n \in (latest - Reorder) .. (latest + Reorder), due \in BOOLEAN :
          /\ n >= First
          /\ J' = Pushed(J, FrameOf(n), due)
          /\ stats' = Counted(Verdict(J, FrameOf(n)))
          /\ latest' = n
    /\ UNCHANGED <<delivered, gated>>

Pop == \E e \in J.pending :
    /\ IsDue(J, e)
    /\ J' = Popped(J, e)
    /\ stats' = [stats EXCEPT !.out = @ + 1]
    /\ delivered' = e.frame.n
    /\ gated' = FALSE
    /\ UNCHANGED latest

TimePasses == \E e \in J.pending :
    /\ ~e.due
    /\ J' = Ripened(J, e)
    /\ UNCHANGED <<stats, latest, delivered, gated>>

\* Fault: what the resync discards is not counted.
DropQuietly ==
    /\ J' = ClosedUntilKey(J)
    /\ gated' = TRUE
    /\ UNCHANGED <<stats, latest, delivered>>

DropUntilKeyFrame ==
    /\ J' = ClosedUntilKey(J)
    /\ stats' = [stats EXCEPT !.resync = @ + Cardinality(J.pending)]
    /\ gated' = TRUE
    /\ UNCHANGED <<latest, delivered>>

Init ==
    /\ J = EmptyJitter
    /\ stats = [s \in Fates \cup {"in"} |-> 0]
    /\ latest = First
    /\ delivered = -1
    /\ gated = TRUE

\* reset(): a reconnect, the stream starts again.
Reset ==
    /\ J' = EmptyJitter
    /\ stats' = [s \in Fates \cup {"in"} |-> 0]
    /\ latest' = First
    /\ delivered' = -1
    /\ gated' = TRUE

Next == Push \/ Pop \/ TimePasses \/ DropUntilKeyFrame \/ Reset

Spec == Init /\ [][Next]_vars

-----------------------------------------------------------------------------
(* Properties.                                                             *)

\* Frames are delivered in the sender's order, none twice and none after a
\* newer one, although ids wrap, frames arrive late, early and repeatedly, and
\* the buffer is emptied in between.
DeliveredInOrder == [][delivered' # delivered /\ delivered' # -1
                          => delivered' > delivered]_vars

\* The buffer is a FrameStream: what is inside is known by its number, what leaves is
\* the oldest frame inside in the sender's order, what is given up is the oldest part
\* or everything, although the code only sees ids that wrap around, and though frames
\* arrive late, early and repeatedly.
Stream == INSTANCE FrameStream
              WITH waiting <- {e.frame.n : e \in J.pending}, last <- delivered

ImplementsStream == Stream!Spec

\* What is inside is newer than everything delivered, so the oldest entry is
\* always a legal next frame, and no two entries share an extended id.
PendingIsAhead ==
    /\ \A e \in J.pending : J.hasOut => e.ext > J.lastOut
    /\ \A d, e \in J.pending : d.ext = e.ext => d = e

\* Every frame pushed is inside or counted in exactly one of the counters.
EveryFrameCounted ==
    stats.in = stats.duplicate + stats.beforeKey + stats.tooLate + stats.dropped
               + stats.resync + stats.out + Cardinality(J.pending)

\* JitterBuffer.h on dropUntilKeyFrame() and startOnKeyFrame: the next frame
\* delivered is a key frame.
GateHolds == [][gated /\ ~gated' /\ StartOnKeyFrame => delivered' \in KeyFrames]_vars

=============================================================================
