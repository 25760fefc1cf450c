---------------------------- MODULE FrameStream -----------------------------
(***************************************************************************)
(* What the receive thread may rely on between the network and the decode  *)
(* thread: a buffer that takes each frame of the sender's stream at most   *)
(* once, holds frames back, may give up the oldest ones or all of them,    *)
(* and lets the rest out in the sender's order, each the oldest it has.    *)
(* Frames are numbers in the sender's stream; ids, their wraparound, the   *)
(* play times and the limits are the business of the implementation,       *)
(* JitterBuffer.                                                           *)
(***************************************************************************)
EXTENDS Integers

VARIABLES
    waiting,    \* the frames inside
    last        \* the frame let out last, -1 before the first

None == -1

Init == waiting = {} /\ last = None

\* Whatever is given up is older than what stays.
OldestGo == \A gone \in waiting \ waiting', kept \in waiting' : gone < kept

\* A frame comes in that is neither inside nor behind what was let out; others may be
\* given up for it.
Accept ==
    \E n \in waiting' \ waiting :
        /\ n > last /\ last' = last
        /\ waiting' \subseteq waiting \cup {n}
        /\ OldestGo

\* The oldest frame is let out.
LetOut ==
    /\ last' \in waiting
    /\ \A m \in waiting : last' <= m
    /\ waiting' = waiting \ {last'}

\* Some of it, or everything inside, is given up; the order is kept.
GiveUp == waiting' \subseteq waiting /\ OldestGo /\ last' = last

\* A new stream.
StartOver == waiting' = {} /\ last' = None

Next == Accept \/ LetOut \/ GiveUp \/ StartOver

Spec == Init /\ [][Next]_<<waiting, last>>

=============================================================================
