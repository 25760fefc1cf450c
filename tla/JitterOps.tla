----------------------------- MODULE JitterOps -----------------------------
(***************************************************************************)
(* The member functions of modules/transport/JitterBuffer.cpp, as          *)
(* functions of the buffer's value.  The receive thread owns the buffer,   *)
(* so no step of another thread comes in between.                          *)
(*                                                                         *)
(* A frame is [id, n, key]: the id on the wire, modulo IdMod, the position *)
(* in the sender's stream, which the code never sees, and isKey.  The play *)
(* time of an entry, which DelayEstimator computes, is abstracted to       *)
(* whether it has been reached: any entry may be due when it is inserted,  *)
(* any may become due later, and the soft limit makes one due at once      *)
(* (playAtMs = 0).                                                         *)
(***************************************************************************)
EXTENDS Wraparound, FiniteSets

CONSTANTS
    IdMod,             \* frame ids on the wire: 2^32 in the code
    ExtMod,            \* extended ids: 2^64 in the code
    SoftLimit,         \* config_.maxFrames
    HardLimitConfig,   \* config_.hardLimitFrames, 0 for the default
    StartOnKeyFrame    \* config_.startOnKeyFrame

ASSUME IdAssumption ==
    /\ IdMod \in Nat \ {0} /\ IdMod % 2 = 0
    /\ ExtMod \in Nat /\ ExtMod >= IdMod /\ ExtMod % IdMod = 0
ASSUME LimitAssumption == SoftLimit \in Nat /\ HardLimitConfig \in Nat
ASSUME StartAssumption == StartOnKeyFrame \in BOOLEAN

\* The constructor's default for the hard limit.
HardLimit ==
    IF HardLimitConfig # 0 THEN HardLimitConfig
    ELSE IF SoftLimit = 0 THEN 1 ELSE 2 * SoftLimit

Frame == [id: 0 .. IdMod - 1, n: Nat, key: BOOLEAN]
Entry == [ext: 0 .. ExtMod - 1, frame: Frame, due: BOOLEAN]

JitterType ==
    [pending: SUBSET Entry,              \* pending_, ordered by ext
     hasRef: BOOLEAN, refId: 0 .. IdMod - 1, refExt: 0 .. ExtMod - 1,
     hasOut: BOOLEAN, lastOut: 0 .. ExtMod - 1,
     started: BOOLEAN]

EmptyJitter ==
    [pending |-> {}, hasRef |-> FALSE, refId |-> 0, refExt |-> 0,
     hasOut |-> FALSE, lastOut |-> 0, started |-> ~StartOnKeyFrame]

-----------------------------------------------------------------------------
\* Fault: the distance to the anchor is not read as signed.
ForwardOnly(J, id) ==
    IF J.hasRef THEN (J.refExt + ((id - J.refId) % IdMod)) % ExtMod ELSE id

\* extendFrameId(): the anchor plus the signed distance to it.
Extended(J, id) ==
    IF J.hasRef THEN (J.refExt + Signed(id - J.refId, IdMod)) % ExtMod ELSE id

\* The k entries of P with the largest extended ids.
Newest(P, k) == {e \in P : Cardinality({d \in P : d.ext > e.ext}) < k}

\* Fault: the hard limit drops the newest entries.
OldestKept(P) ==
    LET kept == {e \in P : Cardinality({d \in P : d.ext < e.ext}) < HardLimit}
    IN  {[e EXCEPT !.due = e.due \/ e \notin Newest(kept, SoftLimit)] : e \in kept}

\* enforceCapacity(): the hard limit drops the oldest entries, the soft limit
\* makes the oldest ones of the rest due.
Capped(P) ==
    LET kept == Newest(P, HardLimit)
    IN  {[e EXCEPT !.due = e.due \/ e \notin Newest(kept, SoftLimit)] : e \in kept}

\* What push() decides about a frame, in the order of its tests.
Verdict(J, f) ==
    LET x == Extended(J, f.id)
    IN  IF \E e \in J.pending : e.ext = x   THEN "duplicate"
        ELSE IF ~J.started /\ ~f.key        THEN "beforeKey"
        ELSE IF J.hasOut /\ x <= J.lastOut  THEN "tooLate"
        ELSE "kept"

\* push(): the anchor follows every frame, a frame that passes the gate opens
\* it even when it is then found too late.
Pushed(J, f, due) ==
    LET x == Extended(J, f.id)
        v == Verdict(J, f)
    IN  [J EXCEPT !.hasRef  = TRUE, !.refId = f.id, !.refExt = x,
                  !.started = @ \/ v \in {"tooLate", "kept"},
                  !.pending = IF v = "kept"
                              THEN Capped(@ \cup {[ext |-> x, frame |-> f, due |-> due]})
                              ELSE @]

-----------------------------------------------------------------------------
IsOldest(J, e) == e \in J.pending /\ \A d \in J.pending : e.ext <= d.ext

\* Fault: any entry whose time has come is delivered.
AnyDue(J, e) == e \in J.pending /\ e.due

\* The entry pop() would deliver now, if any.
IsDue(J, e) == IsOldest(J, e) /\ e.due

\* pop() past its two tests.
Popped(J, e) == [J EXCEPT !.pending = @ \ {e}, !.lastOut = e.ext, !.hasOut = TRUE]

\* Time passes: e's play time is reached.
Ripened(J, e) ==
    [J EXCEPT !.pending = (@ \ {e}) \cup {[e EXCEPT !.due = TRUE]}]

\* dropUntilKeyFrame()
ClosedUntilKey(J) == [J EXCEPT !.pending = {}, !.started = ~StartOnKeyFrame]

=============================================================================
