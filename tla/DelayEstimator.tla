--------------------------- MODULE DelayEstimator ---------------------------
(***************************************************************************)
(* modules/transport/DelayEstimator.cpp, fed by JitterBuffer::push() with  *)
(* the frames of a sender, and by recvLoop() with measured round trips.    *)
(* Frames come late by a varying delay and out of order; time stamps wrap  *)
(* around.  The receive thread owns the estimator.                         *)
(*                                                                         *)
(* Counters of stats_ are left out, and the saturation of int and int64:   *)
(* the values here are far from their limits.                              *)
(***************************************************************************)
EXTENDS Wraparound, FiniteSets, Sequences

CONSTANTS
    \* DelayEstimatorConfig
    TargetDelayMs, WindowMs, DelayPercentile, FloorPercentile,
    MinDelayMs, MaxDelayMs, DownRateMsPerSec, MinSamples,
    FrameDeltaWindow,      \* kFrameDeltaWindow
    TsMod,                 \* time stamps on the wire: 2^32 in the code
    \* the environment
    Offsets,               \* what a frame's arrival is behind its time stamp
    Pauses,                \* times between two frames
    Rtts,                  \* results of a measurement
    FirstMs, LastMs        \* bounds of the clock

ASSUME DelayAssumption ==
    /\ TargetDelayMs \in Nat /\ WindowMs \in Nat /\ MinDelayMs \in Nat /\ MaxDelayMs \in Nat
    /\ DelayPercentile \in 0 .. 100 /\ FloorPercentile \in 0 .. 100
    /\ DownRateMsPerSec \in Int /\ MinSamples \in Nat
    /\ FrameDeltaWindow \in Nat \ {0} /\ TsMod \in Nat \ {0} /\ TsMod % 2 = 0
    /\ Offsets \subseteq Int /\ Pauses \subseteq Nat /\ Rtts \subseteq Int
    /\ FirstMs \in Nat /\ LastMs \in Nat

VARIABLES
    adaptive,    \* config_.adaptive
    est,         \* the members
    now,         \* environment: the receiver's clock
    level        \* history: the most the delay has to be now, in microseconds,
                 \* if it has not fallen faster than DownRateMsPerSec allows

estimatorVars == <<adaptive, est, now, level>>

None == -1

\* The constructor puts the two limits in order.
Lower == IF MinDelayMs <= MaxDelayMs THEN MinDelayMs ELSE MaxDelayMs
Upper == IF MinDelayMs <= MaxDelayMs THEN MaxDelayMs ELSE MinDelayMs

Larger(a, b)  == IF a >= b THEN a ELSE b
Smaller(a, b) == IF a <= b THEN a ELSE b

\* As constructed, but for the measured round trip, which reset() keeps.
Fresh(rtt) ==
    [window |-> <<>>, floor |-> 0, hasFloor |-> FALSE, target |-> TargetDelayMs,
     lastObserve |-> None, remainder |-> 0, rtt |-> rtt,
     deltas |-> <<>>, lastTs |-> None, interval |-> 0, effectiveMin |-> Lower]

-----------------------------------------------------------------------------
(* Order statistics.                                                       *)

\* nth_element(): the value at place k (from 0) of the sorted sequence.
Nth(s, k) ==
    CHOOSE v \in {s[i] : i \in DOMAIN s} :
        /\ Cardinality({i \in DOMAIN s : s[i] < v}) <= k
        /\ k < Cardinality({i \in DOMAIN s : s[i] <= v})

OffsetsOf(window) == [i \in DOMAIN window |-> window[i].offset]

percentileOffset(window, p) == Nth(OffsetsOf(window), (p * (Len(window) - 1)) \div 100)

\* updateFrameInterval(): the lower quartile of the last distances.
WithInterval(E, ts) ==
    IF E.lastTs = None THEN [E EXCEPT !.lastTs = ts]
    ELSE LET d    == Signed(ts - E.lastTs, TsMod)
             all  == Append(E.deltas, IF d < 0 THEN -d ELSE d)
             kept == IF Len(all) > FrameDeltaWindow THEN Tail(all) ELSE all
         IN  [E EXCEPT !.lastTs = ts, !.deltas = kept,
                       !.interval = Nth(kept, Len(kept) \div 4)]

-----------------------------------------------------------------------------
(* observe()                                                               *)

\* Fixed delay: the offset is the least one ever seen.
ObserveFixed(E, offset) ==
    [E EXCEPT !.floor = IF E.hasFloor THEN Smaller(@, offset) ELSE offset,
              !.hasFloor = TRUE, !.target = TargetDelayMs]

\* The sample joins the window, and the front moves up to the first one that is
\* not older than WindowMs.
WithSample(E, offset, t) ==
    LET all     == Append(E.window, [at |-> t, offset |-> offset])
        recent  == {i \in DOMAIN all : t - all[i].at <= WindowMs}
        first   == CHOOSE i \in recent : \A j \in recent : i <= j
    IN  [E EXCEPT !.window = SubSeq(all, first, Len(all))]

\* Fault: the delay falls past the estimate.
PastEstimate(E, raw, t) ==
    LET dt     == IF E.lastObserve # None /\ t > E.lastObserve THEN t - E.lastObserve ELSE 0
        scaled == DownRateMsPerSec * dt + E.remainder
    IN  [E EXCEPT !.target = @ - scaled \div 1000, !.remainder = scaled % 1000]

\* The delay follows a smaller estimate at most as fast as DownRateMsPerSec; what
\* the division by 1000 leaves is kept for the next time.
Lowered(E, raw, t) ==
    LET dt     == IF E.lastObserve # None /\ t > E.lastObserve THEN t - E.lastObserve ELSE 0
        scaled == DownRateMsPerSec * dt + E.remainder
    IN  [E EXCEPT !.target = Larger(raw, @ - scaled \div 1000),
                  !.remainder = scaled % 1000]

\* Fault: without enough samples the delay goes back to its initial value.
BackToInitial(E, raw, t) ==
    IF Len(E.window) < MinSamples THEN [E EXCEPT !.target = TargetDelayMs]
    ELSE IF raw >= E.target \/ DownRateMsPerSec <= 0
    THEN [E EXCEPT !.target = raw, !.remainder = 0]
    ELSE Lowered(E, raw, t)

\* A larger estimate is followed at once.
Followed(E, raw, t) ==
    IF Len(E.window) < MinSamples THEN E
    ELSE IF raw >= E.target \/ DownRateMsPerSec <= 0
    THEN [E EXCEPT !.target = raw, !.remainder = 0]
    ELSE Lowered(E, raw, t)

\* Fault: the lower limit is applied last, as it is, and may be over the upper one.
BudgetUnclamped(E) ==
    LET budget == IF E.rtt > 0 /\ E.interval > 0 THEN E.interval + E.rtt ELSE 0
        least  == Larger(Lower, budget)
    IN  [E EXCEPT !.effectiveMin = least, !.target = Larger(Smaller(@, Upper), least)]

\* The time a retransmission takes, frame interval and round trip, raises the
\* lower limit; then the delay is clamped.
Limited(E) ==
    LET budget == IF E.rtt > 0 /\ E.interval > 0 THEN E.interval + E.rtt ELSE 0
        least  == Smaller(Larger(Lower, budget), Upper)
    IN  [E EXCEPT !.effectiveMin = least, !.target = Larger(Smaller(@, Upper), least)]

ObserveAdaptive(E, offset, t) ==
    LET sampled == WithSample(E, offset, t)
        floor   == percentileOffset(sampled.window, FloorPercentile)
        raw     == percentileOffset(sampled.window, DelayPercentile) - floor
    IN  [Limited(Followed(sampled, raw, t)) EXCEPT
             !.floor = floor, !.hasFloor = TRUE, !.lastObserve = t]

-----------------------------------------------------------------------------
EstimatorInit ==
    /\ adaptive \in BOOLEAN
    /\ est = Fresh(0)
    /\ now = FirstMs /\ level = 0

\* A frame arrives: observe(timestampMs, nowMs).  What it does with a time
\* stamp that has wrapped around is to take the difference as it is.
Observe ==
    \E pause \in Pauses, late \in Offsets :
        LET t  == now + pause
            ts == (t - late) % TsMod
            E  == WithInterval(est, ts)
        IN  /\ t <= LastMs
            /\ now' = t
            /\ est' = IF adaptive THEN ObserveAdaptive(E, t - ts, t) ELSE ObserveFixed(E, t - ts)
            /\ level' = Larger(level - DownRateMsPerSec * pause, 1000 * est'.target)
            /\ UNCHANGED adaptive

\* setRttMs()
SetRttMs ==
    \E rtt \in Rtts :
        /\ rtt > 0
        /\ est' = [est EXCEPT !.rtt = rtt]
        /\ UNCHANGED <<adaptive, now, level>>

\* reset()
ResetEstimator ==
    /\ est' = Fresh(est.rtt)
    /\ level' = 0
    /\ UNCHANGED <<adaptive, now>>

EstimatorNext == Observe \/ SetRttMs \/ ResetEstimator

EstimatorSpec == EstimatorInit /\ [][EstimatorNext]_estimatorVars

-----------------------------------------------------------------------------
(* Properties.                                                             *)

\* After a frame the delay is within its limits, and so is the lower limit itself,
\* whatever a retransmission costs, whatever the time stamps do (a wraparound
\* makes the estimate jump by TsMod) and however the two limits are configured.
WithinLimits ==
    adaptive /\ est.lastObserve # None =>
        /\ Lower <= est.effectiveMin /\ est.effectiveMin <= Upper
        /\ est.effectiveMin <= est.target /\ est.target <= Upper

\* Between any two frames the delay falls by no more than DownRateMsPerSec allows
\* for the time between them, give or take the rounding of one millisecond: also
\* when the window runs empty and fills again, when the budget of a retransmission
\* changes and when frames come so fast that a single step rounds to nothing.
FallsSlowly ==
    adaptive /\ DownRateMsPerSec > 0 => level - 1000 * est.target < 1000

\* The delay covers the order statistic it is computed from: below the upper limit,
\* and with enough samples, so many frames of the window came before they had to be
\* shown, by the present time base and delay.  percentileOffset() takes the element
\* at DelayPercentile * (size - 1) / 100, rounded down, so this can be one frame less
\* than that share of the window.
CoversWindow ==
    LET early == {i \in DOMAIN est.window : est.window[i].offset <= est.floor + est.target}
    IN  Len(est.window) >= MinSamples /\ est.window # <<>> /\ est.target < Upper =>
            100 * Cardinality(early) > DelayPercentile * (Len(est.window) - 1)

=============================================================================
