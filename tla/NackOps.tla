------------------------------ MODULE NackOps ------------------------------
(***************************************************************************)
(* modules/transport/NackTracker.cpp: which packets are missing and which  *)
(* of them to ask for again.  Everything is driven by arriving packets,    *)
(* there is no timer.  The member functions, as functions of the tracker's *)
(* value.                                                                  *)
(***************************************************************************)
EXTENDS SequenceNumbers, FiniteSets, Functions, FiniteSetsExt

CONSTANTS
    Window,        \* config_.windowPackets; 0 turns the tracker's caller off
    MaxRequests    \* config_.maxRequestsPerSeq

ASSUME TrackerAssumption ==
    /\ Window \in Nat \ {0} /\ MaxRequests \in Nat \ {0}
    /\ SeqMod % 2 = 0 /\ 2 * Window < SeqMod

\* lostForReal moves with givenUp everywhere and is left out.
TrackerCounters == {"recovered", "givenUp", "keyFramesGivenUp", "discontinuities"}

\* The members without their trailing underscores: gaps maps a missing number
\* to the state of its requests.
NewTracker ==
    [gaps |-> <<>>, highest |-> 0, tolerance |-> 0, hasBase |-> FALSE,
     stats |-> [c \in TrackerCounters |-> 0]]

\* highestSeq_ - seq in uint32_t arithmetic.
Age(T, s) == (T.highest - s) % SeqMod

KeyGaps(T, S) == {s \in S : T.gaps[s].likelyKeyFrame}

\* The gaps in S are given up.
GiveUp(T, S) ==
    [T EXCEPT !.gaps = Restrict(@, DOMAIN @ \ S),
              !.stats.givenUp = @ + Cardinality(S),
              !.stats.keyFramesGivenUp = @ + Cardinality(KeyGaps(T, S))]

-----------------------------------------------------------------------------
(* onPacket()                                                              *)

\* The first packet, nothing before it counts as missing; also a packet a whole
\* window or more ahead, which counts as the start of a new stream.
Rebase(T, s) == [T EXCEPT !.gaps = <<>>, !.highest = s, !.hasBase = TRUE]

IsNewer(T, s)  == seqNewerThan(s, T.highest, SeqMod)
IsFarOff(T, s) == IsNewer(T, s) /\ (s - T.highest) % SeqMod >= Window

\* Fault: whatever fills a gap counts as recovered.
LateAlwaysRecovered(T, s) ==
    [T EXCEPT !.gaps = Restrict(@, DOMAIN @ \ {s}),
              !.stats.recovered = @ + Cardinality({s} \cap DOMAIN T.gaps)]

\* Not newer than the newest: it may fill a gap, recovered if asked for.
Late(T, s) ==
    [T EXCEPT !.gaps = Restrict(@, DOMAIN @ \ {s}),
              !.stats.recovered =
                  IF s \in DOMAIN T.gaps /\ T.gaps[s].requestCount > 0 THEN @ + 1 ELSE @]

\* highestSeq_ - gap >= windowPackets
TooOld(T, s) == Age(T, s) >= Window

\* Newer: gaps that leave the window are given up, the skipped ones are new.
Newer(T, s, isKey) ==
    LET moved   == [T EXCEPT !.highest = s]
        kept    == GiveUp(moved, {g \in DOMAIN T.gaps : TooOld(moved, g)})
        skipped == {(s - age) % SeqMod : age \in 1 .. ((s - T.highest) % SeqMod) - 1}
        fresh   == [requestCount |-> 0, lastRequest |-> 0, likelyKeyFrame |-> isKey]
    IN  [kept EXCEPT !.gaps = [g \in DOMAIN @ \cup skipped |->
                                  IF g \in skipped THEN fresh ELSE @[g]]]

\* t is what the fragment count gives when clamped to the configured limits.
Received(T0, s, t, isKey) ==
    LET T == [T0 EXCEPT !.tolerance = t]
    IN  IF ~T.hasBase THEN Rebase(T, s)
        ELSE IF IsFarOff(T, s) THEN [Rebase(T, s) EXCEPT !.stats.discontinuities = @ + 1]
        ELSE IF IsNewer(T, s) THEN Newer(T, s, isKey)
        ELSE Late(T, s)

-----------------------------------------------------------------------------
(* collectNackTargets()                                                    *)

\* Fault: a gap may be asked for again at once.
AskableUnpaced(T, s) ==
    T.gaps[s].requestCount < MaxRequests /\ Age(T, s) >= T.tolerance

\* Old enough not to be mere reordering, and not asked for just now.
Askable(T, s) ==
    /\ T.gaps[s].requestCount < MaxRequests
    /\ Age(T, s) >= T.tolerance
    /\ T.gaps[s].requestCount > 0 =>
           (T.highest - T.gaps[s].lastRequest) % SeqMod >= T.tolerance

\* What is asked for now; nothing before the first packet.
Targets(T) == {s \in DOMAIN T.gaps : T.hasBase /\ Askable(T, s)}

\* The gap is asked for when now is the newest number.
Requested(gap, now) == [gap EXCEPT !.requestCount = @ + 1, !.lastRequest = now]

\* Every target's request is counted; a gap whose requests are used up is
\* given up with its last request.
Collected(T) ==
    LET asked == [T EXCEPT !.gaps = [s \in DOMAIN @ |->
                     IF s \in Targets(T) THEN Requested(@[s], T.highest) ELSE @[s]]]
    IN  GiveUp(asked, {s \in DOMAIN asked.gaps : asked.gaps[s].requestCount >= MaxRequests})

\* reset(): the peer changed, the statistics go on.
Forgotten(T) == [NewTracker EXCEPT !.stats = T.stats]

=============================================================================
