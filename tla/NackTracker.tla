---------------------------- MODULE NackTracker ----------------------------
(***************************************************************************)
(* The tracker of NackOps behind a network that loses, repeats and         *)
(* reorders packets; retransmitted and FEC-recovered packets are late      *)
(* packets.  The sender numbers its packets First, First + 1, ...; the     *)
(* tracker sees the number modulo SeqMod.  The receive thread owns it.     *)
(***************************************************************************)
EXTENDS NackOps

CONSTANTS
    Tolerances,    \* what clamp(fragCount, min, max) can give
    KeyPackets,    \* numbers of the packets that carry a key frame's fragment
    First,         \* number of the packet that arrives first
    Last,          \* bound: the largest number that is sent
    Ahead,         \* a packet arrives at most this far ahead of the newest one
    MaxResets      \* bound: calls of reset()

ASSUME StreamAssumption ==
    /\ Tolerances # {} /\ Tolerances \subseteq Nat
    /\ First \in Nat /\ Last \in Nat /\ Ahead \in Nat /\ MaxResets \in Nat
    /\ 2 * (Last - First) < SeqMod

VARIABLES
    tracker,       \* the tracker's value, see NackOps
    \* history, as packet numbers, since the baseline
    base, high,    \* the first packet, the newest one that arrived
    got, gone,     \* arrived, given up
    asked,         \* number |-> how often it was asked for
    \* history, since the start: gaps opened, filled before they were asked
    \* for, and forgotten with their stream; calls of reset()
    ledger, resets

vars == <<tracker, base, high, got, gone, asked, ledger, resets>>

Numbers == First .. Last
SeqOf(n)  == n % SeqMod

\* The packet behind a gap, and the gaps that a step closes.
Number(s) == high - Age(tracker, s)
Closed    == DOMAIN tracker.gaps \ DOMAIN tracker'.gaps

Init ==
    /\ tracker = NewTracker
    /\ base = First /\ high = First /\ got = {} /\ gone = {} /\ asked = <<>>
    /\ ledger = [opened |-> 0, filled |-> 0, forgotten |-> 0] /\ resets = 0

\* A packet that starts a stream: everything known is forgotten.
StartOver(n) ==
    /\ base' = n /\ high' = n /\ got' = {n} /\ gone' = {} /\ asked' = <<>>
    /\ ledger' = [ledger EXCEPT !.forgotten = @ + Cardinality(DOMAIN tracker.gaps)]

\* Any other packet: what it does not fill and what is gone, was given up.
GoOn(n) ==
    /\ high' = IF n > high THEN n ELSE high
    /\ got' = got \cup {n}
    /\ gone' = gone \cup {Number(s) : s \in Closed \ {SeqOf(n)}}
    /\ ledger' = [ledger EXCEPT
           !.opened = @ + Cardinality(DOMAIN tracker'.gaps \ DOMAIN tracker.gaps),
           !.filled = @ + Cardinality({s \in Closed \cap {SeqOf(n)} :
                                          tracker.gaps[s].requestCount = 0})]
    /\ UNCHANGED <<base, asked>>

\* onPacket()
OnPacket ==
    \E n \in Numbers, t \in Tolerances :
        /\ IF tracker.hasBase THEN n <= high + Ahead ELSE n = First
        /\ tracker' = Received(tracker, SeqOf(n), t, n \in KeyPackets)
        /\ IF ~tracker.hasBase \/ IsFarOff(tracker, SeqOf(n)) THEN StartOver(n) ELSE GoOn(n)
        /\ UNCHANGED resets

\* collectNackTargets()
CollectNackTargets ==
    LET out == {Number(s) : s \in Targets(tracker)}
    IN  /\ tracker' = Collected(tracker) /\ tracker' # tracker
        /\ gone' = gone \cup {Number(s) : s \in Closed}
        /\ asked' = [n \in DOMAIN asked \cup out |->
                        (IF n \in DOMAIN asked THEN asked[n] ELSE 0)
                        + (IF n \in out THEN 1 ELSE 0)]
        /\ UNCHANGED <<base, high, got, ledger, resets>>

\* reset()
Reset ==
    /\ resets < MaxResets /\ resets' = resets + 1
    /\ tracker' = Forgotten(tracker)
    /\ base' = First /\ high' = First /\ got' = {} /\ gone' = {} /\ asked' = <<>>
    /\ ledger' = [ledger EXCEPT !.forgotten = @ + Cardinality(DOMAIN tracker.gaps)]

Next == OnPacket \/ CollectNackTargets \/ Reset

Spec == Init /\ [][Next]_vars

-----------------------------------------------------------------------------
(* Properties.                                                             *)

\* The table holds exactly the packets after the baseline that have neither
\* arrived nor been given up, whatever the order, the repetitions and the
\* wraparound: no phantom gap is ever asked for, no loss is forgotten.  The window
\* bounds the table.
GapsAreExact ==
    /\ Cardinality(DOMAIN tracker.gaps) < Window
    /\ tracker.hasBase => {Number(s) : s \in DOMAIN tracker.gaps}
                             = {n \in base .. high : n \notin got \cup gone}

\* NackTracker.h: every gap ends as recovered, given up, still pending, or,
\* without having been asked for, as mere reordering; only a new stream makes
\* the tracker forget one.
EveryGapSettled ==
    ledger.opened = ledger.filled + ledger.forgotten
                    + tracker.stats.recovered + tracker.stats.givenUp
                    + Cardinality(DOMAIN tracker.gaps)

\* The way a packet is asked for: never one that has arrived, at most
\* MaxRequests times in all, and not again before a frame's worth of newer
\* packets has come in.
RequestsPaced ==
    [][\A n \in Numbers \cap DOMAIN asked' :
          (n \notin DOMAIN asked \/ asked'[n] # asked[n]) =>
              /\ n \notin got /\ asked'[n] <= MaxRequests
              /\ high - n >= tracker.tolerance
              /\ n \in DOMAIN asked =>
                    (tracker.highest - tracker.gaps[SeqOf(n)].lastRequest) % SeqMod
                        >= tracker.tolerance]_vars

=============================================================================
