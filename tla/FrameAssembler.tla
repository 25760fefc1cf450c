--------------------------- MODULE FrameAssembler ---------------------------
(***************************************************************************)
(* modules/transport/FrameAssembler.cpp: DATA packets in, complete frames  *)
(* out, in the order in which they become complete.  The receive thread    *)
(* owns the assembler.                                                     *)
(*                                                                         *)
(* A packet carries fragment idx of frame n.  The code sees the frame's id *)
(* n modulo IdMod and the packet's sequence number modulo SeqMod; payload  *)
(* is abstracted to the frame it was cut from.  The network loses, repeats *)
(* and reorders packets, and a stray one may contradict the fragment count *)
(* of its frame.  Datagrams offer() rejects before it looks at the frame   *)
(* only move packetsMalformed and are left out.                            *)
(***************************************************************************)
EXTENDS Wraparound, FiniteSets, Sequences, Functions

CONSTANTS
    IdMod, SeqMod,     \* 2^32 in the code
    MaxPending,        \* maxPendingFrames_
    Frags,             \* fragments per frame
    First, Last,       \* numbers of the frames that can arrive
    Ahead, Back,       \* a packet's frame is at most this far from the newest
    MaxPackets,        \* bound: packets between two resets
    MaxStrays          \* bound: contradicting packets between two resets

ASSUME AssemblerAssumption == MaxPending \in Nat \ {0} /\ Frags \in Nat \ {0}
ASSUME StreamAssumption ==
    /\ First \in Nat /\ Last \in Nat /\ First <= Last /\ Ahead \in Nat /\ Back \in Nat
    /\ IdMod \in Nat /\ IdMod % 2 = 0 /\ SeqMod \in Nat /\ SeqMod % 2 = 0
    /\ MaxPackets \in Nat /\ MaxStrays \in Nat
    \* The frames on hand span less than half of the id space, and so do the
    \* packets between two arrivals.
    /\ 2 * ((MaxPending + 1) * Ahead + Back) < IdMod
    /\ 2 * (Last + 1 - First) * Frags < SeqMod

VARIABLES
    pending,           \* pending_: id |-> entry
    ready,             \* ready_
    retired,           \* {retiredFrameId_}, or {} while hasRetired_ is false
    stats,             \* stats_
    \* environment
    newest,            \* number of the newest frame a packet has arrived of
    strays,            \* contradicting packets so far
    \* history
    arrived,           \* positions in the packet stream that have arrived
    begun,             \* entries created
    delivered          \* numbers of the frames completed

code    == <<pending, ready, retired, stats>>
history == <<arrived, begun, delivered>>
vars    == <<code, newest, strays, history>>

Id(n)          == n % IdMod
Position(n, i) == n * Frags + i
Newer(a, b)    == seqNewerThan(a, b, IdMod)

Packets == [n: First .. Last, idx: 0 .. Frags, count: {Frags, Frags + 1}]

\* from: fragment index |-> number of the frame the payload was cut from; the
\* entry was created for a packet of frame n.
NewEntry(p) == [n |-> p.n, count |-> p.count, from |-> <<>>, received |-> 0,
                completed |-> FALSE]

Partial == {id \in DOMAIN pending : ~pending[id].completed}

NoStats == [started |-> FALSE, baseSeq |-> 0, highestSeq |-> 0, packetsReceived |-> 0,
            packetsMalformed |-> 0, packetsDuplicate |-> 0, packetsTooLate |-> 0,
            framesCompleted |-> 0, framesDropped |-> 0]

\* AssemblerStats::packetsLost()
packetsLost ==
    LET expected == IF stats.started
                    THEN ((stats.highestSeq - stats.baseSeq) % SeqMod) + 1 ELSE 0
    IN  IF expected > stats.packetsReceived THEN expected - stats.packetsReceived ELSE 0

-----------------------------------------------------------------------------
\* Fault: the packet that arrived last is the highest.
TrackedLast(st, seq) ==
    IF ~st.started
    THEN [st EXCEPT !.started = TRUE, !.baseSeq = seq, !.highestSeq = seq]
    ELSE [st EXCEPT !.highestSeq = seq]

\* trackSeq()
Tracked(st, seq) ==
    IF ~st.started
    THEN [st EXCEPT !.started = TRUE, !.baseSeq = seq, !.highestSeq = seq]
    ELSE IF seqNewerThan(seq, st.highestSeq, SeqMod) THEN [st EXCEPT !.highestSeq = seq]
    ELSE st

\* Fault: the smallest id is the oldest.
SmallestId == CHOOSE id \in DOMAIN pending : \A other \in DOMAIN pending : id <= other

\* oldestPendingFrameId()
OldestId == CHOOSE id \in DOMAIN pending :
                \A other \in DOMAIN pending : ~Newer(id, other)

\* Fault: a fragment that is there already is stored and counted again.
NeverRepeats(p, id) == FALSE

\* Fault: every packet without an entry begins one.
NeverLate(id) == FALSE

\* What offer() tests, in this order.
IsRetired(id)      == \E r \in retired : ~Newer(id, r)
IsDelivered(id)    == id \in DOMAIN pending /\ pending[id].completed
Contradicts(p, id) == id \in DOMAIN pending /\ pending[id].count # p.count
IsFull             == Cardinality(DOMAIN pending) >= MaxPending
IsTooOld(id)       == id \notin DOMAIN pending /\ IsFull /\ ~Newer(id, OldestId)
IsLate(id)         == IsRetired(id) \/ IsTooOld(id)
Repeats(p, id)     == id \in DOMAIN pending /\ p.idx \in DOMAIN pending[id].from

\* The fragment is stored; the last missing one completes the frame.
Stored(entry, p) ==
    [entry EXCEPT !.from = [i \in DOMAIN @ \cup {p.idx} |-> IF i = p.idx THEN p.n ELSE @[i]],
                  !.received = @ + 1,
                  !.completed = entry.received + 1 = entry.count]

\* Fault: a frame leaves the table when it is complete.
KeepForgetting(st, p, table, entry) ==
    LET now == Stored(entry, p)
    IN  IF now.completed
        THEN /\ pending' = Restrict(table, DOMAIN table \ {Id(p.n)})
             /\ ready' = Append(ready, [n |-> p.n, from |-> now.from, count |-> now.count])
             /\ delivered' = delivered \cup {p.n}
             /\ stats' = [st EXCEPT !.framesCompleted = @ + 1]
        ELSE /\ pending' = [i \in DOMAIN table \cup {Id(p.n)} |->
                               IF i = Id(p.n) THEN now ELSE table[i]]
             /\ stats' = st /\ UNCHANGED <<ready, delivered>>

\* The fragment goes into entry, one of table's or a new one.
Keep(st, p, table, entry) ==
    LET now == Stored(entry, p)
    IN  /\ pending' = [i \in DOMAIN table \cup {Id(p.n)} |->
                          IF i = Id(p.n) THEN now ELSE table[i]]
        /\ IF now.completed
           THEN /\ ready' = Append(ready, [n |-> p.n, from |-> now.from, count |-> now.count])
                /\ delivered' = delivered \cup {p.n}
                /\ stats' = [st EXCEPT !.framesCompleted = @ + 1]
           ELSE stats' = st /\ UNCHANGED <<ready, delivered>>

\* Nothing changes but one counter.
Refuse(st, counter) ==
    /\ stats' = [st EXCEPT ![counter] = @ + 1]
    /\ UNCHANGED <<pending, ready, retired, begun, delivered>>

\* Fault: every frame pushed out counts as dropped.
EvictAll(st, p) ==
    /\ retired' = {OldestId}
    /\ Keep([st EXCEPT !.framesDropped = @ + 1],
            p, Restrict(pending, DOMAIN pending \ {OldestId}), NewEntry(p))

\* evictOldest() and the new entry: the watermark moves to the frame that goes,
\* and a frame that goes incomplete counts as dropped.
Evict(st, p) ==
    /\ retired' = {OldestId}
    /\ Keep([st EXCEPT !.framesDropped = @ + (IF OldestId \in Partial THEN 1 ELSE 0)],
            p, Restrict(pending, DOMAIN pending \ {OldestId}), NewEntry(p))

\* A packet of a frame that has no entry.
Begin(st, p) ==
    /\ IF IsFull THEN Evict(st, p)
       ELSE Keep(st, p, pending, NewEntry(p)) /\ UNCHANGED retired
    /\ begun' = begun + 1

\* offer() past the checks of the packet's form.
Offer(p) ==
    LET id == Id(p.n)
        st == Tracked([stats EXCEPT !.packetsReceived = @ + 1],
                      Position(p.n, p.idx) % SeqMod)
    IN  IF IsLate(id) THEN Refuse(st, "packetsTooLate")
        ELSE IF IsDelivered(id)      THEN Refuse(st, "packetsDuplicate")
        ELSE IF Contradicts(p, id)   THEN Refuse(st, "packetsMalformed")
        ELSE IF Repeats(p, id)       THEN Refuse(st, "packetsDuplicate")
        ELSE IF id \notin DOMAIN pending THEN Begin(st, p)
        ELSE Keep(st, p, pending, pending[id]) /\ UNCHANGED <<retired, begun>>

-----------------------------------------------------------------------------
Init ==
    /\ pending = <<>> /\ ready = <<>> /\ retired = {} /\ stats = NoStats
    /\ newest = First /\ strays = 0
    /\ arrived = {} /\ begun = 0 /\ delivered = {}

\* The network hands over a packet.
Receive(p) ==
    /\ stats.packetsReceived < MaxPackets
    /\ p.idx < p.count
    /\ p.n >= newest - Back /\ p.n <= newest + Ahead
    /\ p.count # Frags => strays < MaxStrays
    /\ Offer(p)
    /\ newest' = IF p.n > newest THEN p.n ELSE newest
    /\ strays' = strays + (IF p.count # Frags THEN 1 ELSE 0)
    /\ arrived' = arrived \cup {Position(p.n, p.idx)}

\* pop()
Pop ==
    /\ ready # <<>>
    /\ ready' = Tail(ready)
    /\ UNCHANGED <<pending, retired, stats, newest, strays, history>>

\* reset(): a reconnect, the stream starts again.
Reset ==
    /\ pending' = <<>> /\ ready' = <<>> /\ retired' = {} /\ stats' = NoStats
    /\ arrived' = {} /\ begun' = 0 /\ delivered' = {}
    /\ newest' = First /\ strays' = 0

Next == (\E p \in Packets : Receive(p)) \/ Pop \/ Reset

Spec == Init /\ [][Next]_vars

-----------------------------------------------------------------------------
(* Properties.                                                             *)

\* A frame handed to the jitter buffer has all its fragments, and all of them
\* are its own: not repeated ones that stand in for lost ones, and none of a
\* frame that used the table before it.
DeliveredWhole == \A i \in 1 .. Len(ready) :
    /\ DOMAIN ready[i].from = 0 .. ready[i].count - 1
    /\ \A k \in DOMAIN ready[i].from : ready[i].from[k] = ready[i].n

\* No frame is completed twice: while it is in the table its entry turns packets
\* away that come again; once it has been pushed out they are late, behind the
\* watermark and older than all in the table.
DeliveredOnce == stats.framesCompleted = Cardinality(delivered)

\* Every frame in the table is newer than the last one that was pushed out,
\* although ids wrap: eviction always takes the oldest.  And there are never more
\* of them than maxPendingFrames_.
TableIsAhead ==
    /\ Cardinality(DOMAIN pending) <= MaxPending
    /\ \A id \in DOMAIN pending, r \in retired : Newer(id, r)

\* Every frame begun is completed, dropped or still incomplete in the table.
FramesAccounted ==
    begun = stats.framesCompleted + stats.framesDropped + Cardinality(Partial)

\* The loss reported is no more than what is missing between the first packet
\* and the newest one, whatever arrives again, late or from before the first.
LossNotOverstated ==
    LET base == CHOOSE a \in arrived : a % SeqMod = stats.baseSeq
        high == CHOOSE a \in arrived : \A b \in arrived : b <= a
    IN  stats.started => packetsLost <= Cardinality((base .. high) \ arrived)

=============================================================================
