----------------------------- MODULE PacketOps -----------------------------
(***************************************************************************)
(* The NACK codec of modules/transport/Packet.cpp and                      *)
(* modules/transport/RetransmitCache.cpp, as functions.                    *)
(***************************************************************************)
EXTENDS Packetizing, Sequences

CONSTANTS
    BlpBits,           \* bits of an entry's bitmap: 16 in the code
    MaxNackEntries,    \* MAX_NACK_ENTRIES
    RetentionMs,       \* RetransmitCacheConfig::retentionMs
    MaxFrames          \* RetransmitCacheConfig::maxFrames; 0 means no limit

ASSUME PacketAssumption ==
    /\ BlpBits \in Nat /\ BlpBits < SeqMod /\ MaxNackEntries \in Nat \ {0}
    /\ RetentionMs \in Nat /\ MaxFrames \in Nat

-----------------------------------------------------------------------------
(* encodeNackPacket(), decodeNackPacket().  An entry's bitmap is the set   *)
(* of distances d whose bit d - 1 is set.                                  *)

Distance(s, entry) == (s - entry.pid) % SeqMod

Fits(s, entry) == Distance(s, entry) <= BlpBits

\* The next missing number goes into the last entry or starts a new one.
Greedy(entries, s) ==
    LET last == entries[Len(entries)]
    IN  IF entries # <<>> /\ Fits(s, last)
        THEN [entries EXCEPT ![Len(entries)] =
                 [last EXCEPT !.blp = @ \cup ({Distance(s, last)} \cap 1 .. BlpBits)]]
        ELSE Append(entries, [pid |-> s, blp |-> {}])

\* The entries after each of the numbers.
EncodedUpTo(missing) ==
    LET entries[k \in 0 .. Len(missing)] ==
            IF k = 0 THEN <<>> ELSE Greedy(entries[k - 1], missing[k])
    IN  entries

Encoded(missing) == EncodedUpTo(missing)[Len(missing)]

\* The numbers an entry stands for.
Named(e) == {e.pid} \cup {(e.pid + d) % SeqMod : d \in e.blp}

Decoded(entries) == UNION {Named(entries[i]) : i \in DOMAIN entries}

\* The oldest targets that fit into one packet.
Sendable(targets) ==
    SubSeq(targets, 1, Max({k \in 0 .. Len(targets) :
                               Len(Encoded(SubSeq(targets, 1, k))) <= MaxNackEntries}))

-----------------------------------------------------------------------------
(* RetransmitCache.  hits and misses are left out.                         *)

EmptyCache == [entries |-> <<>>, bytes |-> 0, framesStored |-> 0, framesEvicted |-> 0]

BytesUpTo(entries) ==
    LET sum[k \in 0 .. Len(entries)] ==
            IF k = 0 THEN 0 ELSE sum[k - 1] + entries[k].view.len
    IN  sum

Bytes(entries) == BytesUpTo(entries)[Len(entries)]

\* pop_front() k times.
Evict(cache, k) ==
    [cache EXCEPT !.entries = SubSeq(@, k + 1, Len(@)),
                  !.bytes = @ - Bytes(SubSeq(cache.entries, 1, k)),
                  !.framesEvicted = @ + k]

\* An age that would be negative counts as young.
IsExpired(entry, now) ==
    now >= entry.storedAt /\ (RetentionMs > 0 => now - entry.storedAt >= RetentionMs)

\* evictExpired(): from the front up to the first entry that is not expired.
Unexpired(cache, now) ==
    Evict(cache, Max({k \in 0 .. Len(cache.entries) :
                         \A i \in 1 .. k : IsExpired(cache.entries[i], now)}))

\* Fault: the newest frame makes room.
DropNewest(cache) ==
    IF MaxFrames # 0 /\ Len(cache.entries) > MaxFrames
    THEN [cache EXCEPT !.entries = SubSeq(@, 1, Len(@) - 1),
                       !.bytes = @ - cache.entries[Len(cache.entries)].view.len,
                       !.framesEvicted = @ + 1]
    ELSE cache

\* The limit that does not depend on the clock.
Bounded(cache) ==
    IF MaxFrames # 0 /\ Len(cache.entries) > MaxFrames
    THEN Evict(cache, Len(cache.entries) - MaxFrames) ELSE cache

\* store()
Stored(cache, view, baseSeq, count, now) ==
    LET entry == [view |-> view, baseSeq |-> baseSeq, count |-> count, storedAt |-> now]
        full  == [cache EXCEPT !.entries = Append(@, entry), !.bytes = @ + view.len,
                               !.framesStored = @ + 1]
    IN  IF count = 0 \/ view.len = 0 THEN cache ELSE Bounded(Unexpired(full, now))

\* Fault: the range of an entry ends one number late.
HoldsOneMore(entry, seq) == (seq - entry.baseSeq) % SeqMod <= entry.count

\* seq - baseSeq < fragCount in uint32_t arithmetic.
Holds(entry, seq) == (seq - entry.baseSeq) % SeqMod < entry.count

Hits(cache, seq) == {i \in DOMAIN cache.entries : Holds(cache.entries[i], seq)}

\* find() and the answer: the first entry that holds the number, if any.
Answer(cache, seq) ==
    IF Hits(cache, seq) = {} THEN {}
    ELSE LET e == cache.entries[Min(Hits(cache, seq))]
         IN  {Fragment(e.view, seq, (seq - e.baseSeq) % SeqMod, e.count, TRUE)}

=============================================================================
