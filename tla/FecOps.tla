------------------------------- MODULE FecOps -------------------------------
(***************************************************************************)
(* modules/transport/FecEncoder.cpp and FecDecoder.cpp as functions.  A    *)
(* payload is the set of its bytes <<position, byte>>, a length the set of *)
(* its binary digits, so that XOR is: what occurs an odd number of times.  *)
(* Counters and the fields groupIndex and groupCount, which nothing reads, *)
(* are left out.                                                           *)
(***************************************************************************)
EXTENDS Packetizing, Sequences

CONSTANTS
    GroupSize, MinGroupSize,   \* FecEncoderConfig; 0 turns the encoder off
    RecentPackets              \* FecDecoderConfig::recentPackets; 0 turns it off

ASSUME FecAssumption ==
    /\ GroupSize \in Nat /\ MinGroupSize \in Nat \ {0, 1}
    /\ RecentPackets \in Nat

\* f assigns a set to every member of a group.
Xor(f) ==
    {x \in UNION {f[m] : m \in DOMAIN f} : Cardinality({m \in DOMAIN f : x \in f[m]}) % 2 = 1}

LenBits == 0 .. MaxPayload      \* more than enough digits for a length

\* The binary digits of n: those of its halves that are odd.
Halves(n) ==
    LET half[k \in LenBits] == IF k = 0 THEN n ELSE half[k - 1] \div 2
    IN  half

Digits(n) == {k \in LenBits : Halves(n)[k] % 2 = 1}

\* The number with these digits.  XOR of lengths has no more digits than the longest
\* of them, it is less than twice as large.
Number(ds) == CHOOSE n \in 0 .. 2 * MaxPayload : Digits(n) = ds

\* What a DATA packet is on the wire: its bytes in place of its position.
Wire(p) ==
    [seq |-> p.seq, ts |-> p.ts, frame |-> p.frame, idx |-> p.idx, count |-> p.count,
     key |-> p.key, retransmit |-> p.retransmit, len |-> p.len,
     payload |-> {<<i, <<p.frame, p.from + i>>>> : i \in 0 .. p.len - 1}]

-----------------------------------------------------------------------------
(* FecEncoder.                                                             *)

Group(packets, g) == {p \in packets : p.idx \div GroupSize = g}

\* The FEC packet of a group; room is the length of its payload.
Parity(group, baseSeq, g) ==
    [base    |-> (baseSeq + g * GroupSize) % SeqMod,
     size    |-> Cardinality(group),
     lenXor  |-> Xor([p \in group |-> Digits(p.len)]),
     room    |-> Max({p.len : p \in group}),
     payload |-> Xor([p \in group |-> p.payload])]

\* buildForFrame() for the packets of one frame; small groups get none.
buildForFrame(packets, baseSeq) ==
    IF GroupSize = 0 THEN {}
    ELSE {Parity(Group(packets, g), baseSeq, g) :
             g \in {p.idx \div GroupSize : p \in
                       {q \in packets : Cardinality(Group(packets, q.idx \div GroupSize))
                                            >= MinGroupSize}}}

-----------------------------------------------------------------------------
(* FecDecoder.                                                             *)

\* onDataPacket(): the last RecentPackets DATA packets, in order of arrival.
onDataPacket(recent, p) ==
    LET all == Append(recent, p)
    IN  SubSeq(all, Max({1, Len(all) - RecentPackets + 1}), Len(all))

Offset(p, fec) == (p.seq - fec.base) % SeqMod

\* Fault: a repeated packet counts again.
MembersTwice(recent, fec) == SelectSeq(recent, LAMBDA p : Offset(p, fec) < fec.size)

\* The packets of the group that are at hand, the first copy of each.
Members(recent, fec) ==
    LET InGroup(i) == Offset(recent[i], fec) < fec.size
        Repeated(i) == \E j \in 1 .. i - 1 : recent[j].seq = recent[i].seq
        found[i \in 0 .. Len(recent)] ==
            IF i = 0 THEN <<>>
            ELSE IF InGroup(i) /\ ~Repeated(i) THEN Append(found[i - 1], recent[i])
            ELSE found[i - 1]
    IN  found[Len(recent)]

MissingSeq(members, fec) ==
    CHOOSE s \in {(fec.base + o) % SeqMod : o \in 0 .. fec.size - 1} :
        \A i \in DOMAIN members : members[i].seq # s

\* Fault: the lost packet is taken to be as long as the XOR buffer.
LengthOfRoom(members, fec) == fec.room

RecoveredLen(members, fec) ==
    Number(Xor([i \in 0 .. Len(members) |->
                   IF i = 0 THEN fec.lenXor ELSE Digits(members[i].len)]))

\* The lost packet: its header from a member of its group, its bytes by XOR.
Rebuilt(members, fec) ==
    LET ref == Head(members)
        seq == MissingSeq(members, fec)
        len == RecoveredLen(members, fec)
        xor == Xor([i \in 0 .. Len(members) |->
                       IF i = 0 THEN fec.payload ELSE members[i].payload])
    IN  [ref EXCEPT !.seq = seq, !.idx = (@ + seq - ref.seq) % SeqMod,
                    !.len = len, !.payload = {b \in xor : b[1] < len}]

\* onFecPacket(): the packet it recovers, if any.  With a member longer than the
\* buffer, an impossible length or an impossible fragIndex nothing is.
onFecPacket(recent, fec) ==
    LET members == Members(recent, fec)
        packet  == Rebuilt(members, fec)
    IN  IF /\ RecentPackets > 0
           /\ Len(members) = fec.size - 1
           /\ \A i \in DOMAIN members : members[i].len <= fec.room
           /\ packet.len # 0 /\ packet.len <= fec.room
           /\ packet.idx < packet.count
        THEN {packet} ELSE {}

=============================================================================
