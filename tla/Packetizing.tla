---------------------------- MODULE Packetizing ----------------------------
(***************************************************************************)
(* modules/transport/Packetizer.cpp as functions: a coded frame, a record  *)
(* [frame, len, ts, key], is cut into numbered slices.  Its bytes are      *)
(* abstracted to the frame and the position of the slice.                  *)
(***************************************************************************)
EXTENDS SequenceNumbers, FiniteSetsExt

CONSTANT MaxPayload    \* MAX_PAYLOAD: bytes of a frame that fit into a packet

ASSUME PacketizerAssumption == MaxPayload \in Nat \ {0}

fragmentCount(len) == len \div MaxPayload + (IF len % MaxPayload # 0 THEN 1 ELSE 0)

\* packetizeOneFragment(), used for the first transmission and for repeats.
Fragment(view, seq, i, count, isRetransmit) ==
    [seq |-> seq, ts |-> view.ts, frame |-> view.frame, idx |-> i, count |-> count,
     key |-> view.key, retransmit |-> isRetransmit,
     from |-> i * MaxPayload, len |-> Min({MaxPayload, view.len - i * MaxPayload})]

\* packetize(): the packets of a frame, numbered from nextSeq on.
Packets(view, nextSeq) ==
    LET count == fragmentCount(view.len)
    IN  {Fragment(view, (nextSeq + i) % SeqMod, i, count, FALSE) : i \in 0 .. count - 1}

=============================================================================
