----------------------------- MODULE CodecChain -----------------------------
(***************************************************************************)
(* How a frame keeps its number and capture time through two codecs that   *)
(* know neither: encode/Encoder.cpp and decode/Decoder.cpp keep them in a  *)
(* map by presentation time stamp, a counter of their own.  Both libraries *)
(* hold frames back and drop frames; the decoder may also return frames    *)
(* out of order or without their time stamp.  Between the two a network    *)
(* that loses frames and carries 32 bits of number and time; behind them   *)
(* queue B and render/NullRenderer.cpp.                                    *)
(*                                                                         *)
(* A behaviour begins when the sender's numbers and its clock have got to  *)
(* FirstId and FirstMs; n counts the frames from there.  0 stands for an   *)
(* unknown number or time.  The pictures, their checks and conversion are  *)
(* left out.                                                               *)
(***************************************************************************)
EXTENDS Integers, Sequences

CONSTANTS Frames,       \* bound: frames captured
          QueueBSize,   \* capacity of queue B
          WireMod,      \* 2^32 in the code: what a packet has room for
          FirstId,      \* number of the first frame
          FirstMs       \* its capture time

ASSUME ChainAssumption == Frames \in Nat /\ QueueBSize \in Nat \ {0}
ASSUME WireAssumption  == WireMod \in Nat \ {0} /\ FirstId \in Nat /\ FirstMs \in Nat \ {0}

VARIABLES
    encoder, decoder,    \* members, and what the library holds of the frames given to it
    coded,               \* frames that left the encoder: [n, meta]
    arrived,             \* how many of them have been decoded or lost
    queueB,              \* decoded frames: [n, meta]
    renderer             \* NullRenderer: last number and time; the frames it refused

chainVars == <<encoder, decoder, coded, arrived, queueB, renderer>>

NoMeta == [id |-> 0, ms |-> 0]
MetaOf(n) == [id |-> FirstId + n, ms |-> FirstMs + n]

\* packetizeOneFragment(): what arrives of a number and a time.  The receiver hands
\* these to the decoder.
OnWire(meta) == [id |-> meta.id % WireMod, ms |-> meta.ms % WireMod]

\* pending: pending_, entries [pts, n, meta], n for the properties.  inside: the library's frames [pts, n].
\* draining: between send and the end of the loop that receives.
NewCodec ==
    [pending |-> {}, inside |-> {}, nextPts |-> 0, draining |-> FALSE, ended |-> FALSE]

ChainInit ==
    /\ encoder = NewCodec /\ decoder = NewCodec
    /\ coded = <<>> /\ arrived = 0 /\ queueB = <<>>
    /\ renderer = [prev |-> NoMeta, refused |-> {}]

-----------------------------------------------------------------------------
(* The map of both codecs.                                                 *)

\* A frame is given to the library.
Given(C, n, meta) ==
    [C EXCEPT !.pending = @ \cup {[pts |-> C.nextPts, n |-> n, meta |-> meta]},
              !.inside  = @ \cup {[pts |-> C.nextPts, n |-> n]},
              !.nextPts = @ + 1, !.draining = TRUE]

Idle(C) == ~C.draining /\ ~C.ended

\* Fault: a frame gets what was stored last.
Latest(C, stamps) ==
    IF C.pending = {} THEN NoMeta
    ELSE (CHOOSE e \in C.pending : \A d \in C.pending : d.pts <= e.pts).meta

\* What is stored for the time stamp the library has returned, if any.
Found(C, stamps) ==
    IF \E e \in C.pending : e.pts \in stamps
    THEN (CHOOSE e \in C.pending : e.pts \in stamps).meta ELSE NoMeta

\* Its entry and all older ones are erased; nothing if there is none.
Erased(C, stamps) ==
    IF \E e \in C.pending : e.pts \in stamps
    THEN {e \in C.pending : \A pts \in stamps : e.pts > pts} ELSE C.pending

-----------------------------------------------------------------------------
(* Encoder.                                                                *)

\* encode() as far as avcodec_send_frame(), which may fail: the sender then stops.
Encode ==
    /\ Idle(encoder) /\ encoder.nextPts < Frames
    /\ LET n     == encoder.nextPts
           given == Given(encoder, n, MetaOf(n))
       IN  encoder' \in {given, [given EXCEPT !.inside = encoder.inside,
                                             !.draining = FALSE, !.ended = TRUE]}
    /\ UNCHANGED <<decoder, coded, arrived, queueB, renderer>>

\* flush()
FlushEncoder ==
    /\ Idle(encoder)
    /\ encoder' = [encoder EXCEPT !.draining = TRUE, !.ended = TRUE]
    /\ UNCHANGED <<decoder, coded, arrived, queueB, renderer>>

\* drainPackets(): a packet.  There are no B frames: packets come in order, and what
\* comes after a frame that is still inside means that this one was dropped.
DrainPacket ==
    /\ encoder.draining
    /\ \E out \in encoder.inside :
          LET stamps == {out.pts}
          IN  /\ coded' = Append(coded, [n |-> out.n, meta |-> Found(encoder, stamps)])
              /\ encoder' = [encoder EXCEPT
                     !.pending = Erased(encoder, stamps),
                     !.inside = {f \in @ : f.pts > out.pts}]
    /\ UNCHANGED <<decoder, arrived, queueB, renderer>>

DrainedPackets ==
    /\ encoder.draining
    /\ encoder' = [encoder EXCEPT !.draining = FALSE]
    /\ UNCHANGED <<decoder, coded, arrived, queueB, renderer>>

-----------------------------------------------------------------------------
(* Decoder.                                                                *)

\* external: the network and the jitter buffer, frames get lost but keep their order.
LoseFrame ==
    /\ arrived < Len(coded)
    /\ arrived' = arrived + 1
    /\ UNCHANGED <<encoder, decoder, coded, queueB, renderer>>

\* decode() as far as avcodec_send_packet(); when that fails the entry is erased and
\* the receiver goes on.
Decode ==
    /\ Idle(decoder) /\ arrived < Len(coded)
    /\ LET frame == coded[arrived + 1]
       IN  decoder' \in {Given(decoder, frame.n, OnWire(frame.meta)),
                         [decoder EXCEPT !.nextPts = @ + 1]}
    /\ arrived' = arrived + 1
    /\ UNCHANGED <<encoder, coded, queueB, renderer>>

FlushDecoder ==
    /\ Idle(decoder)
    /\ decoder' = [decoder EXCEPT !.draining = TRUE, !.ended = TRUE]
    /\ UNCHANGED <<encoder, coded, arrived, queueB, renderer>>

\* drainFrames(): a picture, any of those inside, and the time stamp it was given or
\* one that is not known.  queueB_.forcePush() makes room.
DrainFrame ==
    /\ decoder.draining
    /\ \E out \in decoder.inside : \E stamps \in {{out.pts}, {}} :
          /\ queueB' = LET all == Append(queueB, [n |-> out.n, meta |-> Found(decoder, stamps)])
                       IN  IF Len(all) > QueueBSize THEN Tail(all) ELSE all
          /\ decoder' = [decoder EXCEPT !.pending = Erased(decoder, stamps), !.inside = @ \ {out}]
    /\ UNCHANGED <<encoder, coded, arrived, renderer>>

DrainedFrames ==
    /\ decoder.draining
    /\ decoder' = [decoder EXCEPT !.draining = FALSE]
    /\ UNCHANGED <<encoder, coded, arrived, queueB, renderer>>

-----------------------------------------------------------------------------
(* NullRenderer.                                                           *)

\* Fault: a number or time that is not known is compared all the same.
BehindNoSentinel(now, prev) == prev # 0 /\ now <= prev

Behind(now, prev) == now # 0 /\ prev # 0 /\ now <= prev

\* renderFrame(): checkAgainstPrevious(); what is not known does not become the base.
RenderNull ==
    /\ queueB # <<>>
    /\ LET frame == Head(queueB)
           meta  == frame.meta
           prev  == renderer.prev
       IN  renderer' =
             IF Behind(meta.ms, prev.ms) \/ Behind(meta.id, prev.id)
             THEN [renderer EXCEPT !.refused = @ \cup {frame.n}]
             ELSE [renderer EXCEPT
                      !.prev = [id |-> IF meta.id # 0 THEN meta.id ELSE prev.id,
                                ms |-> IF meta.ms # 0 THEN meta.ms ELSE prev.ms]]
    /\ queueB' = Tail(queueB)
    /\ UNCHANGED <<encoder, decoder, coded, arrived>>

ChainNext ==
    Encode \/ FlushEncoder \/ DrainPacket \/ DrainedPackets
        \/ LoseFrame \/ Decode \/ FlushDecoder \/ DrainFrame \/ DrainedFrames \/ RenderNull

-----------------------------------------------------------------------------
(* Properties.                                                             *)

\* A frame has its own number and capture time, as far as a packet carries them, or
\* none, never another frame's, whatever the two libraries hold back, drop, reorder or
\* leave unstamped; without B frames the encoder loses none, and its map keeps nothing
\* for dropped frames.
MetaIsOwn ==
    /\ \A i \in DOMAIN coded : coded[i].meta = MetaOf(coded[i].n)
    /\ \A i \in DOMAIN queueB : queueB[i].meta \in {NoMeta, OnWire(MetaOf(queueB[i].n))}
    /\ \A e \in encoder.pending :
          \/ \E f \in encoder.inside : f.pts = e.pts
          \/ e.pts = encoder.nextPts - 1

\* The check of the order in which pictures come raises a false alarm only about a
\* frame whose own number or time has come round on the wire: the sender counts up, and
\* neither frames whose number and time the decoder lost nor frames that it returned
\* late are to blame.
RefusedOnlyPastWrap ==
    \A n \in renderer.refused : OnWire(MetaOf(n)) # MetaOf(n)

=============================================================================
