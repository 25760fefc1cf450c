------------------------ MODULE SenderPipelineProofs ------------------------
(***************************************************************************)
(* The safety properties of the sender's three threads, proved for every   *)
(* capacity of the two queues and every number of frames.                  *)
(*                                                                         *)
(* The inductive invariant is a chain of four arguments.  Control follows  *)
(* the threads through the shutdown: who has failed, who has closed which  *)
(* queue, and so who cannot be interrupted any more.  PliInv carries a     *)
(* request from the send thread into the frame it is owed to.  EncInv and  *)
(* SendInv number the frames in every place a frame can be: as long as no  *)
(* thread has failed they partition 1 .. captured.                         *)
(***************************************************************************)
EXTENDS SenderPipeline, SharedLemmas

\* The encode thread has left its loops; nothing it did has failed.
Ended == encPc \in {"abort", "closeRaw", "closeSend", "done"}
EncOk == ~encErr /\ ~sendClosed

\* The five places in which an encoded frame can be, for frames of a set S.
Flow(S) ==
    /\ inside \in Seq(S) /\ out \in Seq(S) /\ sendQ.items \in Seq(S)
    /\ sending \in Seq(S) /\ sent \in Seq(S)

ThreadsOK ==
    /\ capPc \in {"read", "push", "close", "done"}
    /\ encPc \in {"pop", "encode", "feed", "emit", "push", "flush", "emitLast",
                  "pushLast", "abort", "closeRaw", "closeSend", "done"}
    /\ sendPc \in {"off", "pop", "packetize", "isClosed", "drain", "abort",
                   "closeSend", "closeRaw", "done"}
    /\ captured \in Nat /\ encoded \in Nat

FlagsOK ==
    /\ stop \in BOOLEAN /\ abort \in BOOLEAN /\ keyAsked \in BOOLEAN
    /\ capErr \in BOOLEAN /\ encErr \in BOOLEAN /\ sendErr \in BOOLEAN
    /\ asKey \in BOOLEAN /\ sendClosed \in BOOLEAN

DataOK ==
    /\ rawQ \in QueueOf(Nat) /\ sendQ \in QueueOf(Packet)
    /\ input \in Seq(Nat)
    /\ Flow(Packet)

TypeOK == ThreadsOK /\ FlagsOK /\ DataOK

\* The raw queue holds the newest frames, and the encode thread the one before.
RawInv ==
    /\ EndsAt(rawQ.items, captured)
    /\ encPc \in {"encode", "feed"} =>
          /\ input = <<captured - Len(rawQ.items)>>
          /\ Len(rawQ.items) < captured

\* Frames the encoder has begun, with the key flag if a PLI asked for it.
Honoured == {x \in Packet : x.n <= Started /\ (x.n \in owedKey => x.key)}

PliInv ==
    /\ Flow(Honoured)
    /\ owedKey \subseteq 1 .. Started + 1
    /\ Started + 1 \in owedKey => keyAsked
    /\ encPc = "feed" /\ input[1] \in owedKey => asKey

Control ==
    /\ ~EncOk => Ended
    /\ sendClosed => sendErr
    /\ sendQ.closed => sendErr \/ encPc = "done"
    /\ rawQ.closed => capPc = "done" \/ sendErr \/ encPc \in {"closeSend", "done"}
    /\ EncOk /\ ~sendErr /\ (Ended \/ encPc \in {"flush", "emitLast", "pushLast"}) =>
          capPc = "done" /\ rawQ.items = <<>>
    /\ sendPc \in {"abort", "closeSend", "closeRaw"} => sendErr
    /\ sendErr => sendPc \in {"abort", "closeSend", "closeRaw", "done"}
    /\ encPc \in {"push", "pushLast", "closeSend"} => Networked

Aborts ==
    /\ abort => encErr \/ sendErr
    /\ ~EncOk /\ encPc \in {"closeRaw", "closeSend", "done"} => abort
    /\ sendErr /\ sendPc # "abort" => abort

\* The frames of s are consecutive, the first one after number b.
Numbered(s, b) == \A i \in 1 .. Len(s) : s[i].n = b + i

\* Frames that have left the encode thread: the one that is just being pushed is
\* counted as encoded and has not left yet.
Written == IF encPc \in {"push", "pushLast"} THEN encoded - 1 ELSE encoded

EncInv ==
    EncOk =>
        /\ encPc \notin {"encode", "feed"} => input = <<>>
        /\ encPc \in {"pop", "encode", "feed", "flush"} => out = <<>>
        /\ encPc \in {"push", "pushLast"} => out # <<>>
        /\ Ended => inside = <<>> /\ out = <<>>
        /\ encPc \in {"emitLast", "pushLast"} => inside = <<>>
        /\ Written \in Nat
        /\ Numbered(out, Written)
        /\ Numbered(inside, Written + Len(out))
        /\ captured = Written + Len(out) + Len(inside) + Len(input) + Len(rawQ.items)

SendInv ==
    /\ Numbered(sent, 0)
    /\ Numbered(sending, Len(sent))
    /\ Len(sent) + Len(sending) <= captured
    /\ sendPc # "packetize" => sending = <<>>
    /\ ~sendErr => /\ Numbered(sendQ.items, Len(sent) + Len(sending))
                   /\ Len(sent) + Len(sending) + Len(sendQ.items) <= captured
    /\ Networked /\ EncOk /\ ~sendErr =>
          Len(sent) + Len(sending) + Len(sendQ.items) = Written

IInv == TypeOK /\ RawInv /\ PliInv /\ Control /\ Aborts /\ EncInv /\ SendInv

-----------------------------------------------------------------------------
(* Numbered sequences.                                                     *)

\* One packet is a numbered sequence, and so is none.
LEMMA NumberedShort ==
    /\ \A b : Numbered(<<>>, b)
    /\ \A x, b : x.n = b + 1 => Numbered(<<x>>, b) /\ Len(<<x>>) = 1
  BY DEF Numbered

\* The next packet at the back.
LEMMA NumberedAppend ==
    ASSUME NEW s \in Seq(Packet), NEW b \in Int, Numbered(s, b),
           NEW x \in Packet, x.n = (b + Len(s)) + 1
    PROVE  Numbered(Append(s, x), b) /\ Len(Append(s, x)) = Len(s) + 1
<1> DEFINE r == Append(s, x)
<1>1. /\ Len(s) \in Nat
      /\ Len(r) = Len(s) + 1
      /\ \A i \in 1 .. Len(s) : r[i] = s[i]
      /\ r[Len(s) + 1] = x
  BY AppendProperties, LenProperties
<1> HIDE DEF r
<1>2. ASSUME NEW i \in 1 .. Len(r) PROVE r[i].n = b + i
  <2>1. CASE i \in 1 .. Len(s)
    BY <2>1, <1>1 DEF Numbered
  <2>2. CASE i = Len(s) + 1
    BY <2>2, <1>1
  <2> QED
    BY <2>1, <2>2, <1>1
<1> QED
  BY <1>1, <1>2 DEF Numbered, r

\* One packet less at the front.
LEMMA NumberedTail ==
    ASSUME NEW s \in Seq(Packet), NEW b \in Int, Numbered(s, b), s # <<>>
    PROVE  /\ Len(s) \in Nat \ {0}
           /\ Head(s) \in Packet /\ Head(s).n = b + 1
           /\ Tail(s) \in Seq(Packet)
           /\ Len(Tail(s)) = Len(s) - 1
           /\ Numbered(Tail(s), b + 1)
<1>1. Len(s) \in Nat \ {0}
  BY EmptySeq
<1>2. /\ Head(s) \in Packet /\ Head(s) = s[1]
      /\ Tail(s) \in Seq(Packet)
      /\ Len(Tail(s)) = Len(s) - 1
      /\ \A i \in 1 .. Len(Tail(s)) : Tail(s)[i] = s[i + 1]
  BY HeadTailProperties
<1>3. ASSUME NEW i \in 1 .. Len(Tail(s)) PROVE Tail(s)[i].n = (b + 1) + i
  BY <1>1, <1>2 DEF Numbered
<1> QED
  BY <1>1, <1>2, <1>3 DEF Numbered

\* Cut in two.
LEMMA NumberedCut ==
    ASSUME NEW s \in Seq(Packet), NEW b \in Int, Numbered(s, b), NEW k \in 0 .. Len(s)
    PROVE  /\ Len(SubSeq(s, 1, k)) = k
           /\ Numbered(SubSeq(s, 1, k), b)
           /\ Len(SubSeq(s, k + 1, Len(s))) = Len(s) - k
           /\ Numbered(SubSeq(s, k + 1, Len(s)), b + k)
<1> DEFINE u == SubSeq(s, 1, k)
           v == SubSeq(s, k + 1, Len(s))
<1>1. Len(s) \in Nat /\ \A i \in 1 .. Len(s) : s[i] \in Packet
  BY LenProperties, ElementOfSeq
<1>2. /\ Len(u) = k
      /\ \A i \in 1 .. k : u[i] = s[i]
  <2>1. \A i \in 1 .. k : s[i] \in Packet
    BY <1>1
  <2>2. /\ Len(u) = IF 1 <= k THEN k - 1 + 1 ELSE 0
        /\ \A i \in 1 .. k - 1 + 1 : u[i] = s[1 + i - 1]
    BY <1>1, <2>1, SubSeqProperties
  <2> HIDE DEF u
  <2> QED
    BY <1>1, <2>2
<1>3. /\ Len(v) = Len(s) - k
      /\ \A i \in 1 .. Len(s) - k : v[i] = s[k + i]
  <2>1. \A i \in k + 1 .. Len(s) : s[i] \in Packet
    BY <1>1
  <2>2. /\ Len(v) = IF k + 1 <= Len(s) THEN Len(s) - (k + 1) + 1 ELSE 0
        /\ \A i \in 1 .. Len(s) - (k + 1) + 1 : v[i] = s[(k + 1) + i - 1]
    BY <1>1, <2>1, SubSeqProperties
  <2> HIDE DEF v
  <2> QED
    BY <1>1, <2>2
<1> HIDE DEF u, v
<1>4. Numbered(u, b) /\ Numbered(v, b + k)
  BY <1>1, <1>2, <1>3, SMTT(60) DEF Numbered
<1> QED
  BY <1>2, <1>3, <1>4 DEF u, v

\* Joined again.
LEMMA NumberedJoin ==
    ASSUME NEW s \in Seq(Packet), NEW t \in Seq(Packet), NEW b \in Int,
           Numbered(s, b), Numbered(t, b + Len(s))
    PROVE  Numbered(s \o t, b) /\ Len(s \o t) = Len(s) + Len(t)
<1> DEFINE r == s \o t
<1>1. /\ Len(s) \in Nat /\ Len(t) \in Nat
      /\ Len(r) = Len(s) + Len(t)
      /\ \A i \in 1 .. Len(s) + Len(t) : r[i] = IF i <= Len(s) THEN s[i] ELSE t[i - Len(s)]
  BY ConcatProperties, LenProperties
<1> HIDE DEF r
<1>2. ASSUME NEW i \in 1 .. Len(r) PROVE r[i].n = b + i
  <2>1. CASE i <= Len(s)
    BY <2>1, <1>1 DEF Numbered
  <2>2. CASE i > Len(s)
    <3>1. i - Len(s) \in 1 .. Len(t) /\ r[i] = t[i - Len(s)]
      BY <2>2, <1>1
    <3> QED
      BY <3>1, <1>1 DEF Numbered
  <2> QED
    BY <2>1, <2>2, <1>1
<1> QED
  BY <1>1, <1>2 DEF Numbered, r

-----------------------------------------------------------------------------
(* The types.                                                              *)

\* Encoded frames only move on from place to place: a set that has the frames
\* in flight and the one the encoder takes in has them after the step too.
LEMMA FlowNext ==
    ASSUME NEW S, DataOK, Flow(S), [Next]_vars,
           EncodePush => out # <<>>,
           EncodeFeed => [n |-> input[1], key |-> asKey] \in S
    PROVE  Flow(S)'
<1> USE DEF Flow
<1>1. sendQ.items \in Seq(Packet)
  BY DEF DataOK
<1>2. sendQ \in QueueOf(Packet)
  BY DEF DataOK
<1>3. CASE EncodeFeed
  <2> DEFINE all == Append(inside, [n |-> input[1], key |-> asKey])
  <2>1. all \in Seq(S)
    BY <1>3, AppendProperties
  <2>2. Len(all) \in Nat /\ \A i \in 1 .. Len(all) : all[i] \in S
    BY <2>1, LenProperties, ElementOfSeq
  <2>3. \/ \E k \in 0 .. Len(all) : /\ out'    = SubSeq(all, 1, k)
                                    /\ inside' = SubSeq(all, k + 1, Len(all))
        \/ out' = out /\ inside' = inside
    BY <1>3 DEF EncodeFeed, Feeding
  <2>4. sendQ' = sendQ /\ sending' = sending /\ sent' = sent
    BY <1>3 DEF EncodeFeed, Feeding, send
  <2> HIDE DEF all
  <2>5. CASE \E k \in 0 .. Len(all) : /\ out'    = SubSeq(all, 1, k)
                                      /\ inside' = SubSeq(all, k + 1, Len(all))
    <3>1. PICK k \in 0 .. Len(all) : /\ out'    = SubSeq(all, 1, k)
                                     /\ inside' = SubSeq(all, k + 1, Len(all))
      BY <2>5
    <3>2. \A i \in 1 .. k : all[i] \in S
      BY <2>2
    <3>3. \A i \in k + 1 .. Len(all) : all[i] \in S
      BY <2>2
    <3>4. out' \in Seq(S)
      BY <3>1, <3>2, SubSeqProperties
    <3>5. inside' \in Seq(S)
      BY <2>2, <3>1, <3>3, SubSeqProperties
    <3> QED
      BY <2>4, <3>4, <3>5
  <2> QED
    BY <2>3, <2>4, <2>5
<1>4. CASE EncodeFlush
  BY <1>4, EmptySeq DEF EncodeFlush, shared, send
<1>5. CASE WriteOut
  <2>1. out' = out \/ out' \in Seq(S)
    BY <1>5, HeadTailProperties DEF WriteOut
  <2> QED
    BY <1>5, <2>1 DEF WriteOut, shared, send
<1>6. CASE EncodePush
  <2>1. /\ Head(out) \in S /\ Tail(out) \in Seq(S)
        /\ Head(out) \in Packet
    BY <1>6, HeadTailProperties DEF DataOK
  <2>2. Enqueued(sendQ, Head(out)).items = Append(sendQ.items, Head(out))
    BY <1>2, <2>1, EnqueuedItems
  <2>3. Append(sendQ.items, Head(out)) \in Seq(S)
    BY <2>1, AppendProperties
  <2>4. sendQ' = sendQ \/ sendQ'.items = Append(sendQ.items, Head(out))
    BY <1>6, <2>2 DEF EncodePush, PushOut, Refused, Accepted
  <2> QED
    BY <1>6, <2>1, <2>3, <2>4 DEF EncodePush, send
<1>7. CASE SendPop
  <2>1. /\ sendQ.items # <<>> => Head(sendQ.items) \in S /\ Tail(sendQ.items) \in Seq(S)
    BY HeadTailProperties
  <2>2. sendQ.items # <<>> => Dequeued(sendQ).items = Tail(sendQ.items)
    BY <1>2, DequeuedItems
  <2>3. sendQ.items # <<>> => <<Head(sendQ.items)>> \in Seq(S)
    BY <2>1
  <2> QED
    BY <1>7, <2>1, <2>2, <2>3 DEF SendPop, IsEmpty, encode
<1>8. CASE SendPacketize
  <2>1. sent \o sending \in Seq(S)
    BY ConcatProperties
  <2> QED
    BY <1>8, <2>1, EmptySeq DEF SendPacketize, shared, encode
<1>9. CASE EncodeClose \/ SendAbort
  <2>1. Closed(sendQ).items = sendQ.items
    BY <1>2, ClosedItems
  <2> QED
    BY <1>9, <2>1 DEF EncodeClose, SendAbort, encode, send
<1>10. CASE CaptureStep \/ EncodePop \/ EncodeStart \/ WriteDone \/ EncodeAbort
              \/ SendIsClosed \/ SendDrain \/ StopRequest \/ UNCHANGED vars
  BY <1>10 DEF CaptureStep, CaptureRead, CapturePush, CaptureClose, EncodePop,
       EncodeStart, WriteDone, EncodeAbort, SendIsClosed, SendDrain, StopRequest,
       vars, shared, encode, send
<1> QED
  BY <1>3, <1>4, <1>5, <1>6, <1>7, <1>8, <1>9, <1>10
     DEF Next, EncodeStep, SendStep, Returned

\* What a frame goes through keeps the types.
LEMMA TypeNext ==
    ASSUME TypeOK, [Next]_vars,
           EncodePush => out # <<>>,
           encPc = "feed" => input # <<>>
    PROVE  TypeOK'
<1> USE DEF TypeOK
<1>1. ThreadsOK'
  <2>1. CASE CaptureStep \/ StopRequest \/ UNCHANGED vars
    BY <2>1 DEF ThreadsOK, CaptureStep, CaptureRead, CapturePush, CaptureClose,
       StopRequest, vars, shared, capture, encode, send
  <2>2. CASE EncodeStep
    BY <2>2 DEF ThreadsOK, EncodeStep, EncodePop, EncodeStart, EncodeFeed, Feeding,
       EncodeFlush, EncodeFails, WriteOut, EncodePush, PushOut, Refused, Accepted,
       WriteDone, EncodeAbort, EncodeClose, shared, capture, send
  <2>3. CASE SendStep
    BY <2>3 DEF ThreadsOK, SendStep, SendPop, SendPacketize, SendIsClosed, SendDrain,
       SendAbort, shared, capture, encode
  <2> QED
    BY <2>1, <2>2, <2>3 DEF Next, Returned
<1>5. FlagsOK'
  <2>1. CASE CaptureStep \/ StopRequest \/ UNCHANGED vars
    BY <2>1, Zenon DEF FlagsOK, CaptureStep, CaptureRead, CapturePush, CaptureClose,
       StopRequest, vars, shared, capture, encode, send
  <2>2. CASE EncodeStep
    BY <2>2, ZenonT(60) DEF FlagsOK, EncodeStep, EncodePop, EncodeStart, EncodeFeed, Feeding,
       EncodeFlush, EncodeFails, WriteOut, EncodePush, PushOut, Refused, Accepted,
       WriteDone, EncodeAbort, MustAbort, EncodeClose, shared, capture, send
  <2>3. CASE SendStep
    BY <2>3, Zenon DEF FlagsOK, SendStep, SendPop, SendPacketize, SendIsClosed, SendDrain,
       SendAbort, shared, capture, encode
  <2> QED
    BY <2>1, <2>2, <2>3 DEF Next, Returned
<1>2. Flow(Packet)'
  <2>1. EncodeFeed => [n |-> input[1], key |-> asKey] \in Packet
    <3>1. input # <<>> => input[1] \in Nat
      BY EmptySeq, ElementOfSeq DEF DataOK
    <3> QED
      BY <3>1 DEF EncodeFeed, Feeding, Packet, FlagsOK
  <2> QED
    BY <2>1, FlowNext DEF DataOK
<1>3. rawQ' \in QueueOf(Nat) /\ input' \in Seq(Nat)
  <2>1. rawQ \in QueueOf(Nat) /\ input \in Seq(Nat) /\ captured + 1 \in Nat
    BY DEF DataOK, ThreadsOK
  <2>6. Enqueued(rawQ, captured + 1) \in QueueOf(Nat) /\ Closed(rawQ) \in QueueOf(Nat)
    BY <2>1, EnqueuedItems, ClosedItems
  <2>2. rawQ.items # <<>> => /\ Dequeued(rawQ) \in QueueOf(Nat)
                             /\ <<Head(rawQ.items)>> \in Seq(Nat)
    <3>1. rawQ.items # <<>> => Dequeued(rawQ) \in QueueOf(Nat) /\ Head(rawQ.items) \in Nat
      BY <2>1, DequeuedItems
    <3> QED
      BY <3>1
  <2>3. CASE CaptureStep \/ StopRequest \/ UNCHANGED vars
    BY <2>1, <2>6, <2>3 DEF CaptureStep, CaptureRead, CapturePush, CaptureClose,
       StopRequest, vars, shared, encode
  <2>4. CASE EncodeStep
    BY <2>1, <2>2, <2>6, <2>4, EmptySeq DEF EncodeStep, EncodePop, IsEmpty, EncodeStart, EncodeFeed,
       Feeding, EncodeFlush, WriteOut, EncodePush, WriteDone, EncodeAbort, EncodeClose, shared
  <2>5. CASE SendStep
    BY <2>1, <2>6, <2>5 DEF SendStep, SendPop, SendPacketize, SendIsClosed, SendDrain,
       SendAbort, shared, encode
  <2> QED
    BY <2>3, <2>4, <2>5 DEF Next, Returned
<1>4. sendQ' \in QueueOf(Packet)
  <2>1. sendQ \in QueueOf(Packet) /\ out \in Seq(Packet)
    BY DEF DataOK, Flow
  <2>2. EncodePush => Enqueued(sendQ, Head(out)) \in QueueOf(Packet)
    BY <2>1, EnqueuedItems, HeadTailProperties
  <2>3. /\ Closed(sendQ) \in QueueOf(Packet)
        /\ sendQ.items # <<>> => Dequeued(sendQ) \in QueueOf(Packet)
    BY <2>1, EnqueuedItems, DequeuedItems, ClosedItems
  <2>4. CASE CaptureStep \/ StopRequest \/ UNCHANGED vars
    BY <2>1, <2>4 DEF CaptureStep, CaptureRead, CapturePush, CaptureClose,
       StopRequest, vars, shared
  <2>5. CASE EncodeStep
    BY <2>1, <2>2, <2>3, <2>5 DEF EncodeStep, EncodePop, EncodeStart, EncodeFeed,
       Feeding, EncodeFlush, WriteOut, EncodePush, PushOut, Refused, Accepted, WriteDone,
       EncodeAbort, EncodeClose, shared
  <2>6. CASE SendStep
    BY <2>1, <2>3, <2>6 DEF SendStep, SendPop, IsEmpty, SendPacketize, SendIsClosed,
       SendDrain, SendAbort, shared
  <2> QED
    BY <2>4, <2>5, <2>6 DEF Next, Returned
<1> QED
  BY <1>1, <1>2, <1>3, <1>4, <1>5 DEF DataOK

-----------------------------------------------------------------------------
(* Each part of the invariant is preserved.                                *)

\* What the steps do to the raw queue, in lengths and contents.
LEMMA RawNext ==
    ASSUME TypeOK, RawInv, [Next]_vars
    PROVE  RawInv'
<1>1. rawQ \in QueueOf(Nat)
  BY DEF TypeOK, DataOK
<1>2. Len(rawQ.items) \in Nat /\ captured \in Nat
  BY LenProperties DEF TypeOK, DataOK, ThreadsOK, QueueOf
<1>3. CASE CapturePush
  <2>1. CASE rawQ' = rawQ /\ captured' = captured
    BY <1>3, <2>1 DEF RawInv, CapturePush, encode
  <2>2. CASE rawQ' = Enqueued(rawQ, captured + 1) /\ captured' = captured + 1
    <3>1. captured + 1 \in Nat
      BY <1>2
    <3>2. rawQ'.items = Append(rawQ.items, captured + 1)
      BY <1>1, <2>2, <3>1, EnqueuedItems
    <3>3. EndsAt(rawQ'.items, captured') /\ Len(rawQ'.items) = Len(rawQ.items) + 1
      BY <1>2, <2>2, <3>2, AppendEndsAt DEF RawInv
    <3>4. encPc' = encPc /\ input' = input
      BY <1>3 DEF CapturePush, encode
    <3>5. captured' - Len(rawQ'.items) = captured - Len(rawQ.items)
      <4>1. (captured + 1) - (Len(rawQ.items) + 1) = captured - Len(rawQ.items)
        BY <1>2
      <4> QED
        BY <2>2, <3>3, <4>1
    <3>6. Len(rawQ.items) < captured => Len(rawQ'.items) < captured'
      BY <1>2, <2>2, <3>3
    <3> QED
      BY <3>3, <3>4, <3>5, <3>6 DEF RawInv
  <2> QED
    BY <1>3, <2>1, <2>2 DEF CapturePush
<1>4. CASE EncodePop
  <2>1. CASE IsEmpty(rawQ)
    BY <1>4, <2>1 DEF EncodePop, RawInv, capture
  <2>2. CASE ~IsEmpty(rawQ)
    <3>1. /\ rawQ.items # <<>> /\ captured' = captured
          /\ rawQ' = Dequeued(rawQ) /\ input' = <<Head(rawQ.items)>>
      BY <1>4, <2>2 DEF EncodePop, IsEmpty, capture
    <3>2. rawQ'.items = Tail(rawQ.items)
      BY <1>1, <3>1, DequeuedItems
    <3>3. /\ EndsAt(rawQ'.items, captured)
          /\ Len(rawQ.items) \in Nat \ {0}
          /\ Len(rawQ'.items) = Len(rawQ.items) - 1
          /\ Head(rawQ.items) = (captured - Len(rawQ.items)) + 1
      BY <1>2, <3>1, <3>2, TailEndsAt DEF RawInv
    <3>4. Len(rawQ.items) <= captured
      BY DEF RawInv, EndsAt
    <3>5. Head(rawQ.items) = captured - Len(rawQ'.items) /\ Len(rawQ'.items) < captured
      <4>1. captured - (Len(rawQ.items) - 1) = (captured - Len(rawQ.items)) + 1
        BY <1>2
      <4>2. Len(rawQ.items) - 1 < captured
        BY <1>2, <3>4
      <4> QED
        BY <3>3, <4>1, <4>2
    <3> QED
      BY <3>1, <3>3, <3>5 DEF RawInv
  <2> QED
    BY <2>1, <2>2
<1>5. CASE CaptureClose \/ EncodeClose \/ SendAbort
  <2>1. Closed(rawQ).items = rawQ.items
    BY <1>1, ClosedItems
  <2>2. rawQ'.items = rawQ.items /\ captured' = captured
    BY <1>5, <2>1 DEF CaptureClose, EncodeClose, SendAbort, capture
  <2>3. input' = input /\ (encPc' \in {"encode", "feed"} => encPc \in {"encode", "feed"})
    BY <1>5 DEF CaptureClose, EncodeClose, SendAbort, encode
  <2> QED
    BY <2>2, <2>3 DEF RawInv
<1>6. CASE CaptureRead \/ StopRequest \/ UNCHANGED vars \/ EncodeStart
  BY <1>6 DEF RawInv, CaptureRead, StopRequest, vars, EncodeStart, shared, capture, encode
<1>7. CASE EncodeFeed \/ EncodeFlush \/ WriteOut \/ EncodePush \/ WriteDone \/ EncodeAbort
  <2>1. rawQ' = rawQ /\ captured' = captured /\ encPc' \notin {"encode", "feed"}
    BY <1>7 DEF EncodeFeed, Feeding, EncodeFlush, WriteOut, EncodePush, PushOut, Refused,
       Accepted, WriteDone, EncodeAbort, EncodeFails, shared, capture
  <2> QED
    BY <2>1 DEF RawInv
<1>8. CASE SendPop \/ SendPacketize \/ SendIsClosed \/ SendDrain
  <2>1. UNCHANGED <<rawQ, captured, encPc, input>>
    BY <1>8 DEF SendPop, SendPacketize, SendIsClosed, SendDrain, shared, capture, encode
  <2> QED
    BY <2>1 DEF RawInv
<1> QED
  BY <1>3, <1>4, <1>5, <1>6, <1>7, <1>8
     DEF Next, CaptureStep, EncodeStep, SendStep, Returned

\* The number of frames the encoder has begun.
LEMMA StartedType ==
    ASSUME TypeOK, RawInv
    PROVE  /\ Started \in Nat
           /\ encPc = "encode" =>
                 /\ Started = (captured - Len(rawQ.items)) - 1
                 /\ input[1] = Started + 1
           /\ encPc # "encode" => Started = captured - Len(rawQ.items)
           /\ encPc = "feed" => input[1] = Started
<1>1. Len(rawQ.items) \in Nat /\ captured \in Nat
  BY LenProperties DEF TypeOK, DataOK, ThreadsOK, QueueOf
<1>2. Len(rawQ.items) <= captured
  BY DEF RawInv, EndsAt
<1>3. captured - Len(rawQ.items) \in Nat
  BY <1>1, <1>2
<1>4. CASE encPc = "encode"
  <2>1. input[1] = captured - Len(rawQ.items) /\ Len(rawQ.items) < captured
    BY <1>4 DEF RawInv
  <2>2. Started = (captured - Len(rawQ.items)) - 1
    BY <1>4 DEF Started
  <2>3. (captured - Len(rawQ.items)) - 1 \in Nat
    BY <1>1, <2>1
  <2> QED
    BY <1>4, <1>3, <2>1, <2>2, <2>3
<1>5. CASE encPc # "encode"
  <2>1. Started = (captured - Len(rawQ.items)) - 0
    BY <1>5 DEF Started
  <2>2. Started = captured - Len(rawQ.items)
    BY <1>3, <2>1
  <2>3. encPc = "feed" => input[1] = captured - Len(rawQ.items)
    BY DEF RawInv
  <2> QED
    BY <1>3, <1>5, <2>2, <2>3
<1> QED
  BY <1>4, <1>5

\* Only the encode thread moves that number, by one, when it takes the key flag
\* of a frame or gives up on it.
LEMMA StartedNext ==
    ASSUME TypeOK, RawInv, [Next]_vars
    PROVE  /\ EncodeStart => Started' = Started + 1
           /\ EncodePop => Started' \in {Started, Started + 1}
           /\ ~EncodeStart /\ ~EncodePop => Started' = Started
<1> DEFINE r == Len(rawQ.items)
           base == captured - r
<1>1. r \in Nat /\ captured \in Nat /\ rawQ \in QueueOf(Nat) /\ rawQ.items \in Seq(Nat)
  BY LenProperties DEF TypeOK, DataOK, ThreadsOK, QueueOf
<1>2. base \in Int
  BY <1>1
<1>3. CASE EncodeStart
  <2>1. UNCHANGED <<captured, rawQ>> /\ encPc = "encode" /\ encPc' = "feed"
    BY <1>3 DEF EncodeStart, capture
  <2>2. Started = base - 1 /\ Started' = base - 0
    BY <2>1 DEF Started
  <2> HIDE DEF base
  <2>3. Started' = Started + 1
    BY <1>2, <2>2
  <2>4. ~EncodePop
    BY <2>1 DEF EncodePop
  <2> QED
    BY <1>3, <2>3, <2>4
<1>4. CASE EncodePop
  <2>1. encPc = "pop" /\ captured' = captured
    BY <1>4 DEF EncodePop, capture
  <2>2. Started = base - 0
    BY <2>1 DEF Started
  <2>3. ~EncodeStart
    BY <2>1 DEF EncodeStart
  <2>4. CASE IsEmpty(rawQ)
    <3>1. rawQ' = rawQ /\ encPc' = "flush"
      BY <1>4, <2>4 DEF EncodePop
    <3>2. Started' = base - 0
      BY <2>1, <3>1 DEF Started
    <3> QED
      BY <1>4, <2>2, <2>3, <3>2
  <2>5. CASE ~IsEmpty(rawQ)
    <3>1. /\ rawQ' = Dequeued(rawQ) /\ rawQ.items # <<>>
          /\ encPc' \in {"encode", "abort"}
      BY <1>4, <2>5 DEF EncodePop, IsEmpty, EncodeFails
    <3>2. Len(rawQ'.items) = r - 1
      BY <1>1, <3>1, DequeuedItems, HeadTailProperties
    <3>3. \/ encPc' = "encode" /\ Started' = (captured - (r - 1)) - 1
          \/ encPc' = "abort" /\ Started' = (captured - (r - 1)) - 0
      BY <2>1, <3>1, <3>2 DEF Started
    <3>4. (captured - (r - 1)) - 1 = base - 0 /\ (captured - (r - 1)) - 0 = (base - 0) + 1
      BY <1>1
    <3> QED
      BY <1>4, <2>2, <2>3, <3>3, <3>4
  <2> QED
    BY <2>4, <2>5
<1>5. CASE CapturePush
  <2>1. encPc' = encPc
    BY <1>5 DEF CapturePush, encode
  <2>2. \/ rawQ' = rawQ /\ captured' = captured
        \/ rawQ' = Enqueued(rawQ, captured + 1) /\ captured' = captured + 1
    BY <1>5 DEF CapturePush
  <2>3. captured' - Len(rawQ'.items) = base
    <3>1. CASE rawQ' = Enqueued(rawQ, captured + 1) /\ captured' = captured + 1
      <4>1. captured + 1 \in Nat
        BY <1>1
      <4>2. rawQ'.items = Append(rawQ.items, captured + 1)
        BY <1>1, <3>1, <4>1, EnqueuedItems
      <4>3. Len(rawQ'.items) = r + 1
        BY <1>1, <4>1, <4>2, AppendProperties
      <4>4. (captured + 1) - (r + 1) = base
        BY <1>1
      <4> QED
        BY <3>1, <4>3, <4>4
    <3> QED
      BY <2>2, <3>1
  <2>4. Started' = Started
    BY <2>1, <2>3 DEF Started
  <2>5. ~EncodeStart /\ ~EncodePop
    BY <2>1 DEF EncodeStart, EncodePop, EncodeFails
  <2> QED
    BY <2>4, <2>5
<1>6. CASE CaptureClose \/ EncodeClose \/ SendAbort
  <2>1. Closed(rawQ).items = rawQ.items
    BY <1>1, ClosedItems
  <2>2. captured' = captured /\ rawQ'.items = rawQ.items
    BY <1>6, <2>1 DEF CaptureClose, EncodeClose, SendAbort, capture
  <2>3. (encPc # "encode" /\ encPc' # "encode") \/ encPc' = encPc
    BY <1>6 DEF CaptureClose, EncodeClose, SendAbort, encode
  <2>4. Started' = Started
    BY <2>2, <2>3 DEF Started
  <2>5. ~EncodeStart /\ ~EncodePop
    BY <1>6 DEF EncodeStart, EncodePop, CaptureClose, EncodeClose, SendAbort, encode, EncodeFails
  <2> QED
    BY <2>4, <2>5
<1>7. CASE ~EncodeStart /\ ~EncodePop /\ ~CapturePush /\ ~CaptureClose /\ ~EncodeClose
           /\ ~SendAbort
  <2>1. captured' = captured /\ rawQ' = rawQ
    BY <1>7 DEF Next, CaptureStep, CaptureRead, EncodeStep, EncodeFeed, Feeding,
       EncodeFlush, WriteOut, EncodePush, WriteDone, EncodeAbort, SendStep, SendPop,
       SendPacketize, SendIsClosed, SendDrain, StopRequest, Returned, vars, shared, capture
  <2>2. (encPc # "encode" /\ encPc' # "encode") \/ encPc' = encPc
    BY <1>7 DEF Next, CaptureStep, CaptureRead, EncodeStep, EncodeFeed, Feeding,
       EncodeFlush, WriteOut, EncodePush, PushOut, Refused, Accepted, EncodeFails, WriteDone,
       EncodeAbort, SendStep, SendPop, SendPacketize, SendIsClosed, SendDrain, StopRequest,
       Returned, vars, encode
  <2>3. Started' = Started
    BY <2>1, <2>2 DEF Started
  <2> QED
    BY <1>7, <2>3
<1> QED
  BY <1>3, <1>4, <1>5, <1>6, <1>7

\* A request reaches the frame it is owed to: what the encoder takes in carries
\* the flag, and nothing in flight is as new as the frame a new request is for.
LEMMA PliNext ==
    ASSUME TypeOK, RawInv, PliInv, [Next]_vars,
           EncodePush => out # <<>>
    PROVE  PliInv'
<1>1. /\ Started \in Nat
      /\ encPc = "encode" => input[1] = Started + 1
      /\ encPc = "feed" => input[1] = Started
  BY StartedType
<1>2. /\ EncodeStart => Started' = Started + 1
      /\ Started' = Started \/ Started' = Started + 1
  BY StartedNext
<1>3. \/ UNCHANGED owedKey
      \/ SendDrain /\ owedKey' = owedKey \cup {Started + 1} /\ Started' = Started
  <2>1. CASE SendDrain
    <3>1. UNCHANGED <<captured, rawQ, encPc>>
      BY <2>1 DEF SendDrain, capture, encode
    <3>2. Started' = Started
      BY <3>1 DEF Started
    <3> QED
      BY <2>1, <3>2 DEF SendDrain
  <2>2. CASE ~SendDrain
    BY <2>2 DEF Next, CaptureStep, CaptureRead, CapturePush, CaptureClose, EncodeStep,
       EncodePop, EncodeStart, EncodeFeed, Feeding, EncodeFlush, WriteOut, EncodePush,
       WriteDone, EncodeAbort, EncodeClose, SendStep, SendPop, SendPacketize, SendIsClosed,
       SendAbort, StopRequest, Returned, vars
  <2> QED
    BY <2>1, <2>2
<1>4. Honoured \subseteq Honoured'
  <2> SUFFICES ASSUME NEW x \in Honoured PROVE x \in Honoured'
    OBVIOUS
  <2>1. x \in Packet /\ x.n \in Nat /\ x.n <= Started /\ (x.n \in owedKey => x.key)
    BY DEF Honoured, Packet
  <2>2. x.n <= Started'
    BY <1>1, <1>2, <2>1
  <2>3. x.n \in owedKey' => x.key
    <3>1. x.n # Started + 1
      BY <1>1, <2>1
    <3> QED
      BY <1>3, <2>1, <3>1
  <2> QED
    BY <2>1, <2>2, <2>3 DEF Honoured
<1>5. EncodeFeed => [n |-> input[1], key |-> asKey] \in Honoured'
  <2> SUFFICES ASSUME EncodeFeed PROVE [n |-> input[1], key |-> asKey] \in Honoured
    BY <1>4
  <2>1. encPc = "feed" /\ asKey \in BOOLEAN
    BY DEF EncodeFeed, Feeding, TypeOK, FlagsOK
  <2>2. input[1] \in Nat /\ input[1] <= Started
    BY <1>1, <2>1
  <2>3. input[1] \in owedKey => asKey
    BY <2>1 DEF PliInv
  <2> QED
    BY <2>1, <2>2, <2>3 DEF Honoured, Packet
<1>6. Flow(Honoured)'
  <2>1. PICK S : S = Honoured'
    OBVIOUS
  <2>2. Flow(S)
    <3>1. Honoured \subseteq S
      BY <1>4, <2>1
    <3>2. \A s \in Seq(Honoured) : s \in Seq(S)
      BY <3>1, SeqMonotonic
    <3> QED
      BY <3>2 DEF Flow, PliInv
  <2>3. EncodeFeed => [n |-> input[1], key |-> asKey] \in S
    BY <1>5, <2>1
  <2>4. DataOK
    BY DEF TypeOK
  <2>5. Flow(S)'
    BY <2>2, <2>3, <2>4, FlowNext
  <2> QED
    BY <2>1, <2>5 DEF Flow
<1>7. owedKey' \subseteq 1 .. Started' + 1
  <2>1. \A k \in owedKey' : k \in 1 .. Started + 1
    <3>1. \A k \in owedKey : k \in 1 .. Started + 1
      BY DEF PliInv
    <3>2. Started + 1 \in 1 .. Started + 1
      BY <1>1
    <3> QED
      BY <1>3, <3>1, <3>2
  <2>2. \A k \in 1 .. Started + 1 : k \in 1 .. (Started + 1) + 1
    BY <1>1
  <2> QED
    BY <1>2, <2>1, <2>2
<1>8. Started' + 1 \in owedKey' => keyAsked'
  <2>1. CASE EncodeStart
    <3>1. Started' + 1 = Started + 2 /\ owedKey' = owedKey
      BY <1>1, <1>2, <2>1 DEF EncodeStart
    <3>2. Started + 2 \notin 1 .. Started + 1
      BY <1>1
    <3> QED
      BY <3>1, <3>2 DEF PliInv
  <2>2. CASE SendDrain
    <3>1. \/ keyAsked' = TRUE
          \/ UNCHANGED <<keyAsked, owedKey>>
      BY <2>2 DEF SendDrain
    <3>2. Started' = Started
      <4>1. UNCHANGED <<captured, rawQ, encPc>>
        BY <2>2 DEF SendDrain, capture, encode
      <4> QED
        BY <4>1 DEF Started
    <3> QED
      BY <3>1, <3>2 DEF PliInv
  <2>3. CASE ~EncodeStart /\ ~SendDrain
    <3>1. owedKey' = owedKey /\ keyAsked' = keyAsked
      BY <1>3, <2>3 DEF Next, CaptureStep, CaptureRead, CapturePush, CaptureClose, EncodeStep,
         EncodePop, EncodeFeed, EncodeFlush, WriteOut, EncodePush, WriteDone, EncodeAbort,
         EncodeClose, SendStep, SendPop, SendPacketize, SendIsClosed, SendAbort, StopRequest,
         Returned, vars, shared
    <3>2. (Started + 1) + 1 \notin 1 .. Started + 1
      BY <1>1
    <3> QED
      BY <1>2, <3>1, <3>2 DEF PliInv
  <2> QED
    BY <2>1, <2>2, <2>3
<1>9. encPc' = "feed" /\ input'[1] \in owedKey' => asKey'
  <2>1. CASE EncodeStart
    <3>1. /\ encPc = "encode" /\ input' = input /\ owedKey' = owedKey /\ asKey' = keyAsked
      BY <2>1 DEF EncodeStart
    <3>2. input'[1] = Started + 1
      BY <1>1, <3>1
    <3> QED
      BY <3>1, <3>2 DEF PliInv
  <2>2. CASE encPc = "feed" /\ UNCHANGED <<encPc, input, asKey>>
    <3>1. input'[1] = Started
      BY <1>1, <2>2
    <3>2. Started # Started + 1
      BY <1>1
    <3>3. input'[1] \in owedKey' => input[1] \in owedKey
      BY <1>3, <2>2, <3>1, <3>2
    <3> QED
      BY <2>2, <3>3 DEF PliInv
  <2>3. CASE encPc' = "feed" /\ ~EncodeStart
    <3>1. UNCHANGED <<encPc, input, asKey>>
      BY <2>3 DEF Next, CaptureStep, CaptureRead, CapturePush, CaptureClose, EncodeStep,
         EncodePop, EncodeFeed, Feeding, EncodeFails, EncodeFlush, WriteOut, EncodePush,
         PushOut, Refused, Accepted, WriteDone, EncodeAbort, EncodeClose, SendStep, SendPop,
         SendPacketize, SendIsClosed, SendDrain, SendAbort, StopRequest, Returned, vars, encode
    <3> QED
      BY <2>2, <2>3, <3>1
  <2> QED
    BY <2>1, <2>3
<1> QED
  BY <1>6, <1>7, <1>8, <1>9 DEF PliInv

\* The shutdown.
LEMMA ControlNext ==
    ASSUME TypeOK, Control, [Next]_vars, EncodePush => out # <<>>
    PROVE  Control'
<1> USE DEF Control, Ended, EncOk, Networked
<1>1. rawQ \in QueueOf(Nat) /\ sendQ \in QueueOf(Packet) /\ captured + 1 \in Nat
  BY DEF TypeOK, DataOK, ThreadsOK
<1>2. /\ Enqueued(rawQ, captured + 1).closed = rawQ.closed
      /\ Closed(rawQ).closed = TRUE /\ Closed(rawQ).items = rawQ.items
      /\ Closed(sendQ).closed = TRUE
  BY <1>1, EnqueuedItems, ClosedItems
<1>3. rawQ.items # <<>> => Dequeued(rawQ).closed = rawQ.closed
  BY <1>1, DequeuedItems
<1>4. sendQ.items # <<>> => Dequeued(sendQ).closed = sendQ.closed
  BY <1>1, DequeuedItems
<1>5. EncodePush => Enqueued(sendQ, Head(out)).closed = sendQ.closed
  BY <1>1, EnqueuedItems, HeadTailProperties DEF TypeOK, DataOK, Flow
<1>6. CASE CaptureRead
  BY <1>6 DEF CaptureRead, shared, encode, send
<1>7. CASE CapturePush
  BY <1>7, <1>2 DEF CapturePush, encode, send
<1>8. CASE CaptureClose
  BY <1>8, <1>2 DEF CaptureClose, encode, send
<1>9. CASE EncodePop
  BY <1>9, <1>3 DEF EncodePop, EncodeFails, IsEmpty, capture, send
<1>10. CASE EncodeStart
  BY <1>10 DEF EncodeStart, capture, send
<1>11. CASE EncodeFeed
  BY <1>11 DEF EncodeFeed, Feeding, EncodeFails, capture, send
<1>12. CASE EncodeFlush
  BY <1>12 DEF EncodeFlush, EncodeFails, shared, capture, send
<1>13. CASE WriteOut
  BY <1>13 DEF WriteOut, EncodeFails, Networked, shared, capture, send
<1>14. CASE EncodePush
  BY <1>14, <1>5 DEF EncodePush, PushOut, Refused, Accepted, capture, send
<1>15. CASE WriteDone
  BY <1>15 DEF WriteDone, shared, capture, send
<1>16. CASE EncodeAbort
  BY <1>16 DEF EncodeAbort, MustAbort, capture, send
<1>17. CASE EncodeClose
  BY <1>17, <1>2 DEF EncodeClose, capture, send
<1>18. CASE SendPop
  BY <1>18, <1>4 DEF SendPop, capture, encode, IsEmpty
<1>19. CASE SendPacketize
  BY <1>19 DEF SendPacketize, shared, capture, encode
<1>20. CASE SendIsClosed
  BY <1>20 DEF SendIsClosed, shared, capture, encode
<1>21. CASE SendDrain
  BY <1>21 DEF SendDrain, capture, encode
<1>22. CASE SendAbort
  BY <1>22, <1>2 DEF SendAbort, capture, encode
<1>23. CASE StopRequest
  BY <1>23 DEF StopRequest, capture, encode, send
<1>24. CASE UNCHANGED vars
  BY <1>24 DEF vars, shared, capture, encode, send
<1> QED
  BY <1>6, <1>7, <1>8, <1>9, <1>10, <1>11, <1>12, <1>13, <1>14, <1>15, <1>16, <1>17,
     <1>18, <1>19, <1>20, <1>21, <1>22, <1>23, <1>24
     DEF Next, CaptureStep, EncodeStep, SendStep, Returned

\* A failure and the abort flag go together, but for the moment in between.
LEMMA AbortsNext ==
    ASSUME TypeOK, Control, Aborts, [Next]_vars
    PROVE  Aborts'
<1> USE DEF Aborts, EncOk
<1>1. CASE CaptureStep \/ StopRequest \/ UNCHANGED vars
  BY <1>1 DEF CaptureStep, CaptureRead, CapturePush, CaptureClose, StopRequest,
     vars, shared, capture, encode, send
<1>2. CASE EncodePop \/ EncodeStart \/ EncodeFeed \/ EncodeFlush \/ WriteOut
           \/ EncodePush \/ WriteDone
  BY <1>2 DEF Control, EncodePop, EncodeStart, EncodeFeed, Feeding, EncodeFails,
     EncodeFlush, WriteOut, EncodePush, PushOut, Refused, Accepted, WriteDone, shared, send
<1>3. CASE EncodeAbort
  BY <1>3 DEF Control, EncodeAbort, MustAbort, send
<1>4. CASE EncodeClose
  BY <1>4 DEF EncodeClose, send
<1>5. CASE SendStep
  BY <1>5 DEF Control, SendStep, SendPop, SendPacketize, SendIsClosed, SendDrain, SendAbort,
     shared, encode
<1> QED
  BY <1>1, <1>2, <1>3, <1>4, <1>5 DEF Next, EncodeStep, Returned

\* Lengths are numbers.
LEMMA LengthTypes ==
    ASSUME TypeOK
    PROVE  /\ Len(rawQ.items) \in Nat /\ Len(input) \in Nat
           /\ Len(inside) \in Nat /\ Len(out) \in Nat /\ Len(sendQ.items) \in Nat
           /\ Len(sending) \in Nat /\ Len(sent) \in Nat
           /\ captured \in Nat /\ encoded \in Nat
  BY LenProperties DEF TypeOK, ThreadsOK, DataOK, Flow, QueueOf

\* The sums of the encode thread's ledger, when a frame moves by one place.
LEMMA Ledger ==
    ASSUME NEW w \in Nat, NEW o \in Nat, NEW i \in Nat, NEW p \in Nat, NEW r \in Nat,
           NEW c, c = w + o + i + p + r
    PROVE  /\ c + 1 = w + o + i + p + (r + 1)
           /\ p = 0 => c = w + o + i + 1 + (r - 1)
           /\ o = 0 => c = w + i + 0 + p + r
           /\ o = 0 /\ p = 1 => /\ c - r = (w + i) + 1
                               /\ \A k \in Nat : c = w + k + ((i + 1) - k) + 0 + r
           /\ (w + 1) + (o - 1) = w + o
           /\ c = (w + 1) + (o - 1) + i + p + r
  OBVIOUS

\* The encode thread: what it has been given, what is inside the encoder, what
\* has come out and what has left it follow on each other without a gap.
LEMMA EncNext ==
    ASSUME TypeOK, RawInv, Control, EncInv, [Next]_vars
    PROVE  EncInv'
<1> SUFFICES ASSUME EncOk' PROVE EncInv'
  BY DEF EncInv
<1> DEFINE r == Len(rawQ.items)
           p == Len(input)
           i == Len(inside)
           o == Len(out)
<1>1. r \in Nat /\ p \in Nat /\ i \in Nat /\ o \in Nat /\ captured \in Nat /\ encoded \in Nat
  BY LengthTypes
<1>2. /\ rawQ \in QueueOf(Nat) /\ rawQ.items \in Seq(Nat)
      /\ out \in Seq(Packet) /\ inside \in Seq(Packet)
  BY DEF TypeOK, DataOK, Flow, QueueOf
<1>3. EncOk
  BY DEF EncOk, Next, CaptureStep, CaptureRead, CapturePush, CaptureClose, EncodeStep,
     EncodePop, EncodeStart, EncodeFeed, Feeding, EncodeFails, EncodeFlush, WriteOut,
     EncodePush, PushOut, Refused, Accepted, WriteDone, EncodeAbort, EncodeClose, SendStep,
     SendPop, SendPacketize, SendIsClosed, SendDrain, SendAbort, StopRequest, Returned, vars,
     encode
<1>4. /\ encPc \notin {"encode", "feed"} => input = <<>>
      /\ encPc \in {"pop", "encode", "feed", "flush"} => out = <<>>
      /\ encPc \in {"push", "pushLast"} => out # <<>>
      /\ Ended => inside = <<>> /\ out = <<>>
      /\ encPc \in {"emitLast", "pushLast"} => inside = <<>>
      /\ Written \in Nat
      /\ Numbered(out, Written)
      /\ Numbered(inside, Written + o)
      /\ captured = Written + o + i + p + r
  BY <1>3 DEF EncInv
<1>13. Written \in Nat /\ captured = Written + o + i + p + r
  BY <1>4
<1>5. CASE UNCHANGED encode
  <2>1. UNCHANGED <<encPc, input, inside, out, encoded, Written>> /\ (Ended' <=> Ended)
    BY <1>5 DEF encode, Written, Ended
  <2>2. captured' = Written + o + i + p + Len(rawQ'.items)
    <3>1. CASE CapturePush
      <4>1. CASE rawQ' = rawQ /\ captured' = captured
        BY <1>4, <4>1
      <4>2. CASE rawQ' = Enqueued(rawQ, captured + 1) /\ captured' = captured + 1
        <5>1. captured + 1 \in Nat
          BY <1>1
        <5>2. rawQ'.items = Append(rawQ.items, captured + 1)
          BY <1>2, <4>2, <5>1, EnqueuedItems
        <5>3. Len(rawQ'.items) = r + 1
          BY <1>2, <5>1, <5>2, AppendProperties
        <5>4. captured + 1 = Written + o + i + p + (r + 1)
          <6> HIDE DEF r, p, i, o
          <6> QED
            BY <1>1, <1>13
        <5> QED
          BY <4>2, <5>3, <5>4
      <4> QED
        BY <3>1, <4>1, <4>2 DEF CapturePush
    <3>2. CASE ~CapturePush
      <4>1. Closed(rawQ).items = rawQ.items
        BY <1>2, ClosedItems
      <4>2. captured' = captured /\ rawQ'.items = rawQ.items
        BY <1>5, <3>2, <4>1 DEF Next, CaptureStep, CaptureRead, CaptureClose, EncodeStep,
           EncodePop, EncodeStart, EncodeFeed, Feeding, EncodeFails, EncodeFlush, WriteOut,
           EncodePush, PushOut, Refused, Accepted, WriteDone, EncodeAbort, EncodeClose,
           SendStep, SendPop, SendPacketize, SendIsClosed, SendDrain, SendAbort, StopRequest,
           Returned, vars, shared, capture, encode
      <4> QED
        BY <1>4, <4>2
    <3> QED
      BY <3>1, <3>2
  <2> QED
    BY <1>4, <2>1, <2>2 DEF EncInv
<1>6. CASE EncodePop
  <2>1. /\ encPc = "pop" /\ UNCHANGED <<inside, out, encoded, captured>>
    BY <1>6 DEF EncodePop, capture
  <2>2. CASE IsEmpty(rawQ)
    <3>1. encPc' = "flush" /\ UNCHANGED <<rawQ, input>>
      BY <1>6, <2>2 DEF EncodePop
    <3>2. Written' = Written
      BY <2>1, <3>1 DEF Written
    <3> QED
      BY <1>4, <2>1, <3>1, <3>2 DEF EncInv, Ended
  <2>3. CASE ~IsEmpty(rawQ)
    <3>1. encPc' = "encode" /\ rawQ' = Dequeued(rawQ) /\ rawQ.items # <<>>
      BY <1>6, <2>3 DEF EncodePop, IsEmpty, EncodeFails, EncOk
    <3>2. Written' = Written
      BY <2>1, <3>1 DEF Written
    <3>3. Len(rawQ'.items) = r - 1
      BY <1>2, <3>1, DequeuedItems, HeadTailProperties
    <3>4. Len(input') = 1
      BY <1>6, <2>3 DEF EncodePop
    <3>5. p = 0
      BY <1>4, <2>1
    <3>6. captured = Written + o + i + 1 + (r - 1)
      <4> HIDE DEF r, p, i, o
      <4> QED
        BY <1>1, <1>13, <3>5
    <3> QED
      BY <1>4, <2>1, <3>1, <3>2, <3>3, <3>4, <3>6 DEF EncInv, Ended
  <2> QED
    BY <2>2, <2>3
<1>7. CASE EncodeStart \/ WriteDone \/ EncodeAbort \/ EncodeClose
  <2>1. UNCHANGED <<input, inside, out, encoded, captured>>
    BY <1>7 DEF EncodeStart, WriteDone, EncodeAbort, EncodeClose, capture
  <2>2. Written' = Written
    BY <1>7, <2>1 DEF Written, EncodeStart, WriteDone, EncodeAbort, EncodeClose
  <2>3. Closed(rawQ).items = rawQ.items
    BY <1>2, ClosedItems
  <2>4. rawQ'.items = rawQ.items
    BY <1>7, <2>3 DEF EncodeStart, WriteDone, EncodeAbort, EncodeClose, shared
  <2> QED
    BY <1>4, <1>7, <2>1, <2>2, <2>4
       DEF EncInv, Ended, EncodeStart, WriteDone, EncodeAbort, EncodeClose
<1>8. CASE EncodeFeed
  <2> DEFINE x == [n |-> input[1], key |-> asKey]
             all == Append(inside, x)
  <2>1. /\ encPc = "feed" /\ input' = <<>> /\ UNCHANGED <<encoded, captured, rawQ>>
        /\ encPc' = "emit"
        /\ \E k \in 0 .. Len(all) : /\ out'    = SubSeq(all, 1, k)
                                   /\ inside' = SubSeq(all, k + 1, Len(all))
    BY <1>8 DEF EncodeFeed, Feeding, EncodeFails, EncOk, capture
  <2>2. /\ out = <<>> /\ o = 0 /\ p = 1
        /\ input[1] = captured - r /\ r < captured
    <3>1. input = <<captured - r>> /\ r < captured
      BY <2>1 DEF RawInv
    <3>2. out = <<>>
      BY <1>4, <2>1
    <3> QED
      BY <3>1, <3>2, EmptySeq
  <2>3. captured - r = (Written + i) + 1
    BY <1>1, <1>13, <2>2, Ledger
  <2>4. x \in Packet /\ x.n = ((Written + 0) + i) + 1
    <3>1. captured - r \in Nat /\ asKey \in BOOLEAN /\ Written + 0 = Written
      BY <1>1, <1>4, <2>3 DEF TypeOK, FlagsOK
    <3> QED
      BY <2>2, <2>3, <3>1 DEF Packet
  <2>5. Written + 0 \in Int /\ Numbered(inside, Written + 0)
    BY <1>4, <2>2
  <2>6. all \in Seq(Packet)
    BY <1>2, <2>4, AppendProperties
  <2> HIDE DEF x
  <2>7. Numbered(all, Written) /\ Len(all) = i + 1
    <3>1. Numbered(all, Written + 0) /\ Len(all) = i + 1
      BY <1>2, <2>4, <2>5, NumberedAppend
    <3> QED
      BY <1>4, <3>1
  <2> HIDE DEF all
  <2>8. PICK k \in 0 .. Len(all) : /\ out'    = SubSeq(all, 1, k)
                                   /\ inside' = SubSeq(all, k + 1, Len(all))
    BY <2>1
  <2>9. /\ Len(out') = k /\ Numbered(out', Written)
        /\ Len(inside') = (i + 1) - k /\ Numbered(inside', Written + k)
    BY <1>4, <2>6, <2>7, <2>8, NumberedCut
  <2>10. Written' = Written
    BY <2>1 DEF Written
  <2>11. k \in Nat
    BY <1>1, <2>7
  <2>12. captured = Written + k + ((i + 1) - k) + 0 + r
    <3> HIDE DEF r, p, i, o
    <3> QED
      BY <1>1, <1>13, <2>2, <2>11
  <2> QED
    BY <1>4, <2>1, <2>9, <2>10, <2>12 DEF EncInv, Ended
<1>9. CASE EncodeFlush
  <2>1. /\ encPc = "flush" /\ encPc' = "emitLast" /\ out' = inside /\ inside' = <<>>
        /\ UNCHANGED <<encoded, captured, rawQ, input>>
    BY <1>9 DEF EncodeFlush, EncodeFails, EncOk, shared, capture
  <2>2. Written' = Written
    BY <2>1 DEF Written
  <2>3. o = 0 /\ Written + 0 = Written
    BY <1>4, <2>1
  <2>4. captured = Written + i + 0 + p + r
    BY <1>1, <1>13, <2>3
  <2>5. Numbered(out', Written) /\ Numbered(inside', Written + Len(out'))
    BY <1>4, <2>1, <2>3, NumberedShort
  <2> QED
    BY <1>4, <2>1, <2>2, <2>4, <2>5 DEF EncInv, Ended
<1>10. CASE WriteOut
  <2>1. /\ encPc \in {"emit", "emitLast"} /\ out # <<>> /\ encoded' = encoded + 1
        /\ UNCHANGED <<captured, rawQ, input, inside>>
    BY <1>10 DEF WriteOut, EncodeFails, EncOk, shared, capture
  <2>2. Written = encoded
    BY <2>1 DEF Written
  <2>3. CASE Networked
    <3>1. /\ encPc' = IF encPc = "emit" THEN "push" ELSE "pushLast"
          /\ out' = out
      BY <1>10, <2>3 DEF WriteOut, EncodeFails, EncOk
    <3>2. (encoded + 1) - 1 = encoded
      BY <1>1
    <3>3. Written' = Written
      BY <2>1, <2>2, <3>1, <3>2 DEF Written
    <3> QED
      BY <1>4, <2>1, <3>1, <3>3 DEF EncInv, Ended
  <2>4. CASE ~Networked
    <3>1. encPc' = encPc /\ out' = Tail(out)
      BY <1>10, <2>4 DEF WriteOut, EncodeFails, EncOk
    <3>2. Written' = Written + 1
      BY <2>1, <2>2, <3>1 DEF Written
    <3>3. Len(out') = o - 1 /\ Numbered(out', Written + 1)
      BY <1>2, <1>4, <2>1, <3>1, NumberedTail
    <3>4. /\ (Written + 1) + (o - 1) = Written + o
          /\ captured = (Written + 1) + (o - 1) + i + p + r
          /\ Written + 1 \in Nat
      <4> HIDE DEF r, p, i, o
      <4> QED
        BY <1>1, <1>13
    <3> QED
      BY <1>4, <2>1, <3>1, <3>2, <3>3, <3>4 DEF EncInv, Ended
  <2> QED
    BY <2>3, <2>4
<1>11. CASE EncodePush
  <2>1. /\ encPc \in {"push", "pushLast"} /\ out' = Tail(out)
        /\ encPc' = IF encPc = "push" THEN "emit" ELSE "emitLast"
        /\ UNCHANGED <<captured, rawQ, input, inside, encoded>>
    BY <1>11 DEF EncodePush, PushOut, Refused, Accepted, EncOk, capture
  <2>2. Written = encoded - 1 /\ Written' = encoded
    BY <2>1 DEF Written
  <2>3. Written' = Written + 1
    BY <1>1, <2>2
  <2>4. Len(out') = o - 1 /\ Numbered(out', Written + 1)
    BY <1>2, <1>4, <2>1, NumberedTail
  <2>5. /\ (Written + 1) + (o - 1) = Written + o
        /\ captured = (Written + 1) + (o - 1) + i + p + r
        /\ Written + 1 \in Nat
    <3> HIDE DEF r, p, i, o
    <3> QED
      BY <1>1, <1>13
  <2> QED
    BY <1>4, <2>1, <2>3, <2>4, <2>5 DEF EncInv, Ended
<1>12. CASE CaptureStep \/ SendStep \/ StopRequest \/ UNCHANGED vars
  BY <1>5, <1>12 DEF CaptureStep, CaptureRead, CapturePush, CaptureClose, SendStep, SendPop,
     SendPacketize, SendIsClosed, SendDrain, SendAbort, StopRequest, vars
<1> QED
  BY <1>6, <1>7, <1>8, <1>9, <1>10, <1>11, <1>12 DEF Next, EncodeStep, Returned

\* Frames leave the encode thread at one place only.
LEMMA WrittenNext ==
    ASSUME TypeOK, Control, [Next]_vars, Networked, ~EncodePush, EncOk'
    PROVE  Written' = Written /\ EncOk
<1>1. encoded \in Nat
  BY DEF TypeOK, ThreadsOK
<1>2. EncOk
  BY DEF EncOk, Next, CaptureStep, CaptureRead, CapturePush, CaptureClose, EncodeStep,
     EncodePop, EncodeStart, EncodeFeed, Feeding, EncodeFails, EncodeFlush, WriteOut,
     WriteDone, EncodeAbort, EncodeClose, SendStep, SendPop, SendPacketize, SendIsClosed,
     SendDrain, SendAbort, StopRequest, Returned, vars, encode
<1>3. CASE WriteOut
  <2>1. /\ encPc \in {"emit", "emitLast"} /\ encPc' \in {"push", "pushLast"}
        /\ encoded' = encoded + 1
    BY <1>3 DEF WriteOut, EncodeFails, EncOk
  <2>2. (encoded + 1) - 1 = encoded
    BY <1>1
  <2> QED
    BY <1>2, <2>1, <2>2 DEF Written
<1>4. CASE EncodeStep /\ ~WriteOut
  <2>1. encPc \notin {"push", "pushLast"} /\ encPc' \notin {"push", "pushLast"} /\ encoded' = encoded
    BY <1>4 DEF EncodeStep, EncodePop, EncodeStart, EncodeFeed, Feeding, EncodeFails,
       EncodeFlush, WriteDone, EncodeAbort, EncodeClose, EncOk
  <2> QED
    BY <1>2, <2>1 DEF Written
<1>5. CASE ~EncodeStep
  <2>1. UNCHANGED <<encPc, encoded>>
    BY <1>5 DEF Next, CaptureStep, CaptureRead, CapturePush, CaptureClose, SendStep, SendPop,
       SendPacketize, SendIsClosed, SendDrain, SendAbort, StopRequest, Returned, vars, encode
  <2> QED
    BY <1>2, <2>1 DEF Written
<1> QED
  BY <1>3, <1>4, <1>5

\* Captured frames are never taken back.
LEMMA CapturedNext ==
    ASSUME TypeOK, [Next]_vars
    PROVE  captured' \in Nat /\ captured <= captured'
<1>1. captured \in Nat
  BY DEF TypeOK, ThreadsOK
<1>2. captured' = captured \/ captured' = captured + 1
  BY DEF Next, CaptureStep, CaptureRead, CapturePush, CaptureClose, EncodeStep, EncodePop,
     EncodeStart, EncodeFeed, Feeding, EncodeFlush, WriteOut, EncodePush, WriteDone,
     EncodeAbort, EncodeClose, SendStep, SendPop, SendPacketize, SendIsClosed, SendDrain,
     SendAbort, StopRequest, Returned, vars, capture
<1> QED
  BY <1>1, <1>2

\* The send thread: what was sent, what is being sent and what waits in the send
\* queue follow on each other, and end where the encode thread goes on.
LEMMA SendNext ==
    ASSUME TypeOK, Control, EncInv, SendInv, [Next]_vars
    PROVE  SendInv'
<1> DEFINE s == Len(sent)
           g == Len(sending)
           q == Len(sendQ.items)
<1>1. s \in Nat /\ g \in Nat /\ q \in Nat /\ captured \in Nat
  BY LengthTypes
<1>2. captured' \in Nat /\ captured <= captured'
  BY CapturedNext
<1>3. /\ sendQ \in QueueOf(Packet) /\ sendQ.items \in Seq(Packet) /\ out \in Seq(Packet)
      /\ sending \in Seq(Packet) /\ sent \in Seq(Packet)
  BY DEF TypeOK, DataOK, Flow, QueueOf
<1>4. Networked' = Networked
  BY DEF Networked, Next, CaptureStep, CaptureRead, CapturePush, CaptureClose, EncodeStep,
     EncodePop, EncodeStart, EncodeFeed, Feeding, EncodeFlush, WriteOut, EncodePush, WriteDone,
     EncodeAbort, EncodeClose, SendStep, SendPop, SendPacketize, SendIsClosed, SendDrain,
     SendAbort, StopRequest, Returned, vars, send
<1>5. CASE EncodePush
  <2>1. /\ encPc \in {"push", "pushLast"} /\ UNCHANGED <<sending, sent, sendErr, sendPc, captured>>
    BY <1>5 DEF EncodePush, send, capture
  <2>2. EncOk /\ Networked
    BY <2>1 DEF Control, Ended
  <2>3. CASE sendErr \/ ~EncOk'
    <3>1. sendErr
      BY <1>5, <2>1, <2>2, <2>3 DEF EncodePush, PushOut, Refused, Accepted, EncOk, Control
    <3> QED
      BY <2>1, <3>1 DEF SendInv
  <2>4. CASE ~sendErr /\ EncOk'
    <3>1. sendQ' = Enqueued(sendQ, Head(out))
      BY <1>5, <2>4 DEF EncodePush, PushOut, Refused, Accepted, EncOk
    <3>2. /\ out # <<>> /\ Written \in Nat /\ Numbered(out, Written)
          /\ captured = Written + Len(out) + Len(inside) + Len(input) + Len(rawQ.items)
      BY <2>1, <2>2 DEF EncInv
    <3>3. Head(out) \in Packet /\ Head(out).n = Written + 1 /\ Len(out) \in Nat \ {0}
      BY <1>3, <3>2, NumberedTail
    <3>4. sendQ'.items = Append(sendQ.items, Head(out))
      BY <1>3, <3>1, <3>3, EnqueuedItems
    <3>5. s + g + q = Written /\ Numbered(sendQ.items, s + g)
      BY <2>2, <2>4 DEF SendInv
    <3>6. Numbered(sendQ'.items, s + g) /\ Len(sendQ'.items) = q + 1
      <4>1. s + g \in Int /\ Head(out).n = ((s + g) + q) + 1
        <5> HIDE DEF s, g, q
        <5> QED
          BY <1>1, <3>3, <3>5
      <4> QED
        BY <1>3, <3>3, <3>4, <3>5, <4>1, NumberedAppend
    <3>7. Written' = Written + 1
      <4>1. encoded \in Nat
        BY DEF TypeOK, ThreadsOK
      <4>2. Written = encoded - 1 /\ encPc' \notin {"push", "pushLast"} /\ encoded' = encoded
        BY <1>5, <2>1 DEF Written, EncodePush, PushOut, Refused, Accepted
      <4>3. Written' = encoded
        BY <4>2 DEF Written
      <4> QED
        BY <4>1, <4>2, <4>3
    <3>8. s + g + (q + 1) = Written + 1
      <4> HIDE DEF s, g, q
      <4> QED
        BY <1>1, <3>5
    <3>9. Written + 1 <= captured
      <4> DEFINE a == Len(out)
                 b == Len(inside)
                 c == Len(input)
                 d == Len(rawQ.items)
      <4>1. a \in Nat /\ a >= 1
        BY <3>3
      <4>3. b \in Nat /\ c \in Nat /\ d \in Nat
        BY LengthTypes
      <4>2. captured = Written + a + b + c + d /\ Written \in Nat
        BY <3>2
      <4> HIDE DEF a, b, c, d
      <4> QED
        BY <4>1, <4>2, <4>3
    <3> QED
      BY <2>1, <3>6, <3>7, <3>8, <3>9 DEF SendInv
  <2> QED
    BY <2>3, <2>4
<1>6. CASE SendPop
  <2>1. /\ sendPc = "pop" /\ UNCHANGED <<sent, sendErr, captured>>
    BY <1>6 DEF SendPop, capture
  <2>2. ~sendErr /\ sending = <<>> /\ g = 0
    BY <2>1, EmptySeq DEF Control, SendInv
  <2>3. Networked /\ EncOk' => Written' = Written /\ EncOk
    <3>1. ~EncodePush
      BY <1>6 DEF SendPop, EncodePush, PushOut, Refused, Accepted, encode
    <3> QED
      BY <3>1, WrittenNext
  <2>4. CASE IsEmpty(sendQ)
    <3>1. UNCHANGED <<sendQ, sending>> /\ sendPc' # "packetize"
      BY <1>6, <2>4 DEF SendPop
    <3> QED
      BY <1>4, <2>1, <2>2, <2>3, <3>1 DEF SendInv
  <2>5. CASE ~IsEmpty(sendQ)
    <3>1. /\ sendQ.items # <<>> /\ sendQ' = Dequeued(sendQ)
          /\ sending' = <<Head(sendQ.items)>> /\ sendPc' = "packetize"
      BY <1>6, <2>5 DEF SendPop, IsEmpty
    <3>2. sendQ'.items = Tail(sendQ.items)
      BY <1>3, <3>1, DequeuedItems
    <3>3. Numbered(sendQ.items, s) /\ s \in Int
      <4>1. s + g = s
        BY <1>1, <2>2
      <4> QED
        BY <1>1, <2>2, <4>1 DEF SendInv
    <3>4. /\ q \in Nat \ {0}
          /\ Head(sendQ.items).n = s + 1
          /\ Len(sendQ'.items) = q - 1
          /\ Numbered(sendQ'.items, s + 1)
      BY <1>3, <3>1, <3>2, <3>3, NumberedTail
    <3>5. Numbered(sending', s) /\ Len(sending') = 1
      BY <3>1, <3>4, NumberedShort
    <3>6. s + 1 + (q - 1) = s + g + q /\ s + 1 <= s + g + q /\ s + g + q <= captured
      <4>1. s + g + q <= captured
        BY <2>2 DEF SendInv
      <4> HIDE DEF s, g, q
      <4> QED
        BY <1>1, <2>2, <3>4, <4>1
    <3>7. s + 1 <= captured /\ s + 1 + (q - 1) <= captured
      <4> HIDE DEF s, g, q
      <4> QED
        BY <1>1, <3>4, <3>6
    <3> QED
      BY <1>4, <2>1, <2>2, <2>3, <3>1, <3>4, <3>5, <3>6, <3>7 DEF SendInv
  <2> QED
    BY <2>4, <2>5
<1>7. CASE SendPacketize
  <2>1. /\ sending' = <<>> /\ UNCHANGED <<sendQ, captured>>
        /\ \/ sent' = sent \o sending /\ UNCHANGED sendErr
           \/ sent' \in {sent, sent \o sending} /\ sendErr' = TRUE
    BY <1>7 DEF SendPacketize, shared, capture
  <2>2. Networked /\ EncOk' => Written' = Written /\ EncOk
    <3>1. ~EncodePush
      BY <1>7 DEF SendPacketize, EncodePush, PushOut, Refused, Accepted, encode
    <3> QED
      BY <3>1, WrittenNext
  <2>3. Numbered(sent, 0) /\ Numbered(sending, 0 + s) /\ s + g <= captured /\ 0 + s = s
    BY <1>1 DEF SendInv
  <2>4. Numbered(sent \o sending, 0) /\ Len(sent \o sending) = s + g
    BY <1>3, <2>3, NumberedJoin
  <2>5. Len(sending') = 0 /\ \A b : Numbered(sending', b)
    BY <2>1, NumberedShort, EmptySeq
  <2>6. s + 0 <= captured /\ (s + g) + 0 <= captured /\ (s + g) + 0 = s + g
    <3> HIDE DEF s, g
    <3> QED
      BY <1>1, <2>3
  <2>7. CASE sent' = sent \o sending /\ UNCHANGED sendErr
    BY <1>4, <2>1, <2>2, <2>4, <2>5, <2>6, <2>7 DEF SendInv
  <2>8. CASE sent' \in {sent, sent \o sending} /\ sendErr' = TRUE
    BY <2>1, <2>3, <2>4, <2>5, <2>6, <2>8 DEF SendInv
  <2> QED
    BY <2>1, <2>7, <2>8
<1>8. CASE ~EncodePush /\ ~SendPop /\ ~SendPacketize
  <2>1. Networked /\ EncOk' => Written' = Written /\ EncOk
    BY <1>8, WrittenNext
  <2>2. Closed(sendQ).items = sendQ.items
    BY <1>3, ClosedItems
  <2>3. UNCHANGED <<sent, sending, sendErr>> /\ sendQ'.items = sendQ.items
    BY <1>8, <2>2 DEF Next, CaptureStep, CaptureRead, CapturePush, CaptureClose, EncodeStep,
       EncodePop, EncodeStart, EncodeFeed, Feeding, EncodeFlush, WriteOut, WriteDone,
       EncodeAbort, EncodeClose, SendStep, SendIsClosed, SendDrain, SendAbort, StopRequest,
       Returned, vars, shared, send
  <2>4. sendPc' # "packetize" => sending = <<>>
    BY <1>8 DEF SendInv, Next, CaptureStep, CaptureRead, CapturePush, CaptureClose, EncodeStep,
       EncodePop, EncodeStart, EncodeFeed, Feeding, EncodeFlush, WriteOut, WriteDone,
       EncodeAbort, EncodeClose, SendStep, SendIsClosed, SendDrain, SendAbort, StopRequest,
       Returned, vars, send
  <2>5. /\ s + g <= captured => s + g <= captured'
        /\ s + g + q <= captured => s + g + q <= captured'
    <3> HIDE DEF s, g, q
    <3> QED
      BY <1>1, <1>2
  <2> QED
    BY <1>4, <2>1, <2>3, <2>4, <2>5 DEF SendInv
<1> QED
  BY <1>5, <1>6, <1>7, <1>8

-----------------------------------------------------------------------------
(* The invariant.                                                          *)

\* Nothing has been captured, encoded or asked for at the start.
LEMMA InvInit == Init => IInv
<1> SUFFICES ASSUME Init PROVE IInv
  OBVIOUS
<1>1. TypeOK
  <2>1. ThreadsOK
    BY DEF Init, ThreadsOK
  <2>2. FlagsOK
    BY DEF Init, FlagsOK
  <2>3. DataOK
    BY EmptySeq DEF Init, DataOK, Flow, QueueOf, EmptyQueue
  <2> QED
    BY <2>1, <2>2, <2>3 DEF TypeOK
<1>2. Started = 0
  <2>1. Started = 0 - 0 - 0
    BY EmptySeq DEF Init, EmptyQueue, Started
  <2> QED
    BY <2>1
<1>3. RawInv
  BY EmptySeq DEF Init, RawInv, EndsAt, EmptyQueue
<1>4. PliInv
  BY <1>2, EmptySeq DEF Init, PliInv, Flow, EmptyQueue
<1>5. Control /\ Aborts
  BY DEF Init, Control, Aborts, Ended, EncOk, EmptyQueue, Networked
<1>6. EncInv
  BY EmptySeq DEF Init, EncInv, Written, Numbered, Ended, EmptyQueue
<1>7. SendInv
  BY EmptySeq DEF Init, SendInv, Written, Numbered, EmptyQueue
<1> QED
  BY <1>1, <1>3, <1>4, <1>5, <1>6, <1>7 DEF IInv

\* Every step of the two threads and of the outside keeps the invariant.
LEMMA InvNext == IInv /\ [Next]_vars => IInv'
<1> SUFFICES ASSUME IInv, [Next]_vars PROVE IInv'
  OBVIOUS
<1> USE DEF IInv
<1>1. EncodePush => out # <<>>
  BY DEF EncodePush, EncInv, Control, Ended
<1>2. encPc = "feed" => input # <<>>
  BY DEF RawInv
<1>3. TypeOK'
  BY <1>1, <1>2, TypeNext
<1>4. RawInv' /\ PliInv'
  BY <1>1, RawNext, PliNext
<1>5. Control' /\ Aborts'
  BY <1>1, ControlNext, AbortsNext
<1>6. EncInv' /\ SendInv'
  BY EncNext, SendNext
<1> QED
  BY <1>3, <1>4, <1>5, <1>6

\* The invariant holds.
THEOREM Invariance == Spec => []IInv
<1>1. Init => IInv
  BY InvInit
<1>2. IInv /\ [Next]_vars => IInv'
  BY InvNext
<1> QED
  BY <1>1, <1>2, PTL DEF Spec

\* What leaves for the network is a gap-free prefix of what was captured, in the
\* order of capture, through every failure and every interleaving.
THEOREM SentInOrder == Spec => []SentIsPrefix
<1>1. ASSUME IInv PROVE SentIsPrefix
  <2>1. Len(sent) \in Nat /\ Len(sending) \in Nat /\ captured \in Nat
    BY <1>1, LengthTypes DEF IInv
  <2>2. Numbered(sent, 0) /\ Len(sent) + Len(sending) <= captured
    BY <1>1 DEF IInv, SendInv
  <2> QED
    BY <2>1, <2>2 DEF SentIsPrefix, Numbered
<1> QED
  BY <1>1, Invariance, PTL

\* Every PLI is honoured by the first frame that reaches the encoder after it.
THEOREM PliIsHonoured == Spec => []PliHonoured
<1>1. ASSUME IInv PROVE PliHonoured
  <2>1. Flow(Honoured)
    BY <1>1 DEF IInv, PliInv
  <2>2. \A s \in {inside, out, sendQ.items, sending, sent} : s \in Seq(Honoured)
    BY <2>1 DEF Flow
  <2>3. \A s \in {inside, out, sendQ.items, sending, sent} :
          \A i \in 1 .. Len(s) : s[i] \in Honoured
    BY <2>2, ElementOfSeq
  <2> QED
    BY <2>3 DEF PliHonoured, Honoured
<1> QED
  BY <1>1, Invariance, PTL

\* A run that returns Ok has encoded every frame it captured, and each of them was
\* sent or lies in the send queue.
THEOREM EndsCleanly == Spec => []CleanEnd
<1>1. ASSUME IInv PROVE CleanEnd
  <2> SUFFICES ASSUME Finished, ReturnsOk
               PROVE  /\ encoded = captured
                      /\ Networked => Len(sent) + Len(sendQ.items) = captured
    BY DEF CleanEnd
  <2>1. /\ encPc = "done" /\ sendPc \in {"off", "done"} /\ ~encErr /\ ~sendErr
    BY DEF Finished, ReturnsOk
  <2>2. EncOk /\ Ended
    BY <1>1, <2>1 DEF IInv, Control, EncOk, Ended
  <2>3. rawQ.items = <<>> /\ inside = <<>> /\ out = <<>> /\ input = <<>>
    BY <1>1, <2>1, <2>2 DEF IInv, Control, EncInv
  <2>4. /\ Len(rawQ.items) = 0 /\ Len(inside) = 0 /\ Len(out) = 0 /\ Len(input) = 0
    BY <2>3, EmptySeq
  <2>5. Written = encoded /\ encoded \in Nat
    BY <1>1, <2>1 DEF IInv, TypeOK, ThreadsOK, Written
  <2>6. captured = Written + 0 + 0 + 0 + 0
    BY <1>1, <2>2, <2>4 DEF IInv, EncInv
  <2>7. sending = <<>> /\ Len(sending) = 0
    BY <1>1, <2>1, EmptySeq DEF IInv, SendInv
  <2>8. Networked => Len(sent) + 0 + Len(sendQ.items) = Written
    BY <1>1, <2>1, <2>2, <2>7 DEF IInv, SendInv
  <2>9. Len(sent) \in Nat
    BY <1>1, LengthTypes DEF IInv
  <2> QED
    BY <2>5, <2>6, <2>8, <2>9
<1> QED
  BY <1>1, Invariance, PTL

\* The threads are aborted exactly when run() reports a failure of the encoder or
\* of the sender.
THEOREM AbortsAreReported == Spec => []AbortIsReported
<1>1. IInv => AbortIsReported
  BY DEF IInv, Aborts, Control, EncOk, AbortIsReported, Finished
<1> QED
  BY <1>1, Invariance, PTL

=============================================================================
