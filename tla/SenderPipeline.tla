--------------------------- MODULE SenderPipeline ---------------------------
(***************************************************************************)
(* app/sender/SenderPipeline.cpp: the capture, encode and send threads of  *)
(* one run(), the raw queue between the first two, the send queue between  *)
(* the last two, and the flags they share (stopRequested, abortRequested_, *)
(* the encoder's keyFrameRequested_).  A queue operation is one step: what *)
(* happens inside it is the subject of BoundedQueue.  Thread-local work    *)
(* between two accesses to shared state belongs to one of these accesses.  *)
(*                                                                         *)
(* Frames are numbered in the order in which the raw queue accepts them.   *)
(* libavcodec is external: it takes frames in, gives them back in order,   *)
(* any number at a time, and gives back all of them when flushed.          *)
(***************************************************************************)
EXTENDS QueueOps

CONSTANTS
    RawCap,      \* config_.queueCapacity
    SendCap,     \* config_.sendQueueCapacity
    MaxFrames    \* config_.maxFrames, here always a limit

ASSUME CapacityAssumption == RawCap \in Nat \ {0} /\ SendCap \in Nat \ {0}
ASSUME MaxFramesAssumption == MaxFrames \in Nat \ {0}

VARIABLES
    \* shared
    rawQ, sendQ,             \* queue_, sendQueue_
    stop, abort, keyAsked,   \* stopRequested, abortRequested_, keyFrameRequested_
    \* capture thread
    capPc, captured, capErr,
    \* encode thread
    encPc, input, asKey, inside, out, encoded, sendClosed, encErr,
    \* send thread
    sendPc, sending, sent, sendErr,
    \* history: frames that are the first to reach the encoder after a PLI
    owedKey

shared    == <<rawQ, sendQ, stop, abort, keyAsked>>
capture   == <<capPc, captured, capErr>>
encode    == <<encPc, input, asKey, inside, out, encoded, sendClosed, encErr>>
send      == <<sendPc, sending, sent, sendErr>>
vars      == <<shared, capture, encode, send, owedKey>>

Networked == sendPc # "off"      \* config_.target is set: sendQueue_ exists
Packet    == [n: Nat, key: BOOLEAN]

-----------------------------------------------------------------------------
(* captureLoop()                                                           *)

CaptureQuits == stop \/ abort \/ captured >= MaxFrames

\* The loop test and source_->readFrame(): a frame, Closed or an error.
CaptureRead ==
    /\ capPc = "read"
    /\ \/ CaptureQuits /\ capPc' = "close" /\ UNCHANGED capErr
       \/ ~CaptureQuits /\ capPc' \in {"push", "close"} /\ UNCHANGED capErr
       \/ ~CaptureQuits /\ capPc' = "close" /\ capErr' = TRUE
    /\ UNCHANGED <<shared, captured, encode, send, owedKey>>

\* queue_->push() blocks while the queue is full and open.
CapturePush ==
    /\ capPc = "push"
    /\ \/ /\ rawQ.closed
          /\ capPc' = "close"
          /\ UNCHANGED <<rawQ, captured>>
       \/ /\ ~rawQ.closed /\ ~IsFull(rawQ, RawCap)
          /\ rawQ' = Enqueued(rawQ, captured + 1)
          /\ captured' = captured + 1
          /\ capPc' = "read"
    /\ UNCHANGED <<sendQ, stop, abort, keyAsked, capErr, encode, send, owedKey>>

CaptureClose ==
    /\ capPc = "close"
    /\ rawQ' = Closed(rawQ)
    /\ capPc' = "done"
    /\ UNCHANGED <<sendQ, stop, abort, keyAsked, captured, capErr, encode, send, owedKey>>

-----------------------------------------------------------------------------
(* encodeLoop()                                                            *)

\* encodeStatus_ becomes an error and the loops are left.
EncodeFails == encErr' = TRUE /\ encPc' = "abort"

\* queue_->pop(), then the raw dump, which may fail.
EncodePop ==
    /\ encPc = "pop"
    /\ \/ /\ ~IsEmpty(rawQ)
          /\ rawQ' = Dequeued(rawQ) /\ input' = <<Head(rawQ.items)>>
          /\ \/ encPc' = "encode" /\ UNCHANGED encErr
             \/ EncodeFails
       \/ /\ IsEmpty(rawQ) /\ rawQ.closed
          /\ encPc' = "flush"
          /\ UNCHANGED <<rawQ, input, encErr>>
    /\ UNCHANGED <<sendQ, stop, abort, keyAsked, capture, asKey, inside, out,
                   encoded, sendClosed, send, owedKey>>

\* Encoder::encode() up to keyFrameRequested_.exchange(false).
EncodeStart ==
    /\ encPc = "encode"
    /\ asKey' = keyAsked /\ keyAsked' = FALSE
    /\ encPc' = "feed"
    /\ UNCHANGED <<rawQ, sendQ, stop, abort, capture, input, inside, out, encoded,
                   sendClosed, encErr, send, owedKey>>

\* avcodec_send_frame() and drainPackets(): any number of the oldest frames
\* inside the encoder come out.  Either call may fail.
Feeding ==
    /\ encPc = "feed"
    /\ LET all == Append(inside, [n |-> input[1], key |-> asKey])
       IN \/ /\ \E k \in 0 .. Len(all) : /\ out'    = SubSeq(all, 1, k)
                                         /\ inside' = SubSeq(all, k + 1, Len(all))
             /\ encPc' = "emit" /\ UNCHANGED encErr
          \/ EncodeFails /\ UNCHANGED <<inside, out>>
    /\ input' = <<>>
    /\ UNCHANGED <<rawQ, sendQ, stop, abort, capture, asKey, encoded, sendClosed,
                   send, owedKey>>

\* Fault: the request is taken back once the frame is in, not read and reset
\* in one exchange.
EncodeFeedThenReset == Feeding /\ keyAsked' = FALSE

EncodeFeed == Feeding /\ UNCHANGED keyAsked

\* Fault: the end of the raw queue is taken for the end of the work.
EncodeNoFlush ==
    /\ encPc = "flush" /\ encPc' = "abort"
    /\ UNCHANGED <<shared, capture, input, asKey, inside, out, encoded, sendClosed,
                   encErr, send, owedKey>>

\* Encoder::flush(): everything inside comes out.
EncodeFlush ==
    /\ encPc = "flush"
    /\ \/ out' = inside /\ inside' = <<>> /\ encPc' = "emitLast" /\ UNCHANGED encErr
       \/ EncodeFails /\ UNCHANGED <<inside, out>>
    /\ UNCHANGED <<shared, capture, input, asKey, encoded, sendClosed, send, owedKey>>

\* One frame of out: writeEncodedFrame(), which may fail, and ++encodedFrames;
\* without a send queue the frame is done with.
WriteOut ==
    /\ encPc \in {"emit", "emitLast"} /\ out # <<>>
    /\ \/ EncodeFails /\ UNCHANGED <<out, encoded>>
       \/ /\ encoded' = encoded + 1 /\ UNCHANGED encErr
          /\ IF Networked
             THEN /\ encPc' = IF encPc = "emit" THEN "push" ELSE "pushLast"
                  /\ UNCHANGED out
             ELSE out' = Tail(out) /\ UNCHANGED encPc
    /\ UNCHANGED <<shared, capture, input, asKey, inside, sendClosed, send, owedKey>>

Accepted(x) ==
    /\ sendQ' = Enqueued(sendQ, x) /\ UNCHANGED sendClosed
    /\ encPc' = IF encPc = "push" THEN "emit" ELSE "emitLast"

Refused == sendClosed' = TRUE /\ encPc' = "abort" /\ UNCHANGED sendQ

\* Fault: a full send queue costs its newest frame instead of blocking.
PushOrReplace(x) ==
    \/ sendQ.closed /\ Refused
    \/ ~sendQ.closed /\ ~IsFull(sendQ, SendCap) /\ Accepted(x)
    \/ /\ ~sendQ.closed /\ IsFull(sendQ, SendCap)
       /\ sendQ' = ForcedNewest(sendQ, SendCap, x) /\ UNCHANGED sendClosed
       /\ encPc' = IF encPc = "push" THEN "emit" ELSE "emitLast"

\* sendQueue_->push() blocks while the send queue is full and open.
PushOut(x) ==
    \/ sendQ.closed /\ Refused
    \/ ~sendQ.closed /\ ~IsFull(sendQ, SendCap) /\ Accepted(x)

EncodePush ==
    /\ encPc \in {"push", "pushLast"}
    /\ PushOut(Head(out)) /\ out' = Tail(out)
    /\ UNCHANGED <<rawQ, stop, abort, keyAsked, capture, input, asKey, inside,
                   encoded, encErr, send, owedKey>>

\* The end of the for loop over out.
WriteDone ==
    /\ out = <<>>
    /\ \/ encPc = "emit"     /\ encPc' = "pop"
       \/ encPc = "emitLast" /\ encPc' = "abort"
    /\ UNCHANGED <<shared, capture, input, asKey, inside, out, encoded, sendClosed,
                   encErr, send, owedKey>>

\* Fault: an encoder error ends the thread but is not announced.
AbortIfSendClosed == sendClosed

MustAbort == encErr \/ sendClosed

EncodeAbort ==
    /\ encPc = "abort"
    /\ abort' = (abort \/ MustAbort)
    /\ encPc' = "closeRaw"
    /\ UNCHANGED <<rawQ, sendQ, stop, keyAsked, capture, input, asKey, inside, out,
                   encoded, sendClosed, encErr, send, owedKey>>

\* queue_->close(), then sendQueue_->close().
EncodeClose ==
    /\ \/ /\ encPc = "closeRaw" /\ rawQ' = Closed(rawQ) /\ UNCHANGED sendQ
          /\ encPc' = IF Networked THEN "closeSend" ELSE "done"
       \/ /\ encPc = "closeSend" /\ sendQ' = Closed(sendQ) /\ UNCHANGED rawQ
          /\ encPc' = "done"
    /\ UNCHANGED <<stop, abort, keyAsked, capture, input, asKey, inside, out,
                   encoded, sendClosed, encErr, send, owedKey>>

-----------------------------------------------------------------------------
(* sendLoop()                                                              *)

\* sendQueue_->popFor(): a frame, or nothing at the deadline or after close.
SendPop ==
    /\ sendPc = "pop"
    /\ \/ /\ ~IsEmpty(sendQ)
          /\ sendQ' = Dequeued(sendQ) /\ sending' = <<Head(sendQ.items)>>
          /\ sendPc' = "packetize"
       \/ /\ IsEmpty(sendQ)
          /\ sendPc' = "isClosed"
          /\ UNCHANGED <<sendQ, sending>>
    /\ UNCHANGED <<rawQ, stop, abort, keyAsked, capture, encode, sent, sendErr, owedKey>>

\* packetize(), sendTo() of every packet (a failed sendTo is only counted),
\* FEC, the retransmit cache.  packetize() fails before anything is sent,
\* buildForFrame() after the frame's packets are out.
SendPacketize ==
    /\ sendPc = "packetize"
    /\ \/ sendPc' = "drain" /\ sent' = sent \o sending /\ UNCHANGED sendErr
       \/ sendPc' = "abort" /\ sent' \in {sent, sent \o sending} /\ sendErr' = TRUE
    /\ sending' = <<>>
    /\ UNCHANGED <<shared, capture, encode, owedKey>>

\* Fault: popFor()'s false only ever means that the time is up.
SendPollsOn ==
    /\ sendPc = "isClosed" /\ sendPc' = "drain"
    /\ UNCHANGED <<shared, capture, encode, sending, sent, sendErr, owedKey>>

\* else if (sendQueue_->isClosed()) break
SendIsClosed ==
    /\ sendPc = "isClosed"
    /\ sendPc' = IF sendQ.closed THEN "done" ELSE "drain"
    /\ UNCHANGED <<shared, capture, encode, sending, sent, sendErr, owedKey>>

\* Frames the encoder has taken the key flag for.
Started == captured - Len(rawQ.items) - (IF encPc = "encode" THEN 1 ELSE 0)

\* drainReverseChannel(): a PLI may be waiting; requestKeyFrame() then asks
\* for the next frame to be a key frame.
SendDrain ==
    /\ sendPc = "drain"
    /\ sendPc' = "pop"
    /\ \/ keyAsked' = TRUE /\ owedKey' = owedKey \cup {Started + 1}
       \/ UNCHANGED <<keyAsked, owedKey>>
    /\ UNCHANGED <<rawQ, sendQ, stop, abort, capture, encode, sending, sent, sendErr>>

\* sendStatus_ is an error: abort, then close both queues.
SendAbort ==
    /\ \/ /\ sendPc = "abort" /\ abort' = TRUE
          /\ sendPc' = "closeSend" /\ UNCHANGED <<rawQ, sendQ>>
       \/ /\ sendPc = "closeSend" /\ sendQ' = Closed(sendQ)
          /\ sendPc' = "closeRaw" /\ UNCHANGED <<rawQ, abort>>
       \/ /\ sendPc = "closeRaw" /\ rawQ' = Closed(rawQ)
          /\ sendPc' = "done" /\ UNCHANGED <<sendQ, abort>>
    /\ UNCHANGED <<stop, keyAsked, capture, encode, sending, sent, sendErr, owedKey>>

-----------------------------------------------------------------------------
\* The signal handler of app/sender/main.cpp.
StopRequest ==
    /\ ~stop /\ stop' = TRUE
    /\ UNCHANGED <<rawQ, sendQ, abort, keyAsked, capture, encode, send, owedKey>>

Finished == capPc = "done" /\ encPc = "done" /\ sendPc \in {"off", "done"}

\* run() joins the three threads and returns the first status that is not Ok.
ReturnsOk == ~capErr /\ ~encErr /\ ~sendErr

Returned == Finished /\ UNCHANGED vars

Init ==
    /\ rawQ = EmptyQueue /\ sendQ = EmptyQueue
    /\ stop = FALSE /\ abort = FALSE /\ keyAsked = FALSE
    /\ capPc = "read" /\ captured = 0 /\ capErr = FALSE
    /\ encPc = "pop" /\ input = <<>> /\ asKey = FALSE /\ inside = <<>> /\ out = <<>>
    /\ encoded = 0 /\ sendClosed = FALSE /\ encErr = FALSE
    /\ sendPc \in {"pop", "off"} /\ sending = <<>> /\ sent = <<>> /\ sendErr = FALSE
    /\ owedKey = {}

CaptureStep == CaptureRead \/ CapturePush \/ CaptureClose
EncodeStep  == \/ EncodePop \/ EncodeStart \/ EncodeFeed \/ EncodeFlush
               \/ WriteOut \/ EncodePush \/ WriteDone \/ EncodeAbort \/ EncodeClose
SendStep    == SendPop \/ SendPacketize \/ SendIsClosed \/ SendDrain \/ SendAbort

Next == CaptureStep \/ EncodeStep \/ SendStep \/ StopRequest \/ Returned

Spec == Init /\ [][Next]_vars

\* Each thread is run; readFrame(), the codec and popFor() return.
Fairness == WF_vars(CaptureStep) /\ WF_vars(EncodeStep) /\ WF_vars(SendStep)
FairSpec == Spec /\ Fairness

-----------------------------------------------------------------------------
(* Properties.                                                             *)

\* What leaves for the network is a gap-free prefix of what was captured, in
\* capture order, at every moment and through every failure: no thread loses,
\* repeats or overtakes a frame on the way.
SentIsPrefix ==
    /\ \A i \in 1 .. Len(sent) : sent[i].n = i
    /\ Len(sent) <= captured

\* A PLI is honoured by the first frame that reaches the encoder after it,
\* although it is set by the send thread while the encode thread may be in the
\* middle of a frame, and several PLIs may fall between two frames.
PliHonoured ==
    \A s \in {inside, out, sendQ.items, sending, sent} :
        \A i \in 1 .. Len(s) : s[i].n \in owedKey => s[i].key

\* A run that returns Ok, stopped by a signal or by itself, has encoded every
\* frame it captured, and every one of them was sent or still lies in the send
\* queue: the shutdown of the first two threads leaves no frame behind.
CleanEnd ==
    Finished /\ ReturnsOk =>
        /\ encoded = captured
        /\ Networked => Len(sent) + Len(sendQ.items) = captured

\* The threads abort each other exactly when run() reports the failure of the
\* encoder or of the sender; an end of the source or a signal is no failure.
AbortIsReported == Finished => (abort <=> encErr \/ sendErr)

\* run() returns: whatever fails, no thread stays blocked in a queue.
Terminates == <>Finished

\* What docs/CONVENTIONS.md and docs/M1 promise of a clean exit: after close()
\* the consumer takes what is left, no tail frame is lost.
NoTailLoss == Finished /\ ReturnsOk /\ Networked => Len(sent) = captured

=============================================================================
