-------------------------- MODULE ReceiverPipeline --------------------------
(***************************************************************************)
(* app/receiver/ReceiverPipeline.cpp: the receive, decode and render       *)
(* threads of one run(), queue A (coded frames) and queue B (pictures)     *)
(* between them, and the stop flags.  A queue operation is one step; work  *)
(* on state one thread owns belongs to the neighbouring access to shared   *)
(* state.  The jitter buffer, owned by the receive thread, is JitterOps.   *)
(*                                                                         *)
(* What the socket and the assembler produce is abstracted to complete     *)
(* frames 1 .. Sent, in order and without loss, so that every gap further  *)
(* down is of the pipeline's own making.  libavcodec and the renderer are  *)
(* external: each call succeeds or fails in one of the ways the code tells *)
(* apart.                                                                  *)
(***************************************************************************)
EXTENDS QueueOps, JitterOps

CONSTANTS
    ACap, BCap,  \* config_.decodeQueueFrames, config_.renderQueueFrames
    Sent,        \* bound: frames that arrive in all
    Streams,     \* what the sender may send: sets of key frames among 1 .. Sent
    FrameLimit   \* config_.maxFrames, 0 for none

ASSUME QueueAssumption == ACap \in Nat \ {0} /\ BCap \in Nat \ {0}
ASSUME StreamAssumption ==
    /\ Sent \in Nat /\ Streams \subseteq SUBSET (1 .. Sent) /\ FrameLimit \in Nat
    /\ 2 * Sent < IdMod

VARIABLES
    keys,                    \* environment: the stream's key frames
    A, B,                    \* queueA_, queueB_
    stop, stopping,          \* stopRequested, stopping_
    pc, ret,                 \* per thread: its position, where requestStop() returns to
    failed,                  \* some thread's Status is an error
    \* receive thread
    J, received, completed, holding,
    \* decode thread
    coded, inside, out, drained,
    \* history
    fed,                     \* last frame given to the decoder
    shown                    \* last picture given to the renderer

shared  == <<A, B, stop, stopping, failed>>
recv    == <<J, received, completed, holding>>
decode  == <<coded, inside, out, drained>>
history == <<fed, shown>>
vars    == <<keys, shared, pc, ret, recv, decode, history>>

Roles == {"recv", "decode", "render"}
Off   == "off"                           \* no renderer: the thread is not started
Rendering == pc["render"] # Off

\* Fault: a thread notices the signal but not another thread's stop.
SignalOnly == stop

shouldStop == stop \/ stopping

\* The counters of a queue are left out, they are only logged.
Uncounted(Q) == [Q EXCEPT !.dropped = 0, !.peak = 0]

At(t, l) == pc[t] = l
Go(t, l) == pc' = [pc EXCEPT ![t] = l] /\ UNCHANGED ret

\* t calls requestStop() and continues at l.
StopThen(t, l) ==
    /\ pc' = [pc EXCEPT ![t] = "storeStopping"]
    /\ ret' = [ret EXCEPT ![t] = l]

Fail == failed' = TRUE

\* requestStop()
RequestStop(t) ==
    /\ \/ /\ At(t, "storeStopping") /\ stopping' = TRUE
          /\ Go(t, "closeA") /\ UNCHANGED <<A, B>>
       \/ /\ At(t, "closeA") /\ A' = Closed(A)
          /\ Go(t, "closeB") /\ UNCHANGED <<B, stopping>>
       \/ /\ At(t, "closeB") /\ B' = Closed(B)
          /\ pc' = [pc EXCEPT ![t] = ret[t]] /\ ret' = [ret EXCEPT ![t] = "done"]
          /\ UNCHANGED <<A, stopping>>
    /\ UNCHANGED <<stop, failed, recv, decode, history>>

-----------------------------------------------------------------------------
(* recvLoop()                                                              *)

FrameOf(n) == [id |-> n, n |-> n, key |-> n \in keys]

\* Behind the loops: what is left is delivered after a normal end.
AfterLoop == IF Rendering THEN "drain" ELSE "done"

\* if (completedNormally) break
AfterDue == IF completed THEN AfterLoop ELSE "loop"

\* Back from a refused tryPush(): in one of the two loops that deliver.
Resumed == IF holding = "drain" THEN "drain" ELSE AfterDue

\* The loop test, recvFrom() and the frames the packet completed.
RecvReceive ==
    /\ At("recv", "loop")
    /\ \/ /\ shouldStop                            \* the loop is left
          /\ StopThen("recv", "done") /\ UNCHANGED <<J, received, completed, failed>>
       \/ /\ ~shouldStop                           \* idleTimeoutMs has passed
          /\ completed' = TRUE
          /\ Go("recv", AfterLoop) /\ UNCHANGED <<J, received, failed>>
       \/ /\ ~shouldStop                           \* no frame: timeout, error, fragment
          /\ Go("recv", "due") /\ UNCHANGED <<J, received, completed, failed>>
       \/ /\ ~shouldStop /\ received < Sent        \* a frame that cannot be dumped
          /\ received' = received + 1
          /\ Fail /\ StopThen("recv", "due") /\ UNCHANGED <<J, completed>>
       \/ /\ ~shouldStop /\ received < Sent        \* a frame
          /\ received' = received + 1
          /\ \E due \in BOOLEAN :
                J' = IF Rendering THEN Pushed(J, FrameOf(received + 1), due) ELSE J
          /\ completed' = (FrameLimit > 0 /\ received + 1 >= FrameLimit)
          /\ Go("recv", "due") /\ UNCHANGED failed
    /\ UNCHANGED <<A, B, stop, stopping, holding, decode, history>>

\* Before the frames that are due are handed on.
RecvMayDeliver ==
    /\ At("recv", "due")
    /\ Go("recv", IF Rendering /\ ~shouldStop THEN "deliver" ELSE AfterDue)
    /\ UNCHANGED <<shared, recv, decode, history>>

\* jitter_.pop() and queueA_.tryPush().
Deliver(next) ==
    \E e \in J.pending :
        /\ IsDue(J, e)
        /\ J' = Popped(J, e)
        /\ IF A.closed \/ IsFull(A, ACap)
           THEN Go("recv", "rejected") /\ holding' = next /\ UNCHANGED A
           ELSE A' = Uncounted(Enqueued(A, e.frame.n)) /\ UNCHANGED <<pc, ret, holding>>

NothingDue == \A e \in J.pending : ~IsDue(J, e)

RecvDeliver ==
    /\ At("recv", "deliver")
    /\ \/ Deliver("due")
       \/ NothingDue /\ Go("recv", AfterDue) /\ UNCHANGED <<A, J, holding>>
    /\ UNCHANGED <<B, stop, stopping, failed, received, completed, decode, history>>

\* Fault: only the queue is emptied, decoding goes on in mid-chain.
FuseQueueOnly ==
    /\ At("recv", "fuse")
    /\ A' = Uncounted(Cleared(A)) /\ Go("recv", Resumed)
    /\ UNCHANGED <<B, stop, stopping, failed, recv, decode, history>>

\* queueA_.clear(), jitter_.dropUntilKeyFrame(), requestKeyFrame()
RecvFuse ==
    /\ At("recv", "fuse")
    /\ A' = Uncounted(Cleared(A))
    /\ J' = ClosedUntilKey(J)
    /\ Go("recv", Resumed)
    /\ UNCHANGED <<B, stop, stopping, failed, received, completed, holding, decode, history>>

\* After a refused tryPush(): a stop, or a queue that overflows.  A stop sends
\* the drain loop straight to queueA_.close().
RecvRejected ==
    /\ At("recv", "rejected")
    /\ Go("recv", IF ~shouldStop THEN "fuse"
                  ELSE IF holding = "drain" THEN "closeQueueA" ELSE AfterDue)
    /\ UNCHANGED <<shared, recv, decode, history>>

\* Fault: the end of the run does not wait for frames that are not due.
RecvDrainDueOnly ==
    /\ At("recv", "drain")
    /\ \/ /\ NothingDue \/ shouldStop
          /\ Go("recv", "closeQueueA") /\ UNCHANGED <<A, J, holding>>
       \/ ~shouldStop /\ Deliver("drain")
    /\ UNCHANGED <<B, stop, stopping, failed, received, completed, decode, history>>

\* The tail: frames still in the jitter buffer are waited for.
RecvDrain ==
    /\ At("recv", "drain")
    /\ \/ /\ J.pending = {} \/ shouldStop
          /\ Go("recv", "closeQueueA") /\ UNCHANGED <<A, J, holding>>
       \/ ~shouldStop /\ Deliver("drain")
    /\ UNCHANGED <<B, stop, stopping, failed, received, completed, decode, history>>

RecvCloseA ==
    /\ At("recv", "closeQueueA")
    /\ A' = Closed(A) /\ Go("recv", "done")
    /\ UNCHANGED <<B, stop, stopping, failed, recv, decode, history>>

TimePasses == \E e \in J.pending :
    /\ ~e.due
    /\ J' = Ripened(J, e)
    /\ UNCHANGED <<shared, pc, ret, received, completed, holding, decode, history>>

-----------------------------------------------------------------------------
(* decodeLoop()                                                            *)

DecodeLoop ==
    /\ At("decode", "loop")
    /\ Go("decode", IF shouldStop THEN "ended" ELSE "pop")
    /\ UNCHANGED <<shared, recv, decode, history>>

\* queueA_.pop() blocks while A is empty and open.
DecodePop ==
    /\ At("decode", "pop")
    /\ \/ /\ ~IsEmpty(A)
          /\ A' = Dequeued(A) /\ coded' = Head(A.items)
          /\ Go("decode", "decode")
       \/ /\ IsEmpty(A) /\ A.closed
          /\ Go("decode", "closed") /\ UNCHANGED <<A, coded>>
    /\ UNCHANGED <<B, stop, stopping, failed, recv, inside, out, drained, history>>

\* inputClosedNormally = !shouldStop()
DecodeClosed ==
    /\ At("decode", "closed")
    /\ drained' = ~shouldStop
    /\ Go("decode", "ended")
    /\ UNCHANGED <<shared, recv, coded, inside, out, history>>

\* decoder_.decode(): some of the pictures it holds come out, or the frame is
\* undecodable (NetError), or the decoder is broken.
DecodeFrame ==
    /\ At("decode", "decode")
    /\ \/ /\ shouldStop /\ Go("decode", "ended")
          /\ UNCHANGED <<failed, inside, out, fed>>
       \/ /\ ~shouldStop /\ fed' = coded
          /\ \/ Go("decode", "loop") /\ UNCHANGED <<failed, inside, out>>
             \/ Fail /\ StopThen("decode", "ended") /\ UNCHANGED <<inside, out>>
             \/ /\ \E k \in 0 .. Len(inside) + 1 :
                      LET all == Append(inside, coded)
                      IN  out' = SubSeq(all, 1, k) /\ inside' = SubSeq(all, k + 1, Len(all))
                /\ Go("decode", "output") /\ UNCHANGED failed
    /\ coded' = 0
    /\ UNCHANGED <<A, B, stop, stopping, recv, drained, shown>>

\* queueB_.forcePush() of one picture; a refusal ends the loop at next.
Output(next, closed) ==
    /\ out # <<>>
    /\ \/ B.closed /\ Go("decode", closed) /\ UNCHANGED <<B, out>>
       \/ /\ ~B.closed
          /\ B' = Uncounted(Forced(B, BCap, Head(out))) /\ out' = Tail(out) /\ UNCHANGED <<pc, ret>>

DecodeOutput ==
    /\ \/ At("decode", "output") /\ Output("loop", "ended")
       \/ /\ At("decode", "output") /\ out = <<>>
          /\ Go("decode", "loop") /\ UNCHANGED <<B, out>>
       \/ At("decode", "flushed") /\ Output("flushed", "closeQueueB")
       \/ /\ At("decode", "flushed") /\ out = <<>>
          /\ Go("decode", "closeQueueB") /\ UNCHANGED <<B, out>>
    /\ UNCHANGED <<A, stop, stopping, failed, recv, coded, inside, drained, history>>

\* After the loop: flush after a normal end, requestStop() otherwise.
DecodeEnded ==
    /\ At("decode", "ended")
    /\ \/ /\ drained
          /\ out' = inside /\ inside' = <<>>
          /\ Go("decode", "flushed") /\ UNCHANGED failed
       \/ /\ drained /\ Fail /\ StopThen("decode", "done")
          /\ UNCHANGED <<inside, out>>
       \/ /\ ~drained /\ StopThen("decode", "done")
          /\ UNCHANGED <<failed, inside, out>>
    /\ UNCHANGED <<A, B, stop, stopping, recv, coded, drained, history>>

DecodeCloseB ==
    /\ At("decode", "closeQueueB")
    /\ B' = Closed(B) /\ Go("decode", "done")
    /\ UNCHANGED <<A, stop, stopping, failed, recv, decode, history>>

-----------------------------------------------------------------------------
(* renderLoop()                                                            *)

RenderOpen ==
    /\ At("render", "open")
    /\ \/ Go("render", "loop") /\ UNCHANGED failed
       \/ Fail /\ StopThen("render", "done")
    /\ UNCHANGED <<A, B, stop, stopping, recv, decode, history>>

\* The loop test and pumpEvents(): the user may have closed the window.
RenderLoop ==
    /\ At("render", "loop")
    /\ \/ shouldStop /\ Go("render", "ended")
       \/ ~shouldStop /\ StopThen("render", "ended")
       \/ ~shouldStop /\ Go("render", "pop")
    /\ UNCHANGED <<shared, recv, decode, history>>

\* queueB_.popFor() and renderFrame(); a picture it cannot show (InvalidArg)
\* is passed over, any other error is fatal.
RenderPop ==
    /\ At("render", "pop")
    /\ \/ /\ ~IsEmpty(B)
          /\ B' = Dequeued(B) /\ shown' = Head(B.items)
          /\ \/ Go("render", "loop") /\ UNCHANGED failed
             \/ Fail /\ StopThen("render", "ended")
       \/ /\ IsEmpty(B) /\ Go("render", "isClosed")
          /\ UNCHANGED <<B, failed, shown>>
    /\ UNCHANGED <<A, stop, stopping, recv, decode, fed>>

\* else if (queueB_.isClosed()) break
RenderIsClosed ==
    /\ At("render", "isClosed")
    /\ Go("render", IF B.closed THEN "ended" ELSE "loop")
    /\ UNCHANGED <<shared, recv, decode, history>>

RenderEnded ==
    /\ At("render", "ended")
    /\ IF shouldStop THEN StopThen("render", "done") ELSE Go("render", "done")
    /\ UNCHANGED <<shared, recv, decode, history>>

-----------------------------------------------------------------------------
\* The signal handler of app/receiver/main.cpp.
StopRequest ==
    /\ ~stop /\ stop' = TRUE
    /\ UNCHANGED <<A, B, stopping, failed, pc, ret, recv, decode, history>>

Finished == \A t \in Roles : pc[t] \in {"done", Off}
Returned == Finished /\ UNCHANGED vars

Init ==
    /\ keys \in Streams
    /\ A = EmptyQueue /\ B = EmptyQueue
    /\ stop = FALSE /\ stopping = FALSE /\ failed = FALSE
    /\ pc \in {[recv |-> "loop", decode |-> "loop", render |-> "open"],
               [recv |-> "loop", decode |-> Off,    render |-> Off]}
    /\ ret = [t \in Roles |-> "done"]
    /\ J = EmptyJitter /\ received = 0 /\ completed = FALSE /\ holding = "due"
    /\ coded = 0 /\ inside = <<>> /\ out = <<>> /\ drained = FALSE
    /\ fed = 0 /\ shown = 0

RecvStep   == \/ RecvReceive \/ RecvMayDeliver \/ RecvDeliver \/ RecvRejected \/ RecvFuse
              \/ RecvDrain \/ RecvCloseA \/ RequestStop("recv")
DecodeStep == \/ DecodeLoop \/ DecodePop \/ DecodeClosed \/ DecodeFrame \/ DecodeOutput
              \/ DecodeEnded \/ DecodeCloseB \/ RequestStop("decode")
RenderStep == \/ RenderOpen \/ RenderLoop \/ RenderPop \/ RenderIsClosed \/ RenderEnded
              \/ RequestStop("render")

Next ==
    /\ RecvStep \/ DecodeStep \/ RenderStep \/ TimePasses \/ StopRequest \/ Returned
    /\ UNCHANGED keys

Spec == Init /\ [][Next]_vars

\* Each thread is run, every external call returns (recvFrom() and popFor()
\* at their timeout), and play times are reached.
Fairness ==
    /\ WF_vars(RecvStep /\ UNCHANGED keys) /\ WF_vars(DecodeStep /\ UNCHANGED keys)
    /\ WF_vars(RenderStep /\ UNCHANGED keys) /\ WF_vars(TimePasses /\ UNCHANGED keys)
FairSpec == Spec /\ Fairness

-----------------------------------------------------------------------------
(* Properties.                                                             *)

\* The decoder never gets a frame whose reference the pipeline has thrown
\* away: a frame that is not a key frame follows its predecessor.  When queue
\* A overflows, the frames in it, the refused one and those in the jitter
\* buffer go, whatever the decode thread takes out meanwhile.
DecoderChain == [][fed' # fed => fed' \in keys \/ fed' = fed + 1]_vars

\* Pictures are shown in stream order, although queue B gives up its oldest
\* picture whenever the render thread is slow.
ShownInOrder == [][shown' # shown => shown' > shown]_vars

\* The end of a run nobody stopped (frame limit or idle timeout) leaves no
\* frame in the jitter buffer, queue A or the decoder: the threads shut down
\* one after the other and each waits for what is in front of it.  And no
\* thread has failed in it: a failure stops the whole pipeline.
UnstoppedEnd == Finished /\ ~stop /\ ~stopping /\ Rendering

NothingLeftInside == UnstoppedEnd =>
    /\ ~failed
    /\ J.pending = {} /\ IsEmpty(A)
    /\ inside = <<>> /\ out = <<>>

\* After a signal, the failure of a thread, a closed window or a normal end
\* run() returns: no thread stays blocked in a queue and none waits for another
\* that waits for it.
StopReturns == (stop \/ stopping \/ completed \/ failed) ~> Finished

=============================================================================
