------------------------- MODULE ReceiverResources -------------------------
(***************************************************************************)
(* ReceiverPipeline::open() and run(): what the process holds.  Socket,    *)
(* dump file and decoder are taken by open() and given back by             *)
(* closeResources(); the renderer's own resources (SDL, window, renderer,  *)
(* texture) are taken and given back by the render thread.  The queues and *)
(* the loops of the threads are in ReceiverPipeline.                       *)
(***************************************************************************)
EXTENDS Integers, FiniteSets, Sequences

CONSTANT Sizes      \* geometries of decoded frames

VARIABLES
    receiver,    \* configuration, stage of open() and run(), resources held
    render       \* the render thread: where it is, what it holds, size of its texture

receiverVars == <<receiver, render>>

\* SdlRenderer and NullRenderer as constructed and after close().
NoRenderer(step) == [step |-> step, held |-> {}, texture |-> {}]

ReceiverInit ==
    /\ \E h264 \in BOOLEAN, kind \in {"none", "null", "sdl"} :
          receiver = [h264 |-> h264, kind |-> kind, stage |-> "new", held |-> {},
                      stopping |-> FALSE]
    /\ render = NoRenderer("none")

ReceiverAt(stage) == receiver.stage = stage

\* Fault: the decoder does not give back its converter.
ClosedButConverter(held) == held \ {"h264", "decoder", "socket"}

\* closeResources(): the dump file, the decoder with its converter, the socket.
ClosedAll(held) == held \ {"h264", "decoder", "converter", "socket"}

-----------------------------------------------------------------------------
(* open()                                                                  *)

\* A step fails: closeResources(), and open() may be called again.
OpenReturnsError ==
    /\ \/ ReceiverAt("bind")
       \/ ReceiverAt("h264") /\ receiver.h264
       \/ ReceiverAt("decoder") /\ receiver.kind # "none"
    /\ receiver' = [receiver EXCEPT !.stage = "new", !.held = ClosedAll(@)]
    /\ UNCHANGED render

\* validateConfig() and UdpSocket::open()
OpenSocket ==
    /\ ReceiverAt("new")
    /\ receiver' = [receiver EXCEPT !.stage = "bind", !.held = @ \cup {"socket"}]
    /\ UNCHANGED render

\* UdpSocket::bind()
Bind ==
    /\ ReceiverAt("bind")
    /\ receiver' = [receiver EXCEPT !.stage = "h264"]
    /\ UNCHANGED render

OpenDump ==
    /\ ReceiverAt("h264")
    /\ receiver' = [receiver EXCEPT !.stage = "decoder",
                        !.held = @ \cup IF receiver.h264 THEN {"h264"} ELSE {}]
    /\ UNCHANGED render

\* Decoder::open() and createRenderer(), which takes nothing yet.
OpenDecoder ==
    /\ ReceiverAt("decoder")
    /\ receiver' = [receiver EXCEPT !.stage = "open",
                        !.held = @ \cup IF receiver.kind # "none" THEN {"decoder"} ELSE {}]
    /\ UNCHANGED render

-----------------------------------------------------------------------------
(* run()                                                                   *)

StartThreads ==
    /\ ReceiverAt("open")
    /\ receiver' = [receiver EXCEPT !.stage = "running"]
    /\ render' = IF receiver.kind = "none" THEN render ELSE [render EXCEPT !.step = "open"]

\* requestStop() by any thread, or the caller's flag.
Stop ==
    /\ ReceiverAt("running")
    /\ receiver' = [receiver EXCEPT !.stopping = TRUE]
    /\ UNCHANGED render

\* The decode thread: a format other than YUV420P needs a converter.
ConvertPicture ==
    /\ ReceiverAt("running") /\ "decoder" \in receiver.held
    /\ receiver' = [receiver EXCEPT !.held = @ \cup {"converter"}]
    /\ UNCHANGED render

\* SdlRenderer::open(): the part that comes next succeeds.
SdlParts == <<"sdl", "window", "renderer">>

OpenRenderer ==
    /\ render.step = "open"
    /\ LET n == Cardinality(render.held) + 1
       IN  render' = IF receiver.kind = "sdl" /\ n <= Len(SdlParts)
                     THEN [render EXCEPT !.held = @ \cup {SdlParts[n]}]
                     ELSE [render EXCEPT !.step = "loop"]
    /\ UNCHANGED receiver

\* renderFrame() of SdlRenderer: ensureTexture() replaces a texture of another size.
RenderSdl ==
    /\ render.step = "loop" /\ receiver.kind = "sdl"
    /\ \E size \in Sizes :
          render' = [render EXCEPT !.held = @ \cup {"texture"}, !.texture = {size}]
    /\ UNCHANGED receiver

\* ensureTexture() fails, its old texture is gone: the loop ends with an error.
TextureFails ==
    /\ render.step = "loop" /\ receiver.kind = "sdl"
    /\ \E size \in Sizes : render.texture # {size}
    /\ render' = [render EXCEPT !.step = "close", !.held = @ \ {"texture"}, !.texture = {}]
    /\ receiver' = [receiver EXCEPT !.stopping = TRUE]

\* The loop ends: stop, quit event, closed queue, an error.
EndLoop ==
    /\ render.step = "loop"
    /\ render' = [render EXCEPT !.step = "close"]
    /\ receiver' \in {receiver, [receiver EXCEPT !.stopping = TRUE]}

\* SdlRenderer::close(); nothing to give back in NullRenderer.
CloseRenderer ==
    /\ render.step = "close"
    /\ render' = NoRenderer("ended")
    /\ UNCHANGED receiver

\* SDL, window or renderer cannot be had: open() and renderLoop() close.
OpenRendererFails ==
    /\ render.step = "open" /\ receiver.kind = "sdl"
    /\ render' = NoRenderer("ended")
    /\ receiver' = [receiver EXCEPT !.stopping = TRUE]

\* All threads have ended, by requestStop() or with the input, and are joined.
JoinReceiverThreads ==
    /\ ReceiverAt("running") /\ render.step \in {"none", "ended"}
    /\ receiver' = [receiver EXCEPT !.stage = "close"]
    /\ UNCHANGED render

\* After the join.
CloseReceiverResources ==
    /\ ReceiverAt("close")
    /\ receiver' = [receiver EXCEPT !.stage = "done", !.held = ClosedAll(@)]
    /\ UNCHANGED render

ReceiverNext ==
    OpenSocket \/ Bind \/ OpenDump \/ OpenDecoder \/ OpenReturnsError
        \/ StartThreads \/ Stop \/ ConvertPicture \/ OpenRenderer \/ OpenRendererFails \/ RenderSdl
        \/ TextureFails \/ EndLoop \/ CloseRenderer \/ JoinReceiverThreads
        \/ CloseReceiverResources

-----------------------------------------------------------------------------
(* Properties.                                                             *)

\* After run(), and after an open() that failed, nothing is held: closeResources()
\* does not know of the renderer's parts, the render thread has to have returned
\* them on each of its ways out.
ReceiverReleased ==
    receiver.stage \in {"new", "done"} => receiver.held = {} /\ render.held = {}

=============================================================================
