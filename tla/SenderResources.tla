-------------------------- MODULE SenderResources --------------------------
(***************************************************************************)
(* SenderPipeline::run() from validateConfig() to closeResources(): what   *)
(* the process holds, whichever step fails.  The source is V4l2Source or   *)
(* NullSource; the encoder, the socket and the two dump files are held or  *)
(* not.  The threads of a run are in SenderPipeline.                       *)
(***************************************************************************)
EXTENDS V4l2Source

VARIABLE sender    \* configuration, stage of run(), resources held

senderVars == <<sender, source, driver>>

SenderInit ==
    /\ SourceInit
    /\ \E wanted \in SUBSET {"socket", "raw", "h264"} :
          sender = [wanted |-> wanted, stage |-> "new", held |-> {}, encoder |-> Requested]

At(stage) == sender.stage = stage

\* run(): once, with a valid configuration; openResources() opens the source first.
Run ==
    /\ At("new")
    /\ \/ sender' = [sender EXCEPT !.stage = "done"] /\ UNCHANGED sourceVars
       \/ sender' = [sender EXCEPT !.stage = "source"] /\ (OpenSource \/ OpenNull)

\* The source's own steps.
SourceOpens == At("source") /\ OpenStep /\ UNCHANGED sender

SourceIsOpen ==
    /\ At("source") /\ source.step = "idle"
    /\ sender' = [sender EXCEPT !.stage = IF source.opened THEN "encoder" ELSE "close"]
    /\ UNCHANGED sourceVars

\* Fault: the encoder is opened with what the configuration asks for.
ConfiguredGeometry == Requested

\* actualConfig(): what the source has negotiated.
EncoderGeometry == source.geometry

\* Encoder::open(); on failure it has freed what it had.
OpenEncoder ==
    /\ At("encoder")
    /\ \/ sender' = [sender EXCEPT !.stage = "socket", !.encoder = EncoderGeometry,
                                   !.held = @ \cup {"encoder"}]
       \/ sender' = [sender EXCEPT !.stage = "close"]
    /\ UNCHANGED sourceVars

\* The socket if there is a target, a dump file if it has a path.
Acquire(resource, next) ==
    /\ At(resource)
    /\ \/ /\ resource \in sender.wanted
          /\ \/ sender' = [sender EXCEPT !.stage = next, !.held = @ \cup {resource}]
             \/ sender' = [sender EXCEPT !.stage = "close"]
       \/ resource \notin sender.wanted /\ sender' = [sender EXCEPT !.stage = next]
    /\ UNCHANGED sourceVars

\* The rest of openResources(), in its order.
OpenRest ==
    Acquire("socket", "raw") \/ Acquire("raw", "h264") \/ Acquire("h264", "running")

\* captureLoop() reads.
CaptureFrame == At("running") /\ ReadStep /\ UNCHANGED sender

\* The threads have ended, for whatever reason, and are joined.
JoinThreads ==
    /\ At("running") /\ source.step = "idle"
    /\ sender' = [sender EXCEPT !.stage = "close"]
    /\ UNCHANGED sourceVars

\* closeResources()
CloseSenderResources ==
    /\ At("close")
    /\ sender' = [sender EXCEPT !.stage = "done",
                                !.held = @ \ {"raw", "h264", "socket", "encoder"}]
    /\ Release("idle")

SenderNext ==
    Run \/ SourceOpens \/ SourceIsOpen \/ OpenEncoder \/ OpenRest \/ CaptureFrame
        \/ JoinThreads \/ CloseSenderResources

-----------------------------------------------------------------------------
(* Properties.                                                             *)

\* When run() has returned, nothing is held, whichever step failed.
SenderReleased == At("done") => sender.held = {} /\ SourceIsClosed

\* While frames are captured the encoder is open for exactly the geometry they have,
\* although the driver may change what it was asked for after run() has checked that
\* source and encoder agree; Encoder::encode() refuses every other frame.
GeometryAgrees ==
    "encoder" \in sender.held /\ source.opened => sender.encoder = source.geometry

=============================================================================
