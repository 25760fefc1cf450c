----------------------------- MODULE V4l2Source -----------------------------
(***************************************************************************)
(* modules/capture/V4l2Source.cpp with the driver it talks to, and         *)
(* NullSource.cpp as the other kind of source.  open() takes a descriptor, *)
(* a converter, the mappings of the driver's buffers and the stream, one   *)
(* after the other; each call may fail, and close() then has to give back  *)
(* what there is.  readFrame() borrows one buffer from the driver.         *)
(*                                                                         *)
(* The negotiated format and rate are abstracted to a geometry, a frame to *)
(* its buffer; clocks, pixels and log lines are left out.                  *)
(***************************************************************************)
EXTENDS Integers, Sequences, FiniteSets

CONSTANTS
    AskedBuffers,          \* what mapBuffers() asks for: 4 in the code
    Geometries, Requested, \* width x height and rate; what the configuration says
    \* bounds of the environment
    MaxOpens, MaxUnmapFailures, MaxFrames

ASSUME SourceAssumption ==
    /\ AskedBuffers \in Nat \ {0} /\ Requested \in Geometries
    /\ MaxOpens \in Nat /\ MaxUnmapFailures \in Nat /\ MaxFrames \in Nat

VARIABLES
    source,    \* the members, and the call that open() or readFrame() makes next;
               \* lost: VIDIOC_QBUF has failed (history)
    driver     \* external: what the process holds of the kernel and of libswscale

sourceVars == <<source, driver>>

\* The members after close(), which keeps kind and configuration.
ClosedSource(kind, leftover, step) ==
    [kind |-> kind, step |-> step, opened |-> FALSE, fd |-> FALSE, streaming |-> FALSE,
     sws |-> FALSE, buffers |-> leftover, geometry |-> Requested, frameId |-> 0,
     read |-> [index |-> 0, good |-> FALSE], lost |-> FALSE]

\* A buffer and its mapping are <<opens, index>>: which open() made it, and where the
\* driver has it.  stuck are the mappings munmap() refused to remove.
NoDriver ==
    [opens |-> 0, fds |-> 0, converters |-> 0, streaming |-> FALSE,
     states |-> <<>>, maps |-> {}, stuck |-> {}]

SourceInit ==
    /\ \E kind \in {"v4l2", "null"} : source = ClosedSource(kind, <<>>, "idle")
    /\ driver = NoDriver

Mappings == {source.buffers[i] : i \in DOMAIN source.buffers}

-----------------------------------------------------------------------------
(* close()                                                                 *)

\* Fault: what has been mapped is only removed from a source that streams.
UnmappedIfStreaming(stuck) == IF source.streaming THEN Mappings \ stuck ELSE {}

\* unmapBuffers()
Unmapped(stuck) == Mappings \ stuck

\* What is left of buffers_: an entry is erased, or the loop goes on behind it.
NotErased(stuck) ==
    LET left[i \in 0 .. Len(source.buffers)] ==
            IF i = 0 THEN <<>>
            ELSE IF source.buffers[i] \in stuck THEN Append(left[i - 1], source.buffers[i])
            ELSE left[i - 1]
    IN  left[Len(source.buffers)]

\* Stream, mappings, converter and descriptor go, each if there is one.  An entry
\* whose munmap() fails stays in buffers_.
Release(step) ==
    \E stuck \in SUBSET Mappings :
        /\ Cardinality(driver.stuck \cup stuck) <= MaxUnmapFailures
        /\ source' = ClosedSource(source.kind, NotErased(stuck), step)
        /\ driver' = [driver EXCEPT
               !.streaming  = @ /\ ~source.streaming,
               !.maps       = @ \ Unmapped(stuck),
               !.stuck      = @ \cup stuck,
               !.converters = @ - (IF source.sws THEN 1 ELSE 0),
               !.fds        = @ - (IF source.fd THEN 1 ELSE 0),
               !.states     = IF source.fd THEN <<>> ELSE @]

CloseSource == source.step = "idle" /\ Release("idle")

-----------------------------------------------------------------------------
(* open()                                                                  *)

AtStep(s) == source.kind = "v4l2" /\ source.step = s

\* What was open is closed first; a configuration that is not valid ends the call.
OpenSource ==
    /\ AtStep("idle") /\ driver.opens < MaxOpens
    /\ \E next \in {"device", "idle"} : Release(next)

\* A call of open() fails: open() closes and returns.
OpenFails ==
    /\ source.kind = "v4l2"
    /\ source.step \in {"device", "negotiate", "converter", "request", "map", "start"}
    /\ Release("idle")

\* openAndQueryDevice(): the device is open before its capabilities are asked for.
OpenDevice ==
    /\ AtStep("device") /\ ~source.fd
    /\ source' = [source EXCEPT !.fd = TRUE]
    /\ driver' = [driver EXCEPT !.fds = @ + 1, !.opens = @ + 1]

QueryDevice ==
    /\ AtStep("device") /\ source.fd
    /\ source' = [source EXCEPT !.step = "negotiate"]
    /\ UNCHANGED driver

\* negotiateFormatAndRate(): the driver may change what it was asked for; an odd
\* geometry or a format other than YUYV is refused.
Negotiate ==
    /\ AtStep("negotiate")
    /\ \E g \in Geometries : source' = [source EXCEPT !.step = "converter", !.geometry = g]
    /\ UNCHANGED driver

CreateConverter ==
    /\ AtStep("converter") /\ ~source.sws
    /\ source' = [source EXCEPT !.step = "request", !.sws = TRUE]
    /\ driver' = [driver EXCEPT !.converters = @ + 1]

\* mapBuffers(): the driver may give fewer buffers than asked for, then
\* each is mapped and its mapping appended to buffers_.
RequestBuffers ==
    /\ AtStep("request")
    /\ \E n \in 1 .. AskedBuffers :
          driver' = [driver EXCEPT !.states = [i \in 1 .. n |-> "idle"]]
    /\ source' = [source EXCEPT !.step = "map"]

MappedNow == {m \in driver.maps : m[1] = driver.opens}

MapBuffer ==
    /\ AtStep("map")
    /\ LET mapping == <<driver.opens, Cardinality(MappedNow) + 1>>
       IN  /\ source' = [source EXCEPT
                  !.buffers = Append(@, mapping),
                  !.step = IF mapping[2] = Len(driver.states) THEN "start" ELSE @]
           /\ driver' = [driver EXCEPT !.maps = @ \cup {mapping}]

\* VIDIOC_QBUF for every entry of buffers_; the driver refuses an index it does not have.
Queueable(n) == n <= Len(driver.states)

\* startStreaming()
StartStreaming ==
    /\ AtStep("start")
    /\ Queueable(Len(source.buffers))
    /\ source' = [source EXCEPT !.step = "idle", !.streaming = TRUE, !.opened = TRUE]
    /\ driver' = [driver EXCEPT !.streaming = TRUE,
                                !.states = [i \in DOMAIN @ |-> "queued"]]

\* NullSource: nothing is taken.
OpenNull ==
    /\ source.kind = "null" /\ driver.opens < MaxOpens
    /\ source' = [source EXCEPT !.opened = TRUE, !.frameId = 0]
    /\ driver' = [driver EXCEPT !.opens = @ + 1]

-----------------------------------------------------------------------------
(* readFrame()                                                             *)

\* external: the driver has captured a frame into a buffer.
Capture ==
    /\ driver.streaming
    /\ \E i \in DOMAIN driver.states :
          /\ driver.states[i] = "queued"
          /\ driver' = [driver EXCEPT !.states[i] = "filled"]
    /\ UNCHANGED source

\* waitForFrame() and VIDIOC_DQBUF, which change nothing when they fail.  An index
\* that is not in buffers_ and a frame that cannot be converted are not good.
Dequeue ==
    /\ AtStep("idle") /\ source.opened /\ source.frameId < MaxFrames
    /\ \E i \in DOMAIN driver.states, good \in BOOLEAN :
          /\ driver.states[i] = "filled"
          /\ source' = [source EXCEPT !.step = "return",
                            !.read = [index |-> i, good |-> good /\ i <= Len(source.buffers)]]
          /\ driver' = [driver EXCEPT !.states[i] = "borrowed"]

\* The buffer is lost to the driver if VIDIOC_QBUF does not work; a frame that is
\* good gets the next number.
Returned(works, hands) ==
    /\ AtStep("return")
    /\ source' = [source EXCEPT !.step = "idle", !.lost = @ \/ ~works,
                      !.frameId = IF works /\ source.read.good THEN @ + 1 ELSE @]
    /\ driver' = IF works /\ hands
                 THEN [driver EXCEPT !.states[source.read.index] = "queued"] ELSE driver

\* Fault: readFrame() returns as soon as a frame cannot be converted.
RequeueGood == \E works \in BOOLEAN : Returned(works, source.read.good)

\* VIDIOC_QBUF, also for a frame that is not good.
Requeue == \E works \in BOOLEAN : Returned(works, TRUE)

\* NullSource::readFrame()
ReadNull ==
    /\ source.kind = "null" /\ source.opened /\ source.frameId < MaxFrames
    /\ source' = [source EXCEPT !.frameId = @ + 1]
    /\ UNCHANGED driver

-----------------------------------------------------------------------------
OpenStep ==
    OpenFails \/ OpenDevice \/ QueryDevice \/ Negotiate \/ CreateConverter
        \/ RequestBuffers \/ MapBuffer \/ StartStreaming

ReadStep == Capture \/ Dequeue \/ Requeue \/ ReadNull

SourceNext == OpenSource \/ OpenNull \/ OpenStep \/ ReadStep \/ CloseSource

-----------------------------------------------------------------------------
(* Properties.                                                             *)

SourceIsClosed == source.step = "idle" /\ ~source.opened

\* A source that is not open holds nothing of the kernel, whichever call of open()
\* failed and whatever had been taken by then; only a mapping the kernel refused to
\* remove is left.
SourceReleased ==
    SourceIsClosed => /\ driver.fds = 0 /\ driver.converters = 0 /\ ~driver.streaming
                      /\ driver.maps \subseteq driver.stuck

\* Entry i of buffers_ is the mapping of the driver's buffer i: no frame is read from
\* a mapping of an earlier open() whose munmap() failed.  And between two reads all
\* buffers are with the driver, also after a frame that could not be converted:
\* capture never runs dry, unless VIDIOC_QBUF itself has failed.
BuffersAgree ==
    source.kind = "v4l2" /\ source.opened =>
        /\ source.buffers = [i \in DOMAIN driver.states |-> <<driver.opens, i>>]
        /\ source.step = "idle" /\ ~source.lost =>
               \A i \in DOMAIN driver.states : driver.states[i] # "borrowed"

=============================================================================
