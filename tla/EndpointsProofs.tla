-------------------------- MODULE EndpointsProofs --------------------------
(***************************************************************************)
(* The processes at the two ends give back what they take, whichever call  *)
(* of theirs fails, and a frame keeps its number and capture time through  *)
(* both codecs; for all numbers of buffers, geometries, failures, frames   *)
(* and capacities of queue B.                                              *)
(*                                                                         *)
(* The source: what the members say is held is exactly what the kernel     *)
(* holds (Held), and the mappings of this open() are the last entries of   *)
(* the list (Mapped), behind those that munmap() has refused to remove; a  *)
(* list with such leftovers is longer than the driver's table, therefore   *)
(* never streams, and the table of an open source has none of them.        *)
(*                                                                         *)
(* The codecs: frames go into the decoder in the order of the sender and   *)
(* its entries keep that order (DecoderInv).  A picture whose entry is     *)
(* found takes all older entries with it, so a frame whose number and time *)
(* are known is newer than all such frames that have left and older than   *)
(* all that will (OutputInv), in whatever order the pictures themselves    *)
(* come out.  Numbers and times that go to the renderer have been cut to   *)
(* 32 bits and say this only as long as none has come round (NoAlarm).     *)
(***************************************************************************)
EXTENDS Endpoints, SequenceTheorems, FiniteSetTheorems, TLAPS

Lib == INSTANCE SharedLemmas

\* Which open() made it, and the place in its table.
Mapping == Nat \X Nat

SourceSteps ==
    {"idle", "device", "negotiate", "converter", "request", "map", "start", "return"}

BufferStates == {"idle", "queued", "filled", "borrowed"}

\* The members of a source, and what is held for it.
SourceType ==
    /\ source \in [kind: {"v4l2", "null"}, step: SourceSteps, opened: BOOLEAN, fd: BOOLEAN,
                   streaming: BOOLEAN, sws: BOOLEAN, buffers: Seq(Mapping),
                   geometry: Geometries, frameId: Nat,
                   read: [index: Nat, good: BOOLEAN], lost: BOOLEAN]
    /\ driver \in [opens: Nat, fds: Int, converters: Int, streaming: BOOLEAN,
                   states: Seq(BufferStates), maps: SUBSET Mapping, stuck: SUBSET Mapping]

\* What the members say is held, is held, and no more.
Held ==
    /\ driver.fds = IF source.fd THEN 1 ELSE 0
    /\ driver.converters = IF source.sws THEN 1 ELSE 0
    /\ driver.streaming = source.streaming
    /\ driver.maps \subseteq Mappings \cup driver.stuck
    /\ SourceIsClosed => driver.maps \subseteq driver.stuck

\* How far open() has come.
Progress ==
    /\ source.step # "device" => (source.fd <=> ~SourceIsClosed)
    /\ source.sws <=> source.opened \/ source.step \in {"request", "map", "start"}
    /\ source.streaming <=> source.opened
    /\ source.step \notin {"idle", "return"} => ~source.opened
    /\ source.step = "return" => source.opened

\* There is a table of this open().
OfThisOpen == source.opened \/ source.step \in {"map", "start"}

\* The mappings of this open() are the last entries, in the order of the buffers.
Mapped ==
    /\ \A m \in driver.maps : m[1] <= driver.opens
    /\ source.fd /\ ~OfThisOpen => \A m \in driver.maps : m[1] < driver.opens
    /\ OfThisOpen =>
          \E k \in 0 .. Len(driver.states) :
             /\ MappedNow = {<<driver.opens, i>> : i \in 1 .. k}
             /\ k <= Len(source.buffers)
             /\ \A i \in 1 .. k :
                   source.buffers[(Len(source.buffers) - k) + i] = <<driver.opens, i>>
             /\ source.step = "map" => k < Len(driver.states)
             /\ source.step # "map" => k = Len(driver.states)
             /\ source.opened => k = Len(source.buffers)

\* One buffer at most is neither the driver's nor lost.
Borrowed ==
    source.opened /\ ~source.lost =>
        \A i \in DOMAIN driver.states :
            driver.states[i] = "borrowed" => source.step = "return" /\ source.read.index = i

\* NullSource takes nothing.
NullInv ==
    source.kind = "null" =>
        /\ source.step = "idle" /\ ~source.fd /\ ~source.sws /\ ~source.streaming
        /\ source.buffers = <<>> /\ driver.maps = {} /\ driver.states = <<>>

\* A source, whoever uses it.
SourceInv ==
    SourceType /\ Held
    /\ (source.kind = "v4l2" => Progress /\ Mapped /\ Borrowed) /\ NullInv

SenderStages == {"new", "source", "encoder", "socket", "raw", "h264", "running", "close", "done"}

\* How far run() of the sender has come, and what the source does at that point.
SenderInv ==
    /\ sender \in [wanted: SUBSET {"socket", "raw", "h264"}, stage: SenderStages,
                   held: SUBSET {"encoder", "socket", "raw", "h264"}, encoder: Geometries]
    /\ sender.stage \in {"new", "source", "encoder", "done"} => sender.held = {}
    /\ role = "sender" =>
          /\ sender.stage \in {"new", "done"} => SourceIsClosed
          /\ sender.stage \in {"encoder", "socket", "raw", "h264", "running"} => source.opened
          /\ sender.stage # "running" => source.step # "return"
          /\ sender.stage \in {"encoder", "socket", "raw", "h264", "close"} => source.step = "idle"
    /\ role # "sender" => sender.stage = "new"
    /\ GeometryAgrees

RenderSteps == {"none", "open", "loop", "close", "ended"}

\* The members of a receiver and its render thread.
ReceiverType ==
    /\ receiver \in [h264: BOOLEAN, kind: {"none", "null", "sdl"},
                     stage: {"new", "bind", "h264", "decoder", "open", "running", "close", "done"},
                     held: SUBSET {"socket", "h264", "decoder", "converter"}, stopping: BOOLEAN]
    /\ render \in [step: RenderSteps, held: SUBSET {"sdl", "window", "renderer", "texture"},
                   texture: SUBSET Sizes]

\* Outside of run() the render thread has nothing.
ReceiverInv ==
    /\ ReceiverType
    /\ receiver.stage \in {"new", "done"} => receiver.held = {}
    /\ render.step \in {"none", "ended"} => render.held = {}
    /\ receiver.stage # "running" => render.step \in {"none", "ended"}

\* A number and a capture time; the map of a codec; a frame on its way.
Meta   == [id: Nat, ms: Nat]
Entry  == [pts: Nat, n: Nat, meta: Meta]
Codec  == [pending: SUBSET Entry, inside: SUBSET [pts: Nat, n: Nat],
           nextPts: Nat, draining: BOOLEAN, ended: BOOLEAN]
Picture == [n: Nat, meta: Meta]

\* The two codecs and what is between and behind them.
ChainType ==
    /\ encoder \in Codec /\ decoder \in Codec
    /\ coded \in Seq(Picture) /\ arrived \in 0 .. Len(coded) /\ queueB \in Seq(Picture)
    /\ renderer \in [prev: Meta, refused: SUBSET Nat]

\* The encoder's entries are those of the frames; its frames come out in order.
EncoderInv ==
    /\ \A e \in encoder.pending : e.pts < encoder.nextPts /\ e.meta = MetaOf(e.pts)
    /\ \A f \in encoder.inside :
          /\ f.pts < encoder.nextPts /\ f.n = f.pts
          /\ \E e \in encoder.pending : e.pts = f.pts
          /\ \A i \in 1 .. Len(coded) : coded[i].n < f.n
    /\ ~encoder.ended =>
          \A e \in encoder.pending : \E f \in encoder.inside : f.pts = e.pts
    /\ \A i \in 1 .. Len(coded) : coded[i].n < encoder.nextPts
    /\ \A i, j \in 1 .. Len(coded) : i < j => coded[i].n < coded[j].n

\* The frames that have arrived are older than this one.
Newest == IF arrived = 0 THEN 0 ELSE coded[arrived].n + 1

\* The decoder's entries are those of the frames, in order.
DecoderInv ==
    /\ \A e \in decoder.pending : /\ e.pts < decoder.nextPts /\ e.n < Newest
                                  /\ e.meta = OnWire(MetaOf(e.n))
    /\ \A e, d \in decoder.pending : e.pts < d.pts => e.n < d.n
    /\ \A f \in decoder.inside : f.pts < decoder.nextPts
    /\ \A e \in decoder.pending, f \in decoder.inside : e.pts = f.pts => e.n = f.n

\* What the renderer compares with is of frames before n.
Earlier(prev, n) ==
    /\ prev.ms = 0 \/ \E k \in Nat : k < n /\ prev.ms = (FirstMs + k) % WireMod
    /\ prev.id = 0 \/ \E k \in Nat : k < n /\ prev.id = (FirstId + k) % WireMod

\* The frames of which something is known leave the decoder in order.
OutputInv ==
    /\ Earlier(renderer.prev, Newest)
    /\ \A i \in 1 .. Len(queueB) :
          queueB[i].meta # NoMeta =>
              /\ queueB[i].n < Newest /\ Earlier(renderer.prev, queueB[i].n)
              /\ \A e \in decoder.pending : queueB[i].n < e.n
    /\ \A i, j \in 1 .. Len(queueB) :
          i < j /\ queueB[i].meta # NoMeta /\ queueB[j].meta # NoMeta
              => queueB[i].n < queueB[j].n
    /\ \A e \in decoder.pending : Earlier(renderer.prev, e.n)

\* The chain.
ChainInv ==
    ChainType /\ EncoderInv /\ DecoderInv /\ OutputInv /\ MetaIsOwn /\ RefusedOnlyPastWrap

\* The inductive invariant.
IInv ==
    role \in {"source", "sender", "receiver", "codecs"}
        /\ SourceInv /\ SenderInv /\ ReceiverInv /\ ChainInv

-----------------------------------------------------------------------------
(* The source: close() and open().                                         *)

\* What unmapBuffers() leaves is a part of the list.
LEMMA LeftShape ==
    ASSUME source.buffers \in Seq(Mapping), NEW stuck
    PROVE  /\ NotErased(stuck) \in Seq(Mapping)
           /\ source.buffers = <<>> => NotErased(stuck) = <<>>
<1> DEFINE A == Seq(Mapping)
           n == Len(source.buffers)
           Next1(x, i) == IF source.buffers[i] \in stuck THEN Append(x, source.buffers[i]) ELSE x
           step == [x \in (1 .. n) \X A |-> Next1(x[2], x[1])]
           Rec(f) == f = [i \in 0 .. n |-> IF i = 0 THEN <<>> ELSE Next1(f[i - 1], i)]
           left == CHOOSE f : Rec(f)
<1>1. n \in Nat /\ <<>> \in A
  BY LenProperties
<1>2. ASSUME NEW x \in A, NEW i \in 1 .. n PROVE Next1(x, i) \in A
  <2>1. source.buffers[i] \in Mapping
    BY ElementOfSeq
  <2> QED
    BY <2>1, AppendProperties
<1>3. step \in [(1 .. n) \X A -> A]
  BY <1>2
<1>4. \A i \in 1 .. n, x \in A : step[<<i, x>>] = Next1(x, i)
  OBVIOUS
<1>5. NotErased(stuck) = left[n]
  BY DEF NotErased
<1>b. source.buffers = <<>> => n = 0
  BY EmptySeq
<1> HIDE DEF n, step, A, Next1
<1>6. PICK g \in [0 .. n -> A] : Lib!Follows(g, <<>>, step, n)
  BY <1>1, <1>3, Lib!RecursionExists
<1>7. ASSUME NEW i \in 1 .. n PROVE i - 1 \in 0 .. n /\ g[i] = Next1(g[i - 1], i)
  <2>1. i - 1 \in 0 .. n
    BY <1>1
  <2>2. g[i - 1] \in A
    BY <1>6, <2>1
  <2> QED
    BY <1>4, <1>6, <2>1, <2>2 DEF Lib!Follows
<1>8. Rec(g)
  BY <1>1, <1>6, <1>7 DEF Lib!Follows
<1>9. Rec(left)
  BY <1>8
<1> HIDE DEF left
<1>10. left[0] = <<>> /\ \A i \in 1 .. n : left[i] = Next1(left[i - 1], i)
  BY <1>1, <1>9
<1>11. \A i \in 0 .. n : left[i] = g[i]
  <2>1. left[0] = g[0] /\ Lib!GoAlike(left, g, n)
    BY <1>6, <1>7, <1>10 DEF Lib!Follows, Lib!GoAlike
  <2> QED
    BY <1>1, <2>1, Lib!SameRecursion
<1>12. left[n] \in A
  BY <1>1, <1>6, <1>11
<1> QED
  BY <1>5, <1>10, <1>12, <1>b DEF A

\* close(): whatever there is goes.
LEMMA ReleaseStep ==
    ASSUME SourceInv, NEW step \in {"idle", "device"}, Release(step),
           step = "device" => source.kind = "v4l2"
    PROVE  /\ SourceInv' /\ source'.step = step /\ ~source'.opened
<1>1. SourceType /\ Held /\ NullInv /\ source.buffers \in Seq(Mapping)
  BY DEF SourceInv, SourceType
<1>2. PICK stuck \in SUBSET Mappings :
          /\ source' = ClosedSource(source.kind, NotErased(stuck), step)
          /\ driver' = [driver EXCEPT
                 !.streaming  = @ /\ ~source.streaming,
                 !.maps       = @ \ Unmapped(stuck),
                 !.stuck      = @ \cup stuck,
                 !.converters = @ - (IF source.sws THEN 1 ELSE 0),
                 !.fds        = @ - (IF source.fd THEN 1 ELSE 0),
                 !.states     = IF source.fd THEN <<>> ELSE @]
  BY DEF Release
<1> DEFINE left == NotErased(stuck)
<1>3. left \in Seq(Mapping) /\ (source.buffers = <<>> => left = <<>>)
  BY <1>1, LeftShape
<1>4. Mappings \subseteq Mapping
  <2>1. \A i \in DOMAIN source.buffers : source.buffers[i] \in Mapping
    BY <1>1, ElementOfSeq, LenProperties
  <2> QED
    BY <2>1 DEF Mappings
<1>5. <<>> \in Seq(BufferStates) /\ Requested \in Geometries
  BY SourceAssumption
<1> HIDE DEF left
<1>6. source' = ClosedSource(source.kind, left, step)
  BY <1>2 DEF left
<1>7. /\ source'.kind = source.kind /\ source'.step = step /\ ~source'.opened /\ ~source'.fd
      /\ ~source'.streaming /\ ~source'.sws /\ source'.buffers = left
  BY <1>6 DEF ClosedSource
<1> DEFINE M == driver.maps \ Unmapped(stuck)
           K == driver.stuck \cup stuck
<1>8. /\ ~driver'.streaming /\ driver'.maps = M /\ driver'.stuck = K
      /\ driver'.converters = 0 /\ driver'.fds = 0 /\ driver'.opens = driver.opens
      /\ driver'.states = IF source.fd THEN <<>> ELSE driver.states
  <2>1. ~driver'.streaming /\ driver'.maps = M /\ driver'.stuck = K /\ driver'.opens = driver.opens
        /\ driver'.states = IF source.fd THEN <<>> ELSE driver.states
    BY <1>1, <1>2 DEF SourceType, Held
  <2>2. /\ driver'.converters = driver.converters - (IF source.sws THEN 1 ELSE 0)
        /\ driver'.fds = driver.fds - (IF source.fd THEN 1 ELSE 0)
    BY <1>1, <1>2 DEF SourceType
  <2>3. driver'.converters = 0 /\ driver'.fds = 0
    BY <1>1, <2>2 DEF Held
  <2> QED
    BY <2>1, <2>3
<1>9. M \subseteq driver.maps /\ M \subseteq K /\ M \subseteq Mapping /\ K \subseteq Mapping
  BY <1>1, <1>4 DEF Held, Unmapped, SourceType
<1>10. SourceType'
  <2>1. source' \in [kind: {"v4l2", "null"}, step: SourceSteps, opened: BOOLEAN, fd: BOOLEAN,
                     streaming: BOOLEAN, sws: BOOLEAN, buffers: Seq(Mapping),
                     geometry: Geometries, frameId: Nat,
                     read: [index: Nat, good: BOOLEAN], lost: BOOLEAN]
    BY <1>1, <1>3, <1>5, <1>6 DEF ClosedSource, SourceType, SourceSteps
  <2>2. driver' \in [opens: Nat, fds: Int, converters: Int, streaming: BOOLEAN,
                     states: Seq(BufferStates), maps: SUBSET Mapping, stuck: SUBSET Mapping]
    <3>1. /\ (driver.streaming /\ ~source.streaming) \in BOOLEAN
          /\ driver.converters - (IF source.sws THEN 1 ELSE 0) \in Int
          /\ driver.fds - (IF source.fd THEN 1 ELSE 0) \in Int
          /\ (IF source.fd THEN <<>> ELSE driver.states) \in Seq(BufferStates)
      BY <1>1, <1>5 DEF SourceType
    <3> QED
      BY <1>1, <1>2, <1>9, <3>1 DEF SourceType
  <2> QED
    BY <2>1, <2>2 DEF SourceType
<1> HIDE DEF M, K
<1>11. Held'
  <2>1. driver'.streaming = source'.streaming
    BY <1>7, <1>8, <1>10 DEF SourceType
  <2> QED
    BY <1>7, <1>8, <1>9, <2>1 DEF Held
<1>12. source'.kind = "v4l2" => Progress' /\ Mapped' /\ Borrowed'
  <2>1. step \in {"idle", "device"} /\ ~OfThisOpen'
    BY <1>7 DEF OfThisOpen
  <2>2. Progress' /\ Borrowed'
    BY <1>7, <2>1 DEF Progress, Borrowed, SourceIsClosed
  <2>3. source.kind = "v4l2" => Mapped'
    BY <1>7, <1>8, <1>9, <2>1 DEF Mapped, SourceInv
  <2> QED
    BY <1>7, <2>2, <2>3
<1>13. NullInv'
  BY <1>1, <1>3, <1>7, <1>8, <1>9 DEF NullInv
<1> QED
  BY <1>7, <1>10, <1>11, <1>12, <1>13 DEF SourceInv

\* What an open() knows before it has mapped a buffer.
LEMMA OpenDeviceStep ==
    ASSUME SourceInv, OpenDevice
    PROVE  SourceInv'
<1>1. /\ SourceType /\ Held /\ Progress /\ Mapped /\ source.kind = "v4l2"
      /\ source.step = "device" /\ ~source.fd /\ ~source.opened
  BY DEF SourceInv, OpenDevice, AtStep, Progress
<1>2. /\ source' = [source EXCEPT !.fd = TRUE]
      /\ driver' = [driver EXCEPT !.fds = driver.fds + 1, !.opens = driver.opens + 1]
  BY DEF OpenDevice
<1>3. SourceType'
  <2>1. driver.opens + 1 \in Nat /\ driver.fds + 1 \in Int
    BY <1>1 DEF SourceType
  <2> QED
    BY <1>1, <1>2, <2>1 DEF SourceType
<1>4. Held'
  <2>1. Mappings' = Mappings /\ ~SourceIsClosed'
    BY <1>1, <1>2 DEF Mappings, SourceIsClosed, SourceType
  <2> QED
    BY <1>1, <1>2, <2>1 DEF Held, SourceType
<1>5. Progress' /\ Borrowed' /\ NullInv'
  BY <1>1, <1>2 DEF Progress, Borrowed, NullInv, SourceType
<1>6. Mapped'
  <2>1. \A m \in driver.maps : m[1] \in Nat
    BY <1>1 DEF SourceType, Mapping
  <2>2. ~OfThisOpen' /\ driver'.maps = driver.maps /\ driver'.opens = driver.opens + 1
    BY <1>1, <1>2 DEF OfThisOpen, SourceType
  <2>3. driver.opens \in Nat
    BY <1>1 DEF SourceType
  <2> QED
    BY <1>1, <2>1, <2>2, <2>3 DEF Mapped
<1> QED
  BY <1>1, <1>2, <1>3, <1>4, <1>5, <1>6 DEF SourceInv

\* The calls in between that do not map.
LEMMA OpenCallStep ==
    ASSUME SourceInv, QueryDevice \/ Negotiate \/ CreateConverter \/ RequestBuffers
    PROVE  SourceInv'
<1>1. /\ SourceType /\ Held /\ Progress /\ Mapped /\ source.kind = "v4l2"
      /\ source.step \in {"device", "negotiate", "converter", "request"}
      /\ source.fd /\ ~source.opened /\ ~OfThisOpen
  BY ZenonT(60) DEF SourceInv, QueryDevice, Negotiate, CreateConverter, RequestBuffers,
         AtStep, Progress, SourceIsClosed, OfThisOpen
<1>2. /\ \E step \in {"negotiate", "converter", "request", "map"}, g \in Geometries, sws \in BOOLEAN :
            /\ source' = [source EXCEPT !.step = step, !.geometry = g, !.sws = sws]
            /\ sws <=> step \in {"request", "map"}
            /\ step = "map" => Len(driver'.states) \in Nat \ {0}
      /\ \E S \in Seq(BufferStates), c \in Int :
            /\ driver' = [driver EXCEPT !.states = S, !.converters = c]
            /\ c = IF source'.sws THEN 1 ELSE 0
  <2>1. /\ source \in [kind: {"v4l2", "null"}, step: SourceSteps, opened: BOOLEAN, fd: BOOLEAN,
                     streaming: BOOLEAN, sws: BOOLEAN, buffers: Seq(Mapping),
                     geometry: Geometries, frameId: Nat,
                     read: [index: Nat, good: BOOLEAN], lost: BOOLEAN]
        /\ driver \in [opens: Nat, fds: Int, converters: Int, streaming: BOOLEAN,
                   states: Seq(BufferStates), maps: SUBSET Mapping, stuck: SUBSET Mapping]
        /\ driver.converters = IF source.sws THEN 1 ELSE 0
        /\ source.sws <=> source.step = "request"
    BY <1>1 DEF SourceType, Progress, Held
  <2>2. CASE QueryDevice
    <3>1. source' = [source EXCEPT !.step = "negotiate"] /\ driver' = driver
          /\ source.step = "device"
      BY <2>2 DEF QueryDevice, AtStep
    <3>2. source' = [source EXCEPT !.step = "negotiate", !.geometry = source.geometry, !.sws = FALSE]
      BY <2>1, <3>1
    <3>3. driver' = [driver EXCEPT !.states = driver.states, !.converters = driver.converters]
      BY <2>1, <3>1
    <3> QED
      BY <2>1, <3>1, <3>2, <3>3
  <2>3. CASE Negotiate
    <3>1. PICK g \in Geometries : source' = [source EXCEPT !.step = "converter", !.geometry = g]
      BY <2>3 DEF Negotiate
    <3>2. source.step = "negotiate" /\ driver' = driver
      BY <2>3 DEF Negotiate, AtStep
    <3>3. source' = [source EXCEPT !.step = "converter", !.geometry = g, !.sws = FALSE]
      BY <2>1, <3>1, <3>2
    <3>4. driver' = [driver EXCEPT !.states = driver.states, !.converters = driver.converters]
      BY <2>1, <3>2
    <3>5. source'.sws = FALSE /\ driver.converters = 0 /\ 0 \in Int
      BY <2>1, <3>2, <3>3
    <3> QED
      BY <2>1, <3>2, <3>3, <3>4, <3>5
  <2>4. CASE CreateConverter
    <3>1. /\ source' = [source EXCEPT !.step = "request", !.sws = TRUE]
          /\ driver' = [driver EXCEPT !.converters = driver.converters + 1]
          /\ source.step = "converter"
      BY <2>4 DEF CreateConverter, AtStep
    <3>2. source' = [source EXCEPT !.step = "request", !.geometry = source.geometry, !.sws = TRUE]
      BY <2>1, <3>1
    <3>3. driver.converters + 1 = 1
      BY <2>1, <3>1
    <3>4. driver' = [driver EXCEPT !.states = driver.states, !.converters = 1]
      BY <2>1, <3>1, <3>3
    <3>5. source'.sws = TRUE /\ source.geometry \in Geometries
      BY <2>1, <3>2
    <3>6. driver.states \in Seq(BufferStates) /\ 1 \in Int /\ 1 = IF source'.sws THEN 1 ELSE 0
      BY <2>1, <3>5
    <3>7. \E S \in Seq(BufferStates), c \in Int :
            /\ driver' = [driver EXCEPT !.states = S, !.converters = c]
            /\ c = IF source'.sws THEN 1 ELSE 0
      BY <3>4, <3>6
    <3>8. "request" \in {"negotiate", "converter", "request", "map"} /\ TRUE \in BOOLEAN
          /\ (TRUE <=> "request" \in {"request", "map"}) /\ "request" # "map"
      OBVIOUS
    <3> QED
      BY <3>2, <3>5, <3>7, <3>8
  <2>5. CASE RequestBuffers
    <3>1. PICK n \in 1 .. AskedBuffers :
              driver' = [driver EXCEPT !.states = [i \in 1 .. n |-> "idle"]]
      BY <2>5 DEF RequestBuffers
    <3>2. source' = [source EXCEPT !.step = "map"] /\ source.step = "request"
      BY <2>5 DEF RequestBuffers, AtStep
    <3> DEFINE S == [i \in 1 .. n |-> "idle"]
    <3>3. S \in Seq(BufferStates) /\ Len(S) = n /\ n \in Nat \ {0}
      <4>1. n \in Nat \ {0} /\ \A i \in 1 .. n : "idle" \in BufferStates
        BY SourceAssumption DEF BufferStates
      <4> QED
        BY <4>1, IsASeq
    <3> HIDE DEF S
    <3>4. driver' = [driver EXCEPT !.states = S, !.converters = driver.converters]
          /\ driver'.states = S
      BY <2>1, <3>1 DEF S
    <3>5. source' = [source EXCEPT !.step = "map", !.geometry = source.geometry, !.sws = TRUE]
      BY <2>1, <3>2
    <3>6. driver.converters = 1 /\ source'.sws
      BY <2>1, <3>2, <3>5
    <3> QED
      BY <2>1, <3>2, <3>3, <3>4, <3>5, <3>6
  <2> QED
    BY <2>2, <2>3, <2>4, <2>5
<1>3. PICK step \in {"negotiate", "converter", "request", "map"}, g \in Geometries, sws \in BOOLEAN :
            /\ source' = [source EXCEPT !.step = step, !.geometry = g, !.sws = sws]
            /\ sws <=> step \in {"request", "map"}
            /\ step = "map" => Len(driver'.states) \in Nat \ {0}
  BY <1>2
<1>4. PICK S \in Seq(BufferStates), c \in Int :
            /\ driver' = [driver EXCEPT !.states = S, !.converters = c]
            /\ c = IF source'.sws THEN 1 ELSE 0
  BY <1>2
<1>5. SourceType'
  BY <1>1, <1>3, <1>4 DEF SourceType, SourceSteps
<1>6. /\ source'.step = step /\ source'.fd /\ ~source'.opened /\ source'.kind = "v4l2"
      /\ source'.buffers = source.buffers /\ source'.streaming = source.streaming
      /\ (source'.sws <=> step \in {"request", "map"})
      /\ driver'.maps = driver.maps /\ driver'.stuck = driver.stuck
      /\ driver'.opens = driver.opens /\ driver'.states = S /\ driver'.fds = driver.fds
      /\ driver'.streaming = driver.streaming /\ driver'.converters = c
  BY <1>1, <1>3, <1>4 DEF SourceType
<1>7. Held'
  <2>1. Mappings' = Mappings /\ ~SourceIsClosed'
    BY <1>6 DEF Mappings, SourceIsClosed
  <2>2. driver'.fds = 1
    BY <1>1, <1>6 DEF Held
  <2>3. driver'.streaming = source'.streaming /\ driver.maps \subseteq Mappings \cup driver.stuck
    BY <1>1, <1>6 DEF Held
  <2> QED
    BY <1>4, <1>6, <2>1, <2>2, <2>3 DEF Held
<1>8. Progress' /\ Borrowed' /\ NullInv'
  BY <1>1, <1>6 DEF Progress, Borrowed, NullInv, SourceIsClosed
<1>9. Mapped'
  <2>1. \A m \in driver.maps : m[1] \in Nat /\ m[1] < driver.opens
    BY <1>1 DEF SourceType, Mapping, Mapped
  <2>2. driver.opens \in Nat /\ Len(source.buffers) \in Nat
    BY <1>1, LenProperties DEF SourceType
  <2>3. (OfThisOpen' <=> step = "map") /\ MappedNow' = {}
    BY <1>6, <2>1, <2>2 DEF OfThisOpen, MappedNow
  <2>4. /\ \A m \in driver'.maps : m[1] <= driver'.opens
        /\ \A m \in driver'.maps : m[1] < driver'.opens
    BY <1>6, <2>1, <2>2
  <2>5. ASSUME step = "map"
        PROVE  \E k \in 0 .. Len(driver'.states) :
                 /\ MappedNow' = {<<driver'.opens, i>> : i \in 1 .. k}
                 /\ k <= Len(source'.buffers)
                 /\ \A i \in 1 .. k :
                       source'.buffers[(Len(source'.buffers) - k) + i] = <<driver'.opens, i>>
                 /\ source'.step = "map" => k < Len(driver'.states)
                 /\ source'.step # "map" => k = Len(driver'.states)
                 /\ source'.opened => k = Len(source'.buffers)
    <3>1. Len(driver'.states) \in Nat \ {0} /\ Len(source'.buffers) \in Nat
      BY <1>3, <1>6, <2>2, <2>5
    <3>2. 0 \in 0 .. Len(driver'.states) /\ 1 .. 0 = {}
      BY <3>1
    <3>3. MappedNow' = {<<driver'.opens, i>> : i \in 1 .. 0}
      BY <2>3, <3>2
    <3> QED
      BY <1>6, <2>5, <3>1, <3>2, <3>3
  <2> QED
    BY <1>6, <2>3, <2>4, <2>5 DEF Mapped
<1> QED
  BY <1>5, <1>6, <1>7, <1>8, <1>9 DEF SourceInv

\* mapBuffers(): one buffer more.
LEMMA MapBufferStep ==
    ASSUME SourceInv, MapBuffer
    PROVE  SourceInv'
<1>1. /\ SourceType /\ Held /\ Progress /\ Mapped /\ source.kind = "v4l2"
      /\ source.step = "map" /\ ~source.opened /\ OfThisOpen /\ source.fd
  BY DEF SourceInv, MapBuffer, AtStep, Progress, OfThisOpen, SourceIsClosed
<1> DEFINE b == source.buffers
           n == Len(source.buffers)
           o == driver.opens
<1>2. PICK k \in 0 .. Len(driver.states) :
          /\ MappedNow = {<<o, i>> : i \in 1 .. k} /\ k <= n /\ k < Len(driver.states)
          /\ \A i \in 1 .. k : b[(n - k) + i] = <<o, i>>
  BY <1>1 DEF Mapped
<1>3. /\ n \in Nat /\ Len(driver.states) \in Nat /\ k \in Nat /\ o \in Nat /\ b \in Seq(Mapping)
  BY <1>1, LenProperties DEF SourceType
<1>4. Cardinality(MappedNow) = k
  <2> DEFINE T == {<<o, i>> : i \in 1 .. k}
             f == [i \in 1 .. k |-> <<o, i>>]
  <2>1. ExistsBijection(1 .. k, T)
    <3>1. f \in [1 .. k -> T]
      OBVIOUS
    <3>2. \A i, j \in 1 .. k : f[i] = f[j] => i = j
      OBVIOUS
    <3>3. \A t \in T : \E i \in 1 .. k : f[i] = t
      OBVIOUS
    <3> HIDE DEF f, T
    <3> QED
      BY <3>1, <3>2, <3>3 DEF ExistsBijection, Bijection, Injection, Surjection, IsInjective
  <2>2. IsFiniteSet(1 .. k) /\ Cardinality(1 .. k) = k
    <3>1. k \in Int /\ 1 \in Int /\ (IF 1 > k THEN 0 ELSE k - 1 + 1) = k
      BY <1>3
    <3> QED
      BY <3>1, FS_Interval
  <2> HIDE DEF T
  <2> QED
    BY <1>2, <2>1, <2>2, FS_Bijection DEF T
<1> DEFINE m == <<o, k + 1>>
           step == IF k + 1 = Len(driver.states) THEN "start" ELSE "map"
<1>5. /\ source' = [source EXCEPT !.buffers = Append(b, m), !.step = step]
      /\ driver' = [driver EXCEPT !.maps = driver.maps \cup {m}]
  BY <1>1, <1>4 DEF MapBuffer, AtStep
<1>6. m \in Mapping /\ step \in {"map", "start"}
  BY <1>3 DEF Mapping
<1>7. /\ Append(b, m) \in Seq(Mapping) /\ Len(Append(b, m)) = n + 1
      /\ Append(b, m)[n + 1] = m /\ \A i \in 1 .. n : Append(b, m)[i] = b[i]
  <2> HIDE DEF b, m
  <2> QED
    BY <1>3, <1>6, AppendProperties DEF b
<1> DEFINE c == Append(b, m)
<1> HIDE DEF m, step, c
<1>8. SourceType'
  BY <1>1, <1>5, <1>6, <1>7 DEF SourceType, SourceSteps, c
<1>9. /\ source'.step = step /\ source'.buffers = c /\ source'.kind = "v4l2" /\ source'.fd
      /\ ~source'.opened /\ source'.sws = source.sws /\ source'.streaming = source.streaming
      /\ driver'.maps = driver.maps \cup {m} /\ driver'.opens = o
      /\ driver'.states = driver.states /\ driver'.stuck = driver.stuck
      /\ driver'.fds = driver.fds /\ driver'.converters = driver.converters
      /\ driver'.streaming = driver.streaming
  BY <1>1, <1>5 DEF SourceType, c
<1>10. Held'
  <2>1. Mappings \cup {m} \subseteq Mappings'
    <3>1. DOMAIN c = 1 .. n + 1 /\ DOMAIN b = 1 .. n
      BY <1>3, <1>7, LenProperties DEF c
    <3>2. \A i \in DOMAIN b : i \in DOMAIN c /\ c[i] = b[i]
      BY <1>3, <1>7, <3>1 DEF c
    <3>3. n + 1 \in DOMAIN c /\ c[n + 1] = m
      BY <1>3, <1>7, <3>1 DEF c
    <3>4. Mappings' = {c[i] : i \in DOMAIN c} /\ Mappings = {b[i] : i \in DOMAIN b}
      BY <1>9 DEF Mappings
    <3> QED
      BY <3>2, <3>3, <3>4
  <2>2. ~SourceIsClosed'
    BY <1>6, <1>9 DEF SourceIsClosed
  <2> QED
    BY <1>1, <1>9, <2>1, <2>2 DEF Held
<1>11. Progress' /\ Borrowed' /\ NullInv'
  BY <1>1, <1>6, <1>9 DEF Progress, Borrowed, NullInv, SourceIsClosed
<1>12. Mapped'
  <2>1. OfThisOpen'
    BY <1>6, <1>9 DEF OfThisOpen
  <2>2. \A x \in driver'.maps : x[1] <= driver'.opens
    <3>1. m[1] = o
      BY DEF m
    <3>2. \A x \in driver.maps : x[1] <= o
      BY <1>1 DEF Mapped
    <3>3. o <= o
      BY <1>3
    <3> QED
      BY <1>9, <3>1, <3>2, <3>3
  <2>3. MappedNow' = MappedNow \cup {m}
    BY <1>9 DEF MappedNow, m
  <2>4. MappedNow' = {<<o, i>> : i \in 1 .. k + 1}
    <3>1. 1 .. k + 1 = (1 .. k) \cup {k + 1}
      BY <1>3
    <3> QED
      BY <1>2, <2>3, <3>1 DEF m
  <2>5. Len(c) = n + 1 /\ k + 1 <= n + 1 /\ k + 1 \in 0 .. Len(driver.states)
    BY <1>2, <1>3, <1>7 DEF c
  <2>6. \A i \in 1 .. k + 1 : c[(Len(c) - (k + 1)) + i] = <<o, i>>
    <3> TAKE i \in 1 .. k + 1
    <3>1. (Len(c) - (k + 1)) + i = (n - k) + i /\ i \in Nat
      BY <1>3, <2>5
    <3>2. CASE i = k + 1
      <4>1. (n - k) + i = n + 1
        <5> HIDE DEF n
        <5> QED
          BY <1>3, <3>2
      <4> QED
        BY <1>7, <3>1, <3>2, <4>1 DEF c, m
    <3>3. CASE i # k + 1
      <4>1. i \in 1 .. k /\ (n - k) + i \in 1 .. n
        BY <1>2, <1>3, <3>1, <3>3
      <4> QED
        BY <1>2, <1>7, <3>1, <4>1 DEF c
    <3> QED
      BY <3>2, <3>3
  <2>7. /\ step = "map" => k + 1 < Len(driver.states)
        /\ step # "map" => k + 1 = Len(driver.states)
    BY <1>2, <1>3 DEF step
  <2> HIDE DEF n, b, o
  <2>8. \E j \in 0 .. Len(driver.states) :
             /\ MappedNow' = {<<o, i>> : i \in 1 .. j}
             /\ j <= Len(c)
             /\ \A i \in 1 .. j : c[(Len(c) - j) + i] = <<o, i>>
             /\ step = "map" => j < Len(driver.states)
             /\ step # "map" => j = Len(driver.states)
    BY <2>4, <2>5, <2>6, <2>7
  <2>9. \E j \in 0 .. Len(driver'.states) :
             /\ MappedNow' = {<<driver'.opens, i>> : i \in 1 .. j}
             /\ j <= Len(source'.buffers)
             /\ \A i \in 1 .. j :
                   source'.buffers[(Len(source'.buffers) - j) + i] = <<driver'.opens, i>>
             /\ source'.step = "map" => j < Len(driver'.states)
             /\ source'.step # "map" => j = Len(driver'.states)
    BY <1>9, <2>8
  <2>10. source'.fd /\ ~source'.opened
    BY <1>9
  <2> QED
    BY <2>1, <2>2, <2>9, <2>10 DEF Mapped
<1> QED
  BY <1>8, <1>9, <1>10, <1>11, <1>12 DEF SourceInv

\* startStreaming()
LEMMA StartStreamingStep ==
    ASSUME SourceInv, StartStreaming
    PROVE  SourceInv'
<1>1. /\ SourceType /\ Held /\ Progress /\ Mapped /\ source.kind = "v4l2"
      /\ source.step = "start" /\ ~source.opened /\ OfThisOpen /\ source.fd /\ source.sws
      /\ Len(source.buffers) <= Len(driver.states)
  BY DEF SourceInv, StartStreaming, AtStep, Progress, OfThisOpen, SourceIsClosed, Queueable
<1> DEFINE S == [i \in DOMAIN driver.states |-> "queued"]
<1>2. /\ source' = [source EXCEPT !.step = "idle", !.streaming = TRUE, !.opened = TRUE]
      /\ driver' = [driver EXCEPT !.streaming = TRUE, !.states = S]
  BY DEF StartStreaming
<1>3. S \in Seq(BufferStates) /\ Len(S) = Len(driver.states) /\ Len(driver.states) \in Nat
      /\ Len(source.buffers) \in Nat /\ DOMAIN S = DOMAIN driver.states
  <2>1. Len(driver.states) \in Nat /\ DOMAIN driver.states = 1 .. Len(driver.states)
        /\ Len(source.buffers) \in Nat
    BY <1>1, LenProperties DEF SourceType
  <2>2. "queued" \in BufferStates
    BY DEF BufferStates
  <2> QED
    BY <2>1, <2>2
<1>4. \A i \in DOMAIN S : S[i] # "borrowed"
  OBVIOUS
<1> HIDE DEF S
<1>5. SourceType'
  BY <1>1, <1>2, <1>3 DEF SourceType, SourceSteps
<1>6. /\ source'.step = "idle" /\ source'.opened /\ source'.streaming /\ source'.kind = "v4l2"
      /\ source'.fd /\ source'.sws /\ source'.buffers = source.buffers
      /\ driver'.maps = driver.maps /\ driver'.opens = driver.opens
      /\ driver'.states = S /\ driver'.stuck = driver.stuck
      /\ driver'.fds = driver.fds /\ driver'.converters = driver.converters
      /\ driver'.streaming = TRUE
  BY <1>1, <1>2 DEF SourceType
<1>7. Held'
  <2>1. Mappings' = Mappings /\ ~SourceIsClosed'
    BY <1>6 DEF Mappings, SourceIsClosed
  <2>2. driver'.streaming = source'.streaming
    BY <1>2, <1>1 DEF SourceType
  <2> QED
    BY <1>1, <1>6, <2>1, <2>2 DEF Held
<1>8. Progress' /\ Borrowed' /\ NullInv'
  BY <1>4, <1>6 DEF Progress, Borrowed, NullInv, SourceIsClosed
<1>9. Mapped'
  <2>1. MappedNow' = MappedNow
    BY <1>6 DEF MappedNow
  <2>2. PICK k \in 0 .. Len(driver.states) :
          /\ MappedNow = {<<driver.opens, i>> : i \in 1 .. k} /\ k <= Len(source.buffers)
          /\ k = Len(driver.states)
          /\ \A i \in 1 .. k :
                source.buffers[(Len(source.buffers) - k) + i] = <<driver.opens, i>>
    BY <1>1 DEF Mapped
  <2>3. k = Len(source.buffers)
    BY <1>1, <1>3, <2>2
  <2>4. \A m \in driver.maps : m[1] <= driver.opens
    BY <1>1 DEF Mapped
  <2>5. OfThisOpen'
    BY <1>6 DEF OfThisOpen
  <2>6. \E j \in 0 .. Len(driver'.states) :
             /\ MappedNow' = {<<driver.opens, i>> : i \in 1 .. j}
             /\ j <= Len(source.buffers)
             /\ \A i \in 1 .. j :
                   source.buffers[(Len(source.buffers) - j) + i] = <<driver.opens, i>>
             /\ j = Len(driver'.states)
             /\ j = Len(source.buffers)
    BY <1>3, <1>6, <2>1, <2>2, <2>3
  <2> QED
    BY <1>6, <2>4, <2>5, <2>6, SMTT(60) DEF Mapped
<1> QED
  BY <1>5, <1>6, <1>7, <1>8, <1>9 DEF SourceInv

\* A call of open() that succeeds or fails.
LEMMA OpenStepStep ==
    ASSUME SourceInv, OpenStep
    PROVE  SourceInv' /\ (source'.step # "return")
<1>1. CASE OpenFails
  <2>1. Release("idle")
    BY <1>1 DEF OpenFails
  <2> QED
    BY <2>1, ReleaseStep
<1>2. CASE OpenDevice
  BY <1>2, OpenDeviceStep DEF OpenDevice, AtStep, SourceInv, SourceType
<1>3. CASE QueryDevice \/ Negotiate \/ CreateConverter \/ RequestBuffers
  BY <1>3, OpenCallStep
     DEF QueryDevice, Negotiate, CreateConverter, RequestBuffers, SourceInv, SourceType
<1>4. CASE MapBuffer
  <2>1. source'.step \in {"map", "start"}
    BY <1>4 DEF MapBuffer, AtStep, SourceInv, SourceType
  <2> QED
    BY <1>4, <2>1, MapBufferStep
<1>5. CASE StartStreaming
  BY <1>5, StartStreamingStep DEF StartStreaming, SourceInv, SourceType
<1> QED
  BY <1>1, <1>2, <1>3, <1>4, <1>5 DEF OpenStep

-----------------------------------------------------------------------------
(* The source: readFrame(), NullSource.                                    *)

\* Reading a frame moves a buffer, and nothing else.
LEMMA ReadStepStep ==
    ASSUME SourceInv, source.opened, ReadStep
    PROVE  SourceInv' /\ source'.opened /\ source'.geometry = source.geometry
<1>1. SourceType /\ Held /\ source.opened
  BY DEF SourceInv
<1>2. CASE ReadNull
  <2>1. /\ source' = [source EXCEPT !.frameId = source.frameId + 1] /\ driver' = driver
        /\ source.kind = "null"
    BY <1>2 DEF ReadNull
  <2>2. source.frameId + 1 \in Nat
    BY <1>1 DEF SourceType
  <2>3. SourceType'
    BY <1>1, <2>1, <2>2 DEF SourceType
  <2>4. /\ source'.kind = "null" /\ source'.step = source.step /\ source'.opened
        /\ source'.fd = source.fd /\ source'.sws = source.sws
        /\ source'.streaming = source.streaming /\ source'.buffers = source.buffers
        /\ source'.geometry = source.geometry
    BY <1>1, <2>1 DEF SourceType
  <2>5. Held'
    <3>1. Mappings' = Mappings /\ ~SourceIsClosed'
      BY <1>1, <2>4 DEF Mappings, SourceIsClosed
    <3> QED
      BY <1>1, <2>1, <2>4, <3>1 DEF Held
  <2>6. NullInv'
    BY <2>1, <2>4 DEF NullInv, SourceInv
  <2> QED
    BY <2>3, <2>4, <2>5, <2>6 DEF SourceInv
<1>3. CASE Capture \/ Dequeue \/ Requeue
  <2>1. source.kind = "v4l2" /\ Progress /\ Mapped /\ Borrowed
    <3>1. source.kind = "null" => ~driver.streaming /\ source.step = "idle"
                                  /\ DOMAIN driver.states = {}
      <4>1. source.kind = "null" => ~source.streaming /\ driver.states = <<>> /\ source.step = "idle"
        BY DEF SourceInv, NullInv
      <4>2. DOMAIN <<>> = {}
        OBVIOUS
      <4> QED
        BY <1>1, <4>1, <4>2 DEF Held
    <3>2. source.kind \in {"v4l2", "null"}
      BY <1>1 DEF SourceType
    <3> QED
      BY <1>3, <3>1, <3>2 DEF Capture, Dequeue, Requeue, Returned, AtStep, SourceInv
  <2>2. \E S \in Seq(BufferStates), step \in {"idle", "return"}, read \in [index: Nat, good: BOOLEAN],
           lost \in BOOLEAN, id \in Nat :
            /\ source' = [source EXCEPT !.step = step, !.read = read, !.lost = lost, !.frameId = id]
            /\ driver' = [driver EXCEPT !.states = S]
            /\ Len(S) = Len(driver.states)
            /\ ~lost => \A i \in DOMAIN S :
                  S[i] = "borrowed" => step = "return" /\ read.index = i
    <3>1. /\ source \in [kind: {"v4l2", "null"}, step: SourceSteps, opened: BOOLEAN, fd: BOOLEAN,
                     streaming: BOOLEAN, sws: BOOLEAN, buffers: Seq(Mapping),
                     geometry: Geometries, frameId: Nat,
                     read: [index: Nat, good: BOOLEAN], lost: BOOLEAN]
          /\ driver \in [opens: Nat, fds: Int, converters: Int, streaming: BOOLEAN,
                   states: Seq(BufferStates), maps: SUBSET Mapping, stuck: SUBSET Mapping]
          /\ source.step \in {"idle", "return"}
      BY <1>1, <2>1 DEF SourceType, Progress, SourceSteps
    <3>2. /\ Len(driver.states) \in Nat /\ DOMAIN driver.states = 1 .. Len(driver.states)
          /\ driver.states \in Seq(BufferStates)
      BY <3>1, LenProperties
    <3>3. ~source.lost => \A i \in DOMAIN driver.states :
              driver.states[i] = "borrowed" => source.step = "return" /\ source.read.index = i
      BY <1>1, <2>1 DEF Borrowed
    <3>4. \A i \in DOMAIN driver.states, v \in BufferStates :
              LET S == [driver.states EXCEPT ![i] = v]
              IN  /\ S \in Seq(BufferStates) /\ Len(S) = Len(driver.states)
                  /\ DOMAIN S = DOMAIN driver.states
                  /\ S[i] = v /\ \A j \in DOMAIN S : j # i => S[j] = driver.states[j]
      BY <3>2, ExceptSeq
    <3>5. "queued" \in BufferStates /\ "filled" \in BufferStates /\ "borrowed" \in BufferStates
      BY DEF BufferStates
    <3>6. CASE Capture
      <4>1. PICK i \in DOMAIN driver.states :
                /\ driver' = [driver EXCEPT !.states[i] = "filled"] /\ source' = source
        BY <3>6 DEF Capture
      <4> DEFINE S == [driver.states EXCEPT ![i] = "filled"]
      <4>2. driver' = [driver EXCEPT !.states = S]
        BY <3>1, <4>1
      <4>3. source' = [source EXCEPT !.step = source.step, !.read = source.read,
                                     !.lost = source.lost, !.frameId = source.frameId]
        BY <3>1, <4>1
      <4>4. S \in Seq(BufferStates) /\ Len(S) = Len(driver.states)
            /\ \A j \in DOMAIN S : j \in DOMAIN driver.states
                                   /\ (S[j] = "borrowed" => driver.states[j] = "borrowed")
        BY <3>4, <3>5
      <4> HIDE DEF S
      <4>5. source.step \in {"idle", "return"} /\ source.read \in [index: Nat, good: BOOLEAN]
            /\ source.lost \in BOOLEAN /\ source.frameId \in Nat
        BY <3>1
      <4>6. ~source.lost => \A j \in DOMAIN S :
                  S[j] = "borrowed" => source.step = "return" /\ source.read.index = j
        BY <3>3, <4>4
      <4> QED
        BY <4>2, <4>3, <4>4, <4>5, <4>6
    <3>7. CASE Dequeue
      <4>1. PICK i \in DOMAIN driver.states, good \in BOOLEAN :
                /\ source' = [source EXCEPT !.step = "return",
                            !.read = [index |-> i, good |-> good /\ i <= Len(source.buffers)]]
                /\ driver' = [driver EXCEPT !.states[i] = "borrowed"]
        BY <3>7 DEF Dequeue
      <4> DEFINE S == [driver.states EXCEPT ![i] = "borrowed"]
                 read == [index |-> i, good |-> good /\ i <= Len(source.buffers)]
      <4>2. driver' = [driver EXCEPT !.states = S]
        BY <3>1, <4>1
      <4>3. read \in [index: Nat, good: BOOLEAN] /\ read.index = i
        BY <3>2
      <4> HIDE DEF read
      <4>4. source' = [source EXCEPT !.step = "return", !.read = read,
                                     !.lost = source.lost, !.frameId = source.frameId]
        BY <3>1, <4>1 DEF read
      <4>5. S \in Seq(BufferStates) /\ Len(S) = Len(driver.states)
            /\ \A j \in DOMAIN S : j # i => j \in DOMAIN driver.states /\ S[j] = driver.states[j]
        BY <3>4, <3>5
      <4> HIDE DEF S
      <4>6. source.step = "idle"
        BY <3>7 DEF Dequeue, AtStep
      <4>7. ~source.lost => \A j \in DOMAIN S : S[j] = "borrowed" => read.index = j
        BY <3>3, <4>3, <4>5, <4>6
      <4>8. source.lost \in BOOLEAN /\ source.frameId \in Nat
        BY <3>1
      <4> QED
        BY <4>2, <4>3, <4>4, <4>5, <4>7, <4>8
    <3>8. CASE Requeue
      <4>1. PICK works \in BOOLEAN : Returned(works, TRUE)
        BY <3>8 DEF Requeue
      <4> DEFINE lost == source.lost \/ ~works
                 id   == IF works /\ source.read.good THEN source.frameId + 1 ELSE source.frameId
                 i    == source.read.index
                 S    == IF works THEN [driver.states EXCEPT ![i] = "queued"] ELSE driver.states
      <4>2. source' = [source EXCEPT !.step = "idle", !.read = source.read, !.lost = lost,
                                     !.frameId = id]
        BY <3>1, <4>1 DEF Returned
      <4>3. driver' = [driver EXCEPT !.states = S]
        BY <3>1, <4>1 DEF Returned
      <4>4. lost \in BOOLEAN /\ id \in Nat /\ source.read \in [index: Nat, good: BOOLEAN]
            /\ (~lost => works /\ ~source.lost)
        BY <3>1
      <4>5. /\ S \in Seq(BufferStates) /\ Len(S) = Len(driver.states)
            /\ DOMAIN S = DOMAIN driver.states
            /\ works => \A j \in DOMAIN S : S[j] = "borrowed" => j # i /\ driver.states[j] = "borrowed"
        <5>1. CASE i \in DOMAIN driver.states
          BY <3>2, <3>4, <3>5, <5>1
        <5>2. CASE i \notin DOMAIN driver.states
          <6>1. S = driver.states
            BY <3>2, <5>2
          <6> HIDE DEF S
          <6> QED
            BY <3>2, <5>2, <6>1
        <5> QED
          BY <5>1, <5>2
      <4> HIDE DEF S, lost, id
      <4>6. ASSUME ~lost, NEW j \in DOMAIN S PROVE S[j] # "borrowed"
        <5>1. works /\ ~source.lost
          BY <4>4, <4>6
        <5>2. j \in DOMAIN driver.states
          BY <4>5
        <5>3. S[j] = "borrowed" => j # i /\ driver.states[j] = "borrowed"
          BY <4>5, <5>1
        <5>4. driver.states[j] = "borrowed" => i = j
          BY <3>3, <5>1, <5>2
        <5> QED
          BY <5>3, <5>4
      <4>7. S \in Seq(BufferStates) /\ lost \in BOOLEAN /\ id \in Nat /\ Len(S) = Len(driver.states)
            /\ source.read \in [index: Nat, good: BOOLEAN]
        BY <4>4, <4>5
      <4>8. ~lost => \A j \in DOMAIN S :
                S[j] = "borrowed" => "idle" = "return" /\ source.read.index = j
        BY <4>6
      <4> QED
        BY <4>2, <4>3, <4>7, <4>8
    <3> QED
      BY <1>3, <3>6, <3>7, <3>8
  <2>3. PICK S \in Seq(BufferStates), step \in {"idle", "return"},
             read \in [index: Nat, good: BOOLEAN], lost \in BOOLEAN, id \in Nat :
            /\ source' = [source EXCEPT !.step = step, !.read = read, !.lost = lost, !.frameId = id]
            /\ driver' = [driver EXCEPT !.states = S]
            /\ Len(S) = Len(driver.states)
            /\ ~lost => \A i \in DOMAIN S :
                  S[i] = "borrowed" => step = "return" /\ read.index = i
    BY <2>2
  <2>4. SourceType'
    BY <1>1, <2>3 DEF SourceType, SourceSteps
  <2>5. /\ source'.step = step /\ source'.read = read /\ source'.lost = lost /\ source'.opened
        /\ source'.kind = source.kind /\ source'.fd = source.fd /\ source'.sws = source.sws
        /\ source'.streaming = source.streaming /\ source'.buffers = source.buffers
        /\ source'.geometry = source.geometry
        /\ driver'.states = S /\ driver'.maps = driver.maps /\ driver'.opens = driver.opens
        /\ driver'.stuck = driver.stuck /\ driver'.fds = driver.fds
        /\ driver'.converters = driver.converters /\ driver'.streaming = driver.streaming
    BY <1>1, <2>3 DEF SourceType
  <2>6. Held'
    <3>1. Mappings' = Mappings /\ ~SourceIsClosed'
      BY <1>1, <2>5 DEF Mappings, SourceIsClosed
    <3> QED
      BY <1>1, <2>5, <3>1 DEF Held
  <2>7. Progress' /\ Borrowed'
    BY <1>1, <2>1, <2>3, <2>5 DEF Progress, Borrowed, SourceIsClosed
  <2>8. Mapped'
    <3>1. OfThisOpen' /\ OfThisOpen /\ MappedNow' = MappedNow /\ source.step # "map" /\ step # "map"
      BY <1>1, <2>1, <2>5 DEF OfThisOpen, MappedNow, Progress
    <3> QED
      BY <1>1, <2>1, <2>3, <2>5, <3>1 DEF Mapped
  <2> QED
    BY <2>1, <2>4, <2>5, <2>6, <2>7, <2>8, SMTT(60) DEF SourceInv, NullInv
<1> QED
  BY <1>2, <1>3 DEF ReadStep

\* NullSource::open()
LEMMA OpenNullStep ==
    ASSUME SourceInv, OpenNull
    PROVE  SourceInv' /\ source'.step = "idle"
<1>1. /\ SourceType /\ Held /\ NullInv /\ source.kind = "null" /\ source.step = "idle"
      /\ driver.maps = {}
  BY DEF SourceInv, OpenNull, NullInv
<1>2. /\ source' = [source EXCEPT !.opened = TRUE, !.frameId = 0]
      /\ driver' = [driver EXCEPT !.opens = driver.opens + 1]
  BY DEF OpenNull
<1>3. driver.opens + 1 \in Nat
  BY <1>1 DEF SourceType
<1>4. SourceType'
  BY <1>1, <1>2, <1>3 DEF SourceType
<1>5. /\ source'.kind = "null" /\ source'.step = source.step
      /\ source'.fd = source.fd /\ source'.sws = source.sws
      /\ source'.streaming = source.streaming /\ source'.buffers = source.buffers
      /\ driver'.states = driver.states /\ driver'.maps = driver.maps
      /\ driver'.stuck = driver.stuck /\ driver'.fds = driver.fds
      /\ driver'.converters = driver.converters /\ driver'.streaming = driver.streaming
  BY <1>1, <1>2 DEF SourceType
<1>6. Held' /\ NullInv'
  BY <1>1, <1>5 DEF Held, NullInv
<1> QED
  BY <1>1, <1>4, <1>5, <1>6 DEF SourceInv

\* Every step of a source alone.
LEMMA SourceStep ==
    ASSUME SourceInv, SourceNext
    PROVE  SourceInv'
<1>1. CASE OpenSource
  BY <1>1, ReleaseStep DEF OpenSource, AtStep
<1>2. CASE CloseSource
  BY <1>2, ReleaseStep DEF CloseSource
<1>3. CASE ReadStep
  <2>1. source.opened
    <3>1. Capture => source.opened
      BY DEF SourceInv, Capture, Held, Progress, NullInv, SourceType
    <3>2. Requeue => source.opened
      BY DEF SourceInv, Requeue, Returned, AtStep, Progress
    <3> QED
      BY <1>3, <3>1, <3>2 DEF ReadStep, Dequeue, ReadNull
  <2> QED
    BY <1>3, <2>1, ReadStepStep
<1> QED
  BY <1>1, <1>2, <1>3, OpenStepStep, OpenNullStep DEF SourceNext

\* Without a step of it a source stays as it is.
LEMMA SourceStays == ASSUME SourceInv, UNCHANGED sourceVars PROVE SourceInv'
<1>1. source' = source /\ driver' = driver
  BY DEF sourceVars
<1> QED
  BY <1>1 DEF SourceInv, SourceType, Held, Progress, Mapped, Borrowed, NullInv, Mappings,
              MappedNow, OfThisOpen, SourceIsClosed

\* A source that has just been constructed.
LEMMA SourceInitInv == SourceInit => SourceInv
<1> SUFFICES ASSUME SourceInit PROVE SourceInv
  OBVIOUS
<1>1. PICK kind \in {"v4l2", "null"} : source = ClosedSource(kind, <<>>, "idle")
  BY DEF SourceInit
<1>2. <<>> \in Seq(Mapping) /\ <<>> \in Seq(BufferStates) /\ Requested \in Geometries
  BY SourceAssumption
<1>3. driver = NoDriver
  BY DEF SourceInit
<1>4. SourceType
  BY <1>1, <1>2, <1>3 DEF SourceType, ClosedSource, NoDriver, SourceSteps
<1>5. /\ source.step = "idle" /\ ~source.opened /\ ~source.fd /\ ~source.sws /\ ~source.streaming
      /\ source.buffers = <<>> /\ driver.maps = {} /\ driver.states = <<>> /\ driver.fds = 0
      /\ driver.converters = 0 /\ driver.streaming = FALSE
  BY <1>1, <1>3 DEF ClosedSource, NoDriver
<1>6. source.streaming = FALSE
  BY <1>1 DEF ClosedSource
<1> QED
  BY <1>4, <1>5, <1>6 DEF SourceInv, Held, Progress, Mapped, Borrowed, NullInv, OfThisOpen,
                          SourceIsClosed

\* close() gives back what open() took, and the tables of buffers agree.
LEMMA SourceGoals ==
    ASSUME SourceInv
    PROVE  SourceReleased /\ BuffersAgree
<1>1. SourceType /\ Held
  BY DEF SourceInv
<1>2. SourceReleased
  <2>1. SUFFICES ASSUME SourceIsClosed
                 PROVE  /\ driver.fds = 0 /\ driver.converters = 0 /\ ~driver.streaming
                        /\ driver.maps \subseteq driver.stuck
    BY DEF SourceReleased
  <2>2. ~source.fd /\ ~source.sws /\ ~source.streaming
    <3>1. CASE source.kind = "null"
      BY <3>1 DEF SourceInv, NullInv
    <3>2. CASE source.kind = "v4l2"
      BY <2>1, <3>2 DEF SourceInv, Progress, SourceIsClosed
    <3> QED
      BY <1>1, <3>1, <3>2 DEF SourceType
  <2> QED
    BY <1>1, <2>1, <2>2 DEF Held
<1>3. BuffersAgree
  <2>1. SUFFICES ASSUME source.kind = "v4l2", source.opened
                 PROVE  /\ source.buffers = [i \in DOMAIN driver.states |-> <<driver.opens, i>>]
                        /\ source.step = "idle" /\ ~source.lost =>
                              \A i \in DOMAIN driver.states : driver.states[i] # "borrowed"
    BY DEF BuffersAgree
  <2>2. Progress /\ Mapped /\ Borrowed
    BY <2>1 DEF SourceInv
  <2>3. source.step = "idle" /\ ~source.lost =>
            \A i \in DOMAIN driver.states : driver.states[i] # "borrowed"
    BY <2>1, <2>2 DEF Borrowed
  <2> DEFINE n == Len(driver.states)
             o == driver.opens
  <2>4. PICK k \in 0 .. n :
            /\ \A i \in 1 .. k : source.buffers[(Len(source.buffers) - k) + i] = <<o, i>>
            /\ k = n /\ k = Len(source.buffers)
    BY <2>1, <2>2 DEF Mapped, OfThisOpen, Progress
  <2>5. /\ n \in Nat /\ DOMAIN driver.states = 1 .. n
        /\ source.buffers \in Seq(Mapping) /\ Len(source.buffers) = n
    BY <1>1, <2>4, LenProperties DEF SourceType
  <2> HIDE DEF n
  <2>6. \A i \in 1 .. n : (n - n) + i = i
    BY <2>5
  <2>7. \A i \in 1 .. n : source.buffers[i] = <<o, i>>
    BY <2>4, <2>5, <2>6
  <2>8. source.buffers = [i \in 1 .. n |-> <<o, i>>]
    <3> DEFINE t == [i \in 1 .. n |-> <<o, i>>]
    <3>1. t \in Seq(Mapping) /\ Len(t) = n
      <4>1. \A i \in 1 .. n : <<o, i>> \in Mapping
        BY <2>5, <2>7, ElementOfSeq
      <4> QED
        BY <2>5, <4>1, IsASeq
    <3>2. \A i \in 1 .. n : t[i] = <<o, i>>
      OBVIOUS
    <3> HIDE DEF t, o
    <3> QED
      BY <2>5, <2>7, <3>1, <3>2, SeqEqual DEF t
  <2> QED
    BY <2>3, <2>5, <2>8
<1> QED
  BY <1>2, <1>3

-----------------------------------------------------------------------------
(* A run of the sender, a run of the receiver.                             *)

\* A step of a run of the sender.
LEMMA SenderStep ==
    ASSUME SourceInv, SenderInv, role = "sender", SenderNext, role' = role
    PROVE  SourceInv' /\ SenderInv'
<1> DEFINE Type(s) == s \in [wanted: SUBSET {"socket", "raw", "h264"}, stage: SenderStages,
                   held: SUBSET {"encoder", "socket", "raw", "h264"}, encoder: Geometries]
<1>1. /\ Type(sender) /\ source.geometry \in Geometries
      /\ sender.stage \in {"new", "source", "encoder", "done"} => sender.held = {}
      /\ sender.stage \in {"new", "done"} => SourceIsClosed
      /\ sender.stage \in {"encoder", "socket", "raw", "h264", "running"} => source.opened
      /\ sender.stage # "running" => source.step # "return"
      /\ sender.stage \in {"encoder", "socket", "raw", "h264", "close"} => source.step = "idle"
      /\ GeometryAgrees
  BY DEF SenderInv, SourceInv, SourceType
<1>2. CASE Run
  <2>1. CASE sender' = [sender EXCEPT !.stage = "done"] /\ UNCHANGED sourceVars
    <3>1. source' = source /\ sender.stage = "new" /\ sender.held = {} /\ SourceIsClosed
      BY <1>1, <1>2, <2>1 DEF Run, At, sourceVars
    <3>2. Type(sender') /\ sender'.stage = "done" /\ sender'.held = {}
      BY <1>1, <2>1, <3>1 DEF SenderStages
    <3>3. SenderInv'
      BY <3>1, <3>2 DEF SenderInv, SourceIsClosed, GeometryAgrees
    <3> QED
      BY <2>1, <3>3, SourceStays
  <2>2. CASE sender' = [sender EXCEPT !.stage = "source"] /\ (OpenSource \/ OpenNull)
    <3>1. sender.stage = "new" /\ sender.held = {}
      BY <1>1, <1>2 DEF Run, At
    <3>2. Type(sender') /\ sender'.stage = "source" /\ sender'.held = {}
      BY <1>1, <2>2, <3>1 DEF SenderStages
    <3>3. SourceInv' /\ source'.step # "return"
      BY <2>2, ReleaseStep, OpenNullStep DEF OpenSource, AtStep
    <3>4. SenderInv'
      BY <3>2, <3>3 DEF SenderInv, GeometryAgrees
    <3> QED
      BY <3>3, <3>4
  <2> QED
    BY <1>2, <2>1, <2>2 DEF Run
<1>3. CASE SourceOpens
  <2>1. sender' = sender /\ sender.stage = "source" /\ sender.held = {}
    BY <1>1, <1>3 DEF SourceOpens, At
  <2>2. SourceInv' /\ source'.step # "return"
    BY <1>3, OpenStepStep DEF SourceOpens
  <2>3. SenderInv'
    BY <1>1, <2>1, <2>2 DEF SenderInv, GeometryAgrees
  <2> QED
    BY <2>2, <2>3
<1>4. CASE SourceIsOpen \/ OpenEncoder \/ OpenRest \/ JoinThreads
  <2>1. source' = source /\ SourceInv' /\ UNCHANGED sourceVars
    BY <1>4, SourceStays
       DEF SourceIsOpen, OpenEncoder, OpenRest, Acquire, JoinThreads, sourceVars
  <2>2. /\ Type(sender') /\ sender'.stage \in (SenderStages \ {"new", "source", "done", "running"})
                              \cup (IF source.step = "idle" THEN {"running"} ELSE {})
        /\ source.step = "idle"
        /\ sender'.stage \in {"encoder", "socket", "raw", "h264", "running"} => source.opened
        /\ sender'.stage = "encoder" => sender'.held = {}
        /\ "encoder" \in sender'.held /\ source.opened => sender'.encoder = source.geometry
    <3>1. CASE SourceIsOpen
      <4>1. /\ sender.stage = "source" /\ source.step = "idle" /\ sender.held = {}
            /\ sender' = [sender EXCEPT !.stage = IF source.opened THEN "encoder" ELSE "close"]
        BY <1>1, <3>1 DEF SourceIsOpen, At
      <4>2. Type(sender') /\ sender'.held = {}
            /\ sender'.stage = IF source.opened THEN "encoder" ELSE "close"
        BY <1>1, <4>1 DEF SenderStages
      <4> QED
        BY <4>1, <4>2 DEF SenderStages
    <3>2. CASE OpenEncoder
      <4>1. sender.stage = "encoder" /\ sender.held = {} /\ source.opened /\ source.step = "idle"
        BY <1>1, <3>2 DEF OpenEncoder, At
      <4>2. CASE sender' = [sender EXCEPT !.stage = "socket", !.encoder = EncoderGeometry,
                                          !.held = @ \cup {"encoder"}]
        <5>1. Type(sender') /\ sender'.stage = "socket" /\ sender'.encoder = source.geometry
          BY <1>1, <4>2 DEF SenderStages, EncoderGeometry
        <5> QED
          BY <4>1, <5>1 DEF SenderStages
      <4>3. CASE sender' = [sender EXCEPT !.stage = "close"]
        <5>1. Type(sender') /\ sender'.stage = "close" /\ sender'.held = {}
          BY <1>1, <4>1, <4>3 DEF SenderStages
        <5> QED
          BY <4>1, <5>1 DEF SenderStages
      <4> QED
        BY <3>2, <4>2, <4>3 DEF OpenEncoder
    <3>3. CASE OpenRest
      <4>1. PICK resource \in {"socket", "raw", "h264"}, next \in {"raw", "h264", "running"} :
                Acquire(resource, next)
        BY <3>3 DEF OpenRest
      <4>2. sender.stage \in {"socket", "raw", "h264"} /\ source.opened /\ source.step = "idle"
        BY <1>1, <4>1 DEF Acquire, At
      <4>3. PICK stage \in {"raw", "h264", "running", "close"},
                 held \in {sender.held, sender.held \cup {resource}} :
                sender' = [sender EXCEPT !.stage = stage, !.held = held]
        <5>1. sender' \in {[sender EXCEPT !.stage = next, !.held = sender.held \cup {resource}],
                           [sender EXCEPT !.stage = "close"], [sender EXCEPT !.stage = next]}
          BY <4>1 DEF Acquire
        <5>2. \A x : [sender EXCEPT !.stage = x] = [sender EXCEPT !.stage = x, !.held = sender.held]
          BY <1>1
        <5>3. /\ next \in {"raw", "h264", "running", "close"}
              /\ "close" \in {"raw", "h264", "running", "close"}
              /\ sender.held \in {sender.held, sender.held \cup {resource}}
              /\ sender.held \cup {resource} \in {sender.held, sender.held \cup {resource}}
          OBVIOUS
        <5> QED
          BY <5>1, <5>2, <5>3
      <4>4. /\ Type(sender') /\ sender'.stage = stage /\ sender'.held = held
            /\ sender'.encoder = sender.encoder
        BY <1>1, <4>3 DEF SenderStages
      <4>5. "encoder" \in held => "encoder" \in sender.held
        OBVIOUS
      <4>6. "encoder" \in sender'.held /\ source.opened => sender'.encoder = source.geometry
        BY <1>1, <4>4, <4>5 DEF GeometryAgrees
      <4>7. sender'.stage \in (SenderStages \ {"new", "source", "done", "running"}) \cup {"running"}
            /\ sender'.stage # "encoder"
        BY <4>4 DEF SenderStages
      <4> HIDE DEF Type
      <4> QED
        BY <4>2, <4>4, <4>6, <4>7
    <3>4. CASE JoinThreads
      <4>1. /\ sender.stage = "running" /\ source.step = "idle" /\ source.opened
            /\ sender' = [sender EXCEPT !.stage = "close"]
        BY <1>1, <3>4 DEF JoinThreads, At
      <4>2. /\ Type(sender') /\ sender'.stage = "close" /\ sender'.held = sender.held
            /\ sender'.encoder = sender.encoder
        BY <1>1, <4>1 DEF SenderStages
      <4> QED
        BY <1>1, <4>1, <4>2 DEF SenderStages, GeometryAgrees
    <3> QED
      BY <1>4, <3>1, <3>2, <3>3, <3>4
  <2>3. GeometryAgrees'
    BY <2>1, <2>2 DEF GeometryAgrees
  <2>4. SenderInv'
    BY <2>1, <2>2, <2>3 DEF SenderInv
  <2> QED
    BY <2>1, <2>4
<1>5. CASE CaptureFrame
  <2>1. sender' = sender /\ sender.stage = "running" /\ source.opened
    BY <1>1, <1>5 DEF CaptureFrame, At
  <2>2. SourceInv' /\ source'.opened /\ source'.geometry = source.geometry
    BY <1>5, <2>1, ReadStepStep DEF CaptureFrame
  <2>3. GeometryAgrees'
    BY <1>1, <2>1, <2>2 DEF GeometryAgrees
  <2>4. SenderInv'
    BY <1>1, <2>1, <2>2, <2>3 DEF SenderInv
  <2> QED
    BY <2>2, <2>4
<1>6. CASE CloseSenderResources
  <2>1. sender' = [sender EXCEPT !.stage = "done",
                                 !.held = sender.held \ {"raw", "h264", "socket", "encoder"}]
    BY <1>6 DEF CloseSenderResources
  <2>2. Type(sender') /\ sender'.stage = "done" /\ sender'.held = {}
    BY <1>1, <2>1 DEF SenderStages
  <2>3. SourceInv' /\ source'.step = "idle" /\ ~source'.opened
    BY <1>6, ReleaseStep DEF CloseSenderResources
  <2>4. SenderInv'
    BY <2>2, <2>3 DEF SenderInv, SourceIsClosed, GeometryAgrees
  <2> QED
    BY <2>3, <2>4
<1> QED
  BY <1>2, <1>3, <1>4, <1>5, <1>6 DEF SenderNext

\* A step of a run of the receiver.
LEMMA ReceiverStep ==
    ASSUME ReceiverInv, ReceiverNext
    PROVE  ReceiverInv'
<1> DEFINE Receivers == [h264: BOOLEAN, kind: {"none", "null", "sdl"},
                     stage: {"new", "bind", "h264", "decoder", "open", "running", "close", "done"},
                     held: SUBSET {"socket", "h264", "decoder", "converter"}, stopping: BOOLEAN]
           Renders == [step: RenderSteps, held: SUBSET {"sdl", "window", "renderer", "texture"},
                       texture: SUBSET Sizes]
<1>1. /\ receiver \in Receivers /\ render \in Renders
      /\ receiver.stage \in {"new", "done"} => receiver.held = {}
      /\ render.step \in {"none", "ended"} => render.held = {}
      /\ receiver.stage # "running" => render.step \in {"none", "ended"}
  BY DEF ReceiverInv, ReceiverType
<1>2. ASSUME receiver' \in Receivers, render' = render,
             receiver'.stage \in {"new", "done"} => receiver'.held = {},
             receiver'.stage # "running" => render.step \in {"none", "ended"}
      PROVE  ReceiverInv'
  BY <1>1, <1>2 DEF ReceiverInv, ReceiverType
<1>3. ASSUME render' \in Renders, receiver' \in Receivers, receiver'.stage = receiver.stage,
             receiver.stage = "running",
             render'.step \in {"none", "ended"} => render'.held = {}
      PROVE  ReceiverInv'
  BY <1>1, <1>3 DEF ReceiverInv, ReceiverType
<1>4. CASE OpenSocket \/ Bind \/ OpenDump \/ OpenDecoder
  <2>1. /\ receiver' \in Receivers /\ render' = render
        /\ receiver'.stage \in {"bind", "h264", "decoder", "open"}
        /\ receiver.stage # "running"
    <3>1. CASE OpenSocket
      BY <1>1, <3>1 DEF OpenSocket, ReceiverAt
    <3>2. CASE Bind
      BY <1>1, <3>2 DEF Bind, ReceiverAt
    <3>3. CASE OpenDump
      BY <1>1, <3>3 DEF OpenDump, ReceiverAt
    <3>4. CASE OpenDecoder
      BY <1>1, <3>4 DEF OpenDecoder, ReceiverAt
    <3> QED
      BY <1>4, <3>1, <3>2, <3>3, <3>4
  <2> QED
    BY <1>1, <1>2, <2>1
<1>5. CASE OpenReturnsError \/ CloseReceiverResources
  <2>1. PICK stage \in {"new", "done"} :
            receiver' = [receiver EXCEPT !.stage = stage, !.held = ClosedAll(receiver.held)]
    BY <1>5 DEF OpenReturnsError, CloseReceiverResources
  <2>2. render' = render /\ receiver.stage # "running"
    BY <1>5 DEF OpenReturnsError, CloseReceiverResources, ReceiverAt
  <2>3. ClosedAll(receiver.held) = {}
    BY <1>1 DEF ClosedAll
  <2>4. receiver' \in Receivers /\ receiver'.held = {}
    BY <1>1, <2>1, <2>3
  <2> QED
    BY <1>1, <1>2, <2>2, <2>4
<1>6. CASE StartThreads
  <2>1. receiver' \in Receivers /\ receiver'.stage = "running" /\ render.step \in {"none", "ended"}
    BY <1>1, <1>6 DEF StartThreads, ReceiverAt
  <2>2. CASE render' = render
    BY <1>2, <2>1, <2>2
  <2>3. CASE render' = [render EXCEPT !.step = "open"]
    <3>1. render' \in Renders /\ render'.step = "open"
      BY <1>1, <2>3 DEF RenderSteps
    <3> QED
      BY <2>1, <3>1 DEF ReceiverInv, ReceiverType
  <2> QED
    BY <1>6, <2>2, <2>3 DEF StartThreads
<1>7. CASE Stop \/ ConvertPicture
  <2>1. receiver' \in Receivers /\ receiver'.stage = "running" /\ render' = render
    <3>1. CASE Stop
      BY <1>1, <3>1 DEF Stop, ReceiverAt
    <3>2. CASE ConvertPicture
      <4>1. receiver' = [receiver EXCEPT !.held = receiver.held \cup {"converter"}]
            /\ receiver.stage = "running" /\ render' = render
        BY <3>2 DEF ConvertPicture, ReceiverAt
      <4> QED
        BY <1>1, <4>1
    <3> QED
      BY <1>7, <3>1, <3>2
  <2> QED
    BY <1>2, <2>1
<1>8. CASE JoinReceiverThreads
  <2>1. /\ receiver' \in Receivers /\ receiver'.stage = "close" /\ render' = render
        /\ render.step \in {"none", "ended"}
    BY <1>1, <1>8 DEF JoinReceiverThreads, ReceiverAt
  <2> QED
    BY <1>2, <2>1
<1>9. CASE OpenRenderer \/ OpenRendererFails \/ RenderSdl \/ TextureFails \/ EndLoop \/ CloseRenderer
  <2>1. render.step \in {"open", "loop", "close"} /\ receiver.stage = "running"
    BY <1>1, <1>9
       DEF OpenRenderer, OpenRendererFails, RenderSdl, TextureFails, EndLoop, CloseRenderer
  <2>2. receiver' \in Receivers /\ receiver'.stage = receiver.stage
    BY <1>1, <1>9
       DEF OpenRenderer, OpenRendererFails, RenderSdl, TextureFails, EndLoop, CloseRenderer
  <2>3. render' \in Renders /\ (render'.step \in {"none", "ended"} => render'.held = {})
    <3>1. CASE OpenRenderer
      <4> DEFINE n == Cardinality(render.held) + 1
      <4>1. CASE receiver.kind = "sdl" /\ n <= Len(SdlParts)
        <5>1. render' = [render EXCEPT !.held = @ \cup {SdlParts[n]}] /\ render.step = "open"
          BY <3>1, <4>1 DEF OpenRenderer
        <5>2. SdlParts[n] \in {"sdl", "window", "renderer"}
          <6>1. IsFiniteSet({"sdl", "window", "renderer", "texture"})
            <7>1. /\ IsFiniteSet({}) /\ IsFiniteSet({} \cup {"sdl"})
              BY FS_EmptySet, FS_AddElement
            <7>2. IsFiniteSet(({} \cup {"sdl"}) \cup {"window"})
              BY <7>1, FS_AddElement
            <7>3. IsFiniteSet((({} \cup {"sdl"}) \cup {"window"}) \cup {"renderer"})
              BY <7>2, FS_AddElement
            <7>4. IsFiniteSet(((({} \cup {"sdl"}) \cup {"window"}) \cup {"renderer"}) \cup {"texture"})
              BY <7>3, FS_AddElement
            <7>5. ((({} \cup {"sdl"}) \cup {"window"}) \cup {"renderer"}) \cup {"texture"}
                      = {"sdl", "window", "renderer", "texture"}
              OBVIOUS
            <7> QED
              BY <7>4, <7>5
          <6>2. Cardinality(render.held) \in Nat
            BY <1>1, <6>1, FS_Subset, FS_CardinalityType
          <6> HIDE DEF n
          <6>3. n \in 1 .. 3
            BY <4>1, <6>2 DEF n, SdlParts
          <6> QED
            BY <6>3 DEF SdlParts
        <5> HIDE DEF n
        <5> QED
          BY <1>1, <5>1, <5>2
      <4>2. CASE ~(receiver.kind = "sdl" /\ n <= Len(SdlParts))
        BY <1>1, <3>1, <4>2 DEF OpenRenderer, RenderSteps
      <4> QED
        BY <4>1, <4>2
    <3>2. CASE OpenRendererFails \/ CloseRenderer
      BY <3>2 DEF OpenRendererFails, CloseRenderer, NoRenderer, RenderSteps
    <3>3. CASE RenderSdl
      <4>1. PICK size \in Sizes :
                render' = [render EXCEPT !.held = render.held \cup {"texture"}, !.texture = {size}]
        BY <3>3 DEF RenderSdl
      <4>2. render.step = "loop"
        BY <3>3 DEF RenderSdl
      <4> QED
        BY <1>1, <4>1, <4>2
    <3>4. CASE TextureFails
      <4>1. render' = [render EXCEPT !.step = "close", !.held = render.held \ {"texture"},
                                     !.texture = {}]
        BY <3>4 DEF TextureFails
      <4> QED
        BY <1>1, <4>1 DEF RenderSteps
    <3>5. CASE EndLoop
      BY <1>1, <3>5 DEF EndLoop, RenderSteps
    <3> QED
      BY <1>9, <3>1, <3>2, <3>3, <3>4, <3>5
  <2> QED
    BY <1>3, <2>1, <2>2, <2>3
<1> QED
  BY <1>4, <1>5, <1>6, <1>7, <1>8, <1>9 DEF ReceiverNext

-----------------------------------------------------------------------------
(* The two codecs: the encoder.                                            *)

\* Numbers and times, before and after the network.
LEMMA MetaShape ==
    ASSUME NEW n \in Nat
    PROVE  /\ MetaOf(n) \in Meta /\ MetaOf(n).id = FirstId + n /\ MetaOf(n).ms = FirstMs + n
           /\ OnWire(MetaOf(n)) \in Meta
           /\ OnWire(MetaOf(n)).id = (FirstId + n) % WireMod
           /\ OnWire(MetaOf(n)).ms = (FirstMs + n) % WireMod
<1>1. WireMod \in Nat \ {0} /\ FirstId + n \in Nat /\ FirstMs + n \in Nat
  BY WireAssumption
<1>2. (FirstId + n) % WireMod \in Nat /\ (FirstMs + n) % WireMod \in Nat
  BY <1>1
<1> QED
  BY <1>1, <1>2 DEF MetaOf, OnWire, Meta

\* What is of frames before n is of frames before a newer one.
LEMMA EarlierStill ==
    ASSUME NEW prev, NEW n \in Nat, NEW m \in Nat, n <= m, Earlier(prev, n)
    PROVE  Earlier(prev, m)
BY DEF Earlier

\* A frame that is behind what the renderer compares with, but not in the sender's
\* numbers, has come round.
LEMMA NoAlarm ==
    ASSUME NEW n \in Nat, NEW prev \in Meta, Earlier(prev, n), NEW meta \in Meta,
           meta = OnWire(MetaOf(n)),
           Behind(meta.ms, prev.ms) \/ Behind(meta.id, prev.id)
    PROVE  OnWire(MetaOf(n)) # MetaOf(n)
<1> SUFFICES ASSUME OnWire(MetaOf(n)) = MetaOf(n) PROVE FALSE
  OBVIOUS
<1>1. /\ WireMod \in Nat \ {0} /\ FirstId \in Nat /\ FirstMs \in Nat
      /\ prev.id \in Nat /\ prev.ms \in Nat
  BY WireAssumption DEF Meta
<1>2. /\ meta.id = FirstId + n /\ meta.ms = FirstMs + n
      /\ FirstId + n = (FirstId + n) % WireMod /\ FirstMs + n = (FirstMs + n) % WireMod
  BY MetaShape
<1>3. ASSUME NEW first \in Nat, first + n = (first + n) % WireMod,
             NEW p \in Nat, p = 0 \/ \E k \in Nat : k < n /\ p = (first + k) % WireMod
      PROVE  ~Behind(first + n, p)
  <2>1. CASE p = 0
    BY <2>1 DEF Behind
  <2>2. CASE \E k \in Nat : k < n /\ p = (first + k) % WireMod
    <3>1. PICK k \in Nat : k < n /\ p = (first + k) % WireMod
      BY <2>2
    <3>2. first + n < WireMod
      <4>1. first + n \in Nat
        OBVIOUS
      <4>2. (first + n) % WireMod < WireMod
        BY <1>1, <4>1
      <4> QED
        BY <1>3, <4>2
    <3>3. first + k \in 0 .. WireMod - 1
      BY <1>1, <3>1, <3>2
    <3>4. p = first + k
      BY <1>1, <3>1, <3>3, Lib!SmallRemainder
    <3> QED
      BY <1>1, <3>1, <3>4 DEF Behind
  <2> QED
    BY <1>3, <2>1, <2>2
<1>4. ~Behind(meta.ms, prev.ms)
  BY <1>1, <1>2, <1>3 DEF Earlier
<1>5. ~Behind(meta.id, prev.id)
  BY <1>1, <1>2, <1>3 DEF Earlier
<1> QED
  BY <1>4, <1>5

\* A frame goes into a codec.
LEMMA GivenShape ==
    ASSUME NEW C \in Codec, NEW n \in Nat, NEW meta \in Meta
    PROVE  LET e == [pts |-> C.nextPts, n |-> n, meta |-> meta]
               f == [pts |-> C.nextPts, n |-> n]
               G == Given(C, n, meta)
           IN  /\ G \in Codec /\ e.pts = C.nextPts /\ e.n = n /\ e.meta = meta /\ f.pts = C.nextPts /\ f.n = n
               /\ G.pending = C.pending \cup {e} /\ G.inside = C.inside \cup {f}
               /\ G.nextPts = C.nextPts + 1 /\ G.ended = C.ended
               /\ C.nextPts \in Nat
<1> DEFINE e == [pts |-> C.nextPts, n |-> n, meta |-> meta]
           f == [pts |-> C.nextPts, n |-> n]
           P == C.pending \cup {e}
           I == C.inside \cup {f}
           next == C.nextPts + 1
<1>1. /\ C.nextPts \in Nat /\ C.pending \subseteq Entry
      /\ C.inside \subseteq [pts: Nat, n: Nat]
  BY DEF Codec
<1>2. e \in Entry /\ f \in [pts: Nat, n: Nat] /\ next \in Nat
  BY <1>1 DEF Entry
<1>3. Given(C, n, meta) = [C EXCEPT !.pending = P, !.inside = I, !.nextPts = next, !.draining = TRUE]
  BY DEF Given
<1>4. P \in SUBSET Entry /\ I \in SUBSET [pts: Nat, n: Nat]
  BY <1>1, <1>2
<1> HIDE DEF P, I, next
<1>5. Given(C, n, meta) \in Codec
  BY <1>2, <1>3, <1>4 DEF Codec
<1>6. LET G == Given(C, n, meta)
      IN  G.pending = P /\ G.inside = I /\ G.nextPts = next /\ G.ended = C.ended
  BY <1>3 DEF Codec
<1> QED
  BY <1>1, <1>5, <1>6 DEF P, I, next

\* What the map knows of a time stamp, and what it keeps.
LEMMA LookUp ==
    ASSUME NEW C \in Codec, NEW pts \in Nat
    PROVE  /\ Found(C, {}) = NoMeta /\ Erased(C, {}) = C.pending
           /\ \/ /\ \A e \in C.pending : e.pts # pts
                 /\ Found(C, {pts}) = NoMeta /\ Erased(C, {pts}) = C.pending
              \/ /\ \E e \in C.pending : e.pts = pts /\ Found(C, {pts}) = e.meta
                 /\ Erased(C, {pts}) = {e \in C.pending : e.pts > pts}
<1>1. Found(C, {}) = NoMeta /\ Erased(C, {}) = C.pending
  BY DEF Found, Erased
<1>2. CASE \A e \in C.pending : e.pts # pts
  BY <1>1, <1>2 DEF Found, Erased
<1>3. CASE \E e \in C.pending : e.pts = pts
  <2>1. \E e \in C.pending : e.pts \in {pts}
    BY <1>3
  <2> DEFINE x == CHOOSE e \in C.pending : e.pts \in {pts}
  <2>2. x \in C.pending /\ x.pts = pts
    BY <2>1
  <2>3. Found(C, {pts}) = x.meta
    BY <2>1 DEF Found
  <2>4. Erased(C, {pts}) = {e \in C.pending : e.pts > pts}
    BY <2>1 DEF Erased
  <2> HIDE DEF x
  <2> QED
    BY <1>1, <2>2, <2>3, <2>4
<1> QED
  BY <1>1, <1>2, <1>3

\* The invariant of the chain in a form that the steps can use.
ChainParts ==
    /\ ChainType /\ EncoderInv /\ DecoderInv /\ OutputInv /\ RefusedOnlyPastWrap
    /\ \A i \in 1 .. Len(coded) : coded[i].meta = MetaOf(coded[i].n)
    /\ \A i \in 1 .. Len(queueB) : queueB[i].meta \in {NoMeta, OnWire(MetaOf(queueB[i].n))}
    /\ \A e \in encoder.pending :
          \/ \E f \in encoder.inside : f.pts = e.pts
          \/ e.pts = encoder.nextPts - 1

\* Its clauses over the places of the sequences are those of the invariant.
LEMMA ChainIsParts == ChainInv <=> ChainParts
<1>1. ChainType => DOMAIN coded = 1 .. Len(coded) /\ DOMAIN queueB = 1 .. Len(queueB)
  BY LenProperties DEF ChainType
<1> QED
  BY <1>1 DEF ChainInv, ChainParts, MetaIsOwn

\* The encoder takes a frame or is asked for what it still has.
LEMMA EncodeStep ==
    ASSUME ChainParts, Encode \/ FlushEncoder \/ DrainedPackets
    PROVE  ChainParts'
<1>1. /\ ChainType /\ EncoderInv /\ DecoderInv /\ OutputInv /\ RefusedOnlyPastWrap
      /\ encoder \in Codec /\ encoder.nextPts \in Nat
      /\ \A i \in 1 .. Len(coded) : coded[i].n \in Nat
      /\ UNCHANGED <<decoder, coded, arrived, queueB, renderer>>
  <2>1. \A i \in 1 .. Len(coded) : coded[i] \in Picture
    BY ElementOfSeq DEF ChainParts, ChainType
  <2> QED
    BY <2>1 DEF ChainParts, ChainType, Codec, Picture, Encode, FlushEncoder, DrainedPackets
<1>2. DecoderInv' /\ OutputInv' /\ RefusedOnlyPastWrap'
  BY <1>1 DEF DecoderInv, OutputInv, RefusedOnlyPastWrap, Newest
<1>3. CASE Encode
  <2> DEFINE n == encoder.nextPts
             G == Given(encoder, n, MetaOf(n))
             e == [pts |-> n, n |-> n, meta |-> MetaOf(n)]
             f == [pts |-> n, n |-> n]
  <2>1. MetaOf(n) \in Meta /\ ~encoder.ended /\ n \in Nat
    BY <1>1, <1>3, MetaShape DEF Encode, Idle
  <2>2. /\ G \in Codec /\ e.pts = n /\ e.meta = MetaOf(n) /\ f.pts = n /\ f.n = n
        /\ G.pending = encoder.pending \cup {e} /\ G.inside = encoder.inside \cup {f}
        /\ G.nextPts = n + 1 /\ G.ended = encoder.ended
    BY <1>1, <2>1, GivenShape
  <2>3. \/ encoder' = G
        \/ encoder' = [G EXCEPT !.inside = encoder.inside, !.draining = FALSE, !.ended = TRUE]
    BY <1>3 DEF Encode
  <2> HIDE DEF G, e, f
  <2>4. /\ encoder' \in Codec /\ encoder'.pending = encoder.pending \cup {e}
        /\ encoder'.nextPts = n + 1
        /\ \/ encoder'.inside = encoder.inside \cup {f} /\ ~encoder'.ended
           \/ encoder'.inside = encoder.inside /\ encoder'.ended
    <3>1. CASE encoder' = G
      BY <2>1, <2>2, <3>1
    <3>2. CASE encoder' = [G EXCEPT !.inside = encoder.inside, !.draining = FALSE, !.ended = TRUE]
      <4>1. encoder.inside \subseteq [pts: Nat, n: Nat]
        BY <1>1 DEF Codec
      <4> QED
        BY <2>2, <3>2, <4>1 DEF Codec
    <3> QED
      BY <2>3, <3>1, <3>2
  <2>5. /\ \A d \in encoder.pending : d.pts \in Nat /\ d.pts < n /\ d.meta = MetaOf(d.pts)
        /\ \A d \in encoder.inside : d.pts \in Nat /\ d.pts < n /\ d.n = d.pts
        /\ \A i \in 1 .. Len(coded) : coded[i].n < n
    BY <1>1 DEF EncoderInv, Codec, Entry
  <2>6. EncoderInv'
    <3>1. \A d \in encoder'.pending : d.pts < encoder'.nextPts /\ d.meta = MetaOf(d.pts)
      BY <2>1, <2>2, <2>4, <2>5
    <3>2. ASSUME NEW d \in encoder'.inside
          PROVE  /\ d.pts < encoder'.nextPts /\ d.n = d.pts
                 /\ \E x \in encoder'.pending : x.pts = d.pts
                 /\ \A i \in 1 .. Len(coded') : coded'[i].n < d.n
      <4>1. CASE d \in encoder.inside
        <5>1. /\ \E x \in encoder.pending : x.pts = d.pts
              /\ \A i \in 1 .. Len(coded) : coded[i].n < d.n
          BY <1>1, <4>1 DEF EncoderInv
        <5> QED
          BY <1>1, <2>1, <2>4, <2>5, <4>1, <5>1
      <4>2. CASE d = f
        BY <1>1, <2>1, <2>2, <2>4, <2>5, <4>2
      <4> QED
        BY <2>4, <4>1, <4>2
    <3>3. ~encoder'.ended =>
              \A d \in encoder'.pending : \E x \in encoder'.inside : x.pts = d.pts
      <4>1. \A d \in encoder.pending : \E x \in encoder.inside : x.pts = d.pts
        BY <1>1, <2>1 DEF EncoderInv
      <4> QED
        BY <2>2, <2>4, <4>1
    <3>4. /\ \A i \in 1 .. Len(coded') : coded'[i].n < encoder'.nextPts
          /\ \A i, j \in 1 .. Len(coded') : i < j => coded'[i].n < coded'[j].n
      <4>1. /\ coded' = coded /\ encoder'.nextPts = n + 1 /\ n \in Nat
            /\ \A i \in 1 .. Len(coded) : coded[i].n \in Nat /\ coded[i].n < n
        BY <1>1, <2>1, <2>4, <2>5
      <4>2. \A i, j \in 1 .. Len(coded) : i < j => coded[i].n < coded[j].n
        BY <1>1 DEF EncoderInv
      <4> HIDE DEF n
      <4> QED
        BY <4>1, <4>2
    <3> QED
      BY <3>1, <3>2, <3>3, <3>4 DEF EncoderInv
  <2>7. \A d \in encoder'.pending :
            (\E x \in encoder'.inside : x.pts = d.pts) \/ d.pts = encoder'.nextPts - 1
    <3>1. \A d \in encoder.pending : \E x \in encoder.inside : x.pts = d.pts
      BY <1>1, <2>1 DEF EncoderInv
    <3>2. (n + 1) - 1 = n
      BY <2>1
    <3> QED
      BY <2>2, <2>4, <3>1, <3>2
  <2> QED
    BY <1>1, <1>2, <2>4, <2>6, <2>7 DEF ChainParts, ChainType
<1>4. CASE FlushEncoder \/ DrainedPackets
  <2>1. /\ encoder' \in Codec /\ encoder'.pending = encoder.pending
        /\ encoder'.inside = encoder.inside /\ encoder'.nextPts = encoder.nextPts
        /\ ~encoder'.ended => ~encoder.ended
    <3>1. \/ encoder' = [encoder EXCEPT !.draining = TRUE, !.ended = TRUE]
          \/ encoder' = [encoder EXCEPT !.draining = FALSE]
      BY <1>4 DEF FlushEncoder, DrainedPackets
    <3> QED
      BY <1>1, <3>1 DEF Codec
  <2>2. EncoderInv'
    BY <1>1, <2>1 DEF EncoderInv
  <2> QED
    BY <1>1, <1>2, <2>1, <2>2 DEF ChainParts, ChainType
<1> QED
  BY <1>3, <1>4

\* drainPackets()
LEMMA DrainPacketStep ==
    ASSUME ChainParts, DrainPacket
    PROVE  ChainParts'
<1>1. /\ ChainType /\ EncoderInv /\ DecoderInv /\ OutputInv /\ RefusedOnlyPastWrap
      /\ encoder \in Codec /\ encoder.nextPts \in Nat /\ coded \in Seq(Picture)
      /\ UNCHANGED <<decoder, arrived, queueB, renderer>>
      /\ \A d \in encoder.pending :
            (\E x \in encoder.inside : x.pts = d.pts) \/ d.pts = encoder.nextPts - 1
  BY DEF ChainParts, ChainType, Codec, DrainPacket
<1>2. PICK out \in encoder.inside :
          /\ coded' = Append(coded, [n |-> out.n, meta |-> Found(encoder, {out.pts})])
          /\ encoder' = [encoder EXCEPT !.pending = Erased(encoder, {out.pts}),
                                        !.inside = {f \in @ : f.pts > out.pts}]
  BY DEF DrainPacket
<1>3. /\ \A d \in encoder.pending : d \in Entry /\ d.pts \in Nat
      /\ \A d \in encoder.inside : d \in [pts: Nat, n: Nat] /\ d.pts \in Nat /\ d.n \in Nat
  BY <1>1 DEF Codec, Entry
<1>4. /\ out.pts \in Nat /\ out.n = out.pts /\ out.pts < encoder.nextPts
      /\ \E e \in encoder.pending : e.pts = out.pts
      /\ \A e \in encoder.pending : e.meta = MetaOf(e.pts)
  BY <1>1, <1>3 DEF EncoderInv
<1>5. /\ Found(encoder, {out.pts}) = MetaOf(out.n)
      /\ Erased(encoder, {out.pts}) = {e \in encoder.pending : e.pts > out.pts}
  <2>1. \/ \A e \in encoder.pending : e.pts # out.pts
        \/ /\ \E e \in encoder.pending : e.pts = out.pts /\ Found(encoder, {out.pts}) = e.meta
           /\ Erased(encoder, {out.pts}) = {e \in encoder.pending : e.pts > out.pts}
    BY <1>1, <1>4, LookUp
  <2>2. /\ \E e \in encoder.pending : e.pts = out.pts /\ Found(encoder, {out.pts}) = e.meta
        /\ Erased(encoder, {out.pts}) = {e \in encoder.pending : e.pts > out.pts}
    BY <1>4, <2>1
  <2> QED
    BY <1>4, <2>2
<1> DEFINE P == {e \in encoder.pending : e.pts > out.pts}
           I == {f \in encoder.inside : f.pts > out.pts}
           pic == [n |-> out.n, meta |-> MetaOf(out.n)]
<1>6. /\ coded' = Append(coded, pic) /\ pic.n = out.n /\ pic.meta = MetaOf(out.n)
      /\ encoder' = [encoder EXCEPT !.pending = P, !.inside = I]
      /\ pic \in Picture
  BY <1>2, <1>4, <1>5, MetaShape DEF Picture
<1>7. P \subseteq encoder.pending /\ I \subseteq encoder.inside
  OBVIOUS
<1>8. /\ encoder' \in Codec /\ encoder'.pending = P /\ encoder'.inside = I
      /\ encoder'.nextPts = encoder.nextPts /\ encoder'.ended = encoder.ended
  <2> HIDE DEF P, I
  <2> QED
    BY <1>1, <1>6, <1>7 DEF Codec
<1> DEFINE m == Len(coded)
<1>9. /\ coded' \in Seq(Picture) /\ m \in Nat /\ Len(coded') = m + 1 /\ coded'[m + 1] = pic
      /\ \A i \in 1 .. m : coded'[i] = coded[i]
  <2> HIDE DEF pic
  <2> QED
    BY <1>1, <1>6, AppendProperties, LenProperties
<1> HIDE DEF pic, m
<1>10. \A i \in 1 .. m + 1 : i \in 1 .. m \/ i = m + 1
  BY <1>9
<1>11. \A i \in 1 .. m : coded[i].n \in Nat /\ coded[i].n < out.n /\ coded[i].n < encoder.nextPts
  <2>1. \A i \in 1 .. m : coded[i] \in Picture
    BY <1>1, ElementOfSeq DEF m
  <2> QED
    BY <1>1, <2>1 DEF EncoderInv, Picture, m
<1>12. EncoderInv'
  <2>1. \A d \in P : d.pts < encoder.nextPts /\ d.meta = MetaOf(d.pts)
    BY <1>1 DEF EncoderInv
  <2>2. ASSUME NEW d \in I
        PROVE  /\ d.pts < encoder.nextPts /\ d.n = d.pts
               /\ \E e \in P : e.pts = d.pts
               /\ \A i \in 1 .. m + 1 : coded'[i].n < d.n
    <3>1. /\ d.pts < encoder.nextPts /\ d.n = d.pts
          /\ \E e \in encoder.pending : e.pts = d.pts
          /\ \A i \in 1 .. m : coded[i].n < d.n
      BY <1>1 DEF EncoderInv, m
    <3> QED
      BY <1>4, <1>6, <1>9, <1>10, <3>1
  <2>3. ~encoder.ended => \A d \in P : \E f \in I : f.pts = d.pts
    BY <1>1 DEF EncoderInv
  <2>4. \A i \in 1 .. m + 1 : coded'[i].n < encoder.nextPts
    BY <1>4, <1>6, <1>9, <1>10, <1>11
  <2>5. \A i, j \in 1 .. m + 1 : i < j => coded'[i].n < coded'[j].n
    <3> TAKE i, j \in 1 .. m + 1
    <3> HAVE i < j
    <3>1. i \in 1 .. m
      BY <1>9
    <3>2. CASE j = m + 1
      BY <1>6, <1>9, <1>11, <3>1, <3>2
    <3>3. CASE j \in 1 .. m
      BY <1>1, <1>9, <3>1, <3>3 DEF EncoderInv, m
    <3> QED
      BY <1>10, <3>2, <3>3
  <2> HIDE DEF P, I
  <2> QED
    BY <1>8, <1>9, <2>1, <2>2, <2>3, <2>4, <2>5 DEF EncoderInv
<1>13. /\ \A i \in 1 .. Len(coded') : coded'[i].meta = MetaOf(coded'[i].n)
       /\ \A d \in encoder'.pending :
            (\E x \in encoder'.inside : x.pts = d.pts) \/ d.pts = encoder'.nextPts - 1
  <2>1. \A i \in 1 .. m : coded[i].meta = MetaOf(coded[i].n)
    BY DEF ChainParts, m
  <2>2. \A i \in 1 .. m + 1 : coded'[i].meta = MetaOf(coded'[i].n)
    BY <1>6, <1>9, <1>10, <2>1
  <2>3. \A d \in P : (\E x \in I : x.pts = d.pts) \/ d.pts = encoder.nextPts - 1
    BY <1>1
  <2> HIDE DEF P, I
  <2> QED
    BY <1>8, <1>9, <2>2, <2>3
<1>14. /\ arrived' \in 0 .. Len(coded') /\ Newest' = Newest
  <2>1. arrived \in 0 .. m
    BY <1>1 DEF ChainType, m
  <2>2. arrived # 0 => arrived \in 1 .. m
    BY <1>9, <2>1
  <2>3. arrived \in 0 .. m + 1
    BY <1>9, <2>1
  <2> QED
    BY <1>1, <1>9, <2>2, <2>3 DEF Newest
<1>15. DecoderInv' /\ OutputInv' /\ RefusedOnlyPastWrap'
  BY <1>1, <1>14 DEF DecoderInv, OutputInv, RefusedOnlyPastWrap
<1>16. ChainType'
  BY <1>1, <1>8, <1>9, <1>14 DEF ChainType
<1> QED
  BY <1>1, <1>12, <1>13, <1>15, <1>16 DEF ChainParts

-----------------------------------------------------------------------------
(* The two codecs: the network and the decoder.                            *)

\* What is true of every state of the chain, in the form the steps use.
LEMMA ChainFacts ==
    ASSUME ChainParts
    PROVE  /\ ChainType /\ EncoderInv /\ DecoderInv /\ OutputInv /\ RefusedOnlyPastWrap
           /\ encoder \in Codec /\ decoder \in Codec /\ decoder.nextPts \in Nat
           /\ coded \in Seq(Picture) /\ queueB \in Seq(Picture)
           /\ Len(coded) \in Nat /\ Len(queueB) \in Nat
           /\ arrived \in 0 .. Len(coded) /\ arrived \in Nat
           /\ Newest \in Nat
           /\ renderer \in [prev: Meta, refused: SUBSET Nat] /\ renderer.prev \in Meta
           /\ \A i \in 1 .. Len(coded) : coded[i] \in Picture /\ coded[i].n \in Nat
           /\ \A i \in 1 .. Len(queueB) :
                 queueB[i] \in Picture /\ queueB[i].n \in Nat /\ queueB[i].meta \in Meta
           /\ \A d \in decoder.pending :
                 d \in Entry /\ d.pts \in Nat /\ d.n \in Nat /\ d.meta \in Meta
           /\ \A f \in decoder.inside : f \in [pts: Nat, n: Nat] /\ f.pts \in Nat /\ f.n \in Nat
<1>1. /\ ChainType /\ EncoderInv /\ DecoderInv /\ OutputInv /\ RefusedOnlyPastWrap
      /\ encoder \in Codec /\ decoder \in Codec
      /\ coded \in Seq(Picture) /\ queueB \in Seq(Picture)
      /\ arrived \in 0 .. Len(coded)
      /\ renderer \in [prev: Meta, refused: SUBSET Nat]
  BY DEF ChainParts, ChainType
<1>2. Len(coded) \in Nat /\ Len(queueB) \in Nat
  BY <1>1, LenProperties
<1>3. \A i \in 1 .. Len(coded) : coded[i] \in Picture
  BY <1>1, ElementOfSeq
<1>4. \A i \in 1 .. Len(queueB) : queueB[i] \in Picture
  BY <1>1, ElementOfSeq
<1>5. /\ \A i \in 1 .. Len(coded) : coded[i].n \in Nat
      /\ \A i \in 1 .. Len(queueB) : queueB[i].n \in Nat /\ queueB[i].meta \in Meta
  BY <1>3, <1>4 DEF Picture
<1>6. arrived \in Nat
  BY <1>1, <1>2
<1>7. Newest \in Nat
  <2>1. arrived # 0 => arrived \in 1 .. Len(coded)
    BY <1>1, <1>2
  <2> QED
    BY <1>5, <2>1 DEF Newest
<1>8. /\ \A d \in decoder.pending :
            d \in Entry /\ d.pts \in Nat /\ d.n \in Nat /\ d.meta \in Meta
      /\ \A f \in decoder.inside : f \in [pts: Nat, n: Nat] /\ f.pts \in Nat /\ f.n \in Nat
      /\ decoder.nextPts \in Nat
  BY <1>1 DEF Codec, Entry
<1> QED
  BY <1>1, <1>2, <1>3, <1>4, <1>5, <1>6, <1>7, <1>8

\* A frame reaches the other end: it is newer than all before.
LEMMA Arrives ==
    ASSUME ChainParts, arrived < Len(coded), arrived' = arrived + 1, UNCHANGED coded
    PROVE  /\ arrived' \in 0 .. Len(coded)
           /\ arrived' \in 1 .. Len(coded)
           /\ Newest' = coded[arrived + 1].n + 1
           /\ Newest' \in Nat /\ Newest < Newest'
<1>1. /\ EncoderInv /\ Len(coded) \in Nat /\ arrived \in Nat /\ Newest \in Nat
      /\ \A i \in 1 .. Len(coded) : coded[i].n \in Nat
  BY ChainFacts
<1>2. arrived' \in 0 .. Len(coded) /\ arrived' \in 1 .. Len(coded) /\ arrived' # 0
  BY <1>1
<1>3. Newest' = coded[arrived + 1].n + 1
  BY <1>2 DEF Newest
<1>4. coded[arrived + 1].n \in Nat
  BY <1>1, <1>2
<1>5. CASE arrived = 0
  BY <1>2, <1>3, <1>4, <1>5 DEF Newest
<1>6. CASE arrived # 0
  <2>1. arrived \in 1 .. Len(coded) /\ arrived < arrived + 1 /\ arrived + 1 \in 1 .. Len(coded)
    BY <1>1, <1>2, <1>6
  <2>2. coded[arrived].n < coded[arrived + 1].n
    BY <1>1, <2>1 DEF EncoderInv
  <2>3. coded[arrived].n \in Nat
    BY <1>1, <2>1
  <2> QED
    BY <1>2, <1>3, <1>4, <1>6, <2>2, <2>3 DEF Newest
<1> QED
  BY <1>2, <1>3, <1>4, <1>5, <1>6

\* The network loses a frame.
LEMMA LoseFrameStep ==
    ASSUME ChainParts, LoseFrame
    PROVE  ChainParts'
<1>1. /\ arrived < Len(coded) /\ arrived' = arrived + 1
      /\ UNCHANGED <<encoder, decoder, coded, queueB, renderer>>
  BY DEF LoseFrame
<1>2. arrived' \in 0 .. Len(coded) /\ Newest' \in Nat /\ Newest < Newest'
  BY <1>1, Arrives
<1>3. /\ ChainType /\ EncoderInv /\ DecoderInv /\ OutputInv /\ RefusedOnlyPastWrap
      /\ Newest \in Nat
      /\ \A i \in 1 .. Len(queueB) : queueB[i].n \in Nat
      /\ \A d \in decoder.pending : d.n \in Nat
  BY ChainFacts
<1>4. DecoderInv'
  BY <1>1, <1>2, <1>3 DEF DecoderInv
<1>5. OutputInv'
  <2>1. Earlier(renderer.prev, Newest')
    BY <1>2, <1>3, EarlierStill DEF OutputInv
  <2>2. \A i \in 1 .. Len(queueB) : queueB[i].meta # NoMeta => queueB[i].n < Newest'
    BY <1>2, <1>3 DEF OutputInv
  <2> QED
    BY <1>1, <1>3, <2>1, <2>2 DEF OutputInv
<1>6. EncoderInv' /\ ChainType' /\ RefusedOnlyPastWrap'
  BY <1>1, <1>2, <1>3 DEF EncoderInv, ChainType, RefusedOnlyPastWrap
<1> QED
  BY <1>1, <1>4, <1>5, <1>6 DEF ChainParts

\* decode()
LEMMA DecodeStep ==
    ASSUME ChainParts, Decode
    PROVE  ChainParts'
<1> DEFINE frame == coded[arrived + 1]
           wire == OnWire(frame.meta)
           G == Given(decoder, frame.n, wire)
           e == [pts |-> decoder.nextPts, n |-> frame.n, meta |-> wire]
           f == [pts |-> decoder.nextPts, n |-> frame.n]
<1>1. /\ arrived < Len(coded) /\ arrived' = arrived + 1
      /\ UNCHANGED <<encoder, coded, queueB, renderer>>
      /\ decoder' = G \/ decoder' = [decoder EXCEPT !.nextPts = @ + 1]
  BY DEF Decode
<1>2. /\ arrived' \in 0 .. Len(coded) /\ arrived' \in 1 .. Len(coded)
      /\ Newest' = frame.n + 1 /\ Newest' \in Nat /\ Newest < Newest'
  BY <1>1, Arrives
<1>3. /\ ChainType /\ EncoderInv /\ DecoderInv /\ OutputInv /\ RefusedOnlyPastWrap
      /\ decoder \in Codec /\ decoder.nextPts \in Nat
      /\ Newest \in Nat
      /\ \A i \in 1 .. Len(queueB) : queueB[i].n \in Nat
      /\ \A d \in decoder.pending : d.pts \in Nat /\ d.n \in Nat
      /\ \A d \in decoder.inside : d.pts \in Nat
  BY ChainFacts
<1>4. /\ frame.n \in Nat /\ frame.meta = MetaOf(frame.n)
      /\ wire = OnWire(MetaOf(frame.n)) /\ wire \in Meta
  <2>1. \A i \in 1 .. Len(coded) : coded[i] \in Picture /\ coded[i].n \in Nat
    BY ChainFacts
  <2>2. \A i \in 1 .. Len(coded) : coded[i].meta = MetaOf(coded[i].n)
    BY DEF ChainParts
  <2>3. frame.n \in Nat /\ frame.meta = MetaOf(frame.n)
    BY <1>1, <1>2, <2>1, <2>2
  <2> QED
    BY <2>3, MetaShape
<1>5. Newest <= frame.n /\ frame.n < Newest'
  BY <1>2, <1>3, <1>4
<1> HIDE DEF wire
<1>6. /\ G \in Codec /\ e.pts = decoder.nextPts /\ e.n = frame.n /\ e.meta = wire
      /\ f.pts = decoder.nextPts /\ f.n = frame.n
      /\ G.pending = decoder.pending \cup {e} /\ G.inside = decoder.inside \cup {f}
      /\ G.nextPts = decoder.nextPts + 1
  BY <1>3, <1>4, GivenShape, SMTT(60)
<1> HIDE DEF G, e, f, frame
<1>7. /\ decoder' \in Codec /\ decoder'.nextPts = decoder.nextPts + 1
      /\ \/ decoder'.pending = decoder.pending /\ decoder'.inside = decoder.inside
         \/ /\ decoder'.pending = decoder.pending \cup {e}
            /\ decoder'.inside = decoder.inside \cup {f}
  <2>1. CASE decoder' = G
    BY <1>6, <2>1
  <2>2. CASE decoder' = [decoder EXCEPT !.nextPts = @ + 1]
    BY <1>3, <2>2 DEF Codec
  <2> QED
    BY <1>1, <2>1, <2>2
<1>8. /\ \A d \in decoder.pending :
            d.pts < decoder.nextPts /\ d.n < Newest /\ d.meta = OnWire(MetaOf(d.n))
      /\ \A d \in decoder.inside : d.pts < decoder.nextPts
  BY <1>3 DEF DecoderInv
<1>9. DecoderInv'
  <2>1. ASSUME NEW d \in decoder'.pending
        PROVE  d.pts < decoder'.nextPts /\ d.n < Newest' /\ d.meta = OnWire(MetaOf(d.n))
    <3>1. CASE d \in decoder.pending
      BY <1>2, <1>3, <1>7, <1>8, <3>1
    <3>2. CASE d = e
      BY <1>3, <1>4, <1>5, <1>6, <1>7, <3>2
    <3> QED
      BY <1>7, <3>1, <3>2
  <2>2. ASSUME NEW c \in decoder'.pending, NEW d \in decoder'.pending, c.pts < d.pts
        PROVE  c.n < d.n
    <3>1. CASE c \in decoder.pending /\ d \in decoder.pending
      BY <1>3, <2>2, <3>1 DEF DecoderInv
    <3>2. CASE c \in decoder.pending /\ d = e
      BY <1>3, <1>4, <1>5, <1>6, <1>8, <3>2
    <3>3. CASE c = e
      <4>1. d \in decoder.pending \/ d = e
        BY <1>7
      <4> QED
        BY <1>3, <1>6, <1>8, <2>2, <3>3, <4>1
    <3> QED
      BY <1>7, <3>1, <3>2, <3>3
  <2>3. \A d \in decoder'.inside : d.pts < decoder'.nextPts
    BY <1>3, <1>6, <1>7, <1>8
  <2>4. ASSUME NEW c \in decoder'.pending, NEW d \in decoder'.inside, c.pts = d.pts
        PROVE  c.n = d.n
    <3>1. CASE c \in decoder.pending /\ d \in decoder.inside
      BY <1>3, <2>4, <3>1 DEF DecoderInv
    <3>2. CASE c = e /\ d = f
      BY <1>6, <3>2
    <3>3. CASE c \in decoder.pending /\ d = f
      BY <1>3, <1>6, <1>8, <2>4, <3>3
    <3>4. CASE c = e /\ d \in decoder.inside
      BY <1>3, <1>6, <1>8, <2>4, <3>4
    <3> QED
      BY <1>7, <3>1, <3>2, <3>3, <3>4
  <2> QED
    BY <2>1, <2>2, <2>3, <2>4 DEF DecoderInv
<1>10. OutputInv'
  <2>1. Earlier(renderer.prev, Newest') /\ Earlier(renderer.prev, frame.n)
    BY <1>2, <1>3, <1>4, <1>5, EarlierStill DEF OutputInv
  <2>2. ASSUME NEW i \in 1 .. Len(queueB), queueB[i].meta # NoMeta
        PROVE  /\ queueB[i].n < Newest' /\ Earlier(renderer.prev, queueB[i].n)
               /\ \A d \in decoder'.pending : queueB[i].n < d.n
    <3>1. /\ queueB[i].n < Newest /\ Earlier(renderer.prev, queueB[i].n)
          /\ \A d \in decoder.pending : queueB[i].n < d.n
      BY <1>3, <2>2 DEF OutputInv
    <3>2. queueB[i].n < e.n /\ queueB[i].n < Newest'
      BY <1>2, <1>3, <1>4, <1>5, <1>6, <3>1
    <3> QED
      BY <1>7, <3>1, <3>2
  <2>3. \A d \in decoder'.pending : Earlier(renderer.prev, d.n)
    <3>1. \A d \in decoder.pending : Earlier(renderer.prev, d.n)
      BY <1>3 DEF OutputInv
    <3> QED
      BY <1>6, <1>7, <2>1, <3>1
  <2>4. \A i, j \in 1 .. Len(queueB) :
            i < j /\ queueB[i].meta # NoMeta /\ queueB[j].meta # NoMeta
                => queueB[i].n < queueB[j].n
    BY <1>3 DEF OutputInv
  <2> QED
    BY <1>1, <2>1, <2>2, <2>3, <2>4 DEF OutputInv
<1>11. EncoderInv' /\ ChainType' /\ RefusedOnlyPastWrap'
  BY <1>1, <1>2, <1>3, <1>7 DEF EncoderInv, ChainType, RefusedOnlyPastWrap
<1> QED
  BY <1>1, <1>9, <1>10, <1>11 DEF ChainParts

\* flush(), and the end of drainFrames().
LEMMA FlushDecoderStep ==
    ASSUME ChainParts, FlushDecoder \/ DrainedFrames
    PROVE  ChainParts'
<1>1. /\ ChainType /\ EncoderInv /\ DecoderInv /\ OutputInv /\ RefusedOnlyPastWrap /\ decoder \in Codec
      /\ UNCHANGED <<encoder, coded, arrived, queueB, renderer>>
  BY ChainFacts DEF FlushDecoder, DrainedFrames
<1>2. /\ decoder' \in Codec /\ decoder'.pending = decoder.pending
      /\ decoder'.inside = decoder.inside /\ decoder'.nextPts = decoder.nextPts
  <2>1. \/ decoder' = [decoder EXCEPT !.draining = TRUE, !.ended = TRUE]
        \/ decoder' = [decoder EXCEPT !.draining = FALSE]
    BY DEF FlushDecoder, DrainedFrames
  <2> QED
    BY <1>1, <2>1 DEF Codec
<1>3. DecoderInv' /\ OutputInv' /\ EncoderInv' /\ ChainType' /\ RefusedOnlyPastWrap'
  BY <1>1, <1>2 DEF DecoderInv, OutputInv, EncoderInv, ChainType, RefusedOnlyPastWrap, Newest
<1> QED
  BY <1>1, <1>3 DEF ChainParts

-----------------------------------------------------------------------------
(* The two codecs: queue B and the renderer.                               *)

\* Queue B, with what is pending behind it, what the renderer compares with, and the
\* newest frame.
OrderedQueue(q, P, prev, newest) ==
    /\ \A i \in 1 .. Len(q) :
          /\ q[i].meta \in {NoMeta, OnWire(MetaOf(q[i].n))}
          /\ q[i].meta # NoMeta =>
                q[i].n < newest /\ Earlier(prev, q[i].n) /\ \A e \in P : q[i].n < e.n
    /\ \A i, j \in 1 .. Len(q) :
          i < j /\ q[i].meta # NoMeta /\ q[j].meta # NoMeta => q[i].n < q[j].n

\* The invariant in those words.
LEMMA OutputIsOrdered ==
    ASSUME ChainParts
    PROVE  /\ OrderedQueue(queueB, decoder.pending, renderer.prev, Newest)
           /\ Earlier(renderer.prev, Newest)
           /\ \A e \in decoder.pending : Earlier(renderer.prev, e.n)
BY DEF ChainParts, OutputInv, OrderedQueue

\* A frame goes in at the back: it is newer than all before it, and older than what is pending.
LEMMA QueueAppend ==
    ASSUME NEW q \in Seq(Picture), NEW P, NEW R \in SUBSET P, NEW prev, NEW newest,
           NEW p \in Picture,
           OrderedQueue(q, P, prev, newest),
           p.meta \in {NoMeta, OnWire(MetaOf(p.n))},
           p.meta # NoMeta =>
              /\ p.n < newest /\ Earlier(prev, p.n) /\ \A e \in R : p.n < e.n
              /\ \A i \in 1 .. Len(q) : q[i].meta # NoMeta => q[i].n < p.n
    PROVE  Append(q, p) \in Seq(Picture) /\ OrderedQueue(Append(q, p), R, prev, newest)
<1> DEFINE a == Append(q, p)
           m == Len(q)
<1>1. /\ a \in Seq(Picture) /\ m \in Nat /\ Len(a) = m + 1 /\ a[m + 1] = p
      /\ \A i \in 1 .. m : a[i] = q[i]
  BY AppendProperties, LenProperties
<1> HIDE DEF a
<1>2. /\ \A i \in 1 .. m :
            /\ q[i].meta \in {NoMeta, OnWire(MetaOf(q[i].n))}
            /\ q[i].meta # NoMeta =>
                  q[i].n < newest /\ Earlier(prev, q[i].n) /\ \A e \in P : q[i].n < e.n
      /\ \A i, j \in 1 .. m :
            i < j /\ q[i].meta # NoMeta /\ q[j].meta # NoMeta => q[i].n < q[j].n
      /\ \A i \in 1 .. m :
            q[i].meta # NoMeta /\ p.meta # NoMeta => q[i].n < p.n
  BY DEF OrderedQueue
<1> HIDE DEF m
<1>3. \A i \in 1 .. m + 1 : i \in 1 .. m \/ i = m + 1
  BY <1>1
<1>4. ASSUME NEW i \in 1 .. m + 1
      PROVE  /\ a[i].meta \in {NoMeta, OnWire(MetaOf(a[i].n))}
             /\ a[i].meta # NoMeta =>
                   a[i].n < newest /\ Earlier(prev, a[i].n) /\ \A e \in R : a[i].n < e.n
  <2>1. CASE i \in 1 .. m
    BY <1>1, <1>2, <2>1
  <2>2. CASE i = m + 1
    BY <1>1, <2>2
  <2> QED
    BY <1>3, <2>1, <2>2
<1>5. ASSUME NEW i \in 1 .. m + 1, NEW j \in 1 .. m + 1,
             i < j, a[i].meta # NoMeta, a[j].meta # NoMeta
      PROVE  a[i].n < a[j].n
  <2>1. i \in 1 .. m
    BY <1>1, <1>5
  <2>2. CASE j \in 1 .. m
    BY <1>1, <1>2, <1>5, <2>1, <2>2
  <2>3. CASE j = m + 1
    BY <1>1, <1>2, <1>5, <2>1, <2>3
  <2> QED
    BY <1>3, <2>2, <2>3
<1>6. OrderedQueue(a, R, prev, newest)
  BY <1>1, <1>4, <1>5 DEF OrderedQueue
<1> QED
  BY <1>1, <1>6 DEF a

\* The oldest frame goes; if something is known of it all others are newer, so that what
\* is of earlier frames or of this one is of earlier frames for them.
LEMMA QueueTail ==
    ASSUME NEW q \in Seq(Picture), q # <<>>, NEW P, NEW prev, NEW newest,
           OrderedQueue(q, P, prev, newest)
    PROVE  /\ Tail(q) \in Seq(Picture)
           /\ OrderedQueue(Tail(q), P, prev, newest)
           /\ \A new :
                 Head(q).meta # NoMeta /\ (\A n \in Nat : Head(q).n < n => Earlier(new, n))
                     => OrderedQueue(Tail(q), P, new, newest)
<1> DEFINE t == Tail(q)
           m == Len(t)
<1>1. /\ t \in Seq(Picture) /\ m \in Nat /\ Len(q) = m + 1 /\ Head(q) = q[1]
      /\ \A i \in 1 .. m : t[i] = q[i + 1]
  <2>1. /\ t \in Seq(Picture) /\ Len(t) = Len(q) - 1 /\ \A i \in 1 .. Len(t) : t[i] = q[i + 1]
    BY HeadTailProperties
  <2>2. Len(t) \in Nat /\ Len(q) \in Nat
    BY <2>1, LenProperties
  <2> QED
    BY <2>1, <2>2
<1> HIDE DEF t, m
<1>2. \A i \in 1 .. m : i + 1 \in 1 .. m + 1 /\ 1 < i + 1 /\ 1 \in 1 .. m + 1
  BY <1>1
<1>3. ASSUME NEW i \in 1 .. m
      PROVE  /\ t[i].n \in Nat /\ t[i].meta \in {NoMeta, OnWire(MetaOf(t[i].n))}
             /\ t[i].meta # NoMeta =>
                   /\ t[i].n < newest /\ Earlier(prev, t[i].n) /\ \A e \in P : t[i].n < e.n
                   /\ Head(q).meta # NoMeta => Head(q).n < t[i].n
  <2> DEFINE k == i + 1
  <2>1. k \in 1 .. Len(q) /\ 1 \in 1 .. Len(q) /\ 1 < k /\ t[i] = q[k]
    BY <1>1, <1>2
  <2> HIDE DEF k
  <2>2. t[i].n \in Nat
    <3>1. q[k] \in Picture
      BY <2>1, ElementOfSeq
    <3> QED
      BY <2>1, <3>1 DEF Picture
  <2> QED
    BY <1>1, <2>1, <2>2 DEF OrderedQueue
<1>4. ASSUME NEW i \in 1 .. m, NEW j \in 1 .. m,
             i < j, t[i].meta # NoMeta, t[j].meta # NoMeta
      PROVE  t[i].n < t[j].n
  <2> DEFINE k == i + 1
             l == j + 1
  <2>1. k \in 1 .. Len(q) /\ l \in 1 .. Len(q) /\ k < l /\ t[i] = q[k] /\ t[j] = q[l]
    BY <1>1, <1>2, <1>4, SMTT(60)
  <2> HIDE DEF k, l
  <2> QED
    BY <1>4, <2>1 DEF OrderedQueue
<1>5. OrderedQueue(t, P, prev, newest)
  BY <1>3, <1>4 DEF OrderedQueue, m
<1>6. ASSUME NEW new, Head(q).meta # NoMeta,
             \A n \in Nat : Head(q).n < n => Earlier(new, n)
      PROVE  OrderedQueue(t, P, new, newest)
  BY <1>3, <1>4, <1>6 DEF OrderedQueue, m
<1> QED
  BY <1>1, <1>5, <1>6 DEF t

\* A picture leaves the decoder: what it gets is its own or nothing, and if it gets
\* something it is newer than all such pictures before it.
LEMMA PictureLeaves ==
    ASSUME ChainParts, NEW out \in decoder.inside, NEW stamps \in {{out.pts}, {}}
    PROVE  LET p == [n |-> out.n, meta |-> Found(decoder, stamps)]
               R == Erased(decoder, stamps)
           IN  /\ p \in Picture /\ R \in SUBSET decoder.pending
               /\ p.meta \in {NoMeta, OnWire(MetaOf(p.n))}
               /\ p.meta # NoMeta =>
                     /\ p.n < Newest /\ Earlier(renderer.prev, p.n)
                     /\ \A e \in R : p.n < e.n
                     /\ \A i \in 1 .. Len(queueB) :
                           queueB[i].meta # NoMeta => queueB[i].n < p.n
<1> DEFINE p == [n |-> out.n, meta |-> Found(decoder, stamps)]
           R == Erased(decoder, stamps)
<1>1. /\ DecoderInv /\ OutputInv /\ decoder \in Codec
      /\ out.pts \in Nat /\ out.n \in Nat /\ NoMeta \in Meta
      /\ \A d \in decoder.pending : d.pts \in Nat /\ d.n \in Nat /\ d.meta \in Meta
  BY ChainFacts DEF NoMeta, Meta
<1>2. /\ p.n = out.n /\ p.meta = Found(decoder, stamps)
  OBVIOUS
<1>3. CASE Found(decoder, stamps) = NoMeta /\ R = decoder.pending
  <2>1. p \in Picture /\ R \in SUBSET decoder.pending
    BY <1>1, <1>3 DEF Picture
  <2>2. p.meta = NoMeta
    BY <1>2, <1>3
  <2> HIDE DEF p, R
  <2> QED
    BY <2>1, <2>2 DEF p, R
<1>4. CASE /\ \E e \in decoder.pending : e.pts = out.pts /\ Found(decoder, stamps) = e.meta
           /\ R = {e \in decoder.pending : e.pts > out.pts}
  <2>1. PICK e \in decoder.pending : e.pts = out.pts /\ Found(decoder, stamps) = e.meta
    BY <1>4
  <2>2. p.n = e.n /\ p.meta = e.meta /\ e.meta = OnWire(MetaOf(e.n)) /\ e.meta \in Meta
    BY <1>1, <1>2, <2>1 DEF DecoderInv
  <2>3. p \in Picture /\ R \in SUBSET decoder.pending
    BY <1>1, <1>4, <2>1, <2>2 DEF Picture
  <2>4. e.n < Newest /\ Earlier(renderer.prev, e.n)
    BY <1>1, <2>1 DEF DecoderInv, OutputInv
  <2>5. \A d \in R : e.n < d.n
    <3> TAKE d \in R
    <3>1. d \in decoder.pending /\ e.pts < d.pts
      BY <1>1, <1>4, <2>1
    <3> QED
      BY <1>1, <2>1, <3>1 DEF DecoderInv
  <2>6. \A i \in 1 .. Len(queueB) : queueB[i].meta # NoMeta => queueB[i].n < e.n
    BY <1>1, <2>1 DEF OutputInv
  <2> HIDE DEF p, R
  <2> QED
    BY <2>2, <2>3, <2>4, <2>5, <2>6 DEF p, R
<1>5. CASE stamps = {}
  BY <1>1, <1>3, <1>5, LookUp
<1>6. CASE stamps = {out.pts}
  BY <1>1, <1>3, <1>4, <1>6, LookUp, ZenonT(60)
<1> QED
  BY <1>5, <1>6

\* drainFrames()
LEMMA DrainFrameStep ==
    ASSUME ChainParts, DrainFrame
    PROVE  ChainParts'
<1>1. UNCHANGED <<encoder, coded, arrived, renderer>>
  BY DEF DrainFrame
<1>0. PICK out \in decoder.inside : \E stamps \in {{out.pts}, {}} :
          /\ queueB' = LET all == Append(queueB, [n |-> out.n, meta |-> Found(decoder, stamps)])
                       IN  IF Len(all) > QueueBSize THEN Tail(all) ELSE all
          /\ decoder' = [decoder EXCEPT !.pending = Erased(decoder, stamps), !.inside = @ \ {out}]
  BY DEF DrainFrame
<1>2. PICK stamps \in {{out.pts}, {}} :
          /\ queueB' = LET all == Append(queueB, [n |-> out.n, meta |-> Found(decoder, stamps)])
                       IN  IF Len(all) > QueueBSize THEN Tail(all) ELSE all
          /\ decoder' = [decoder EXCEPT !.pending = Erased(decoder, stamps), !.inside = @ \ {out}]
  BY <1>0
<1> DEFINE p == [n |-> out.n, meta |-> Found(decoder, stamps)]
           R == Erased(decoder, stamps)
           I == decoder.inside \ {out}
           all == Append(queueB, p)
           prev == renderer.prev
<1>3. /\ p \in Picture /\ R \in SUBSET decoder.pending
      /\ p.meta \in {NoMeta, OnWire(MetaOf(p.n))}
      /\ p.meta # NoMeta =>
            /\ p.n < Newest /\ Earlier(prev, p.n)
            /\ \A e \in R : p.n < e.n
            /\ \A i \in 1 .. Len(queueB) : queueB[i].meta # NoMeta => queueB[i].n < p.n
  BY PictureLeaves
<1>4. /\ queueB' = IF Len(all) > QueueBSize THEN Tail(all) ELSE all
      /\ decoder' = [decoder EXCEPT !.pending = R, !.inside = I]
  BY <1>2
<1>5. /\ ChainType /\ EncoderInv /\ DecoderInv /\ RefusedOnlyPastWrap
      /\ decoder \in Codec /\ queueB \in Seq(Picture)
  BY ChainFacts
<1>6. /\ OrderedQueue(queueB, decoder.pending, prev, Newest)
      /\ Earlier(prev, Newest) /\ \A e \in decoder.pending : Earlier(prev, e.n)
  BY OutputIsOrdered
<1>i. I \subseteq decoder.inside
  OBVIOUS
<1> HIDE DEF p, R, I, prev
<1>7. all \in Seq(Picture) /\ OrderedQueue(all, R, prev, Newest)
  BY <1>3, <1>5, <1>6, QueueAppend
<1>8. all # <<>>
  BY <1>3, <1>5, AppendProperties, EmptySeq
<1> HIDE DEF all
<1>9. queueB' \in Seq(Picture) /\ OrderedQueue(queueB', R, prev, Newest)
  BY <1>4, <1>7, <1>8, QueueTail
<1>10. /\ decoder' \in Codec /\ decoder'.pending = R /\ decoder'.inside = I
       /\ decoder'.nextPts = decoder.nextPts
  BY <1>3, <1>4, <1>5, <1>i DEF Codec
<1>11. Newest' = Newest /\ renderer'.prev = prev
  BY <1>1 DEF Newest, prev
<1>12. DecoderInv'
  BY <1>3, <1>5, <1>i, <1>10, <1>11 DEF DecoderInv
<1>13. OutputInv'
  BY <1>3, <1>6, <1>9, <1>10, <1>11 DEF OutputInv, OrderedQueue
<1>14. \A i \in 1 .. Len(queueB') : queueB'[i].meta \in {NoMeta, OnWire(MetaOf(queueB'[i].n))}
  BY <1>9 DEF OrderedQueue
<1>15. EncoderInv' /\ RefusedOnlyPastWrap' /\ ChainType'
  BY <1>1, <1>5, <1>9, <1>10 DEF EncoderInv, RefusedOnlyPastWrap, ChainType
<1> QED
  BY <1>1, <1>12, <1>13, <1>14, <1>15 DEF ChainParts

\* renderFrame()
LEMMA RenderNullStep ==
    ASSUME ChainParts, RenderNull
    PROVE  ChainParts'
<1> DEFINE frame == Head(queueB)
           meta == frame.meta
           prev == renderer.prev
           new == [id |-> IF meta.id # 0 THEN meta.id ELSE prev.id,
                   ms |-> IF meta.ms # 0 THEN meta.ms ELSE prev.ms]
           alarm == Behind(meta.ms, prev.ms) \/ Behind(meta.id, prev.id)
<1>1. /\ queueB # <<>> /\ queueB' = Tail(queueB)
      /\ renderer' = IF alarm THEN [renderer EXCEPT !.refused = @ \cup {frame.n}]
                     ELSE [renderer EXCEPT !.prev = new]
      /\ UNCHANGED <<encoder, decoder, coded, arrived>>
  BY DEF RenderNull
<1>2. /\ ChainType /\ EncoderInv /\ DecoderInv /\ RefusedOnlyPastWrap
      /\ queueB \in Seq(Picture) /\ Newest \in Nat
      /\ renderer \in [prev: Meta, refused: SUBSET Nat] /\ prev \in Meta
      /\ \A i \in 1 .. Len(queueB) : queueB[i].n \in Nat /\ queueB[i].meta \in Meta
      /\ \A e \in decoder.pending : e.n \in Nat
  BY ChainFacts
<1>3. /\ OrderedQueue(queueB, decoder.pending, prev, Newest)
      /\ Earlier(prev, Newest) /\ \A e \in decoder.pending : Earlier(prev, e.n)
  BY OutputIsOrdered
<1>4. Head(queueB) = queueB[1] /\ 1 \in 1 .. Len(queueB)
  <2>1. Len(queueB) \in Nat /\ Len(queueB) # 0
    BY <1>1, <1>2, LenProperties, EmptySeq
  <2> QED
    BY <1>1, <1>2, <2>1, HeadTailProperties
<1>5. /\ Tail(queueB) \in Seq(Picture)
      /\ OrderedQueue(Tail(queueB), decoder.pending, prev, Newest)
      /\ meta # NoMeta /\ (\A n \in Nat : frame.n < n => Earlier(new, n))
            => OrderedQueue(Tail(queueB), decoder.pending, new, Newest)
  <2> HIDE DEF new
  <2> QED
    BY <1>1, <1>2, <1>3, QueueTail
<1>6. /\ frame.n \in Nat /\ meta \in Meta /\ meta \in {NoMeta, OnWire(MetaOf(frame.n))}
      /\ meta # NoMeta =>
            /\ frame.n < Newest /\ Earlier(prev, frame.n)
            /\ \A e \in decoder.pending : frame.n < e.n
  BY <1>2, <1>3, <1>4 DEF OrderedQueue
<1> HIDE DEF frame, meta, prev
<1>7. alarm => OnWire(MetaOf(frame.n)) # MetaOf(frame.n)
  <2>1. alarm => meta # NoMeta
    BY DEF Behind, NoMeta
  <2> QED
    BY <1>2, <1>6, <2>1, NoAlarm
<1>8. new \in Meta
  BY <1>2, <1>6 DEF Meta
<1>9. /\ meta = NoMeta => new = prev
      /\ meta # NoMeta => \A n \in Nat : frame.n < n => Earlier(new, n)
  <2>1. CASE meta = NoMeta
    BY <1>2, <2>1 DEF NoMeta, Meta
  <2>2. ASSUME meta # NoMeta, NEW n \in Nat, frame.n < n PROVE Earlier(new, n)
    <3>1. Earlier(prev, n)
      BY <1>6, <2>2, EarlierStill
    <3>2. meta.ms = (FirstMs + frame.n) % WireMod /\ meta.id = (FirstId + frame.n) % WireMod
      BY <1>6, <2>2, MetaShape
    <3>3. /\ new.ms = meta.ms \/ new.ms = prev.ms
          /\ new.id = meta.id \/ new.id = prev.id
      OBVIOUS
    <3> HIDE DEF new
    <3> QED
      BY <1>6, <2>2, <3>1, <3>2, <3>3 DEF Earlier
  <2> QED
    BY <2>1, <2>2
<1> HIDE DEF new, alarm
<1>10. /\ renderer' \in [prev: Meta, refused: SUBSET Nat]
       /\ renderer'.prev \in {prev, new}
       /\ RefusedOnlyPastWrap'
  <2>1. CASE alarm
    <3>1. renderer' = [renderer EXCEPT !.refused = renderer.refused \cup {frame.n}]
      BY <1>1, <2>1
    <3>2. renderer'.prev = prev /\ renderer'.refused = renderer.refused \cup {frame.n}
      BY <1>2, <3>1 DEF prev
    <3> QED
      <4>1. RefusedOnlyPastWrap'
        BY <1>2, <1>7, <2>1, <3>2 DEF RefusedOnlyPastWrap
      <4>2. frame.n \in Nat /\ renderer.refused \subseteq Nat
        BY <1>2, <1>6
      <4>3. renderer' \in [prev: Meta, refused: SUBSET Nat]
        BY <1>2, <3>1, <4>2
      <4> QED
        BY <3>2, <4>1, <4>3
  <2>2. CASE ~alarm
    <3>1. renderer' = [renderer EXCEPT !.prev = new]
      BY <1>1, <2>2
    <3>2. renderer'.prev = new /\ renderer'.refused = renderer.refused
      BY <1>2, <3>1
    <3> QED
      BY <1>2, <1>8, <2>2, <3>1, <3>2 DEF RefusedOnlyPastWrap
  <2> QED
    BY <2>1, <2>2
<1>11. /\ OrderedQueue(queueB', decoder.pending, renderer'.prev, Newest)
       /\ Earlier(renderer'.prev, Newest)
       /\ \A e \in decoder.pending : Earlier(renderer'.prev, e.n)
       /\ queueB' \in Seq(Picture)
  <2>1. CASE renderer'.prev = prev
    BY <1>1, <1>3, <1>5, <2>1
  <2>2. CASE renderer'.prev = new /\ meta # NoMeta
    BY <1>1, <1>2, <1>5, <1>6, <1>9, <2>2
  <2> QED
    BY <1>9, <1>10, <2>1, <2>2
<1>12. Newest' = Newest
  BY <1>1 DEF Newest
<1>13. OutputInv'
  BY <1>1, <1>11, <1>12 DEF OutputInv, OrderedQueue
<1>14. \A i \in 1 .. Len(queueB') : queueB'[i].meta \in {NoMeta, OnWire(MetaOf(queueB'[i].n))}
  BY <1>11 DEF OrderedQueue
<1>15. EncoderInv' /\ DecoderInv' /\ ChainType'
  BY <1>1, <1>2, <1>10, <1>11, <1>12 DEF EncoderInv, DecoderInv, ChainType
<1> QED
  BY <1>1, <1>10, <1>13, <1>14, <1>15 DEF ChainParts

-----------------------------------------------------------------------------
(* The endpoints together.                                                 *)

\* A step of the chain of the two codecs.
LEMMA ChainStep ==
    ASSUME ChainInv, ChainNext
    PROVE  ChainInv'
<1>1. ChainParts
  BY ChainIsParts
<1>2. ChainParts'
  BY <1>1, EncodeStep, DrainPacketStep, LoseFrameStep, DecodeStep, FlushDecoderStep,
     DrainFrameStep, RenderNullStep DEF ChainNext
<1> QED
  BY <1>2, ChainIsParts, PTL

\* Steps of others leave each part as it is.
LEMMA OthersStay ==
    /\ ChainInv /\ UNCHANGED chainVars => ChainInv'
    /\ ReceiverInv /\ UNCHANGED receiverVars => ReceiverInv'
    /\ SenderInv /\ UNCHANGED <<role, senderVars>> => SenderInv'
<1>1. ASSUME ChainInv, UNCHANGED chainVars PROVE ChainInv'
  BY <1>1 DEF chainVars, ChainInv, ChainType, EncoderInv, DecoderInv, OutputInv, MetaIsOwn,
              RefusedOnlyPastWrap, Newest
<1>2. ASSUME ReceiverInv, UNCHANGED receiverVars PROVE ReceiverInv'
  BY <1>2 DEF receiverVars, ReceiverInv, ReceiverType
<1>3. ASSUME SenderInv, UNCHANGED <<role, senderVars>> PROVE SenderInv'
  BY <1>3 DEF senderVars, SenderInv, SourceIsClosed, GeometryAgrees
<1> QED
  BY <1>1, <1>2, <1>3

\* Nothing has gone through the codecs.
LEMMA ChainInitInv == ChainInit => ChainInv
<1> SUFFICES ASSUME ChainInit PROVE ChainInv
  OBVIOUS
<1>1. /\ encoder = NewCodec /\ decoder = NewCodec /\ coded = <<>> /\ queueB = <<>>
      /\ arrived = 0 /\ renderer = [prev |-> NoMeta, refused |-> {}]
  BY DEF ChainInit
<1>2. /\ <<>> \in Seq(Picture) /\ Len(<<>>) = 0 /\ DOMAIN <<>> = {} /\ 0 \in 0 .. 0
      /\ 1 .. 0 = {}
  OBVIOUS
<1>3. /\ NewCodec \in Codec /\ NewCodec.pending = {} /\ NewCodec.inside = {}
  BY DEF NewCodec, Codec
<1>4. NoMeta \in Meta /\ \A n : Earlier(NoMeta, n)
  BY DEF NoMeta, Meta, Earlier
<1>5. renderer.prev = NoMeta /\ renderer.refused = {} /\ renderer \in [prev: Meta, refused: SUBSET Nat]
  BY <1>1, <1>4
<1>6. ChainType
  BY <1>1, <1>2, <1>3, <1>5 DEF ChainType
<1>7. EncoderInv /\ DecoderInv /\ MetaIsOwn /\ RefusedOnlyPastWrap
  BY <1>1, <1>2, <1>3, <1>5 DEF EncoderInv, DecoderInv, MetaIsOwn, RefusedOnlyPastWrap
<1>8. OutputInv
  BY <1>1, <1>2, <1>3, <1>4, <1>5 DEF OutputInv
<1> QED
  BY <1>6, <1>7, <1>8 DEF ChainInv

\* The initial states.
LEMMA InitInv == Init => IInv
<1> SUFFICES ASSUME Init PROVE IInv
  OBVIOUS
<1>1. /\ role \in {"source", "sender", "receiver", "codecs"}
      /\ SenderInit /\ ReceiverInit /\ ChainInit /\ SourceInit
  BY DEF Init, SenderInit
<1>2. SourceInv /\ ChainInv
  BY <1>1, SourceInitInv, ChainInitInv
<1>3. SenderInv
  <2>1. PICK wanted \in SUBSET {"socket", "raw", "h264"} :
            sender = [wanted |-> wanted, stage |-> "new", held |-> {}, encoder |-> Requested]
    BY <1>1 DEF SenderInit
  <2>2. SourceIsClosed
    BY <1>1 DEF SourceInit, ClosedSource, SourceIsClosed
  <2>3. source.step = "idle"
    BY <2>2 DEF SourceIsClosed
  <2>4. Requested \in Geometries
    BY SourceAssumption
  <2> QED
    BY <2>1, <2>2, <2>3, <2>4 DEF SenderInv, SenderStages, GeometryAgrees
<1>4. ReceiverInv
  <2>1. PICK h264 \in BOOLEAN, kind \in {"none", "null", "sdl"} :
            receiver = [h264 |-> h264, kind |-> kind, stage |-> "new", held |-> {},
                        stopping |-> FALSE]
    BY <1>1 DEF ReceiverInit
  <2>2. render = [step |-> "none", held |-> {}, texture |-> {}]
    BY <1>1 DEF ReceiverInit, NoRenderer
  <2> QED
    BY <2>1, <2>2 DEF ReceiverInv, ReceiverType, RenderSteps
<1> QED
  BY <1>1, <1>2, <1>3, <1>4 DEF IInv

\* Every step.
LEMMA StepInv == IInv /\ [Next]_vars => IInv'
<1> SUFFICES ASSUME IInv, [Next]_vars PROVE IInv'
  OBVIOUS
<1>1. /\ role \in {"source", "sender", "receiver", "codecs"}
      /\ SourceInv /\ SenderInv /\ ReceiverInv /\ ChainInv
  BY DEF IInv
<1>2. CASE UNCHANGED vars
  <2>1. role' = role /\ UNCHANGED senderVars /\ UNCHANGED sourceVars
        /\ UNCHANGED receiverVars /\ UNCHANGED chainVars
    BY <1>2 DEF vars, senderVars, sourceVars
  <2> QED
    BY <1>1, <2>1, SourceStays, OthersStay DEF IInv
<1>3. CASE SourceRole /\ UNCHANGED role
  <2>1. /\ role = "source" /\ SourceNext /\ sender' = sender /\ role' = role
        /\ UNCHANGED receiverVars /\ UNCHANGED chainVars
    BY <1>3 DEF SourceRole
  <2>2. SenderInv'
    BY <1>1, <2>1 DEF SenderInv, GeometryAgrees
  <2> QED
    BY <1>1, <2>1, <2>2, SourceStep, OthersStay DEF IInv
<1>4. CASE SenderRole /\ UNCHANGED role
  <2>1. /\ role = "sender" /\ SenderNext /\ role' = role
        /\ UNCHANGED receiverVars /\ UNCHANGED chainVars
    BY <1>4 DEF SenderRole
  <2> QED
    BY <1>1, <2>1, SenderStep, OthersStay DEF IInv
<1>5. CASE ReceiverRole /\ UNCHANGED role
  <2>1. /\ ReceiverNext /\ role' = role
        /\ UNCHANGED senderVars /\ UNCHANGED sourceVars /\ UNCHANGED chainVars
    BY <1>5 DEF ReceiverRole, senderVars, sourceVars
  <2> QED
    BY <1>1, <2>1, ReceiverStep, SourceStays, OthersStay DEF IInv
<1>6. CASE CodecsRole /\ UNCHANGED role
  <2>1. /\ ChainNext /\ role' = role
        /\ UNCHANGED senderVars /\ UNCHANGED sourceVars /\ UNCHANGED receiverVars
    BY <1>6 DEF CodecsRole, senderVars, sourceVars
  <2> QED
    BY <1>1, <2>1, ChainStep, SourceStays, OthersStay DEF IInv
<1> QED
  BY <1>2, <1>3, <1>4, <1>5, <1>6 DEF Next

\* In every state of the endpoints the invariant holds.
THEOREM EndpointsInvariance == Spec => []IInv
BY InitInv, StepInv, PTL DEF Spec

\* V4l2Source::close() and the clean-up of a failed open() leave nothing behind; run() of
\* the sender and of the receiver, and an open() of the receiver that failed, neither.
THEOREM NothingIsLeaked == Spec => []NothingLeaks
<1>1. IInv => NothingLeaks
  <2> SUFFICES ASSUME IInv PROVE NothingLeaks
    OBVIOUS
  <2>1. SourceReleased
    BY SourceGoals DEF IInv
  <2>2. SenderReleased
    BY DEF IInv, SenderInv, SenderReleased, At
  <2>3. ReceiverReleased
    BY DEF IInv, ReceiverInv, ReceiverReleased
  <2> QED
    BY <2>1, <2>2, <2>3 DEF NothingLeaks
<1> QED
  BY <1>1, EndpointsInvariance, PTL

\* The entries of buffers_ are the driver's buffers of this open(), and between two calls
\* of readFrame() the driver has them all.
THEOREM BuffersDoAgree == Spec => []BuffersAgree
<1>1. IInv => BuffersAgree
  BY SourceGoals DEF IInv
<1> QED
  BY <1>1, EndpointsInvariance, PTL

\* SenderPipeline::run() opens the encoder for what the source has negotiated.
THEOREM GeometriesAgree == Spec => []GeometryAgrees
<1>1. IInv => GeometryAgrees
  BY DEF IInv, SenderInv
<1> QED
  BY <1>1, EndpointsInvariance, PTL

\* Encoder and Decoder give a frame the number and time it was given in, as far as a
\* packet carries them, or none.
THEOREM FramesKeepTheirMeta == Spec => []MetaIsOwn
<1>1. IInv => MetaIsOwn
  BY DEF IInv, ChainInv
<1> QED
  BY <1>1, EndpointsInvariance, PTL

\* NullRenderer::renderFrame() refuses a frame of a sender that counts up only if the
\* frame's number or time does not fit into a packet.
THEOREM AlarmsComeFromWraparound == Spec => []RefusedOnlyPastWrap
<1>1. IInv => RefusedOnlyPastWrap
  BY DEF IInv, ChainInv
<1> QED
  BY <1>1, EndpointsInvariance, PTL

=============================================================================
