# TLA+ models of Lowlat_stream

Lowlat_stream captures, encodes and sends video over UDP and receives, reorders,
decodes and shows it. This directory models the parts of it whose correctness
depends on the order of events: the threads and queues of both pipelines, the data
structures of the receive path, the exchange of the two processes over the network,
and what each of them holds of the system. TLC checks the models on small instances, TLAPS
proves selected theorems for all values of the constants.

## The system

Sender process (`app/sender`), one thread per stage:

```
 capture --queue_--> encode --sendQueue_--> send --UDP--> network
                       ^                      |
                       +-- requestKeyFrame ---+ <-- PLI, NACK
```

Receiver process (`app/receiver`):

```
 network --UDP--> recv: assembler, FEC, NACK tracker, jitter buffer
                    --queueA_--> decode --queueB_--> render
```

| Component | State it keeps | Operations | What makes it correct |
|---|---|---|---|
| `common/BoundedQueue.h` | deque, `closed_`, `dropped_`, `peak_`, one mutex, two condition variables | push, tryPush, forcePush, pop, popFor, clear, close | FIFO; bounded; no item lost silently; nobody sleeps through an item, a free place or the close |
| `app/sender/SenderPipeline.cpp` | two queues, `abortRequested_`, three statuses | run, three loops, reverse channel | frames leave in order without gaps; every failure ends every thread; a clean end loses nothing |
| `modules/encode/Encoder.cpp` | codec, `pending_` (pts to frame), `keyFrameRequested_` | encode, flush, requestKeyFrame | a request of another thread is honoured by the next frame |
| `app/receiver/ReceiverPipeline.cpp` | two queues, `stopping_`, statuses, RTT table, PLI limiter, peer | run, three loops, requestStop, trackPeer, ... | the decoder never gets a broken reference chain; order; every stop ends every thread |
| `modules/transport/FrameAssembler.cpp` | table of partial frames, ready list, watermark, statistics | offer, pop, reset | frames delivered whole and once; table bounded; loss not overstated |
| `modules/transport/JitterBuffer.cpp` | frames by extended id, anchor, last id delivered, gate | push, pop, dropUntilKeyFrame, reset | strictly increasing delivery across wraparound; key frame first; bounded |
| `modules/transport/NackTracker.cpp` | gaps with request state, newest number | onPacket, collectNackTargets, reset | exact gaps; each settled once; paced and limited requests |
| `modules/transport/RetransmitCache.cpp` | recent frames by sequence range | store, find, reset | finds exactly what is retained, across wraparound |
| `modules/transport/Fec{Encoder,Decoder}.cpp` | XOR groups | buildForFrame, onDataPacket, onFecPacket | recovers exactly one loss per group, never a wrong packet |
| `modules/transport/DelayEstimator.cpp` | sample window, current delay | observe, setRttMs, reset | delay within limits, bounded rate of change |
| `modules/transport/Packet.cpp`, `Packetizer.cpp` | sequence counter | codecs, packetize | numbers are gap-free, wraparound comparison |
| `modules/decode/Decoder.cpp` | codec, converter, map from pts to frame | open, decode, flush, close | a frame keeps its own number and capture time |
| `modules/capture/V4l2Source.cpp`, `NullSource.cpp` | descriptor, converter, mapped buffers, negotiated format | open, readFrame, close | whatever fails, everything is given back; no buffer of the driver is lost or mistaken for another |
| `modules/render/*.cpp` | window, renderer, texture; last number seen | open, renderFrame, pumpEvents, close | owned by the render thread; the check of the order raises no false alarm as long as numbers and times fit into a packet |
| `modules/transport/UdpSocket.cpp` | descriptor | open, bind, sendTo, recvFrom, close | given back by its pipeline |
| `Config`, `Logger`, `Metrics`, `Status`, `LossInjector`, `app/server` | parsing, tools | | |

Interaction: threads of a process meet only in the queues and in atomic flags
(`stopRequested`, `abortRequested_`, `stopping_`, `keyFrameRequested_`). Everything
else belongs to one thread: packetizer and cache to the send thread; assembler,
tracker, FEC and jitter buffer to the receive thread; codec state to the encode and
decode threads. The two processes meet in a network that loses, repeats, delays and
reorders.

Hard behaviour: the shutdown of three threads that may each be blocked in a queue;
`popFor()` whose timeout races `close()`; queue A that overflows while the decode
thread empties it; sequence numbers and frame ids that wrap around; late and
repeated packets; requests that race their answers; a sender that restarts.
`PROJECT.json` lists these hazards, each at its line.

## Modules

| Module | Models | Granularity |
|---|---|---|
| `QueueOps` | what a critical section of `BoundedQueue.h` does to the queue | functions of the queue's value |
| `BoundedQueue` | the class with its mutex and condition variables | a critical section is a step; a notification after the unlock is a step; a wake-up is a step |
| `SenderPipeline` | the three loops, two queues and flags of one `run()` | a queue operation or an access to a shared flag is a step |
| `ReceiverPipeline` | the same for the receiver, with `JitterOps` as its jitter buffer | the same; `requestStop()` is three steps |
| `Wraparound` | `seqNewerThan()` and 32-bit signed distance, modulo a constant | functions |
| `FrameStream` | abstract specification: what the receive thread promises the decode thread | a frame accepted, let out or given up is a step |
| `JitterOps` | the member functions of `JitterBuffer.cpp` | functions of the buffer's value |
| `JitterBuffer` | the buffer between a bad network and a thread that takes what is due; implements `FrameStream` | a call is a step |
| `FrameAssembler` | `offer()`, `pop()`, `reset()` | a call is a step |
| `NackOps` | the member functions of `NackTracker.cpp` | functions of the tracker's value |
| `NackTracker` | the tracker behind a bad network | a call is a step |
| `Packetizing` | `Packetizer.cpp` | functions |
| `PacketOps` | the NACK codec of `Packet.cpp`, `RetransmitCache.cpp` | functions of their values |
| `ReverseChannel` | the send thread's packets, cache and answers; the receive thread's peer, tracker, NACKs, PLIs and RTT table; two sender processes one after the other and the network | what a thread does with one frame, one packet or one poll is a step |
| `FecOps` | `FecEncoder.cpp`, `FecDecoder.cpp` | functions |
| `Fec` | packetizer, FEC encoder, network, `trackPeer()` and FEC decoder; a sender that restarts | a frame sent or a datagram handled is a step |
| `DelayEstimator` | the estimator, fed with late frames and round trips | a call is a step |
| `V4l2Source` | both capture sources and the driver they talk to (external) | a call into the kernel or into libswscale is a step |
| `SenderResources` | `run()` from `validateConfig()` to `closeResources()`, with `V4l2Source` as its source | a resource taken, refused or given back is a step |
| `ReceiverResources` | `open()`, `run()` and what the render thread owns | the same |
| `CodecChain` | the maps of `Encoder` and `Decoder` around libraries that hold back, drop and reorder frames; queue B; the check in `NullRenderer` | a call into a library is a step |
| `Endpoints` | the four preceding ones side by side | as there |
| `MC_*` | instances for TLC | |
| `BoundedQueueProofs`, `SenderPipelineProofs`, `ReceiverPipelineProofs`, `FrameAssemblerProofs`, `EndpointsProofs` | theorems about the module of that name | |
| `ReceivePathProofs` | theorems about `JitterBuffer`, `DelayEstimator` and `Fec` | |
| `LossRecoveryProofs` | theorems about `NackTracker` and `ReverseChannel` | |
| `SharedLemmas` | lemmas the proofs have in common: the operations of `QueueOps`, remainders and signed distance, the least element of a set of numbers | |

State and actions carry the names of the members and functions they stand for;
where they do not, a comment names them, and `map` in `PROJECT.json` gives the lines
of every definition. A definition that a comment introduces with "Fault:" is a
plausible bug. It is used by no specification; `mutants` says which definition it
replaces to show that a property can fail.

`BoundedQueue` checks what the other modules assume: that a queue operation is
atomic, that a blocked call returns when it can. The pipelines therefore use
`QueueOps` directly and give every thread weak fairness. `SenderPipeline` and
`ReceiverPipeline` take what they open for granted; `SenderResources` and
`ReceiverResources` take the threads for one step that ends with or without an error.

### Abstractions

- Payload is the number of the frame it belongs to. `FrameAssembler` keeps the frame
  each fragment was cut from, so a frame put together from fragments of two shows.
- In `ReverseChannel` a payload is a frame and the position of a slice; a bitmap is the
  set of the distances it holds; the network hands over any packet ever sent to this
  address, any number of times, at any time or never, so loss, delay, repetition and
  reordering need no actions of their own. Frames are encoded as they are sent; the
  queues in between are the subject of `SenderPipeline`. The clock ticks at any time.
- In `FecOps` a payload is the set of its bytes, each with its position, a byte is a
  frame and an offset, a length is the set of its binary digits. XOR of a group is
  then what occurs an odd number of times, bit by bit as in the code, and a wrong
  member, a wrong length or a member counted twice gives a wrong packet. What the
  tracker and the assembler do with a recovered packet is left to their modules.
- `DelayEstimator` counts in milliseconds and leaves out where `int64_t` would saturate.
- In `V4l2Source` the driver is a state per buffer (queued or borrowed), the mappings that
  exist, and which of them `munmap()` refused; format and rate are one geometry.
- In `CodecChain` a library returns the frames given to it in any number at a time; the
  encoder in order and the decoder in any, and both may drop some. A behaviour begins
  when the sender's numbers and clock have got to `FirstId` and `FirstMs` and the receiver
  has just been started; both then go up by one a frame. A packet carries them modulo
  `WireMod`, and the receiver goes on with that (`OnWire`); 0 means "unknown" as in the
  code. The order of operations of the two processes is arbitrary.
- The roles of `Endpoints` share nothing, and a behaviour is about one of them.
- Time elsewhere: a play time is "reached" or "not reached yet" and any entry may become due at
  any moment; timeouts may fire whenever the code waits. `NackTracker` needs no time,
  the code counts packets.
- libavcodec, SDL, sockets, files and devices are external: each call may succeed or
  fail in the ways the code tells apart. The codec returns frames in order, any
  number at a time, and all of them when flushed; this is what the code's use of it
  (no B-frames, zerolatency) relies on.
- In `ReceiverPipeline` complete frames arrive in order and without loss, so that
  every gap further down is of the pipeline's own making. What the network does to
  frames is the subject of `FrameAssembler` and `JitterBuffer`.
- 2^32 and 2^64 are the constants `IdMod`, `SeqMod`, `ExtMod`, `WireMod`; the runs choose them so
  that a stream of a few frames or packets crosses the wraparound.

## Runs

All runs but `endpoints` check for deadlock. The specifications of the pipelines have a
stuttering step `Returned` for the program that has ended, so a deadlock is a real one.
In `endpoints` a process opens, runs, closes and is over.

| Run | Instance | Shows |
|---|---|---|
| `queue` | 3 threads, capacity 2, 3 items | every operation in every interleaving: conservation, FIFO, no lost wake-up of a consumer or of a producer; and `close()` releases every blocked call |
| `sender` | capacities 1, 3 frames | order, PLIs, clean end, reporting of failures, and that `run()` returns |
| `sender_tail` | 2 frames | **violated**: see Findings 1 |
| `receiver` | capacities 1, 3 frames, key frames 1, or 1 and 3; a limit of 3 shown frames | reference chain, order shown, nothing left inside after a normal end, and that every stop and every normal end ends all threads |
| `jitter_order` | ids modulo 8, limits 2 and 3, 7 pushes | order across the wraparound, accounting, the refinement of `FrameStream` |
| `jitter_gate` | ids modulo 8 | **violated**: see Findings 2 |
| `assembler` | table of 2, 2 fragments a frame, frames 15..19, at most 2 ahead of the newest and 2 behind it, ids modulo 18, numbers modulo 32, 7 packets, 1 contradicting | whole, once, accounted for, watermark, loss |
| `nack` | window 4, 2 requests, numbers 13..19 modulo 16, 1 reset | exact gaps, each settled once, pacing |
| `reverse` | numbers modulo 16 from 14 on, packets of 2 bytes, frames of 1, 3 and 1 bytes, a cache of 2 frames, 1 bit a bitmap, 1 entry a NACK, 1 restart, 4 packets received, 1 failing `sendTo()`, 2 ticks | retransmissions are the originals, what is retained is found, NACKs go to the sender of what is missing, lost key frames are reported, RTT samples are exact as long as there is one sender and the table has room |
| `fec` | numbers modulo 16 from 15 on, groups of 3, at least 2, the last 3 packets kept, packets of 3 bytes, frames of 10 and 5 bytes, 1 restart, 1 retransmission | what is recovered is what was lost, whatever one loss leaves recoverable is recovered, no packets of two senders together |
| `delay` | limits 2 and 9 the wrong way round, window of 5 ms, percentiles 75 and 25, 800 ms/s, 2 samples, time stamps modulo 32 from 26 on, clock to 40, RTTs of 0, 1 and 12 | limits and rate of the delay, and the order statistic it has to cover |
| `endpoints` | 3 buffers asked for, 2 geometries, 2 opens, 2 failing `munmap()`, 2 frames read, 5 frames through the codecs, queue B of 2, numbers and times modulo 8 on the wire, from 5 and 4 on | nothing leaks, buffers and geometry agree, every frame keeps its own number and time, the renderer refuses only frames whose number or time has come round |

Why the bounds are enough. Three threads let one sleep on each condition variable
while a third one works, and let two compete for one notification; with capacity 2
`clear()` frees more places than one notification would fill. Capacity 1 in the
pipelines makes every queue block or overflow at once, and three frames put one into
each stage: in a queue, in the codec, in a thread's hands; with key frames 1 and 3 queue
A overflows and recovers, with key frame 1 alone it never does. The id spaces are as
small as the assumption "what is on hand spans less than half of the space" allows,
which is the assumption the code makes with 2^32. `MaxItems`, `MaxFrames`, `Sent`,
`Frames`, `Lengths`, `MaxPushes`, `MaxPackets`, `MaxStrays`, `MaxResets`, `Last`, `LastMs`,
`MaxRestarts`, `MaxRetransmits`, `MaxReceived`, `MaxErrors`, `MaxClock`, `MaxOpens` and
`MaxUnmapFailures` bound the environment, never the code. In `assembler`
frames 2 behind the newest can still arrive, so that with a table of 2 packets come of
frames that have been pushed out, complete or not, and of frames older than the whole
table; 7 packets are two frames and three more, one of which pushes out the first. In
`reverse` three frames are one more than the cache holds, the frame of two packets lies
across the wraparound, four packets received let two be lost, one be answered and one of
the other sender come in between, and two ticks separate what is retained from what has
expired. In `fec` the first group lies across the wraparound, the first frame ends in a group of one packet,
which gets no FEC, the second in a packet that is shorter than the others, and three
packets kept are as many as a group, so a group can also have left the window. In
`delay` the clock crosses the wraparound with samples of both sides in the window, the
window runs empty in the longest pause, and the largest RTT is above the upper limit. In
`endpoints` two opens let a mapping of the first one survive into the second; of the five
frames three come before the number wraps and two after, four before the time wraps and
one after.

Fairness. `BoundedQueue`: a thread that is runnable runs on; nobody has to call
anything, and neither a spurious wake-up nor a deadline is promised, so
`CloseReleasesAll` rests on the notifications alone. Pipelines: weak fairness of each
thread, since the threads are preemptive, `readFrame()`, the codec and the renderer
return, and `recvFrom()` and `popFor()` have timeouts; in the receiver also that play
times are reached, since the clock advances. No fairness of the signal, of frames
arriving or of failures. A blocking queue call is a step of its own that is disabled
while it blocks, so fairness of the thread does not assume that it is released.

### Properties worth a note

- `NoLostWakeup` (queue): notifications come after the unlock. The invariant counts:
  items inside, or free places, are matched by notifications that are owed and by
  threads on their way, as long as somebody sleeps.
- `PliHonoured` (sender): `owedKey` is the number of the first frame whose `encode()`
  takes the flag after the PLI. The mutant, which resets the flag after the frame
  instead of exchanging it, loses a PLI that falls in between.
- `DecoderChain` (receiver): frames in queue A, the one refused and those in the
  jitter buffer all have to go, or the decoder gets a frame without its predecessor.
- `DeliveredOnce`, `TableIsAhead` (assembler): a frame that was completed and pushed out
  is turned away by two tests of `offer()`, the watermark and the age of the oldest
  entry. They overlap, for what was pushed out is older than what stays and the table
  stays full; one mutant takes away both (`IsLate`), another one the entry that a
  completed frame leaves in the table.
- `EveryGapSettled` (tracker): a gap that is given up after the last request is settled as
  given up, and an answer that comes later does not change that, as in the code.
  `lostForReal`, which the code moves together with `givenUp` everywhere, is left out.
- `AskedOfItsSender` (reverse channel): the numbers of two senders overlap after a
  restart; only the reset in `trackPeer()` keeps the gaps of one from being asked of the
  other, also when their packets alternate.
- `RetransmitIsOriginal` (reverse channel): repeats are cut by the same function as
  first transmissions, but at an index computed from numbers that wrap.
- `GapsAreExact` (tracker): the table equals, as packet numbers, what has neither
  arrived nor been given up since the baseline.

- `ImplementsStream` (jitter buffer): with extended ids mapped back to the sender's
  numbers, each call of the buffer is a step of `FrameStream` or leaves it alone. It says
  more than the order of delivery: nothing comes back that was given up for its age,
  and what the limits give up is older than what stays.
- `RecoveredIsOriginal`, `OneLossIsRecovered` (FEC): together they say when the decoder
  recovers and what. The first assumes an FEC packet of the present sender: the code does
  not compare an FEC packet with the peer, and one of the old sender that is late can be
  combined with packets of the new one.
- `FallsSlowly`, `CoversWindow` (delay): they pull in opposite directions. The rate limit
  is stated over any number of frames, against `level`, which falls at that rate and rises
  with the delay: the rounding of many short steps cannot add up unseen.
- `BuffersAgree` (V4L2): `close()` keeps an entry whose `munmap()` failed, and the next
  `open()` has to get rid of it before indices of the driver mean entries of the table.
- `NothingLeaks` (endpoints): a close takes away the resources that the code's close
  names, not whatever is held, so one it forgets stays. One mutant loses the mappings of a
  source that does not stream, another the decoder's converter.
- `RefusedOnlyPastWrap` (codecs): the renderer's order check is about numbers that the
  decoder may have lost for some frames and returned late for others. A frame is refused
  only if its own number or time does not fit into a packet; what happens then is
  described under the known limits below.
- `MetaIsOwn` (codecs): frames travel through both libraries under a counter; what they
  drop leaves an entry behind, which must neither be mistaken for another frame's nor
  stay for ever.

### Findings

1. `SenderPipeline.cpp:360`. The send thread's `popFor()` times out, the encode thread
   pushes the last frame and closes the queue, `isClosed()` is true: the loop ends,
   the frame is never sent, `run()` returns Ok. `docs/CONVENTIONS.md:52` and
   `docs/M1_采集编码.md:12` promise that no tail frame is lost.
   `ReceiverPipeline.cpp:465` has the same form between decode and render thread; the
   comment at line 426 promises the opposite. `NothingLeftInside` leaves queue B out for
   this reason.
2. `JitterBuffer.cpp:50`. `dropUntilKeyFrame()` promises that the next frame delivered
   is a key frame. A frame with a smaller id that arrives after the key frame but
   before the key frame is due is inserted in front of it and delivered first.

Known limits of the code, which no property rules out:

- A receiver whose first frame comes right after the wraparound of the frame id anchors
  the extended ids at a small number (`JitterBuffer.cpp:134`); an older frame then gets
  an id just below 2^64 and is delivered after newer ones. The instances of the jitter
  buffer therefore join before the wraparound and cross it (`JoinsBeforeWrap`).
- `trackPeer()` does not reset the table of request times (`ReceiverPipeline.cpp:619`). A
  number the old sender was asked for in vain and the new one uses again keeps the old
  time, and the new sender's answer gives an RTT sample that spans both. The median
  bounds the harm. `RttIsExactAtFirst` is about the first sender. With more than
  `kRttPendingMax` requests under way the table forgets the oldest numbers, and a number
  that is asked for again is timed anew; the sample is then too short, never too long.
- `trackPeer()` resets neither the assembler nor the jitter buffer: a sender that restarts
  with frame ids from 0 is refused until its ids have caught up or are more than half the
  id space behind. For the renderer's check, `RefusedOnlyPastWrap` is about one sender
  process: the next one's numbers, and on another machine its times, would be refused
  until they have caught up.
- `Packetizer.cpp:94,97` cuts capture time and frame number to 32 bits,
  `ReceiverPipeline.cpp:387` hands them to the decoder as they came, and
  `checkAgainstPrevious()` (`NullRenderer.cpp:120,127`) compares them as 64-bit numbers.
  After the wraparound of either every frame is refused, as a refusal does not move what it
  compares with: of the time 2^32 ms after the boot of the sender, of the number after 2^32
  frames. The comment at `NullRenderer.h:68` says that `JitterBuffer::extendFrameId()` deals
  with it, but the extended id is only the jitter buffer's key; `renderLoop()` itself
  allows for the wraparound when it computes the latency. `CodecChain` models the cut
  (`OnWire`) and the run `endpoints` crosses it; `RefusedOnlyPastWrap` says that nothing
  else makes the renderer refuse a frame.

## Proofs

Every theorem holds for all values of the constants that satisfy the assumptions named in
the modules, which the runs evaluate.

**Queue** (`BoundedQueueProofs`), for every finite set of threads, every capacity and
every number of items:

- `QueueIsSafe`: `Spec => [](TypeOK /\ Conservation /\ EndIsFinal)`,
- `QueueIsFifo`: `Spec => [][...]` that items leave in the order of acceptance
  (`TakenInOrder`),
- `NobodySleepsThrough`: `Spec => []NoLostWakeup`.

For the first two the inductive invariant is the conjunction of the three. `Conservation`
is inductive only as a whole: that the queue holds exactly the newest accepted numbers
gives the order, and the balance `accepted = taken + dropped + Len(items)` gives what
`Forced` and `Cleared` do to the counter. `EndIsFinal` needs that no operation enqueues
after `close()`. The condition variables play no part in these. They are what
`NobodySleepsThrough` is about: `Matched` says, once for items and once for free places,
that while somebody sleeps for them they are no more than the threads that are awake and
will look or that owe a notification, unless some thread is about to notify all;
`Released`, that after `close()` some thread is, as long as anybody sleeps.

**Sender** (`SenderPipelineProofs`), for every capacity of the queues and every number of
frames: `SentInOrder`, `PliIsHonoured`, `EndsCleanly`, `AbortsAreReported`. The invariant
is a chain: `Control` follows the threads through the shutdown and says who has closed
which queue; `PliInv` carries a request from the send thread into the frame it is owed
to; `EncInv` and `SendInv` number the frames in each place a frame can be. Only
together do they say that what is nowhere else has been sent.

**Receiver** (`ReceiverPipelineProofs`), for every capacity, limit and stream:

- `PicturesInOrder`: no picture after a newer one (`ShownInOrder`). `InLine` puts the
  places a frame can be in one behind the other, from the picture shown last to the frame
  that arrived last; `Numbered` says that the ids of the jitter buffer are the numbers.
- `RunEndsEmpty`: a run nobody stopped ends empty (`NothingLeftInside`). `Ends` says
  what each thread leaves behind when it ends by itself.
- `DecoderGetsAChain`: the decoder gets a key frame or the successor of the frame before
  (`DecoderChain`). `Hold` says that the jitter buffer has the newest frames without a gap,
  `Links` that whatever is on the way to the decoder may follow what is before it. It
  has two hypotheses about the configuration that the code does not enforce:
  `StartOnKeyFrame`, and a hard limit above the soft one. `ReceiverPipeline.cpp` leaves
  both at their defaults, `startOnKeyFrame = true` and `hardLimitFrames = 0`, which means
  twice `maxFrames`. The other theorems do without.

**Jitter buffer** (`ReceivePathProofs`), for all limits, id spaces, key frames and streams:

- `BufferIsAhead`: `Spec => []PendingIsAhead`. `pop()` never compares what it delivers
  with what it delivered last; it relies on the table holding only newer entries, and
  no id twice. Inductive with the buffer's type, which orders the ids.
- `OutputIsOrdered`: the last delivered extended id moves forward at every `pop()`, and
  only `reset()` takes it back.

Both are about the ids the code compares, and hold also for a join right after the
wraparound. That these ids follow the sender's numbers, in streams in which a frame is at
most `Reorder` frames behind or ahead and `2 * Reorder < IdMod` (`ReorderAssumption`):

- `BufferIsStream`: under `JoinsBeforeWrap`, `Spec => ImplementsStream`.
- `DeliveryIsOrdered`: under `JoinsBeforeWrap`, `Spec => DeliveredInOrder`.
- `FramesAreCounted`: `Spec => []EveryFrameCounted`, without that assumption.

The inductive invariant `SInv` is `Numbered` with the invariant of the first part: the
extended id of whatever the buffer holds, has delivered last and has its anchor at is
the frame's number minus `Base`, the number at which the first frame's lap of the id
space begins. It is needed because the code sees only ids modulo 2^32: `SignedDistance`,
a lemma about remainders, says that their signed distance is the distance of the numbers
as long as that is less than half the space, and from this `Extended` keeps `Numbered`. The
rest is a lemma per function of `JitterOps` (what it adds, removes and lets out, in
numbers) and a step per action. `CInv` says that the table is finite and that its size
and the counters add up.

**Assembler** (`FrameAssemblerProofs`), for all table sizes, fragment counts and id spaces:
`FramesAreWhole`, `CompletedOnce`, `TableStaysAhead`, `FramesAddUp`, `LossIsHonest`. The
argument is about frame numbers where the code sees ids. The table is dense: every step
of the newest frame, at most `Ahead` long, began an entry, and only the oldest entry ever
leaves; so whatever is compared lies within `(MaxPending + 1) * Ahead + Back` frames,
less than half of the id space (`StreamAssumption`), and ids compare as numbers do.
`offer()` is taken apart into evicting, beginning an entry and storing a fragment, each
of which keeps `Good`. `LossInv` is the counterpart for sequence numbers: the highest one
is that of the newest packet that has arrived, and no more packets have arrived than
were counted.

**Tracker** (`LossRecoveryProofs`), for all windows, limits and tolerances, and for streams
that move by less than half of the sequence space: `TableIsExact`, `GapsAreSettled`,
`RequestsArePaced`. The table of gaps is the image of `Missing`, the set of packets that
have neither arrived nor been given up; each operation's effect on the table is the image
of a set operation on `Missing`, and a sequence number stands for one packet only as long
as these lie in one window.

**Reverse channel** (`LossRecoveryProofs`), for all frames, packet sizes, caches, windows,
limits and number spaces in which a sender sends less than half of the numbers
(`SpanAssumption`), any number of restarts, and a network that loses, repeats and reorders
both ways: `RetransmissionsAreOriginal`, `TheCacheServes`, `NacksAskTheirSender`,
`KeyFrameLossesAreReported`, `RttSamplesAreExact`. The inductive invariant is `ReverseInv`:

- `NumbersInv`: what a sender process has sent is an initial part of its numbers. So
  whatever lies between two packets of one process has been sent by it, and
- `Tracks`: the tracker has the baseline and the gaps of the present peer only. The NACK
  codec neither loses nor adds a number (`NackRoundTrip`, over all bitmap sizes), which
  carries this to the wire.
- `CacheOK`: the entries are the newest frames of the running process, one each and in
  order, every slice of them has been sent, and a packet that is not in the cache is too
  old or not of the newest frames. It is needed in this form because eviction by age and
  by number follow each other in one call.
- `PliSent`: a PLI went out at `lastPliMs_`, without which a suppressed request would be
  a request that got lost.

`RttInv` builds on it: what has been asked for lies behind the newest number (`Behind`), so
it becomes no gap again once its answer has taken it from the table, and its time stays
that of the first request. With a second sender this fails, see the known limits.

**FEC** (`ReceivePathProofs`), for all frames, packet sizes, groups, windows, restarts and
repeats, in any order, and number spaces that a sender process does not go round
(`LapAssumption`):

- `DecoderHoldsItsPeer`: all the decoder keeps was sent by the present peer.
- `RecoveryIsExact`: what it recovers is the packet that was lost
  (`RecoveredIsOriginal`).
- `OneLossRecovery`: it recovers one exactly if all others of the group are among those
  it keeps (`OneLossIsRecovered`).

The inductive invariant `FecInv` says that every packet on its way is a copy of a slice of
a frame (`IsCopy`) and every FEC packet that of a run of slices which have been sent
(`IsParity`); `buildForFrame()` cuts a frame into such runs (`GroupsAreRuns`). The rest is
what `onFecPacket()` makes of one: the window of numbers around the base selects the slices
of the run and nothing else, also across the wraparound (`InGroup`); the members are
without repetition, one for each number (`MembersAreListed`); XOR over all members and
the parity leaves what the missing slice had (`XorLeaves`), which gives its bytes and the
digits of its length, and these determine the length (`DigitsTell`); the number that no
member has and the place in the frame are then its own (`MissingNumber`, `IndexFollows`).
The assumption enters in `PlaceBounds`: after a full round an old packet would pass for a
member of a new group. With 2^32 numbers no packet is on its way for that long.

**Endpoints** (`EndpointsProofs`), for all numbers of buffers, geometries, frames, queue
capacities and failures: `NothingIsLeaked`, `BuffersDoAgree`, `GeometriesAgree`,
`FramesKeepTheirMeta`, `AlarmsComeFromWraparound`. The four modules share nothing, so `IInv` is a
conjunction and each step disturbs one part of it.

- Resources: `Held` says at every step of an open or close what has been taken and what
  the driver has accordingly. For `BuffersAgree`, `Mapped` says which mappings the table
  has: if an earlier `munmap()` was refused, the leftovers make the list longer than the
  driver's table for as long as they stay, and such a source never gets as far as
  streaming.
- Codecs: frames go into the decoder in the order of the sender and its entries keep that
  order (`DecoderInv`). A picture whose entry is found takes all older entries with it, so
  a frame that leaves with its number and time is newer than all such frames that have
  left and older than all that will (`OutputInv`), in whatever order the pictures
  themselves come out. Since numbers come round, the order is that of the frames and not
  of what is stored for them. What the renderer compares with is always of earlier frames
  (`Earlier`), so a frame that it refuses has come round (`NoAlarm`). The theorem is for
  every `WireMod` and every start of the numbers and the clock.

**Delay** (`ReceivePathProofs`), for all configurations (also with the two limits the
wrong way round), time stamps and round trips: `DelayIsLimited`, `DelayFallsSlowly`,
`DelayCovers`. `NthExists` says that the order statistic which `nth_element()` finds is
there, by looking at the value with the least number of elements up to it. `FallsSlowly`
is not inductive: the tolerance of one millisecond has to be shared with what the division
by 1000 has left over, which is `Slow`. It also needs that the delay is not above the upper
limit after a frame (`WithinLimits`), or the final clamp would be a fall of its own.

Left to TLC is liveness under fairness, which the prover cannot do: `CloseReleasesAll`,
`Terminates`, `StopReturns`. Every other property of a passing run is stated by a theorem.

## Not modelled

`PROJECT.json` lists every component with its status. Left out for good: the byte layout
of headers, pixels, addresses and `errno`, option and command-line parsing, logging,
published statistics and histograms, the server stub, and `LossInjector`, a test tool whose
decisions are a hash of the sequence number (what it drops is a loss like any other, and
every network here may lose anything).

Hazards that no property covers are listed in `PROJECT.json` with the reason: the join
right after a wraparound, the restart of a sender in front of the assembler and the jitter
buffer, and a stray sequence number that becomes the tracker's baseline.

## Plan

Done: queue, pipelines, receive path, reverse channel, FEC, delay, the abstract stream
with its refinement, codecs and resources; proofs about all of them. Left: the assembler in
front of the jitter buffer with a sender that restarts, as one implementation of
`FrameStream`, and its proof.
