--------------------------- MODULE ReverseChannel ---------------------------
(***************************************************************************)
(* Lost packets and the way back: the send thread's packetizer and         *)
(* retransmission cache (SenderPipeline::sendLoop(), drainReverseChannel())*)
(* and the receive thread's NACKs, key frame requests and RTT measurement  *)
(* (ReceiverPipeline::trackPeer() to requestRetransmissions()), joined by  *)
(* a network that loses, repeats, delays and reorders both ways.  A sender *)
(* that restarts comes back with a new source port, an empty cache and     *)
(* numbers from 0.                                                         *)
(*                                                                         *)
(* Every handler runs to its end in one thread that shares nothing but the *)
(* network, so a handler is a step.  The numbers of the packets on the way *)
(* back are left out, nobody reads them.  FEC and the reassembly of frames *)
(* are not part of this module; Recovered stands for what FEC gives back.  *)
(***************************************************************************)
EXTENDS PacketOps, NackOps

CONSTANTS
    MinReorder, MaxReorder,\* config_.minReorderPackets, maxReorderPackets
    ReversePackets,        \* config_.reversePacketsPerIteration; 0 means no limit
    PliMinIntervalMs,      \* config_.pliMinIntervalMs; <= 0 turns PLIs off
    kRttPendingMax, kRttWindow,
    FirstSeq,              \* where the first sender's numbers have got to
    Frames,                \* what a sender encodes: records [len, key]
    \* bounds of the environment
    MaxRestarts, MaxReceived, MaxErrors, MaxClock

ASSUME ReverseAssumption ==
    /\ RetentionMs > 0      \* without a cache the sender does not listen
    /\ MinReorder \in Nat /\ MaxReorder \in Nat /\ ReversePackets \in Nat
    /\ PliMinIntervalMs \in Int
    /\ kRttPendingMax \in Nat \ {0} /\ kRttWindow \in Nat \ {0}
    /\ FirstSeq \in Seqs
    /\ Frames \in Seq([len: Nat \ {0}, key: BOOLEAN]) /\ MaxRestarts \in Nat
    /\ MaxReceived \in Nat /\ MaxErrors \in Nat /\ MaxClock \in Nat

\* A packet is never as late as half of the sequence numbers: a sender does not come
\* that far.
ASSUME SpanAssumption ==
    \A i \in DOMAIN Frames : 2 * (Len(Frames) * fragmentCount(Frames[i].len)) < SeqMod

VARIABLES
    clock,                 \* steadyNowMs(); never 0, the machine has been up
    data, reverse,         \* datagrams sent so far, to the receiver [port, packet] and
                           \* from it
    sender,                \* the running sender process
    receiver,              \* the receive thread's part of ReceiverPipeline
    \* history
    received,              \* packets handed over by the network
    askedAt,               \* <<sender, seq>> |-> time of the first NACK for it
    measured               \* the last RTT sample and the packet it is from

reverseVars == <<clock, data, reverse, sender, receiver, received, askedAt, measured>>

\* The process behind source port `port`: the packetizer's counter, the cache,
\* the encoder's keyFrameRequested_, and how many frames it has sent.
NewSender(port, seq) ==
    [port |-> port, nextSeq |-> seq, cache |-> EmptyCache,
     keyFrameRequested |-> FALSE, frames |-> 0]

\* peer_: a source port, 0 while nobody has been seen.
NewReceiver ==
    [peer |-> 0, tracker |-> NewTracker, nackSendErrors |-> 0, lastPliMs |-> 0,
     seenKeyFramesGivenUp |-> 0, nackSentAtMs |-> <<>>, rttSamples |-> <<>>, rttMs |-> 0]

ReverseInit ==
    /\ clock = 1 /\ data = {} /\ reverse = {}
    /\ sender = NewSender(1, FirstSeq) /\ receiver = NewReceiver
    /\ received = 0 /\ askedAt = <<>> /\ measured = <<>>

-----------------------------------------------------------------------------
(* The sender.                                                             *)

From(port, S) == {[port |-> port, packet |-> p] : p \in S}

\* sendLoop() with a frame: cut up, sent, kept.  A request makes the next frame a
\* key frame; the stages in between are those of SenderPipeline.
SendFrame ==
    LET next == Frames[sender.frames + 1]
        view == [frame |-> <<sender.port, sender.frames>>, len |-> next.len, ts |-> clock,
                 key |-> next.key \/ sender.keyFrameRequested]
        sent == Packets(view, sender.nextSeq)
        n    == fragmentCount(next.len)
    IN  /\ sender.frames < Len(Frames)
        /\ data' = data \cup From(sender.port, sent)
        /\ sender' = [sender EXCEPT
               !.nextSeq = (@ + n) % SeqMod, !.frames = @ + 1, !.keyFrameRequested = FALSE,
               !.cache = Stored(@, view, sender.nextSeq, n, clock)]
        /\ UNCHANGED <<clock, reverse, receiver, received, askedAt, measured>>

Answers(cache, m) ==
    IF m.type = "Pli" THEN {} ELSE UNION {Answer(cache, s) : s \in Decoded(m.entries)}

\* drainReverseChannel(), after each frame and each timeout: what is too old goes,
\* then some of the datagrams that have come in are handled.  Their order does not
\* matter, the cache stays as it is.
DrainReverseChannel ==
    LET cache == Unexpired(sender.cache, clock)
    IN  \E S \in SUBSET {m \in reverse : m.to = sender.port} :
            /\ ReversePackets # 0 => Cardinality(S) <= ReversePackets
            /\ data' = data \cup From(sender.port, UNION {Answers(cache, m) : m \in S})
            /\ sender' = [sender EXCEPT
                   !.cache = cache, !.keyFrameRequested = @ \/ \E m \in S : m.type = "Pli"]
            /\ UNCHANGED <<clock, reverse, receiver, received, askedAt, measured>>

\* The process is started again.
Restart ==
    /\ sender.port <= MaxRestarts
    /\ sender' = NewSender(sender.port + 1, 0)
    /\ UNCHANGED <<clock, data, reverse, receiver, received, askedAt, measured>>

-----------------------------------------------------------------------------
(* The receive thread.  R is its value, sent what it has sent in this step.*)

\* Fault: what was known of another sender is kept.
TrackPeerOnly(R, port) == [R EXCEPT !.peer = port]

\* trackPeer()
TrackPeer(R, port) ==
    IF R.peer = port THEN R
    ELSE [R EXCEPT !.peer = port, !.tracker = Forgotten(@)]

\* The middle one in order of size, the upper one of two.
Median(samples) ==
    CHOOSE v \in Range(samples) :
        /\ Cardinality({i \in DOMAIN samples : samples[i] < v}) <= Len(samples) \div 2
        /\ Cardinality({i \in DOMAIN samples : samples[i] <= v}) > Len(samples) \div 2

\* Fault: any packet that has been asked for answers the request.
AnswersAny(R, p) == p.seq \in DOMAIN R.nackSentAtMs

\* Only a retransmission answers.
IsAnswer(R, p) ==
    /\ p.retransmit /\ p.seq \in DOMAIN R.nackSentAtMs
    /\ clock >= R.nackSentAtMs[p.seq]

\* observeRetransmit()
ObserveRetransmit(R, p) ==
    LET all     == Append(R.rttSamples, clock - R.nackSentAtMs[p.seq])
        samples == IF Len(all) > kRttWindow THEN Tail(all) ELSE all
    IN  IF ~IsAnswer(R, p) THEN R
        ELSE [R EXCEPT !.nackSentAtMs = Restrict(@, DOMAIN @ \ {p.seq}),
                       !.rttSamples = samples, !.rttMs = Median(samples)]

\* Fault: a request at the end of the interval is refused too.
IsSuppressedLonger(R) ==
    R.lastPliMs # 0 /\ (clock < R.lastPliMs \/ clock - R.lastPliMs <= PliMinIntervalMs)

\* A request inside the minimal interval is refused.
IsSuppressed(R) ==
    R.lastPliMs # 0 /\ (clock < R.lastPliMs \/ clock - R.lastPliMs < PliMinIntervalMs)

\* requestKeyFrame(): the new value and the PLI that went out, if any.
RequestKeyFrame(R, sendOk) ==
    IF PliMinIntervalMs <= 0 \/ R.peer = 0 THEN [R |-> R, sent |-> {}]
    ELSE IF IsSuppressed(R) THEN [R |-> R, sent |-> {}]
    ELSE IF ~sendOk THEN [R |-> [R EXCEPT !.nackSendErrors = @ + 1], sent |-> {}]
    ELSE [R |-> [R EXCEPT !.lastPliMs = clock],
          sent |-> {[type |-> "Pli", to |-> R.peer, ts |-> clock]}]

\* The edge of the tracker's counter asks for a key frame, once.
ReportKeyFrames(R, sendOk) ==
    LET given == R.tracker.stats.keyFramesGivenUp
    IN  IF given > R.seenKeyFramesGivenUp
        THEN RequestKeyFrame([R EXCEPT !.seenKeyFramesGivenUp = given], sendOk)
        ELSE [R |-> R, sent |-> {}]

\* emplace(): the time of the first request stays.
Recorded(table, seqs) ==
    [s \in DOMAIN table \cup seqs |-> IF s \in DOMAIN table THEN table[s] ELSE clock]

\* recordNackSent(): while there are too many, the smallest number goes.
RecordNackSent(table, seqs) ==
    LET full == Recorded(table, seqs)
        kept == {s \in DOMAIN full :
                    Cardinality({o \in DOMAIN full : o >= s}) <= kRttPendingMax}
    IN  Restrict(full, kept)

\* A gap's age orders the targets, oldest first.
TargetList(T) ==
    LET S == Targets(T)
    IN  CHOOSE list \in [1 .. Cardinality(S) -> S] :
            \A i, j \in DOMAIN list : i < j => Age(T, list[i]) > Age(T, list[j])

\* The NACK for the targets, as many as one packet holds.
SendNack(R, targets, sendOk) ==
    IF targets = <<>> \/ R.peer = 0 THEN [R |-> R, sent |-> {}]
    ELSE IF ~sendOk THEN [R |-> [R EXCEPT !.nackSendErrors = @ + 1], sent |-> {}]
    ELSE [R |-> [R EXCEPT !.nackSentAtMs = RecordNackSent(@, Range(Sendable(targets)))],
          sent |-> {[type |-> "Nack", to |-> R.peer, entries |-> Encoded(Sendable(targets))]}]

\* std::clamp(fragCount, ...) with the limits in order.
Tolerance(count) ==
    LET low  == Min({MinReorder, MaxReorder})
        high == Max({MinReorder, MaxReorder})
    IN  Max({low, Min({count, high})})

Tracked(R, p) ==
    [R EXCEPT !.tracker = Received(@, p.seq, Tolerance(p.count), p.key)]

\* Whether sendTo() can succeed or fail now.
SendResults == IF receiver.nackSendErrors < MaxErrors THEN BOOLEAN ELSE {TRUE}

\* What recvLoop() does with a DATA packet, up to FEC and the assembler.
ReceiveData(port, p) ==
    LET seen    == ObserveRetransmit(TrackPeer(receiver, port), p)
        tracked == Tracked(seen, p)
        asking  == [tracked EXCEPT !.tracker = Collected(@)]
        targets == TargetList(tracked.tracker)
    IN  \E pli \in {ReportKeyFrames(asking, ok) : ok \in SendResults} :
        \E nack \in {SendNack(pli.R, targets, ok) : ok \in SendResults} :
            LET nacked == {<<port, s>> : s \in UNION {Decoded(m.entries) : m \in nack.sent}}
            IN  /\ nack.R.nackSendErrors <= MaxErrors
                /\ receiver' = nack.R
                /\ reverse' = reverse \cup pli.sent \cup nack.sent
                /\ askedAt' = [k \in DOMAIN askedAt \cup nacked |->
                                IF k \in DOMAIN askedAt THEN askedAt[k] ELSE clock]
                /\ measured' = IF seen.rttSamples = receiver.rttSamples
                                  /\ seen.nackSentAtMs = receiver.nackSentAtMs THEN measured
                               ELSE [port |-> port, seq |-> p.seq, at |-> clock,
                                     rtt |-> seen.rttSamples[Len(seen.rttSamples)]]

\* The network hands over any packet that was ever sent; what it never hands
\* over is lost.
ReceivePacket ==
    /\ received < MaxReceived /\ received' = received + 1
    /\ \E d \in data : ReceiveData(d.port, d.packet)
    /\ UNCHANGED <<clock, data, sender>>

\* A packet of the present sender that FEC gives back only goes to the tracker.
Recovered ==
    \E d \in data :
        /\ received < MaxReceived /\ received' = received + 1
        /\ ~d.packet.retransmit /\ d.port = receiver.peer
        /\ receiver' = Tracked(receiver, d.packet)
        /\ UNCHANGED <<clock, data, reverse, sender, askedAt, measured>>

\* recvLoop() when queue A is full.
FuseBlown ==
    \E pliOk \in SendResults :
        LET pli == RequestKeyFrame(receiver, pliOk)
        IN  /\ pli.R # receiver /\ pli.R.nackSendErrors <= MaxErrors
            /\ receiver' = pli.R /\ reverse' = reverse \cup pli.sent
            /\ UNCHANGED <<clock, data, sender, received, askedAt, measured>>

Tick == clock < MaxClock /\ clock' = clock + 1
        /\ UNCHANGED <<data, reverse, sender, receiver, received, askedAt, measured>>

ReverseNext ==
    \/ SendFrame \/ DrainReverseChannel
    \/ Restart
    \/ ReceivePacket \/ Recovered \/ FuseBlown
    \/ Tick

ReverseSpec == ReverseInit /\ [][ReverseNext]_reverseVars

-----------------------------------------------------------------------------
(* Properties.                                                             *)

Originals == {d \in data : ~d.packet.retransmit}

\* A retransmission is the packet that was sent under this number, slice for
\* slice, with one flag more: the receiver may mix the two.
RetransmitIsOriginal ==
    \A d \in data : d.packet.retransmit => [d EXCEPT !.packet.retransmit = FALSE] \in data

\* Until its time is up, a packet of one of the newest frames can be sent
\* again, across the wraparound too; and the cache knows what it holds: eviction by
\* age and by number in one call counts every frame and its bytes once.
CacheServes ==
    /\ sender.cache.framesStored = Len(sender.cache.entries) + sender.cache.framesEvicted
    /\ sender.cache.bytes = Bytes(sender.cache.entries)
    /\ \A d \in Originals :
          /\ d.port = sender.port /\ clock - d.packet.ts < RetentionMs
          /\ MaxFrames # 0 => d.packet.frame[2] >= sender.frames - MaxFrames
          => Answer(sender.cache, d.packet.seq) # {}

\* A NACK asks its addressee for packets that this very process has sent, also
\* when an old sender's packets arrive in between, and the bitmaps say what the
\* tracker meant.
AskedOfItsSender ==
    \A m \in reverse : m.type = "Nack" =>
        \A s \in Decoded(m.entries) : \E d \in Originals : d.port = m.to /\ d.packet.seq = s

\* Where PLIs are on, a key frame given up is reported: a PLI goes out, or went out
\* less than the interval ago, or sending failed.
KeyFrameLossReported ==
    [][PliMinIntervalMs > 0
       /\ receiver'.seenKeyFramesGivenUp > receiver.seenKeyFramesGivenUp =>
          \/ receiver'.nackSendErrors > receiver.nackSendErrors
          \/ \E m \in reverse' : m.type = "Pli" /\ clock - m.ts < PliMinIntervalMs]_reverseVars

\* As long as there has been one sender, an RTT sample is no longer than the time from
\* the first request of a packet to its answer, and that very time unless more packets
\* have been asked for than the table holds, which forgets then when it was.  Later it
\* need not be: trackPeer() keeps the times of the requests that went to the old sender.
RttIsExactAtFirst ==
    measured # <<>> /\ sender.port = 1 =>
        LET key     == <<measured.port, measured.seq>>
            elapsed == measured.at - askedAt[key]
        IN  /\ \E d \in data : d.port = measured.port /\ d.packet.seq = measured.seq
                               /\ d.packet.retransmit
            /\ key \in DOMAIN askedAt
            /\ measured.rtt <= elapsed
            /\ Cardinality(DOMAIN askedAt) <= kRttPendingMax => measured.rtt = elapsed

=============================================================================
