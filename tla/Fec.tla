-------------------------------- MODULE Fec --------------------------------
(***************************************************************************)
(* Forward error correction end to end: SenderPipeline::sendLoop() with    *)
(* its packetizer and FecEncoder, a network that loses, repeats, delays    *)
(* and reorders, and recvLoop() of the receiver with trackPeer() and       *)
(* FecDecoder.  Retransmissions are among the DATA packets.  A sender that *)
(* restarts has a new source port and numbers from 0.                      *)
(*                                                                         *)
(* Each handler runs in one thread that shares nothing but the network, so *)
(* a handler is a step.  What the tracker and the assembler do with a      *)
(* recovered packet is in ReverseChannel and FrameAssembler.               *)
(***************************************************************************)
EXTENDS FecOps

CONSTANTS
    FirstSeq,              \* where the first sender's numbers have got to
    Lengths,               \* the coded frames of a sender: their lengths in order
    \* bounds of the environment
    MaxRestarts, MaxRetransmits

ASSUME FecStreamAssumption ==
    /\ FirstSeq \in 0 .. SeqMod - 1 /\ Lengths \in Seq(Nat \ {0})
    /\ MaxRestarts \in Nat /\ MaxRetransmits \in Nat

\* The packets that a sender has sent before its frame k.
SentBefore[k \in 0 .. Len(Lengths)] ==
    IF k = 0 THEN 0 ELSE SentBefore[k - 1] + fragmentCount(Lengths[k])

\* A packet is not on its way for as long as the numbers take to come round: in a
\* network that keeps everything, a sender does not come that far.
ASSUME LapAssumption == SentBefore[Len(Lengths)] <= SeqMod

VARIABLES
    sender,                \* the running sender: source port, next number, frames sent
    data, fecs,            \* datagrams sent so far: [port, packet]
    peer,                  \* peer_: a source port, 0 while nobody has been seen
    recent,                \* FecDecoder::recent_
    recovered,             \* recoveredBuf_ after the last FEC packet, and whose that was
    \* history
    arrived,               \* the last RecentPackets DATA packets since peer_ changed
    retransmits            \* packets sent again

fecVars == <<sender, data, fecs, peer, recent, recovered, arrived, retransmits>>

FecInit ==
    /\ sender = [port |-> 1, nextSeq |-> FirstSeq, frames |-> 0]
    /\ data = {} /\ fecs = {}
    /\ peer = 0 /\ recent = <<>> /\ recovered = {}
    /\ arrived = <<>> /\ retransmits = 0

-----------------------------------------------------------------------------
(* The sender.                                                             *)

From(port, S) == {[port |-> port, packet |-> p] : p \in S}

\* sendLoop() with a frame.
SendFrame ==
    LET view == [frame |-> <<sender.port, sender.frames>>, len |-> Lengths[sender.frames + 1],
                 ts |-> sender.frames, key |-> sender.frames = 0]
        sent == {Wire(p) : p \in Packets(view, sender.nextSeq)}
    IN  /\ sender.frames < Len(Lengths)
        /\ sender' = [sender EXCEPT !.frames = @ + 1,
                                    !.nextSeq = (@ + Cardinality(sent)) % SeqMod]
        /\ data' = data \cup From(sender.port, sent)
        /\ fecs' = fecs \cup From(sender.port, buildForFrame(sent, sender.nextSeq))
        /\ UNCHANGED <<peer, recent, recovered, arrived, retransmits>>

\* drainReverseChannel() answers a NACK.
Retransmit ==
    \E d \in data :
        /\ d.port = sender.port
        /\ retransmits < MaxRetransmits /\ retransmits' = retransmits + 1
        /\ data' = data \cup {[d EXCEPT !.packet.retransmit = TRUE]}
        /\ UNCHANGED <<sender, fecs, peer, recent, recovered, arrived>>

\* The process is started again.
Restart ==
    /\ sender.port <= MaxRestarts
    /\ sender' = [port |-> sender.port + 1, nextSeq |-> 0, frames |-> 0]
    /\ UNCHANGED <<data, fecs, peer, recent, recovered, arrived, retransmits>>

-----------------------------------------------------------------------------
(* recvLoop()                                                              *)

\* Fault: the packets of another sender are kept.
RecentKept(port) == recent

\* trackPeer(): reset() when the sender has changed.
RecentOf(port) == IF peer = port THEN recent ELSE <<>>

ReceiveData ==
    \E d \in data :
        /\ peer' = d.port
        /\ recent' = IF RecentPackets = 0 THEN recent
                     ELSE onDataPacket(RecentOf(d.port), d.packet)
        /\ arrived' = LET all == Append(IF peer = d.port THEN arrived ELSE <<>>, d.packet)
                      IN  SubSeq(all, Max({1, Len(all) - RecentPackets + 1}), Len(all))
        /\ UNCHANGED <<sender, data, fecs, recovered, retransmits>>

\* Nothing is checked against peer_ and nothing is kept.
ReceiveFec ==
    \E f \in fecs :
        /\ recovered' = {[port |-> f.port, peer |-> peer, packet |-> p] :
                             p \in onFecPacket(recent, f.packet)}
        /\ UNCHANGED <<sender, data, fecs, peer, recent, arrived, retransmits>>

FecNext == SendFrame \/ Retransmit \/ Restart \/ ReceiveData \/ ReceiveFec

FecSpec == FecInit /\ [][FecNext]_fecVars

-----------------------------------------------------------------------------
(* Properties.                                                             *)

\* A recovered packet is the very packet that was lost: number, frame, place in the
\* frame, length and bytes.  XOR has no check of its own; a wrong packet would go
\* into the frame without an error (FecDecoder.h:125).  Only FLAG_RETRANSMIT may
\* differ, it comes from whichever copy arrived; and the FEC packet has to be of the
\* sender whose DATA packets are coming in, which the code does not check.
RecoveredIsOriginal ==
    \A r \in recovered : r.port = r.peer =>
        \E d \in data : /\ d.port = r.port
                       /\ [d.packet EXCEPT !.retransmit = r.packet.retransmit] = r.packet

Arrived == {arrived[i].seq : i \in DOMAIN arrived}

\* An FEC packet recovers one packet exactly if the others of its group, and only
\* they, are among the last RecentPackets DATA packets, in whatever order and
\* however often they came; the group may straddle the wraparound and the last
\* packet of a frame is shorter.
OneLossIsRecovered ==
    \A f \in fecs : f.port = peer =>
        LET there == {s \in Arrived : (s - f.packet.base) % SeqMod < f.packet.size}
        IN  onFecPacket(recent, f.packet) # {} <=> Cardinality(there) = f.packet.size - 1

\* The decoder never combines packets of two senders, although the numbers of both
\* overlap: all it holds was sent by the present one.
RecentIsOfPeer ==
    \A i \in DOMAIN recent : [port |-> peer, packet |-> recent[i]] \in data

=============================================================================
