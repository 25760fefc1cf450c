----------------------------- MODULE Endpoints ------------------------------
(***************************************************************************)
(* The processes at the two ends, each with what it holds and borrows: the *)
(* use of a source by itself (open, read, close, open again), a run of the *)
(* sender, a run of the receiver, and the frames that go through the two   *)
(* codecs.  They share nothing here, so one behaviour is about one of them.*)
(***************************************************************************)
EXTENDS SenderResources, ReceiverResources, CodecChain

VARIABLE role

vars == <<role, senderVars, receiverVars, chainVars>>

Init ==
    /\ role \in {"source", "sender", "receiver", "codecs"}
    /\ SenderInit /\ ReceiverInit /\ ChainInit
    /\ role \notin {"source", "sender"} => source.kind = "null"
    /\ role # "sender" => sender.wanted = {}
    /\ role # "receiver" => receiver.kind = "none" /\ ~receiver.h264

SourceRole   == role = "source"   /\ SourceNext   /\ UNCHANGED <<sender, receiverVars, chainVars>>
SenderRole   == role = "sender"   /\ SenderNext   /\ UNCHANGED <<receiverVars, chainVars>>
ReceiverRole == role = "receiver" /\ ReceiverNext /\ UNCHANGED <<senderVars, chainVars>>
CodecsRole   == role = "codecs"   /\ ChainNext    /\ UNCHANGED <<senderVars, receiverVars>>

Next == (SourceRole \/ SenderRole \/ ReceiverRole \/ CodecsRole) /\ UNCHANGED role

Spec == Init /\ [][Next]_vars

-----------------------------------------------------------------------------
(* Properties.                                                             *)

\* Whichever step of whichever process fails, what was taken by then is given back.
NothingLeaks == SourceReleased /\ SenderReleased /\ ReceiverReleased

=============================================================================
