-------------------------- MODULE SequenceNumbers --------------------------
(***************************************************************************)
(* The numbers that packets carry on the wire.                             *)
(***************************************************************************)
EXTENDS Wraparound

CONSTANT SeqMod        \* 2^32 in the code

ASSUME SeqAssumption == SeqMod \in Nat \ {0}

Seqs == 0 .. SeqMod - 1

=============================================================================
