------------------------- MODULE MC_ReverseChannel -------------------------
EXTENDS ReverseChannel

\* A key frame of one packet, a frame of two, a key frame.
MCFrames == << [len |-> 1, key |-> TRUE], [len |-> 3, key |-> FALSE],
               [len |-> 1, key |-> TRUE] >>

=============================================================================
