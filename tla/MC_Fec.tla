------------------------------- MODULE MC_Fec -------------------------------
EXTENDS Fec

\* A frame of four packets (a group of three and one packet without FEC), then
\* one of two packets.
MCLengths == <<10, 5>>

=============================================================================
