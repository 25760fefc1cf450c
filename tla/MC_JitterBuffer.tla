-------------------------- MODULE MC_JitterBuffer --------------------------
(* TLC instance of JitterBuffer for a receiver that does not join exactly  *)
(* after a wraparound, where the order of delivery may fail (README.md).   *)
EXTENDS JitterBuffer

ASSUME JoinAssumption == JoinsBeforeWrap
=============================================================================
