-------------------------- MODULE MC_BoundedQueue --------------------------
(* TLC instance of BoundedQueue: three threads, so that one can sleep on   *)
(* each condition variable while the third one works.  The threads are     *)
(* interchangeable, but symmetry is left off because the run checks        *)
(* liveness.                                                               *)
EXTENDS BoundedQueue
=============================================================================
