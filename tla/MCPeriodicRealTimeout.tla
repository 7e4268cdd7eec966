------------------------- MODULE MCPeriodicRealTimeout -------------------------
(* Instances of PeriodicRealTimeout for TLC. The queue of commands with    *)
(* other users than the timer is checked in MCCommandQueueThreads.         *)
EXTENDS PeriodicRealTimeout
===============================================================================
