--------------------------- MODULE MCEventScheduler ---------------------------
(* The instance of EventScheduler for TLC.                                 *)
EXTENDS EventScheduler
===============================================================================
