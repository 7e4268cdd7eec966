---------------------------- MODULE MCCommandQueueThreads ----------------------------
(* Instances of CommandQueueThreads for TLC.                               *)
EXTENDS CommandQueueThreads, TLC

CommandSymmetry == Permutations(Command)
===============================================================================
