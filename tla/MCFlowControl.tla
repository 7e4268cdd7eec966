---------------------------- MODULE MCFlowControl ----------------------------
(* Instances of FlowControl for TLC: a flow of small compounds and one of   *)
(* compounds that fill the shared buffer.                                   *)
EXTENDS FlowControl

CONSTANTS small, large

MCOrder == <<small, large>>
MCLength == [f \in Flow |-> IF f = small THEN 1 ELSE 2]
MCMaxSize == [b \in Buffer |-> 2]
===============================================================================
