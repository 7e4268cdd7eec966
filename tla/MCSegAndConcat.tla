--------------------------- MODULE MCSegAndConcat ---------------------------
(* Instances of SegAndConcat for TLC. *)
EXTENDS SegAndConcat

MCSize == <<2, 1, 1>>

\* Two SDUs for headers of 8 and 12 bits that are aligned.
MCSizeAligned == <<16, 8>>
=============================================================================
