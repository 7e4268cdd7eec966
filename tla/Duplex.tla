-------------------------------- MODULE Duplex --------------------------------
(***************************************************************************)
(* Two peers of a link.  Every ARQ functional unit is at the same time the *)
(* sender of its own compounds and the receiver of its partner's.          *)
(***************************************************************************)
EXTENDS Integers, Sequences

Peer == 1 .. 2

Other(p) == 3 - p
===============================================================================
