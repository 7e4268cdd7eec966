--------------------------- MODULE MCSelectiveRepeat ---------------------------
(* Instances of SelectiveRepeat for TLC: only peer 1 has compounds to      *)
(* send; ACKs travel the other way.                                        *)
EXTENDS SelectiveRepeat

ThreeFrames == <<3, 0>>

(* The units never look at a compound: the k-th of a peer is k.  Peer 1    *)
(* receives no compounds and peer 2 sends none: delaying the delivery of   *)
(* the one or suspending the other changes nothing.                        *)
NumberedOneWay ==
    /\ \A p \in Peer : \A k \in 1 .. Len(accepted[p]) : accepted[p][k] = k
    /\ ~delayingDelivery[1] /\ ~suspending[2]
===============================================================================
