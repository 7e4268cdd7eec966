------------------------------ MODULE MCGoBackN ------------------------------
(* Instances of GoBackN for TLC: only peer 1 has compounds to send; ACKs   *)
(* and NAKs travel the other way.                                          *)
EXTENDS GoBackN

ThreeFrames == <<3, 0>>

(* The units never look at a compound, so it is enough that all compounds  *)
(* can be told apart: the k-th that a peer accepts is k.                   *)
Numbered == \A p \in Peer : \A k \in 1 .. Len(accepted[p]) : accepted[p][k] = k

(* Peer 1 receives no compounds and peer 2 sends none: delaying the        *)
(* delivery of the one or suspending the other changes nothing.            *)
OneWay == ~delayingDelivery[1] /\ ~suspending[2]

(* Suspending never changes what is sent or delivered.                     *)
OneWayUnsuspended == OneWay /\ ~suspending[1]

NumberedOneWay == Numbered /\ OneWay
===============================================================================
