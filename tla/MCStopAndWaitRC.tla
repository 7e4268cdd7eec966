--------------------------- MODULE MCStopAndWaitRC ---------------------------
(* Instances of StopAndWaitRC for TLC: compounds both ways, and one way.   *)
EXTENDS StopAndWaitRC

BothWays == <<2, 1>>
OneWay == <<3, 0>>

(* The k-th compound of a peer is k: the unit does not look into them.     *)
Numbered ==
    \A p \in Peer : \A k \in 1 .. Len(accepted[p]) : accepted[p][k] = k
===============================================================================
