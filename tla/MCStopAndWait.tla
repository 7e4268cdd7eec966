---------------------------- MODULE MCStopAndWait ----------------------------
(* Instances of StopAndWait for TLC.  Frames travel both ways in each of   *)
(* them; in the one-way instance only peer 1 has compounds to send.        *)
EXTENDS StopAndWait

OneWay == <<3, 0>>
BothWays == <<2, 1>>

(* The k-th compound of a peer is k: the unit does not look into them.     *)
Numbered ==
    \A p \in Peer : \A k \in 1 .. Len(accepted[p]) : accepted[p][k] = k

(* The peer that sends more is the one that is suspended.                  *)
NumberedSuspendedOnce == Numbered /\ ~suspending[2]
===============================================================================
