---------------------------- MODULE ReliableLink ----------------------------
(***************************************************************************)
(* What every ARQ functional unit of openWNS promises to the layer above   *)
(* it, whatever the lower layers lose: the compounds a peer accepts from   *)
(* above come out above the other peer unchanged, in the order they were   *)
(* accepted, each exactly once, and no more than Window of them are ever   *)
(* on their way.  StopAndWait, StopAndWaitRC, GoBackN and SelectiveRepeat  *)
(* are shown to implement this specification.                              *)
(***************************************************************************)
EXTENDS Duplex

CONSTANTS SDU,     \* what the upper layers hand down
          Window   \* the compounds a peer may have under way

VARIABLES accepted,   \* accepted[p]: all compounds p accepted from above
          delivered   \* delivered[p]: all compounds p handed up to its layer

vars == <<accepted, delivered>>

TypeOK == /\ accepted  \in [Peer -> Seq(SDU)]
          /\ delivered \in [Peer -> Seq(SDU)]

Init == /\ accepted  = [p \in Peer |-> << >>]
        /\ delivered = [p \in Peer |-> << >>]

(* p takes a compound from the layer above.                                *)
Accept(p, d) ==
    /\ Len(accepted[p]) - Len(delivered[Other(p)]) < Window
    /\ accepted' = [accepted EXCEPT ![p] = Append(@, d)]
    /\ UNCHANGED delivered

(* p hands up the next compounds the other peer accepted, one or more.     *)
Deliver(p) ==
    /\ \E n \in Len(delivered[p]) + 1 .. Len(accepted[Other(p)]) :
          delivered' = [delivered EXCEPT ![p] = SubSeq(accepted[Other(p)], 1, n)]
    /\ UNCHANGED accepted

Next == \E p \in Peer : Deliver(p) \/ \E d \in SDU : Accept(p, d)

Spec == Init /\ [][Next]_vars

LiveSpec == Spec /\ \A p \in Peer : WF_vars(Deliver(p))

(* The order and the content of what was accepted survive the link: what a *)
(* peer delivered is an initial segment of what its partner accepted.      *)
InOrder ==
    \A p \in Peer :
        /\ Len(delivered[p]) <= Len(accepted[Other(p)])
        /\ \A k \in 1 .. Len(delivered[p]) :
              delivered[p][k] = accepted[Other(p)][k]
=============================================================================
