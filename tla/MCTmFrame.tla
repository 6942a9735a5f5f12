----------------------------- MODULE MCTmFrame ------------------------------
(* Instance of TmFrame for TLC: frames of 5 bytes and headers of 2, in     *)
(* which a packet of 3 leaves a tail too short for an idle packet, one of  *)
(* 7 spans three frames and one of 8 is too long for the receiver.         *)
EXTENDS TmFrame, TLC

CONSTANTS pkt0, pkt1, pkt2, pkt3

MCOffers == 0 :> [id : {pkt0, pkt1, pkt2}, n : {3, 7}] @@ 1 :> [id : {pkt3}, n : {7, 8}]
Symmetry == Permutations({pkt0, pkt1, pkt2})
=============================================================================
