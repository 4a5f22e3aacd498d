---------------------------- MODULE MCPeerLinks ----------------------------
(***************************************************************************)
(* Instances of PeerLinks for TLC.                                         *)
(***************************************************************************)
EXTENDS PeerLinks, TLC

CONSTANTS v1, v2, l1, l2, l3, h1, h2, lan

At(h, p) == [host |-> h, port |-> p]

(* A peer behind a cone NAT with an address on the local network, and one  *)
(* behind a symmetric NAT with the same public address.                    *)
Cone == [addr |-> At(h1, 2), candidates |-> {At(lan, 2)}, symmetric |-> FALSE]
Symmetric == [addr |-> At(h1, 3), candidates |-> {}, symmetric |-> TRUE]
MCOffers == v1 :> {Cone} @@ v2 :> {Symmetric}
=============================================================================
