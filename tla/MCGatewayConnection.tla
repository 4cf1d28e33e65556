------------------------ MODULE MCGatewayConnection ------------------------
(* Instances of GatewayConnection; the cfg files give the constants. *)
EXTENDS GatewayConnection
=============================================================================
