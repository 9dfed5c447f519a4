--------------------------- MODULE MCGatewaySend ----------------------------
(* GatewaySend on small instances: threads are model values.              *)
EXTENDS GatewaySend, TLC

=============================================================================
