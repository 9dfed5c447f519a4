--------------------------- MODULE MCGatewayLink ----------------------------
(* GatewayLink on small instances.                                         *)
EXTENDS GatewayLink

\* Bound: nothing is explored beyond the first overlap, for properties that
\* only speak of what comes before it (overlap stays once it is there).
BeforeOverlap == ~overlap
=============================================================================
