--------------------------- MODULE MCRequestReply ---------------------------
(* RequestReply on small instances: callers are interchangeable, and so    *)
(* are the values of a configuration.                                      *)
EXTENDS RequestReply, TLC

Interchangeable == Permutations(Callers) \cup Permutations(Values)
=============================================================================
