------------------------------ MODULE MCFleet ------------------------------
(* The instance of Fleet the runs check.                                   *)
EXTENDS Fleet

CONSTANTS d1, g1, g2, w1, r1

\* Bound: a save and a SET_GROUP that was captured are followed one after the
\* other.  Neither reads what the other's steps change: a save takes the
\* records and the groups, a captured SET_GROUP the node and its link flag.
SavesApart ==
  (\E s \in Savers : saves[s].phase # "idle") =>
    \A p \in Pushers : pushes[p].phase \in {"idle", "queued"}
=============================================================================
