----------------------------- MODULE MCTaskFeed -----------------------------
(* TaskFeed on small instances: threads and clients are model values.      *)
EXTENDS TaskFeed
=============================================================================
