--------------------------- MODULE MCOtaWorkflow ---------------------------
(* Two devices whose access points have one name, and one of older         *)
(* firmware, whose access point has the other name.                        *)
EXTENDS OtaWorkflow

CONSTANTS d1, d2, d3

MCDevices    == {d1, d2, d3}
MCSsidOf     == [d \in MCDevices |->
                   IF d = d3 THEN "WLED-AP" ELSE "WLED_RaceLink_AP"]
MCCandidates == <<"WLED_RaceLink_AP", "WLED-AP">>

MCLocked     == {d2}

Request(kind, macs, ops, stop, restore) ==
  [kind |-> kind, macs |-> macs, ops |-> ops, stop |-> stop,
   enable |-> TRUE, restore |-> restore]

MCJobs ==
  {Request("firmware", <<d1, d2>>, {"presets", "fw"}, stop, TRUE) :
     stop \in BOOLEAN}
  \cup {Request("firmware", <<d3, d2>>, {"presets", "cfg"}, TRUE, FALSE),
        Request("download", <<d1>>, {}, FALSE, TRUE)}
=============================================================================
