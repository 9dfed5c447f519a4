------------------------- MODULE OtaWorkflow_proofs -------------------------
(* Proofs about OtaWorkflow, for any devices, names and requests and any   *)
(* number of retries and faults.                                           *)
EXTENDS OtaWorkflow, TLAPS

Visiting == {"open", "join", "again", "rejoin", "see", "upload", "unlock",
             "reupload", "close", "download"}

(* What the place the task is at says of the request.                      *)
Located ==
  /\ at # "idle" => job \in Jobs
  /\ at \in Visiting => idx # 0
  /\ at # "idle" /\ job.kind = "download" => idx # 0
  /\ at \in {"next", "upload", "unlock", "reupload", "close"}
       => job.kind = "firmware"
  /\ at = "download" => job.kind = "download"
  /\ at \in {"switch", "open", "join", "again", "rejoin", "see", "upload"}
       => attempt < Retries

LEMMA JobType ==
  ASSUME NEW j \in Jobs
  PROVE  /\ j.kind \in {"firmware", "download"} /\ j.macs \in Seq(Devices)
         /\ j.ops \subseteq {"presets", "cfg", "fw"}
         /\ {j.stop, j.enable, j.restore} \subseteq BOOLEAN
         /\ Len(j.macs) \in Nat \ {0}
  BY OtaAssumption DEF OtaAssumption

LEMMA NoJobType ==
  /\ NoJob.kind = "none" /\ NoJob.macs = <<>> /\ NoJob.ops = {}
  /\ Len(NoJob.macs) = 0
  BY DEF NoJob

LEMMA DevType ==
  ASSUME TypeOK, Located, at \in Visiting
  PROVE  Dev \in Devices /\ Dev # Elsewhere
<1>1. job \in Jobs /\ idx \in 1..Len(job.macs)
  BY JobType, NoJobType DEF TypeOK, TaskOK, Located, Visiting
<1>2. job.macs[idx] \in Devices
  BY <1>1, JobType
<1>. QED
  BY <1>2, OtaAssumption DEF Dev, OtaAssumption

LEMMA TypeInit == Init => TypeOK /\ Located
<1>. SUFFICES ASSUME Init PROVE TypeOK /\ Located
  OBVIOUS
<1>1. TaskOK
  BY NoJobType, OtaAssumption DEF Init, OtaAssumption, TaskOK, Places
<1>2. FlagsOK
  BY Zenon DEF Init, FlagsOK
<1>3. HostOK /\ NodesOK
  BY DEF Init, HostOK, NodesOK
<1>4. Located
  BY DEF Init, Located, Visiting
<1>. QED
  BY <1>1, <1>2, <1>3, <1>4 DEF TypeOK

LEMMA TaskStep ==
  ASSUME TaskOK, Located, [Next]_vars
  PROVE  TaskOK' /\ Located'
<1>1. ASSUME NEW j \in Jobs, Start(j) PROVE TaskOK' /\ Located'
  BY <1>1, JobType, OtaAssumption
     DEF Start, Initial, TaskOK, Located, Visiting, Places, Fault,
     OtaAssumption, work, host, nodes, bounds, history
<1>2. ASSUME NEW op \in {"presets", "cfg"}, UploadFile(op) PROVE TaskOK' /\ Located'
  <2>1. /\ at = "upload" /\ job \in Jobs /\ job.kind = "firmware"
        /\ todo' \subseteq todo /\ faults' \in 0..MaxFaults
        /\ at' \in {"upload", "close"}
        /\ UNCHANGED <<job, idx, attempt, jobs>>
    BY <1>2, OtaAssumption
       DEF UploadFile, Failing, Going, TaskOK, Located, Fault,
           OtaAssumption, work, host, bounds, history
  <2>. QED
    BY <2>1 DEF TaskOK, Located, Visiting, Places
<1>3. ASSUME SwitchOn PROVE TaskOK' /\ Located'
  <2>0. /\ at = "switch" /\ (UNCHANGED faults \/ Fault)
        /\ \/ at' = IF job.kind = "download" THEN "open" ELSE "next"
           \/ at' = "restore"
        /\ UNCHANGED <<job, idx, todo, attempt, jobs>>
    BY Zenon, <1>3 DEF SwitchOn, Going, nodes
  <2>1. /\ at = "switch" /\ job \in Jobs /\ faults' \in 0..MaxFaults
        /\ at' \in {IF job.kind = "download" THEN "open" ELSE "next",
                    "restore"}
        /\ UNCHANGED <<job, idx, todo, attempt, jobs>>
    BY <2>0, OtaAssumption DEF TaskOK, Located, Fault, OtaAssumption
  <2>2. job.kind \in {"firmware", "download"}
    BY <2>1, JobType
  <2>. QED
    BY <2>1, <2>2 DEF TaskOK, Located, Visiting, Places
<1>4. ASSUME NextDevice PROVE TaskOK' /\ Located'
  <2>1. /\ at = "next" /\ job \in Jobs /\ job.kind = "firmware"
        /\ UNCHANGED <<job, faults, jobs>> /\ attempt' = 0
    BY <1>4 DEF NextDevice, Located, bounds
  <2>2. Len(job.macs) \in Nat /\ Retries \in Nat /\ 0 < Retries
    BY <2>1, JobType, OtaAssumption DEF OtaAssumption
  <2>3. CASE idx = Len(job.macs)
    <3>1. UNCHANGED <<idx, todo>> /\ at' = "restore"
      BY <1>4, <2>3 DEF NextDevice
    <3>. QED
      BY <2>1, <2>2, <3>1 DEF TaskOK, Located, Visiting, Places
  <2>4. CASE idx # Len(job.macs)
    <3>1. idx' = idx + 1 /\ todo' = job.ops /\ at' = "open"
      BY <1>4, <2>4 DEF NextDevice
    <3>2. idx' \in 1..Len(job.macs)
      BY <2>2, <2>4, <3>1 DEF TaskOK
    <3>. QED
      BY <2>1, <2>2, <3>1, <3>2 DEF TaskOK, Located, Visiting, Places
  <2>. QED
    BY <2>3, <2>4
<1>5. ASSUME OpenAp PROVE TaskOK' /\ Located'
  BY <1>5, JobType, OtaAssumption
     DEF OpenAp, Failing, Going, TaskOK, Located, Visiting, Places, Fault,
     OtaAssumption, work, host, nodes, bounds, history
<1>6. ASSUME JoinAp PROVE TaskOK' /\ Located'
  BY <1>6, JobType, OtaAssumption
     DEF JoinAp, Failing, Going, TaskOK, Located, Visiting, Places, Fault,
     OtaAssumption, work, host, nodes, bounds, history
<1>7. ASSUME SwitchOnAgain PROVE TaskOK' /\ Located'
  <2>0. /\ at = "again" /\ (UNCHANGED faults \/ Fault)
        /\ at' = "rejoin" \/ Failing
        /\ UNCHANGED <<job, idx, todo, attempt, jobs>>
    BY Zenon, <1>7 DEF SwitchOnAgain, Going, nodes
  <2>1. /\ at = "again" /\ job \in Jobs /\ faults' \in 0..MaxFaults
        /\ at' \in {"rejoin",
                    IF job.kind = "download" THEN "restore" ELSE "close"}
        /\ UNCHANGED <<job, idx, todo, attempt, jobs>>
    BY <2>0, OtaAssumption
       DEF Failing, TaskOK, Located, Fault, OtaAssumption
  <2>2. job.kind \in {"firmware", "download"} /\ idx # 0
    BY <2>1, JobType DEF Located, Visiting
  <2>. QED
    BY <2>1, <2>2 DEF TaskOK, Located, Visiting, Places
<1>8. ASSUME SeeNode PROVE TaskOK' /\ Located'
  BY <1>8, JobType, OtaAssumption
     DEF SeeNode, TimedOut, Failing, Going, TaskOK, Located, Visiting,
     Places, Fault, OtaAssumption, work, host, nodes, bounds, history
<1>9. ASSUME PostImage PROVE TaskOK' /\ Located'
  BY <1>9, JobType, OtaAssumption
     DEF PostImage, TryFailed, MoreTries, Finished, Flashed, Closing,
     Reachable, Given, PageIsFailure, Failing, Going, TaskOK, Located,
     Visiting, Places, Fault, OtaAssumption, work, host, nodes, bounds,
     history
<1>10. ASSUME Unlock PROVE TaskOK' /\ Located'
  BY <1>10, JobType, OtaAssumption
     DEF Unlock, TryFailed, MoreTries, Failing, Going, TaskOK, Located,
     Visiting, Places, Fault, OtaAssumption, work, host, nodes, bounds,
     history
<1>11. ASSUME FilesOnly PROVE TaskOK' /\ Located'
  BY <1>11, JobType, OtaAssumption
     DEF FilesOnly, Finished, Going, TaskOK, Located, Visiting, Places,
     Fault, OtaAssumption, work, host, nodes, bounds, history
<1>12. ASSUME CloseAp PROVE TaskOK' /\ Located'
  BY <1>12, JobType, OtaAssumption
     DEF CloseAp, Closing, Reachable, Closes, TaskOK, Located, Visiting,
     Places, Fault, OtaAssumption, work, host, nodes, bounds, history
<1>13. ASSUME Download PROVE TaskOK' /\ Located'
  BY <1>13, JobType, OtaAssumption
     DEF Download, Closing, Reachable, Given, Failing, Going, TaskOK,
     Located, Visiting, Places, Fault, OtaAssumption, work, host, nodes,
     bounds, history
<1>14. ASSUME RestoreHostWifi PROVE TaskOK' /\ Located'
  BY <1>14, JobType, OtaAssumption
     DEF RestoreHostWifi, TaskOK, Located, Visiting, Places, Fault,
     OtaAssumption, work, host, nodes, bounds, history
<1>15. ASSUME Roam PROVE TaskOK' /\ Located'
  BY <1>15, JobType, OtaAssumption
     DEF Roam, Reachable, TaskOK, Located, Visiting, Places, Fault,
     OtaAssumption, work, host, nodes, bounds, history
<1>16. ASSUME Toggle PROVE TaskOK' /\ Located'
  BY <1>16, JobType, OtaAssumption
     DEF Toggle, TaskOK, Located, Visiting, Places, Fault, OtaAssumption,
     work, host, nodes, bounds, history
<1>17. CASE UNCHANGED vars
  BY <1>17
     DEF vars, TaskOK, Located, Visiting, Places, Fault, OtaAssumption,
     work, host, nodes, bounds, history
<1>. QED
  BY <1>1, <1>2, <1>3, <1>4, <1>5, <1>6, <1>7, <1>8, <1>9, <1>10, <1>11,
     <1>12, <1>13, <1>14, <1>15, <1>16, <1>17
     DEF Next, Work

LEMMA FlagsStep ==
  ASSUME FlagsOK, [Next]_vars
  PROVE  FlagsOK'
<1>1. ASSUME NEW j \in Jobs, Start(j) PROVE FlagsOK'
  BY Zenon, <1>1
     DEF Start, Initial, FlagsOK, Fault, work, host, nodes, bounds, history
<1>2. ASSUME NEW op \in {"presets", "cfg"}, UploadFile(op) PROVE FlagsOK'
  BY Zenon, <1>2
     DEF UploadFile, Given, Failing, Going, FlagsOK, Fault, work, host,
     nodes, bounds, history
<1>3. ASSUME SwitchOn PROVE FlagsOK'
  BY Zenon, <1>3
     DEF SwitchOn, Failing, Going, FlagsOK, Fault, work, host, nodes,
     bounds, history
<1>4. ASSUME NextDevice PROVE FlagsOK'
  BY Zenon, <1>4
     DEF NextDevice, FlagsOK, Fault, work, host, nodes, bounds, history
<1>5. ASSUME OpenAp PROVE FlagsOK'
  BY Zenon, <1>5
     DEF OpenAp, Failing, Going, FlagsOK, Fault, work, host, nodes, bounds,
     history
<1>6. ASSUME JoinAp PROVE FlagsOK'
  BY Zenon, <1>6
     DEF JoinAp, Failing, Going, FlagsOK, Fault, work, host, nodes, bounds,
     history
<1>7. ASSUME SwitchOnAgain PROVE FlagsOK'
  BY Zenon, <1>7
     DEF SwitchOnAgain, Failing, Going, FlagsOK, Fault, work, host, nodes,
     bounds, history
<1>8. ASSUME SeeNode PROVE FlagsOK'
  BY Zenon, <1>8
     DEF SeeNode, TimedOut, Failing, Going, FlagsOK, Fault, work, host,
     nodes, bounds, history
<1>9. ASSUME PostImage PROVE FlagsOK'
  BY Zenon, <1>9
     DEF PostImage, TryFailed, MoreTries, Finished, Flashed, Closing,
     Reachable, Given, PageIsFailure, Failing, Going, FlagsOK, Fault, work,
     host, nodes, bounds, history
<1>10. ASSUME Unlock PROVE FlagsOK'
  BY Zenon, <1>10
     DEF Unlock, TryFailed, MoreTries, Failing, Going, FlagsOK, Fault, work,
     host, nodes, bounds, history
<1>11. ASSUME FilesOnly PROVE FlagsOK'
  BY Zenon, <1>11
     DEF FilesOnly, Finished, Going, FlagsOK, Fault, work, host, nodes,
     bounds, history
<1>12. ASSUME CloseAp PROVE FlagsOK'
  BY Zenon, <1>12
     DEF CloseAp, Closing, Reachable, Closes, FlagsOK, Fault, work, host,
     nodes, bounds, history
<1>13. ASSUME Download PROVE FlagsOK'
  BY Zenon, <1>13
     DEF Download, Closing, Reachable, Given, Failing, Going, FlagsOK,
     Fault, work, host, nodes, bounds, history
<1>14. ASSUME RestoreHostWifi PROVE FlagsOK'
  BY Zenon, <1>14
     DEF RestoreHostWifi, FlagsOK, Fault, work, host, nodes, bounds, history
<1>15. ASSUME Roam PROVE FlagsOK'
  BY Zenon, <1>15
     DEF Roam, Reachable, FlagsOK, Fault, work, host, nodes, bounds, history
<1>16. ASSUME Toggle PROVE FlagsOK'
  BY Zenon, <1>16
     DEF Toggle, FlagsOK, Fault, work, host, nodes, bounds, history
<1>17. CASE UNCHANGED vars
  BY Zenon, <1>17
     DEF vars, FlagsOK, Fault, work, host, nodes, bounds, history
<1>. QED
  BY <1>1, <1>2, <1>3, <1>4, <1>5, <1>6, <1>7, <1>8, <1>9, <1>10, <1>11,
     <1>12, <1>13, <1>14, <1>15, <1>16, <1>17
     DEF Next, Work

LEMMA HostStep ==
  ASSUME TypeOK, Located, [Next]_vars
  PROVE  HostOK'
<1>1. ASSUME NEW j \in Jobs, Start(j) PROVE HostOK'
  BY <1>1, DevType, OtaAssumption
     DEF Start, Initial, TypeOK, HostOK, Fault, Visiting, OtaAssumption,
     work, host, nodes, bounds, history
<1>2. ASSUME NEW op \in {"presets", "cfg"}, UploadFile(op) PROVE HostOK'
  BY <1>2, DevType, OtaAssumption
     DEF UploadFile, Given, Failing, Going, TypeOK, HostOK, Fault, Visiting,
     OtaAssumption, work, host, nodes, bounds, history
<1>3. ASSUME SwitchOn PROVE HostOK'
  BY <1>3, DevType, OtaAssumption
     DEF SwitchOn, Failing, Going, TypeOK, HostOK, Fault, Visiting,
     OtaAssumption, work, host, nodes, bounds, history
<1>4. ASSUME NextDevice PROVE HostOK'
  BY <1>4, DevType, OtaAssumption
     DEF NextDevice, TypeOK, HostOK, Fault, Visiting, OtaAssumption, work,
     host, nodes, bounds, history
<1>5. ASSUME OpenAp PROVE HostOK'
  BY <1>5, DevType, OtaAssumption
     DEF OpenAp, Failing, Going, TypeOK, HostOK, Fault, Visiting,
     OtaAssumption, work, host, nodes, bounds, history
<1>6. ASSUME JoinAp PROVE HostOK'
  BY <1>6, DevType, OtaAssumption
     DEF JoinAp, Failing, Going, TypeOK, HostOK, Fault, Visiting,
     OtaAssumption, work, host, nodes, bounds, history
<1>7. ASSUME SwitchOnAgain PROVE HostOK'
  BY <1>7, DevType, OtaAssumption
     DEF SwitchOnAgain, Failing, Going, TypeOK, HostOK, Fault, Visiting,
     OtaAssumption, work, host, nodes, bounds, history
<1>8. ASSUME SeeNode PROVE HostOK'
  BY <1>8, DevType, OtaAssumption
     DEF SeeNode, TimedOut, Failing, Going, TypeOK, HostOK, Fault, Visiting,
     OtaAssumption, work, host, nodes, bounds, history
<1>9. ASSUME PostImage PROVE HostOK'
  BY <1>9, DevType, OtaAssumption
     DEF PostImage, TryFailed, MoreTries, Finished, Flashed, Closing,
     Reachable, Given, PageIsFailure, Failing, Going, TypeOK, HostOK, Fault,
     Visiting, OtaAssumption, work, host, nodes, bounds, history
<1>10. ASSUME Unlock PROVE HostOK'
  BY <1>10, DevType, OtaAssumption
     DEF Unlock, TryFailed, MoreTries, Failing, Going, TypeOK, HostOK,
     Fault, Visiting, OtaAssumption, work, host, nodes, bounds, history
<1>11. ASSUME FilesOnly PROVE HostOK'
  BY <1>11, DevType, OtaAssumption
     DEF FilesOnly, Finished, Going, TypeOK, HostOK, Fault, Visiting,
     OtaAssumption, work, host, nodes, bounds, history
<1>12. ASSUME CloseAp PROVE HostOK'
  BY <1>12, DevType, OtaAssumption
     DEF CloseAp, Closing, Reachable, Closes, TypeOK, HostOK, Fault,
     Visiting, OtaAssumption, work, host, nodes, bounds, history
<1>13. ASSUME Download PROVE HostOK'
  BY <1>13, DevType, OtaAssumption
     DEF Download, Closing, Reachable, Given, Failing, Going, TypeOK,
     HostOK, Fault, Visiting, OtaAssumption, work, host, nodes, bounds,
     history
<1>14. ASSUME RestoreHostWifi PROVE HostOK'
  BY <1>14, DevType, OtaAssumption
     DEF RestoreHostWifi, TypeOK, HostOK, Fault, Visiting, OtaAssumption,
     work, host, nodes, bounds, history
<1>15. ASSUME Roam PROVE HostOK'
  BY <1>15, DevType, OtaAssumption
     DEF Roam, Reachable, TypeOK, HostOK, Fault, Visiting, OtaAssumption,
     work, host, nodes, bounds, history
<1>16. ASSUME Toggle PROVE HostOK'
  BY <1>16, DevType, OtaAssumption
     DEF Toggle, TypeOK, HostOK, Fault, Visiting, OtaAssumption, work, host,
     nodes, bounds, history
<1>17. CASE UNCHANGED vars
  BY <1>17
     DEF vars, TypeOK, HostOK, Fault, Visiting, OtaAssumption, work, host,
     nodes, bounds, history
<1>. QED
  BY <1>1, <1>2, <1>3, <1>4, <1>5, <1>6, <1>7, <1>8, <1>9, <1>10, <1>11,
     <1>12, <1>13, <1>14, <1>15, <1>16, <1>17
     DEF Next, Work

LEMMA NodesStep ==
  ASSUME TypeOK, Located, [Next]_vars
  PROVE  NodesOK'
<1>1. ASSUME NEW j \in Jobs, Start(j) PROVE NodesOK'
  BY <1>1, DevType
     DEF Start, Initial, TypeOK, NodesOK, HostOK, Visiting, Fault, work,
     host, nodes, bounds, history
<1>2. ASSUME NEW op \in {"presets", "cfg"}, UploadFile(op) PROVE NodesOK'
  BY <1>2, DevType
     DEF UploadFile, Given, Failing, Going, TypeOK, NodesOK, HostOK,
     Visiting, Fault, work, host, nodes, bounds, history
<1>3. ASSUME SwitchOn PROVE NodesOK'
  BY <1>3, DevType
     DEF SwitchOn, Failing, Going, TypeOK, NodesOK, HostOK, Visiting, Fault,
     work, host, nodes, bounds, history
<1>4. ASSUME NextDevice PROVE NodesOK'
  BY <1>4, DevType
     DEF NextDevice, TypeOK, NodesOK, HostOK, Visiting, Fault, work, host,
     nodes, bounds, history
<1>5. ASSUME OpenAp PROVE NodesOK'
  BY <1>5, DevType
     DEF OpenAp, Failing, Going, TypeOK, NodesOK, HostOK, Visiting, Fault,
     work, host, nodes, bounds, history
<1>6. ASSUME JoinAp PROVE NodesOK'
  BY <1>6, DevType
     DEF JoinAp, Failing, Going, TypeOK, NodesOK, HostOK, Visiting, Fault,
     work, host, nodes, bounds, history
<1>7. ASSUME SwitchOnAgain PROVE NodesOK'
  BY <1>7, DevType
     DEF SwitchOnAgain, Failing, Going, TypeOK, NodesOK, HostOK, Visiting,
     Fault, work, host, nodes, bounds, history
<1>8. ASSUME SeeNode PROVE NodesOK'
  BY <1>8, DevType
     DEF SeeNode, TimedOut, Failing, Going, TypeOK, NodesOK, HostOK,
     Visiting, Fault, work, host, nodes, bounds, history
<1>9. ASSUME PostImage PROVE NodesOK'
  BY <1>9, DevType
     DEF PostImage, TryFailed, MoreTries, Finished, Flashed, Closing,
     Reachable, Given, PageIsFailure, Failing, Going, TypeOK, NodesOK,
     HostOK, Visiting, Fault, work, host, nodes, bounds, history
<1>10. ASSUME Unlock PROVE NodesOK'
  BY <1>10, DevType
     DEF Unlock, TryFailed, MoreTries, Failing, Going, TypeOK, NodesOK,
     HostOK, Visiting, Fault, work, host, nodes, bounds, history
<1>11. ASSUME FilesOnly PROVE NodesOK'
  BY <1>11, DevType
     DEF FilesOnly, Finished, Going, TypeOK, NodesOK, HostOK, Visiting,
     Fault, work, host, nodes, bounds, history
<1>12. ASSUME CloseAp PROVE NodesOK'
  BY <1>12, DevType
     DEF CloseAp, Closing, Reachable, Closes, TypeOK, NodesOK, HostOK,
     Visiting, Fault, work, host, nodes, bounds, history
<1>13. ASSUME Download PROVE NodesOK'
  BY <1>13, DevType
     DEF Download, Closing, Reachable, Given, Failing, Going, TypeOK,
     NodesOK, HostOK, Visiting, Fault, work, host, nodes, bounds, history
<1>14. ASSUME RestoreHostWifi PROVE NodesOK'
  BY <1>14, DevType
     DEF RestoreHostWifi, TypeOK, NodesOK, HostOK, Visiting, Fault, work,
     host, nodes, bounds, history
<1>15. ASSUME Roam PROVE NodesOK'
  BY <1>15, DevType
     DEF Roam, Reachable, TypeOK, NodesOK, HostOK, Visiting, Fault, work,
     host, nodes, bounds, history
<1>16. ASSUME Toggle PROVE NodesOK'
  BY <1>16, DevType
     DEF Toggle, TypeOK, NodesOK, HostOK, Visiting, Fault, work, host,
     nodes, bounds, history
<1>17. CASE UNCHANGED vars
  BY <1>17
     DEF vars, TypeOK, NodesOK, HostOK, Visiting, Fault, work, host, nodes,
     bounds, history
<1>. QED
  BY <1>1, <1>2, <1>3, <1>4, <1>5, <1>6, <1>7, <1>8, <1>9, <1>10, <1>11,
     <1>12, <1>13, <1>14, <1>15, <1>16, <1>17
     DEF Next, Work

(* OtaWorkflow keeps its types for ever: the counters within their bounds, *)
(* a firmware posted Retries times at most (run_firmware_update's for over *)
(* range(retries)), and the host in an access point only while that is     *)
(* open and the radio on.                                                  *)
THEOREM TypeCorrect == Spec => [](TypeOK /\ Located)
<1>1. TypeOK /\ Located /\ [Next]_vars => (TypeOK /\ Located)'
  BY TaskStep, FlagsStep, HostStep, NodesStep DEF TypeOK
<1>. QED
  BY TypeInit, <1>1, PTL DEF Spec

-----------------------------------------------------------------------------
(* Access points.  An access point of this request that is open is that of *)
(* the device the task is at, or its closing was not heard.                *)
ApsInv ==
  job.kind = "firmware"
    => \A i \in 1..idx :
         job.macs[i] \in ap
           => job.macs[i] \in deaf \/ (at \in Visiting /\ job.macs[i] = Dev)

LEMMA ApsStep ==
  ASSUME TypeOK, Located, ApsInv, [Next]_vars
  PROVE  ApsInv'
<1>1. ASSUME NEW j \in Jobs, Start(j) PROVE ApsInv'
  BY <1>1, DevType
     DEF Start, Initial, ApsInv, TypeOK, HostOK, TaskOK, Located, Dev,
     Visiting, work, host, nodes, bounds, history
<1>2. ASSUME NEW op \in {"presets", "cfg"}, UploadFile(op) PROVE ApsInv'
  BY <1>2, DevType
     DEF UploadFile, Given, Failing, Going, ApsInv, TypeOK, HostOK, TaskOK,
     Located, Dev, Visiting, work, host, nodes, bounds, history
<1>3. ASSUME SwitchOn PROVE ApsInv'
  BY <1>3, DevType
     DEF SwitchOn, Going, ApsInv, TypeOK, HostOK, TaskOK, Located, Dev,
     Visiting, work, host, nodes, bounds, history
<1>4. ASSUME NextDevice PROVE ApsInv'
  BY <1>4, DevType
     DEF NextDevice, ApsInv, TypeOK, HostOK, TaskOK, Located, Dev,
     Visiting, work, host, nodes, bounds, history
<1>5. ASSUME OpenAp PROVE ApsInv'
  BY <1>5, DevType
     DEF OpenAp, Failing, Going, ApsInv, TypeOK, HostOK, TaskOK, Located,
     Dev, Visiting, work, host, nodes, bounds, history
<1>6. ASSUME JoinAp PROVE ApsInv'
  BY <1>6, DevType
     DEF JoinAp, Failing, Going, ApsInv, TypeOK, HostOK, TaskOK, Located,
     Dev, Visiting, work, host, nodes, bounds, history
<1>7. ASSUME SwitchOnAgain PROVE ApsInv'
  BY <1>7, DevType
     DEF SwitchOnAgain, Failing, Going, ApsInv, TypeOK, HostOK, TaskOK,
     Located, Dev, Visiting, work, host, nodes, bounds, history
<1>8. ASSUME SeeNode PROVE ApsInv'
  BY <1>8, DevType
     DEF SeeNode, IsExpected, TimedOut, Failing, Going, ApsInv, TypeOK,
     HostOK, TaskOK, Located, Dev, Visiting, work, host, nodes, bounds,
     history
<1>9. ASSUME PostImage PROVE ApsInv'
  BY <1>9, DevType
     DEF PostImage, TryFailed, MoreTries, Finished, Flashed, Closing,
     Reachable, Given, PageIsFailure, Failing, Going, ApsInv, TypeOK,
     HostOK, TaskOK, Located, Dev, Visiting, work, host, nodes, bounds,
     history
<1>10. ASSUME Unlock PROVE ApsInv'
  BY <1>10, DevType
     DEF Unlock, TryFailed, MoreTries, Failing, Going, ApsInv, TypeOK,
     HostOK, TaskOK, Located, Dev, Visiting, work, host, nodes, bounds,
     history
<1>11. ASSUME FilesOnly PROVE ApsInv'
  BY <1>11, DevType
     DEF FilesOnly, Finished, ApsInv, TypeOK, HostOK, TaskOK, Located, Dev,
     Visiting, work, host, nodes, bounds, history
<1>12. ASSUME CloseAp PROVE ApsInv'
  BY <1>12, DevType
     DEF CloseAp, Closing, Reachable, Closes, ApsInv, TypeOK, HostOK,
     TaskOK, Located, Dev, Visiting, work, host, nodes, bounds, history
<1>13. ASSUME Download PROVE ApsInv'
  BY <1>13, DevType
     DEF Download, Closing, Reachable, Given, Failing, ApsInv, TypeOK,
     HostOK, TaskOK, Located, Dev, Visiting, work, host, nodes, bounds,
     history
<1>14. ASSUME RestoreHostWifi PROVE ApsInv'
  BY <1>14, DevType
     DEF RestoreHostWifi, ApsInv, TypeOK, HostOK, TaskOK, Located, Dev,
     Visiting, work, host, nodes, bounds, history
<1>15. ASSUME Roam PROVE ApsInv'
  BY <1>15, DevType
     DEF Roam, Reachable, ApsInv, TypeOK, HostOK, TaskOK, Located, Dev,
     Visiting, work, host, nodes, bounds, history
<1>16. ASSUME Toggle PROVE ApsInv'
  BY <1>16, DevType
     DEF Toggle, ApsInv, TypeOK, HostOK, TaskOK, Located, Dev, Visiting,
     work, host, nodes, bounds, history
<1>17. CASE UNCHANGED vars
  BY <1>17
     DEF vars, ApsInv, TypeOK, HostOK, TaskOK, Located, Dev, Visiting,
     work, host, nodes, bounds, history
<1>. QED
  BY <1>1, <1>2, <1>3, <1>4, <1>5, <1>6, <1>7, <1>8, <1>9, <1>10, <1>11,
  <1>12, <1>13, <1>14, <1>15, <1>16, <1>17
     DEF Next, Work

(* After a firmware request every device it came to has its access point   *)
(* closed again, unless it did not hear the CONFIG that closes it: the     *)
(* finally of run_firmware_update's loop, on every way out of it.          *)
THEOREM ApsAreClosed == Spec => []ApsClosed
<1>1. Init => ApsInv
  BY NoJobType DEF Init, ApsInv
<1>2. ApsInv => ApsClosed
  BY DEF ApsInv, ApsClosed, Visiting
<1>. QED
  BY TypeCorrect, ApsStep, <1>1, <1>2, PTL DEF Spec

-----------------------------------------------------------------------------
(* The radio.  While the task runs the state it began with is remembered,  *)
(* and a radio that was on stays on.                                       *)
RadioInv ==
  /\ at # "idle" /\ ~meddled => initial = before /\ (before => radio)
  /\ RadioRestored

LEMMA RadioStep ==
  ASSUME FlagsOK, Located, RadioInv, [Next]_vars
  PROVE  RadioInv'
<1>1. ASSUME NEW j \in Jobs, Start(j) PROVE RadioInv'
  BY Zenon, <1>1
     DEF Start, Initial, RadioInv, RadioRestored, FlagsOK, work, host,
     nodes, bounds, history
<1>2. ASSUME NEW op \in {"presets", "cfg"}, UploadFile(op) PROVE RadioInv'
  BY Zenon, <1>2
     DEF UploadFile, Given, Failing, Going, RadioInv, RadioRestored,
     FlagsOK, work, host, nodes, bounds, history
<1>3. ASSUME SwitchOn PROVE RadioInv'
  BY Zenon, <1>3
     DEF SwitchOn, Going, RadioInv, RadioRestored, FlagsOK, work, host,
     nodes, bounds, history
<1>4. ASSUME NextDevice PROVE RadioInv'
  BY Zenon, <1>4
     DEF NextDevice, RadioInv, RadioRestored, FlagsOK, work, host, nodes,
     bounds, history
<1>5. ASSUME OpenAp PROVE RadioInv'
  BY Zenon, <1>5
     DEF OpenAp, Failing, Going, RadioInv, RadioRestored, FlagsOK, work,
     host, nodes, bounds, history
<1>6. ASSUME JoinAp PROVE RadioInv'
  <2>1. /\ at # "idle" /\ initial' = initial /\ before' = before
        /\ meddled' \/ (radio' = radio /\ meddled' = meddled)
    BY Zenon, <1>6 DEF JoinAp, host
  <2>2. at' # "idle"
    BY <1>6 DEF JoinAp, Failing, Going
  <2>3. CASE radio' = radio /\ meddled' = meddled
    BY Zenon, <2>1, <2>2, <2>3 DEF RadioInv, RadioRestored, FlagsOK
  <2>4. CASE meddled'
    BY Zenon, <2>2, <2>4 DEF RadioInv, RadioRestored
  <2>. QED
    BY Zenon, <2>1, <2>3, <2>4
<1>7. ASSUME SwitchOnAgain PROVE RadioInv'
  BY Zenon, <1>7
     DEF SwitchOnAgain, Failing, Going, RadioInv, RadioRestored, FlagsOK,
     work, host, nodes, bounds, history
<1>8. ASSUME SeeNode PROVE RadioInv'
  BY Zenon, <1>8
     DEF SeeNode, IsExpected, TimedOut, Failing, Going, RadioInv,
     RadioRestored, FlagsOK, work, host, nodes, bounds, history
<1>9. ASSUME PostImage PROVE RadioInv'
  BY Zenon, <1>9
     DEF PostImage, TryFailed, MoreTries, Finished, Flashed, Closing,
     Reachable, Given, PageIsFailure, Failing, Going, RadioInv,
     RadioRestored, FlagsOK, work, host, nodes, bounds, history
<1>10. ASSUME Unlock PROVE RadioInv'
  BY Zenon, <1>10
     DEF Unlock, TryFailed, MoreTries, Failing, Going, RadioInv,
     RadioRestored, FlagsOK, work, host, nodes, bounds, history
<1>11. ASSUME FilesOnly PROVE RadioInv'
  BY Zenon, <1>11
     DEF FilesOnly, Finished, RadioInv, RadioRestored, FlagsOK, work, host,
     nodes, bounds, history
<1>12. ASSUME CloseAp PROVE RadioInv'
  BY Zenon, <1>12
     DEF CloseAp, Closing, Reachable, Closes, RadioInv, RadioRestored,
     FlagsOK, work, host, nodes, bounds, history
<1>13. ASSUME Download PROVE RadioInv'
  BY Zenon, <1>13
     DEF Download, Closing, Reachable, Given, Failing, RadioInv,
     RadioRestored, FlagsOK, work, host, nodes, bounds, history
<1>14. ASSUME RestoreHostWifi PROVE RadioInv'
  BY Zenon, <1>14
     DEF RestoreHostWifi, RadioInv, RadioRestored, FlagsOK, work, host,
     nodes, bounds, history
<1>15. ASSUME Roam PROVE RadioInv'
  BY Zenon, <1>15
     DEF Roam, Reachable, RadioInv, RadioRestored, FlagsOK, work, host,
     nodes, bounds, history
<1>16. ASSUME Toggle PROVE RadioInv'
  BY Zenon, <1>16
     DEF Toggle, RadioInv, RadioRestored, FlagsOK, work, host, nodes,
     bounds, history
<1>17. CASE UNCHANGED vars
  BY Zenon, <1>17
     DEF vars, RadioInv, RadioRestored, FlagsOK, work, host, nodes, bounds,
     history
<1>. QED
  BY <1>1, <1>2, <1>3, <1>4, <1>5, <1>6, <1>7, <1>8, <1>9, <1>10, <1>11,
  <1>12, <1>13, <1>14, <1>15, <1>16, <1>17
     DEF Next, Work

(* The radio is as it was when the request came, if nmcli did not fail and *)
(* nobody else switched it: _restore_host_wifi against host_wifi_initial.  *)
THEOREM RadioIsRestored == Spec => []RadioRestored
<1>1. Init => RadioInv
  BY DEF Init, RadioInv, RadioRestored
<1>2. TypeOK /\ Located => FlagsOK /\ Located
  BY DEF TypeOK
<1>3. RadioInv => RadioRestored
  BY DEF RadioInv
<1>. QED
  BY TypeCorrect, RadioStep, <1>1, <1>2, <1>3, PTL DEF Spec

-----------------------------------------------------------------------------
(* What was given.  Past the check of its identity the host is with the    *)
(* device the task is at, unless it was moved, and what is not left to do  *)
(* has been given to it.                                                   *)
GivenInv ==
  /\ at \in {"upload", "unlock", "reupload", "download"} /\ ~moved
       => peer = Dev
  /\ at \in {"upload", "unlock", "reupload"} /\ ~moved
       => job.ops \ todo \subseteq held[Dev]
  /\ at \in {"open", "join", "again", "rejoin", "see"}
     /\ job.kind = "firmware" => todo = job.ops

LEMMA GivenStep ==
  ASSUME TypeOK, Located, GivenInv, [Next]_vars
  PROVE  GivenInv'
<1>1. ASSUME NEW j \in Jobs, Start(j) PROVE GivenInv'
  BY <1>1, DevType
     DEF Start, Initial, GivenInv, TypeOK, HostOK, TaskOK, NodesOK,
     Located, Dev, Visiting, work, host, nodes, bounds, history
<1>2. ASSUME NEW op \in {"presets", "cfg"}, UploadFile(op) PROVE GivenInv'
  BY <1>2, DevType
     DEF UploadFile, Given, Failing, Going, GivenInv, TypeOK, HostOK,
     TaskOK, NodesOK, Located, Dev, Visiting, work, host, nodes, bounds,
     history
<1>3. ASSUME SwitchOn PROVE GivenInv'
  BY <1>3, DevType
     DEF SwitchOn, Going, GivenInv, TypeOK, HostOK, TaskOK, NodesOK,
     Located, Dev, Visiting, work, host, nodes, bounds, history
<1>4. ASSUME NextDevice PROVE GivenInv'
  BY <1>4, DevType
     DEF NextDevice, GivenInv, TypeOK, HostOK, TaskOK, NodesOK, Located,
     Dev, Visiting, work, host, nodes, bounds, history
<1>5. ASSUME OpenAp PROVE GivenInv'
  BY <1>5, DevType
     DEF OpenAp, Failing, Going, GivenInv, TypeOK, HostOK, TaskOK, NodesOK,
     Located, Dev, Visiting, work, host, nodes, bounds, history
<1>6. ASSUME JoinAp PROVE GivenInv'
  BY <1>6, DevType
     DEF JoinAp, Failing, Going, GivenInv, TypeOK, HostOK, TaskOK, NodesOK,
     Located, Dev, Visiting, work, host, nodes, bounds, history
<1>7. ASSUME SwitchOnAgain PROVE GivenInv'
  BY <1>7, DevType
     DEF SwitchOnAgain, Failing, Going, GivenInv, TypeOK, HostOK, TaskOK,
     NodesOK, Located, Dev, Visiting, work, host, nodes, bounds, history
<1>8. ASSUME SeeNode PROVE GivenInv'
  <2>1. /\ UNCHANGED <<job, idx, todo, peer, held>>
        /\ at' \in {"upload", "download"} => peer = Dev
        /\ at' \in {"upload", "download", "close", "restore"}
        /\ at' = "upload" => job.kind # "download" /\ at = "see"
    BY <1>8 DEF SeeNode, IsExpected, TimedOut, Failing, Going, host, nodes
  <2>2. at' = "upload" => todo = job.ops
    BY <2>1, JobType DEF GivenInv, Located
  <2>. QED
    BY <2>1, <2>2 DEF GivenInv, Dev
<1>9. ASSUME PostImage PROVE GivenInv'
  BY <1>9, DevType
     DEF PostImage, TryFailed, MoreTries, Finished, Flashed, Closing,
     Reachable, Given, PageIsFailure, Failing, Going, GivenInv, TypeOK,
     HostOK, TaskOK, NodesOK, Located, Dev, Visiting, work, host, nodes,
     bounds, history
<1>10. ASSUME Unlock PROVE GivenInv'
  BY <1>10, DevType
     DEF Unlock, TryFailed, MoreTries, Failing, Going, GivenInv, TypeOK,
     HostOK, TaskOK, NodesOK, Located, Dev, Visiting, work, host, nodes,
     bounds, history
<1>11. ASSUME FilesOnly PROVE GivenInv'
  BY <1>11, DevType
     DEF FilesOnly, Finished, GivenInv, TypeOK, HostOK, TaskOK, NodesOK,
     Located, Dev, Visiting, work, host, nodes, bounds, history
<1>12. ASSUME CloseAp PROVE GivenInv'
  BY <1>12, DevType
     DEF CloseAp, Closing, Reachable, Closes, GivenInv, TypeOK, HostOK,
     TaskOK, NodesOK, Located, Dev, Visiting, work, host, nodes, bounds,
     history
<1>13. ASSUME Download PROVE GivenInv'
  BY <1>13, DevType
     DEF Download, Closing, Reachable, Given, Failing, GivenInv, TypeOK,
     HostOK, TaskOK, NodesOK, Located, Dev, Visiting, work, host, nodes,
     bounds, history
<1>14. ASSUME RestoreHostWifi PROVE GivenInv'
  BY <1>14, DevType
     DEF RestoreHostWifi, GivenInv, TypeOK, HostOK, TaskOK, NodesOK,
     Located, Dev, Visiting, work, host, nodes, bounds, history
<1>15. ASSUME Roam PROVE GivenInv'
  BY <1>15, DevType
     DEF Roam, Reachable, GivenInv, TypeOK, HostOK, TaskOK, NodesOK,
     Located, Dev, Visiting, work, host, nodes, bounds, history
<1>16. ASSUME Toggle PROVE GivenInv'
  BY <1>16, DevType
     DEF Toggle, GivenInv, TypeOK, HostOK, TaskOK, NodesOK, Located, Dev,
     Visiting, work, host, nodes, bounds, history
<1>17. CASE UNCHANGED vars
  BY <1>17
     DEF vars, GivenInv, TypeOK, HostOK, TaskOK, NodesOK, Located, Dev,
     Visiting, work, host, nodes, bounds, history
<1>. QED
  BY <1>1, <1>2, <1>3, <1>4, <1>5, <1>6, <1>7, <1>8, <1>9, <1>10, <1>11,
  <1>12, <1>13, <1>14, <1>15, <1>16, <1>17
     DEF Next, Work

LEMMA GivenInit == Init => GivenInv
  BY DEF Init, GivenInv

LEMMA GivenAlways == Spec => [](TypeOK /\ Located /\ GivenInv)
  BY TypeCorrect, GivenInit, GivenStep, PTL DEF Spec

(* Nothing is given to, or taken from, a device but the one the task is at *)
(* while the host stays where it saw that device: wait_for_expected_node   *)
(* compares the mac before anything is uploaded.                           *)
THEOREM OnlyExpected == Spec => OnlyTheExpected
<1>1. ASSUME TypeOK, Located, GivenInv, [Next]_vars,
             NEW d \in Devices, held'[d] # held[d], at # "idle", ~moved
      PROVE  d = Dev
  <2>1. CASE \E op \in {"presets", "cfg"} : UploadFile(op)
    <3>1. /\ at = "upload"
          /\ held' = held \/ \E x : held' = [held EXCEPT ![peer] = @ \cup {x}]
      BY <2>1 DEF UploadFile, Given, host
    <3>. QED
      BY <1>1, <3>1 DEF GivenInv, TypeOK, NodesOK
  <2>2. CASE PostImage
    <3>1. /\ at \in {"upload", "reupload"}
          /\ held' = held \/ \E x : held' = [held EXCEPT ![peer] = @ \cup {x}]
      BY <2>2 DEF PostImage, Flashed, Given
    <3>. QED
      BY <1>1, <3>1 DEF GivenInv, TypeOK, NodesOK
  <2>3. CASE Download
    <3>1. /\ at = "download"
          /\ held' = held \/ \E x : held' = [held EXCEPT ![peer] = @ \cup {x}]
      BY <2>3 DEF Download, Given
    <3>. QED
      BY <1>1, <3>1 DEF GivenInv, TypeOK, NodesOK
  <2>4. ASSUME Unlock PROVE FALSE
    BY <1>1, <2>4 DEF Unlock
  <2>. QED
    BY <1>1, <2>1, <2>2, <2>3, <2>4
       DEF Next, Work, Start, SwitchOn, NextDevice, OpenAp, JoinAp,
           SwitchOnAgain, SeeNode, FilesOnly, CloseAp, RestoreHostWifi, Roam,
           Toggle, vars, nodes
<1>2. TypeOK /\ Located /\ GivenInv /\ [Next]_vars
        => [\A d \in Devices :
              held'[d] # held[d] /\ at # "idle" /\ ~moved => d = Dev]_vars
  BY <1>1
<1>. QED
  BY GivenAlways, <1>2, PTL DEF Spec, OnlyTheExpected

(* A device reported as done has what the request gives it, whatever was   *)
(* lost or refused on the way: _update_response_indicates_failure and the  *)
(* handlers of run_firmware_update let no other way lead to "ok".          *)
THEOREM OkIsDone == Spec => OkMeansDone
<1>1. ASSUME TypeOK, Located, GivenInv, [Next]_vars, NEW d \in Devices,
             res'[d] = "ok", res[d] # "ok", ~moved, ~unread'
      PROVE  Wanted \subseteq held'[d]
  <2>1. CASE PostImage
    <3>1. /\ at \in {"upload", "reupload"} /\ todo = {"fw"}
          /\ job \in Jobs /\ job.kind = "firmware"
      BY <1>1, <2>1 DEF PostImage, Located
    <3>2. /\ res' = res
             \/ res' = [res EXCEPT ![Dev] = "failed"]
             \/ /\ res' = [res EXCEPT ![Dev] = "ok"]
                /\ held' = [held EXCEPT ![peer] = @ \cup {"fw"}]
      BY <1>1, <2>1, <3>1
         DEF PostImage, TryFailed, PageIsFailure, Finished, Flashed, Given,
             Failing, Going
    <3>3. Dev \in Devices
      BY <1>1, <3>1, DevType DEF Visiting
    <3>4. d = Dev /\ held' = [held EXCEPT ![peer] = @ \cup {"fw"}]
      BY <1>1, <3>2, <3>3 DEF TypeOK, NodesOK
    <3>5. peer = Dev /\ job.ops \ {"fw"} \subseteq held[Dev]
      BY <1>1, <3>1 DEF GivenInv
    <3>. QED
      BY <1>1, <3>1, <3>3, <3>4, <3>5 DEF Wanted, TypeOK, NodesOK
  <2>2. CASE FilesOnly
    <3>1. /\ at = "upload" /\ todo = {} /\ held' = held
          /\ res' = [res EXCEPT ![Dev] = "ok"] /\ job.kind = "firmware"
      BY <1>1, <2>2 DEF FilesOnly, Finished, Located, nodes
    <3>2. d = Dev
      BY <1>1, <3>1 DEF TypeOK, NodesOK
    <3>. QED
      BY <1>1, <3>1, <3>2 DEF Wanted, GivenInv
  <2>3. CASE Download
    <3>1. /\ at = "download" /\ job.kind = "download"
          /\ \/ res' = res
             \/ /\ res' = [res EXCEPT ![Dev] = "ok"]
                /\ held' = [held EXCEPT ![peer] = @ \cup {"taken"}]
      BY <1>1, <2>3 DEF Download, Given, Failing, Located
    <3>2. d = Dev /\ peer = Dev
          /\ held' = [held EXCEPT ![peer] = @ \cup {"taken"}]
      BY <1>1, <3>1 DEF GivenInv, TypeOK, NodesOK
    <3>. QED
      BY <1>1, <3>1, <3>2 DEF Wanted, TypeOK, NodesOK
  <2>4. ASSUME ~PostImage, ~FilesOnly, ~Download PROVE FALSE
    <3>1. CASE \E j \in Jobs : Start(j)
      BY <1>1, <3>1 DEF Start
    <3>2. CASE NextDevice
      <4>1. res' = res \/ res' = [res EXCEPT ![job.macs[idx + 1]] = "listed"]
        BY <3>2 DEF NextDevice
      <4>. QED
        BY <1>1, <4>1 DEF TypeOK, NodesOK
    <3>3. CASE \/ SwitchOn \/ OpenAp \/ JoinAp \/ SwitchOnAgain \/ SeeNode
               \/ \E op \in {"presets", "cfg"} : UploadFile(op)
               \/ Unlock
      <4>1. res' = res \/ res' = [res EXCEPT ![Dev] = "failed"]
        BY <3>3
           DEF SwitchOn, OpenAp, JoinAp, SwitchOnAgain, SeeNode, UploadFile,
               Unlock, TimedOut, TryFailed, Failing, Going
      <4>. QED
        BY <1>1, <4>1 DEF TypeOK, NodesOK
    <3>4. CASE CloseAp \/ RestoreHostWifi \/ Roam \/ Toggle \/ UNCHANGED vars
      <4>1. res' = res
        BY <3>4 DEF CloseAp, RestoreHostWifi, Roam, Toggle, vars, work
      <4>. QED
        BY <1>1, <4>1
    <3>. QED
      BY <1>1, <2>4, <3>1, <3>2, <3>3, <3>4 DEF Next, Work
  <2>. QED
    BY <2>1, <2>2, <2>3, <2>4
<1>2. TypeOK /\ Located /\ GivenInv /\ [Next]_vars
        => [\A d \in Devices :
              res'[d] = "ok" /\ res[d] # "ok" /\ ~moved /\ ~unread'
                => Wanted \subseteq held'[d]]_vars
  BY <1>1
<1>. QED
  BY GivenAlways, <1>2, PTL DEF Spec, OkMeansDone

=============================================================================
