---------------------------- MODULE Fleet_proofs ----------------------------
(* Proofs about Fleet, for any devices, groups and workers, any number of  *)
(* attempts and any bounds.                                                *)
EXTENDS Fleet, SequenceTheorems, FiniteSetTheorems,
        WellFoundedInduction, TLAPS

(* The shapes of what the steps write to: what the proofs need of types.   *)
PushShapes(ps) ==
  /\ DOMAIN ps = Pushers
  /\ \A p \in Pushers :
       /\ DOMAIN ps[p] = DOMAIN NoPush
       /\ ps[p].phase # "idle" => ps[p].dev \in Devices

SaveShapes(cs) ==
  /\ DOMAIN cs = Savers
  /\ \A s \in Savers :
       /\ DOMAIN cs[s] = DOMAIN NoSave
       /\ DOMAIN cs[s].records.stored \subseteq Devices

Shapes ==
  /\ known \subseteq Devices /\ synced \subseteq Devices
  /\ DOMAIN stored = Devices /\ DOMAIN node = Devices
  /\ DOMAIN acks = Devices /\ PushShapes(pushes)
  /\ DOMAIN disk.records.stored \subseteq Devices
  /\ DOMAIN task = DOMAIN NoTask /\ SaveShapes(saves)

LEMMA ShapesInit == Init => Shapes
  BY DEF Init, Shapes, PushShapes, SaveShapes, NoTask, NoPush, NoSave,
     Snapshot, Saved

(* What a change does to the calls of save_to_db it overtakes.             *)
LEMMA OvertakenIs ==
  ASSUME SaveShapes(saves), NEW cut \in BOOLEAN
  PROVE  /\ SaveShapes(Overtaken(cut))
         /\ \A s \in Savers :
              LET c == Overtaken(cut)[s] IN
              /\ c.phase = saves[s].phase /\ c.groups = saves[s].groups
              /\ c.records = saves[s].records
              /\ ~c.old =>
                   /\ ~saves[s].old
                   /\ saves[s].phase \in {"groups", "write"} =>
                        known' = known /\ stored' = stored
                   /\ saves[s].phase = "write" => groups' = groups
              /\ ~c.torn => ~saves[s].torn /\ (cut => saves[s].phase # "groups")
<1>1. DOMAIN Overtaken(cut) = Savers
  BY DEF Overtaken
<1>. SUFFICES ASSUME NEW s \in Savers
     PROVE  LET c == Overtaken(cut)[s] IN
            /\ DOMAIN c = DOMAIN NoSave
            /\ c.phase = saves[s].phase /\ c.groups = saves[s].groups
            /\ c.records = saves[s].records
            /\ ~c.old =>
                 /\ ~saves[s].old
                 /\ saves[s].phase \in {"groups", "write"} =>
                      known' = known /\ stored' = stored
                 /\ saves[s].phase = "write" => groups' = groups
            /\ ~c.torn => ~saves[s].torn /\ (cut => saves[s].phase # "groups")
  BY <1>1 DEF SaveShapes
<1>. DEFINE old  == \/ saves[s].old
                    \/ /\ saves[s].phase \in {"groups", "write"}
                       /\ <<known', stored'>> # <<known, stored>>
                    \/ saves[s].phase = "write" /\ groups' # groups
            torn == saves[s].torn \/ (cut /\ saves[s].phase = "groups")
            c    == Overtaken(cut)[s]
<1>2. c = [saves[s] EXCEPT !.old = old, !.torn = torn]
  BY Zenon DEF Overtaken
<1>3. /\ DOMAIN saves[s] = DOMAIN NoSave
      /\ {"phase", "groups", "records", "old", "torn"} = DOMAIN NoSave
  BY DEF SaveShapes, NoSave
<1>4. /\ DOMAIN c = DOMAIN NoSave
      /\ c.phase = saves[s].phase /\ c.groups = saves[s].groups
      /\ c.records = saves[s].records
  <2>. HIDE DEF old, torn, c
  <2>. QED
    BY <1>2, <1>3
<1>5. c.old = old /\ c.torn = torn
  <2>. HIDE DEF old, torn, c
  <2>. QED
    BY <1>2, <1>3
<1>. HIDE DEF c
<1>. QED
  BY Zenon, <1>4, <1>5 DEF c

(* A call of save_to_db that begins.                                       *)
LEMMA SaveBegins ==
  ASSUME NEW cs, SaveShapes(cs), NEW s \in Savers, known \subseteq Devices,
         NEW f, NEW m, NEW a, NEW gs
  PROVE  /\ SaveShapes([cs EXCEPT ![s] = Saving(Saved(f, m, a))])
         /\ SaveShapes([cs EXCEPT ![s] = Dumped(Saved(f, m, a), gs)])
<1>1. ASSUME NEW c, DOMAIN c = DOMAIN NoSave,
             DOMAIN c.records.stored \subseteq Devices
      PROVE  SaveShapes([cs EXCEPT ![s] = c])
  BY <1>1 DEF SaveShapes
<1>2. /\ DOMAIN Saving(Saved(f, m, a)) = DOMAIN NoSave
      /\ Saving(Saved(f, m, a)).records = Saved(f, m, a)
      /\ DOMAIN Dumped(Saved(f, m, a), gs) = DOMAIN NoSave
      /\ Dumped(Saved(f, m, a), gs).records = Saved(f, m, a)
  BY DEF Dumped, Saving, NoSave
<1>3. DOMAIN Saved(f, m, a).stored = known
  BY DEF Saved
<1>. QED
  BY <1>1, <1>2, <1>3

LEMMA ShapesStep ==
  ASSUME Shapes, [Next]_vars
  PROVE  Shapes'
<1>s. /\ SaveShapes(saves) /\ PushShapes(pushes) /\ "edit" \in Savers
      /\ "task" \in Savers /\ Routes \subseteq Savers
      /\ \A cut \in BOOLEAN : SaveShapes(Overtaken(cut))
  BY OvertakenIs DEF Shapes, Savers
<1>n. NoSave.records.stored = [d \in {} |-> 0]
  BY DEF NoSave
<1>1. ASSUME NEW g \in UserGroups, CreateGroup(g) PROVE Shapes'
  <2>1. /\ UNCHANGED <<known, synced, stored, node, acks, pushes, disk, task>>
        /\ saves' = [Overtaken(FALSE) EXCEPT
                       !["edit"] = Dumped(Snapshot, groups')]
    BY <1>1 DEF CreateGroup, sending
  <2>2. SaveShapes(saves')
    BY <1>s, <2>1, SaveBegins DEF Shapes, Snapshot
  <2>. QED
    BY <2>1, <2>2 DEF Shapes
<1>2. ASSUME NEW g \in UserGroups \cup {Home}, StartDiscover(g) PROVE Shapes'
  BY <1>2, <1>s
     DEF StartDiscover, Begin, sending, Shapes, NoTask
<1>3. ASSUME NEW i \in Ids, DeleteGroup(i) PROVE Shapes'
  <2>1. /\ UNCHANGED <<known, node, acks, pushes, disk>>
        /\ synced' \subseteq synced /\ DOMAIN stored' = Devices
        /\ task' = task \/ task' = [task EXCEPT !.stale = TRUE]
        /\ saves' = [Overtaken(TRUE) EXCEPT
             !["edit"] = Dumped(Saved(stored', meant', adrift'), groups')]
    BY <1>3 DEF DeleteGroup, sending
  <2>2. SaveShapes(saves')
    BY <1>s, <2>1, SaveBegins DEF Shapes
  <2>. QED
    BY <2>1, <2>2 DEF Shapes
<1>4. ASSUME NEW i \in Ids, NEW ds \in SUBSET known \ {{}}, StartMove(ds,
      i)
      PROVE  Shapes'
  BY <1>4
     DEF StartMove, Begin, fleet, sending, history, Shapes, NoTask
<1>5. ASSUME NEW skip \in BOOLEAN, StartForce(skip) PROVE Shapes'
  BY <1>5
     DEF StartForce, Begin, fleet, sending, history, Shapes, NoTask
<1>6. ASSUME NEW i \in Ids \cup {255}, NEW ds \in SUBSET known, Status(i,
      ds)
      PROVE  Shapes'
  BY <1>6
     DEF Status, Begin, sending, history, Shapes, NoTask
<1>7. ASSUME Reload PROVE Shapes'
  <2>1. /\ known' = DOMAIN disk.records.stored /\ DOMAIN stored' = Devices
        /\ synced' = {} /\ UNCHANGED <<node, acks, disk, task>>
        /\ saves' = Overtaken(TRUE)
        /\ pushes' = [p \in Pushers |->
             IF pushes[p].phase = "queued"
             THEN [pushes[p] EXCEPT !.phase = "ready", !.own = FALSE,
                                    !.group = stored[pushes[p].dev]]
             ELSE [pushes[p] EXCEPT !.own = ~Busy(p)]]
    BY <1>7 DEF Reload, Load
  <2>2. PushShapes(pushes')
    BY <1>s, <2>1 DEF PushShapes, NoPush
  <2>. QED
    BY <1>s, <2>1, <2>2 DEF Shapes
<1>8. ASSUME NEW r \in Routes, SaveNow(r) PROVE Shapes'
  <2>1. /\ UNCHANGED <<known, synced, stored, node, acks, pushes, disk, task>>
        /\ saves' = [saves EXCEPT ![r] = Saving(Snapshot)]
    BY <1>8 DEF SaveNow, fleet, sending, history
  <2>2. SaveShapes(saves')
    BY <1>s, <2>1, SaveBegins DEF Shapes, Snapshot
  <2>. QED
    BY <2>1, <2>2 DEF Shapes
<1>9. ASSUME CloseWindow PROVE Shapes'
  BY <1>9
     DEF CloseWindow, fleet, sending, bounds, history, Shapes, NoTask
<1>10. ASSUME EndSteps PROVE Shapes'
  <2>1. /\ UNCHANGED <<known, synced, stored, node, acks, pushes, disk>>
        /\ \/ saves' = [saves EXCEPT !["task"] = Saving(Snapshot)]
           \/ saves' = saves
        /\ task' = [task EXCEPT !.phase = "saving"] \/ task' = NoTask
    BY <1>10 DEF EndSteps, fleet, sending, history
  <2>2. SaveShapes(saves')
    <3>1. SaveShapes([saves EXCEPT !["task"] = Saving(Snapshot)])
      BY <1>s, SaveBegins DEF Shapes, Snapshot
    <3>. QED
      BY <1>s, <2>1, <3>1
  <2>. QED
    BY <2>1, <2>2 DEF Shapes
<1>11. ASSUME NEW s \in Savers, SaveStep(s) PROVE Shapes'
  <2>1. CASE ReadGroups(s)
    <3>1. /\ UNCHANGED <<known, synced, stored, node, acks, pushes, disk, task>>
          /\ saves' = [saves EXCEPT ![s].phase = "write", ![s].groups = groups]
      BY <2>1 DEF ReadGroups, fleet, sending, history
    <3>2. SaveShapes(saves')
      BY <1>s, <3>1 DEF SaveShapes, NoSave
    <3>. QED
      BY <3>1, <3>2 DEF Shapes
  <2>2. CASE Write(s)
    <3>1. /\ UNCHANGED <<known, synced, stored, node, acks, pushes>>
          /\ disk'.records = saves[s].records \/ disk' = disk
          /\ task' = NoTask \/ task' = task
          /\ saves' = [saves EXCEPT ![s] = NoSave]
      BY <2>2 DEF Write, Save, fleet, sending
    <3>2. SaveShapes(saves')
      BY <1>s, <1>n, <3>1 DEF SaveShapes
    <3>. QED
      BY <3>1, <3>2 DEF Shapes, SaveShapes
  <2>. QED
    BY <1>11, <2>1, <2>2 DEF SaveStep
<1>12. ASSUME NEW d \in Devices, Step(d) PROVE Shapes'
  <2>1. /\ pushes' = pushes \/ pushes' = [pushes EXCEPT !["task"] = Queued(d)]
        /\ saves' = Overtaken(FALSE)
    BY <1>12 DEF Step
  <2>2. PushShapes(pushes')
    BY ZenonT(60), <2>1 DEF Shapes, PushShapes, Pushers, Queued, NoPush
  <2>3. /\ DOMAIN stored' = Devices /\ task' = [task EXCEPT !.todo = @ \ {d}]
        /\ UNCHANGED <<known, node, acks, disk>>
        /\ synced' \subseteq synced
    BY <1>12 DEF Step, Clamped, Placed, Shapes
  <2>. QED
    BY <1>s, <2>1, <2>2, <2>3 DEF Shapes, NoTask
<1>13. ASSUME Restart PROVE Shapes'
  BY <1>13
     DEF Restart, Load, Shapes, PushShapes, SaveShapes, NoPush, NoTask,
     NoSave
<1>14. ASSUME NEW p \in Pushers, Capture(p) PROVE Shapes'
  BY <1>14
     DEF Capture, fleet, bounds, Shapes, PushShapes, NoPush
<1>15. ASSUME NEW p \in Pushers, Send(p) PROVE Shapes'
  BY <1>15
     DEF Send, fleet, history, Shapes, PushShapes, NoPush
<1>16. ASSUME NEW p \in Pushers, Timeout(p) PROVE Shapes'
  <2>1. /\ pushes[p].phase = "waiting"
        /\ \/ pushes' = [pushes EXCEPT ![p] = NoPush]
           \/ pushes' = [pushes EXCEPT ![p].phase = "ready"]
        /\ UNCHANGED <<known, stored, node, acks, disk, task, saves, synced>>
    BY <1>16 DEF Timeout, Return, history
  <2>2. PushShapes(pushes')
    BY <2>1 DEF Shapes, PushShapes, NoPush
  <2>. QED
    BY <2>1, <2>2 DEF Shapes
<1>17. ASSUME NEW d \in Devices, Reboot(d) PROVE Shapes'
  BY <1>17
     DEF Reboot, fleet, sending, Shapes
<1>18. ASSUME NEW d \in Devices, Identify(d) PROVE Shapes'
  <2>1. /\ \/ pushes' = pushes
           \/ \E w \in Workers : pushes' = [pushes EXCEPT ![w] = Queued(d)]
        /\ saves' = Overtaken(FALSE)
    BY <1>18 DEF Identify
  <2>2. PushShapes(pushes')
    <3>1. CASE pushes' = pushes
      BY <3>1 DEF Shapes
    <3>2. ASSUME NEW w \in Workers, pushes' = [pushes EXCEPT ![w] = Queued(d)]
          PROVE  PushShapes(pushes')
      BY <3>2 DEF Shapes, PushShapes, Pushers, Queued, NoPush
    <3>. QED
      BY <2>1, <3>1, <3>2
  <2>3. /\ DOMAIN stored' = Devices /\ known' = known \cup {d}
        /\ task' = IF task.phase = "window"
                   THEN [task EXCEPT !.todo = @ \cup {d}] ELSE task
        /\ UNCHANGED <<node, acks, disk>> /\ synced' \subseteq synced
    BY <1>18 DEF Identify, Shapes
  <2>. QED
    BY <1>s, <2>1, <2>2, <2>3 DEF Shapes, NoTask
<1>19. ASSUME NEW d \in Devices, NEW status \in {"ok", "refused"},
             Ack(d, status)
      PROVE  Shapes'
  <2>1. /\ \/ pushes' = pushes
           \/ \E p \in Pushers : pushes' = [pushes EXCEPT ![p] = NoPush]
        /\ acks' = [acks EXCEPT ![d] = @ \ {status}]
        /\ UNCHANGED <<known, stored, node, disk, task, saves>>
        /\ synced' = synced \/ synced' = synced \cup {d}
    BY <1>19 DEF Ack, WaitingFor, Return
  <2>2. PushShapes(pushes')
    BY <2>1 DEF Shapes, PushShapes, NoPush
  <2>. QED
    BY <2>1, <2>2 DEF Shapes
<1>20. CASE UNCHANGED vars
  BY <1>20
     DEF vars, fleet, sending, bounds, history, Shapes
<1>. QED
  BY <1>1, <1>2, <1>3, <1>4, <1>5, <1>6, <1>7, <1>8, <1>9, <1>10, <1>11,
  <1>12, <1>13, <1>14, <1>15, <1>16, <1>17, <1>18, <1>19, <1>20
     DEF Next, Operator, TaskStep, Push, Node

LEMMA ShapesAlways == Spec => []Shapes
  BY ShapesInit, ShapesStep, PTL DEF Spec

-----------------------------------------------------------------------------
(* What one step does to a call of save_to_db, whoever takes it: the call  *)
(* begins, reads the groups, ends, or goes on with what it has read.       *)
Records == <<known, stored, meant, adrift>>

Begins(s) == saves'[s] = Saving(Snapshot) /\ UNCHANGED <<groups, Records>>

Lists(s) ==
  /\ saves'[s] = Dumped(Saved(stored', meant', adrift'), groups')
  /\ UNCHANGED known

Reads(s) ==
  /\ saves[s].phase = "groups"
  /\ saves'[s] = [saves[s] EXCEPT !.phase = "write", !.groups = groups]
  /\ UNCHANGED <<groups, Records>>

Lengthened == \E g \in UserGroups \cup {Home} :
                g \notin ToSet(groups) /\ groups' = Append(groups, g)

GoesOn(s) ==
  /\ saves'[s].phase = saves[s].phase /\ saves'[s].groups = saves[s].groups
  /\ saves'[s].records = saves[s].records
  /\ ~saves'[s].old =>
       /\ ~saves[s].old
       /\ saves[s].phase \in {"groups", "write"} =>
            known' = known /\ stored' = stored
       /\ saves[s].phase = "write" => groups' = groups
  /\ ~saves'[s].torn =>
       /\ ~saves[s].torn
       /\ saves[s].phase = "groups" => groups' = groups \/ Lengthened

SaveMoves(s) ==
  saves'[s] = NoSave \/ Begins(s) \/ Lists(s) \/ Reads(s) \/ GoesOn(s)

LEMMA StillGoesOn ==
  ASSUME UNCHANGED <<saves, groups, known, stored>>
  PROVE  \A s \in Savers : GoesOn(s)
BY DEF GoesOn

LEMMA OvertakenGoesOn ==
  ASSUME Shapes, NEW cut \in BOOLEAN, NEW s \in Savers,
         saves'[s] = Overtaken(cut)[s],
         cut \/ groups' = groups \/ Lengthened
  PROVE  GoesOn(s)
<1>1. SaveShapes(saves)
  BY DEF Shapes
<1>. QED
  BY Zenon, <1>1, OvertakenIs DEF GoesOn

LEMMA SavesStep ==
  ASSUME Shapes, [Next]_vars
  PROVE  \A s \in Savers : SaveMoves(s)
<1>s. /\ DOMAIN saves = Savers /\ "edit" \in Savers /\ "task" \in Savers
      /\ Routes \subseteq Savers
      /\ DOMAIN Overtaken(TRUE) = Savers /\ DOMAIN Overtaken(FALSE) = Savers
  BY DEF Shapes, SaveShapes, Savers, Overtaken
<1>1. ASSUME NEW g \in UserGroups, CreateGroup(g)
      PROVE  \A s \in Savers : SaveMoves(s)
  <2>1. /\ groups' = Append(groups, g) /\ g \notin ToSet(groups)
        /\ UNCHANGED Records
        /\ saves' = [Overtaken(FALSE) EXCEPT
                       !["edit"] = Dumped(Snapshot, groups')]
    BY <1>1 DEF CreateGroup, Records
  <2>2. Lengthened
    BY <2>1 DEF Lengthened
  <2>3. \A s \in Savers \ {"edit"} : saves'[s] = Overtaken(FALSE)[s]
    BY <1>s, <2>1
  <2>4. Lists("edit")
    BY <1>s, <2>1 DEF Lists, Snapshot, Records
  <2>. QED
    BY <2>2, <2>3, <2>4, OvertakenGoesOn DEF SaveMoves
<1>2. ASSUME NEW i \in Ids, DeleteGroup(i)
      PROVE  \A s \in Savers : SaveMoves(s)
  <2>1. /\ UNCHANGED known
        /\ saves' = [Overtaken(TRUE) EXCEPT
             !["edit"] = Dumped(Saved(stored', meant', adrift'), groups')]
    BY <1>2 DEF DeleteGroup
  <2>2. \A s \in Savers \ {"edit"} : saves'[s] = Overtaken(TRUE)[s]
    BY <1>s, <2>1
  <2>3. Lists("edit")
    BY <1>s, <2>1 DEF Lists
  <2>. QED
    BY <2>2, <2>3, OvertakenGoesOn DEF SaveMoves
<1>3. ASSUME NEW s \in Savers, saves' = [saves EXCEPT ![s] = Saving(Snapshot)],
             UNCHANGED <<groups, Records>>
      PROVE  \A t \in Savers : SaveMoves(t)
  <2>1. Begins(s)
    BY <1>s, <1>3 DEF Begins
  <2>2. \A t \in Savers \ {s} : GoesOn(t)
    BY <1>s, <1>3 DEF GoesOn, Records
  <2>. QED
    BY Zenon, <2>1, <2>2 DEF SaveMoves
<1>4. ASSUME NEW s \in Savers, ReadGroups(s)
      PROVE  \A t \in Savers : SaveMoves(t)
  <2>1. /\ saves[s].phase = "groups" /\ UNCHANGED <<groups, Records>>
        /\ saves' = [saves EXCEPT ![s].phase = "write", ![s].groups = groups]
    BY <1>4 DEF ReadGroups, fleet, history, Records
  <2>2. Reads(s)
    BY <1>s, <2>1 DEF Reads
  <2>3. \A t \in Savers \ {s} : GoesOn(t)
    BY <1>s, <2>1 DEF GoesOn, Records
  <2>. QED
    BY Zenon, <2>2, <2>3 DEF SaveMoves
<1>5. ASSUME NEW s \in Savers, Write(s)
      PROVE  \A t \in Savers : SaveMoves(t)
  <2>1. /\ UNCHANGED <<groups, known, stored>>
        /\ saves' = [saves EXCEPT ![s] = NoSave]
    BY <1>5 DEF Write, fleet
  <2>2. saves'[s] = NoSave
    BY <1>s, <2>1
  <2>3. \A t \in Savers \ {s} : GoesOn(t)
    BY <1>s, <2>1 DEF GoesOn
  <2>. QED
    BY Zenon, <2>2, <2>3 DEF SaveMoves
<1>6. ASSUME NEW cut \in BOOLEAN, saves' = Overtaken(cut),
             cut \/ groups' = groups \/ Lengthened
      PROVE  \A s \in Savers : SaveMoves(s)
  BY <1>6, OvertakenGoesOn DEF SaveMoves
<1>7. ASSUME NEW g \in UserGroups \cup {Home}, StartDiscover(g)
      PROVE  \A s \in Savers : SaveMoves(s)
  <2>1. saves' = Overtaken(FALSE) /\ (groups' = groups \/ Lengthened)
    BY <1>7 DEF StartDiscover, Lengthened
  <2>. QED
    BY <1>6, <2>1
<1>8. CASE Reload
  BY <1>6, <1>8 DEF Reload
<1>9. ASSUME NEW d \in Devices, Step(d) \/ Identify(d)
      PROVE  \A s \in Savers : SaveMoves(s)
  <2>1. saves' = Overtaken(FALSE) /\ groups' = groups
    BY <1>9 DEF Step, Identify
  <2>. QED
    BY <1>6, <2>1
<1>10. CASE Restart
  BY <1>10 DEF Restart, SaveMoves
<1>11. ASSUME NEW r \in Routes, SaveNow(r)
       PROVE  \A s \in Savers : SaveMoves(s)
  BY <1>s, <1>3, <1>11 DEF SaveNow, fleet, history, Records
<1>12. CASE UNCHANGED <<saves, groups, known, stored>>
  BY <1>12, StillGoesOn DEF SaveMoves
<1>13. CASE EndSteps
  <2>1. /\ UNCHANGED <<groups, Records>>
        /\ \/ saves' = [saves EXCEPT !["task"] = Saving(Snapshot)]
           \/ UNCHANGED saves
    BY <1>13 DEF EndSteps, fleet, history, Records
  <2>. QED
    BY <1>s, <1>3, <1>12, <2>1 DEF Records
<1>14. CASE \/ \E i \in Ids : \E ds \in SUBSET known \ {{}} : StartMove(ds, i)
            \/ \E skip \in BOOLEAN : StartForce(skip)
            \/ \E i \in Ids \cup {255} : \E ds \in SUBSET known : Status(i, ds)
            \/ \E p \in Pushers : Push(p)
            \/ \E d \in Devices : \/ Reboot(d)
                                  \/ \E status \in {"ok", "refused"} :
                                       Ack(d, status)
            \/ CloseWindow \/ UNCHANGED vars
  BY <1>12, <1>14
     DEF StartMove, StartForce, Status, Push, Capture, Send, Timeout, Reboot,
     Ack, CloseWindow, vars, fleet
<1>. QED
  BY <1>1, <1>2, <1>4, <1>5, <1>7, <1>8, <1>9, <1>10, <1>11, <1>13, <1>14
     DEF Next, Operator, TaskStep, SaveStep, Node

-----------------------------------------------------------------------------
(* The saved state.  What has been read of devices and groups, by a call   *)
(* that was not overtaken, is what the host knows.                         *)
FunctionOf(f) == f = [d \in DOMAIN f |-> f[d]]

Current(c) ==
  /\ c.phase \in {"groups", "write"} /\ ~c.old =>
       c.records.stored = Snapshot.stored
  /\ c.phase = "write" /\ ~c.old => c.groups = groups

DiskInv ==
  /\ CleanDisk
  /\ FunctionOf(disk.records.stored)
  /\ \A s \in Savers : FunctionOf(saves[s].records.stored) /\ Current(saves[s])

LEMMA CurrentStep ==
  ASSUME Shapes, NEW s \in Savers, FunctionOf(saves[s].records.stored),
         Current(saves[s]), SaveMoves(s)
  PROVE  FunctionOf(saves'[s].records.stored) /\ Current(saves[s])'
<1>1. CASE saves'[s] = NoSave
  BY <1>1 DEF NoSave, FunctionOf, Current
<1>2. CASE Begins(s)
  BY <1>2
     DEF Begins, Records, Saving, NoSave, Saved, Snapshot, FunctionOf, Current
<1>3. CASE Lists(s)
  BY <1>3
     DEF Lists, Dumped, Saving, NoSave, Saved, Snapshot, FunctionOf, Current
<1>4. CASE Reads(s)
  <2>1. DOMAIN saves[s] = {"phase", "groups", "records", "old", "torn"}
    BY DEF Shapes, SaveShapes, NoSave
  <2>. QED
    BY <1>4, <2>1
       DEF Reads, Records, FunctionOf, Current, Snapshot, Saved
<1>5. CASE GoesOn(s)
  BY <1>5 DEF GoesOn, Current, Snapshot, Saved
<1>. QED
  BY <1>1, <1>2, <1>3, <1>4, <1>5 DEF SaveMoves

(* Whatever changes the host's state says so; a load takes the saved one,  *)
(* and a save that is not old writes the host's.                           *)
Same == UNCHANGED <<groups, known, stored>>

Said == UNCHANGED disk /\ (unsaved' \/ (~unsaved /\ Same))

Wrote(s) ==
  /\ saves[s].phase = "write" /\ Same
  /\ disk' = [records |-> saves[s].records, groups |-> saves[s].groups,
              torn |-> saves[s].torn]
  /\ unsaved' = saves[s].old

LEMMA DiskMoves ==
  ASSUME Shapes, [Next]_vars
  PROVE  \/ Said \/ (UNCHANGED disk /\ Load)
         \/ \E s \in Savers : Wrote(s)
<1>1. ASSUME NEW g \in UserGroups, CreateGroup(g) PROVE Said
  BY <1>1 DEF CreateGroup, Said
<1>2. ASSUME NEW g \in UserGroups \cup {Home}, StartDiscover(g) PROVE Said
  <2>1. UNCHANGED <<known, stored, disk>>
    BY <1>2 DEF StartDiscover
  <2>2. unsaved' = (unsaved \/ groups' # groups)
    BY Zenon, <1>2 DEF StartDiscover
  <2>. QED
    BY Zenon, <2>1, <2>2 DEF Same, Said
<1>3. ASSUME NEW i \in Ids, DeleteGroup(i) PROVE Said
  BY <1>3 DEF DeleteGroup, Said
<1>4. Reload \/ Restart => UNCHANGED disk /\ Load
  BY DEF Reload, Restart
<1>5. ASSUME NEW s \in Savers, Write(s) PROVE Said \/ Wrote(s)
  BY Zenon, <1>5 DEF Write, Save, fleet, Same, Said, Wrote
<1>6. ASSUME NEW d \in Devices, Step(d) PROVE Said
  BY <1>6 DEF Step, Clamped, Placed, Same, Said
<1>7. ASSUME NEW d \in Devices, Identify(d) PROVE Said
  <2>1. UNCHANGED <<groups, disk>> /\ known' = known \cup {d}
    BY <1>7 DEF Identify
  <2>2. unsaved' = (unsaved \/ stored' # stored \/ d \notin known)
    BY Zenon, <1>7 DEF Identify
  <2>3. d \in known => known' = known
    BY <2>1
  <2>. QED
    BY Zenon, <2>1, <2>2, <2>3 DEF Same, Said
<1>8. ASSUME UNCHANGED <<disk, unsaved, groups, known, stored>> PROVE Said
  <2>1. UNCHANGED disk /\ Same
    BY <1>8 DEF Same
  <2>2. unsaved' = unsaved
    BY <1>8
  <2>. QED
    BY Zenon, <2>1, <2>2 DEF Said
<1>9. ASSUME \/ \E i \in Ids : \E ds \in SUBSET known \ {{}} : StartMove(ds, i)
             \/ \E skip \in BOOLEAN : StartForce(skip)
             \/ \E i \in Ids \cup {255} : \E ds \in SUBSET known : Status(i, ds)
             \/ \E r \in Routes : SaveNow(r)
             \/ \E s \in Savers : ReadGroups(s)
             \/ CloseWindow \/ EndSteps
      PROVE  Said
  BY <1>8, <1>9
     DEF StartMove, StartForce, Status, SaveNow, ReadGroups, CloseWindow,
     EndSteps, fleet, history
<1>10. ASSUME \/ \E p \in Pushers : Push(p)
              \/ \E d \in Devices : \/ Reboot(d)
                                    \/ \E status \in {"ok", "refused"} :
                                         Ack(d, status)
              \/ UNCHANGED vars
       PROVE  Said
  BY <1>8, <1>10
     DEF Push, Capture, Send, Timeout, Reboot, Ack, vars, fleet, history
<1>11. Operator \/ Restart => Said \/ (UNCHANGED disk /\ Load)
  BY <1>1, <1>2, <1>3, <1>4, <1>9 DEF Operator
<1>12. TaskStep => Said
  BY <1>6, <1>9 DEF TaskStep
<1>13. (\E s \in Savers : SaveStep(s)) => Said \/ \E s \in Savers : Wrote(s)
  BY <1>5, <1>9 DEF SaveStep
<1>14. (\E d \in Devices : Node(d)) => Said
  BY <1>7, <1>10 DEF Node
<1>. QED
  BY <1>10, <1>11, <1>12, <1>13, <1>14 DEF Next

LEMMA DiskStep ==
  ASSUME Shapes, DiskInv, [Next]_vars
  PROVE  DiskInv'
<1>1. \A s \in Savers :
        FunctionOf(saves'[s].records.stored) /\ Current(saves[s])'
  BY Zenon, SavesStep, CurrentStep DEF DiskInv
<1>2. CleanDisk /\ FunctionOf(disk.records.stored)
  BY DEF DiskInv
<1>3. CleanDisk' /\ FunctionOf(disk'.records.stored)
  <2>1. CASE Said
    BY <1>2, <2>1 DEF CleanDisk, Said, Same, Snapshot, Saved
  <2>2. CASE UNCHANGED disk /\ Load
    <3>1. /\ known' = DOMAIN disk.records.stored /\ known' \subseteq Devices
          /\ stored' = [d \in Devices |-> IF d \in DOMAIN disk.records.stored
                                          THEN disk.records.stored[d] ELSE 0]
          /\ unsaved' \/ groups' = disk.groups
      BY <2>2 DEF Load, Shapes
    <3>2. disk.records.stored = Snapshot'.stored
      BY <1>2, <3>1 DEF Snapshot, Saved, FunctionOf
    <3>. QED
      BY <1>2, <2>2, <3>1, <3>2 DEF CleanDisk
  <2>3. ASSUME NEW s \in Savers, Wrote(s)
        PROVE  CleanDisk' /\ FunctionOf(disk'.records.stored)
    <3>1. /\ FunctionOf(saves[s].records.stored)
          /\ ~unsaved' => /\ saves[s].records.stored = Snapshot.stored
                          /\ saves[s].groups = groups
      BY Zenon, <2>3 DEF DiskInv, Current, Wrote
    <3>2. /\ disk'.records = saves[s].records
          /\ disk'.groups = saves[s].groups /\ Same
      BY <2>3 DEF Wrote
    <3>. QED
      BY <3>1, <3>2 DEF CleanDisk, Same, Snapshot, Saved
  <2>. QED
    BY <2>1, <2>2, <2>3, DiskMoves
<1>. QED
  BY <1>1, <1>3 DEF DiskInv

(* What a restart would read is what the host knows, whatever saves        *)
(* overlap.  Excepted is what is not saved by design, not written yet or   *)
(* failed to be, and a save that was overtaken: save_to_db reads devices   *)
(* and groups and writes them without a lock, so the state may be older    *)
(* than what the host knows after a change or a save it did not see.       *)
THEOREM DiskIsCurrent == Spec => []CleanDisk
<1>1. Init => DiskInv
  BY DEF Init, DiskInv, CleanDisk, FunctionOf, Current, NoSave, Snapshot,
     Saved
<1>2. DiskInv => CleanDisk
  BY DEF DiskInv
<1>. QED
  BY ShapesAlways, DiskStep, <1>1, <1>2, PTL DEF Spec

-----------------------------------------------------------------------------
(* What the nodes hold.  Captured(p, d): the call p made to d has read the *)
(* record and may still send.                                              *)
Captured(p, d) ==
  pushes[p].phase \in {"ready", "waiting"} /\ pushes[p].dev = d

(* The only call to a device that met no other: an ACK in the air is its   *)
(* own, and says that the node has the group it captured.                  *)
Untangled(d) ==
  /\ \A p \in Pushers : Captured(p, d) /\ pushes[p].own =>
       /\ \A q \in Pushers : Captured(q, d) => q = p
       /\ "ok" \in acks[d] => node[d] = pushes[p].group
  /\ d \in synced => node[d] = stored[d] /\ \A p \in Pushers : ~Captured(p, d)

NodesInv == \A d \in Devices \ tangled : Untangled(d)

LEMMA NodesStep ==
  ASSUME Shapes, NodesInv, [Next]_vars
  PROVE  NodesInv'
<1>1. ASSUME NEW g \in UserGroups, CreateGroup(g) PROVE NodesInv'
  BY <1>1
     DEF CreateGroup, sending, NodesInv, Untangled, Captured
<1>2. ASSUME NEW g \in UserGroups \cup {Home}, StartDiscover(g)
      PROVE  NodesInv'
  BY <1>2
     DEF StartDiscover, Begin, sending, Shapes, PushShapes, NodesInv,
     Untangled, Captured, NoPush, Queued, Pushers
<1>3. ASSUME NEW i \in Ids, DeleteGroup(i) PROVE NodesInv'
  BY <1>3
     DEF DeleteGroup, sending, Shapes, NodesInv, Untangled, Captured
<1>4. ASSUME NEW i \in Ids, NEW ds \in SUBSET known \ {{}}, StartMove(ds,
      i)
      PROVE  NodesInv'
  BY <1>4
     DEF StartMove, Begin, fleet, sending, history, Shapes, PushShapes,
     NodesInv, Untangled, Captured, NoPush, Queued, Pushers
<1>5. ASSUME NEW skip \in BOOLEAN, StartForce(skip) PROVE NodesInv'
  BY <1>5
     DEF StartForce, Begin, fleet, sending, history, Shapes, PushShapes,
     NodesInv, Untangled, Captured, NoPush, Queued, Pushers
<1>6. ASSUME NEW i \in Ids \cup {255}, NEW ds \in SUBSET known, Status(i,
      ds)
      PROVE  NodesInv'
  BY <1>6
     DEF Status, Begin, sending, history, Shapes, PushShapes, NodesInv,
     Untangled, Captured, NoPush, Queued, Pushers
<1>7. ASSUME Reload PROVE NodesInv'
  <2>1. /\ synced' = {} /\ UNCHANGED <<acks, node, tangled>>
        /\ \A p \in Pushers : Busy(p)' => ~pushes'[p].own
    BY <1>7 DEF Reload, Load, Shapes, PushShapes, Busy, NoPush
  <2>. QED
    BY <2>1 DEF NodesInv, Untangled, Captured, Busy
<1>8. ASSUME NEW r \in Routes, SaveNow(r) PROVE NodesInv'
  BY <1>8
     DEF SaveNow, fleet, sending, history, NodesInv, Untangled, Captured
<1>9. ASSUME CloseWindow PROVE NodesInv'
  BY <1>9
     DEF CloseWindow, fleet, sending, bounds, history, Shapes, PushShapes,
     NodesInv, Untangled, Captured, NoPush, Queued, Pushers
<1>10. ASSUME EndSteps PROVE NodesInv'
  BY <1>10
     DEF EndSteps, fleet, sending, bounds, history, Shapes, PushShapes,
     NodesInv, Untangled, Captured, NoPush, Queued, Pushers
<1>11. ASSUME NEW s \in Savers, SaveStep(s) PROVE NodesInv'
  BY <1>11
     DEF SaveStep, ReadGroups, Write, fleet, sending, history, NodesInv,
     Untangled, Captured
<1>12. ASSUME NEW d \in Devices, Step(d) PROVE NodesInv'
  <2>1. /\ pushes' = pushes
           \/ /\ ~Busy("task") /\ pushes' = [pushes EXCEPT !["task"] = Queued(d)]
        /\ UNCHANGED <<acks, node, tangled>>
    BY <1>12 DEF Step
  <2>2. /\ synced' \subseteq synced
        /\ \A e \in synced' : stored'[e] = stored[e]
    BY <1>12 DEF Step, Clamped, Placed, Shapes
  <2>3. \A p \in Pushers, e \in Devices :
          Captured(p, e)' => Captured(p, e) /\ pushes'[p] = pushes[p]
    BY <2>1 DEF Captured, Shapes, PushShapes, Queued, NoPush
  <2>. QED
    BY <2>1, <2>2, <2>3 DEF NodesInv, Untangled
<1>13. ASSUME Restart PROVE NodesInv'
  BY <1>13
     DEF Restart, Load, Shapes, PushShapes, NodesInv, Untangled, Captured,
     NoPush, Queued, Pushers
<1>14. ASSUME NEW p \in Pushers, Capture(p) PROVE NodesInv'
  <2>1. /\ pushes[p].phase = "queued"
        /\ pushes' = [pushes EXCEPT ![p].phase = "ready",
                                    ![p].group = stored[pushes[p].dev]]
        /\ synced' = synced \ {pushes[p].dev}
        /\ UNCHANGED <<acks, node, stored>>
    BY <1>14 DEF Capture, fleet
  <2>2. \A q \in Pushers, e \in Devices :
          /\ q # p => pushes'[q] = pushes[q]
          /\ Captured(q, e)' => Captured(q, e) \/ (q = p /\ e = pushes[p].dev)
    BY <2>1 DEF Captured, Shapes, PushShapes, NoPush
  <2>3. SUFFICES ASSUME NEW e \in Devices \ tangled' PROVE Untangled(e)'
    BY DEF NodesInv
  <2>4. CASE e = pushes[p].dev
    <3>1. PushesTo(e) = {p} /\ acks[e] = {}
      BY <1>14, <2>4 DEF Capture
    <3>2. \A q \in Pushers : Captured(q, e)' => q = p
      BY <2>1, <2>2, <3>1 DEF PushesTo, Busy, Captured
    <3>. QED
      BY <2>1, <2>4, <3>1, <3>2 DEF Untangled
  <2>5. CASE e # pushes[p].dev
    <3>1. Untangled(e)
      BY <1>14, <2>5 DEF Capture, NodesInv
    <3>2. \A q \in Pushers :
            Captured(q, e)' => Captured(q, e) /\ pushes'[q] = pushes[q]
      BY <2>1, <2>2, <2>5 DEF Captured, Shapes, PushShapes, NoPush
    <3>. QED
      BY <2>1, <3>1, <3>2 DEF Untangled
  <2>. QED
    BY <2>4, <2>5
<1>15. ASSUME NEW p \in Pushers, Send(p) PROVE NodesInv'
  <2>. DEFINE d == pushes[p].dev
  <2>1. /\ pushes[p].phase = "ready" /\ d \in Devices
        /\ pushes' = [pushes EXCEPT ![p].phase = "waiting",
                                    ![p].tries = @ + 1]
        /\ UNCHANGED <<stored, synced, tangled>>
        /\ node' = node \/ node' = [node EXCEPT ![d] = pushes[p].group]
        /\ \/ acks' = acks
           \/ acks' = [acks EXCEPT ![d] = @ \cup {"refused"}] /\ node' = node
           \/ /\ acks' = [acks EXCEPT ![d] = @ \cup {"ok"}]
              /\ node' = [node EXCEPT ![d] = pushes[p].group]
    BY <1>15 DEF Send, fleet, history, Shapes, PushShapes
  <2>2. /\ Captured(p, d)
        /\ \A q \in Pushers, e \in Devices :
             Captured(q, e)' => /\ Captured(q, e)
                                /\ pushes'[q].own = pushes[q].own
                                /\ pushes'[q].group = pushes[q].group
    BY <2>1 DEF Captured, Shapes, PushShapes, NoPush
  <2>3. SUFFICES ASSUME NEW e \in Devices \ tangled' PROVE Untangled(e)'
    BY DEF NodesInv
  <2>4. Untangled(e) /\ DOMAIN node = Devices /\ DOMAIN acks = Devices
    BY <2>1 DEF NodesInv, Shapes
  <2>. HIDE DEF d
  <2>5. CASE e # d
    <3>1. node'[e] = node[e] /\ acks'[e] = acks[e]
      BY <2>1, <2>4, <2>5
    <3>. QED
      BY <2>1, <2>2, <2>4, <3>1 DEF Untangled
  <2>6. CASE e = d
    <3>1. e \notin synced
      BY <2>2, <2>4, <2>6 DEF Untangled
    <3>2. /\ node'[e] = node[e] \/ node'[e] = pushes[p].group
          /\ "ok" \in acks'[e] =>
               "ok" \in acks[e] \/ node'[e] = pushes[p].group
      BY <2>1, <2>4, <2>6
    <3>3. ASSUME NEW q \in Pushers, Captured(q, e)', pushes'[q].own
          PROVE  /\ \A x \in Pushers : Captured(x, e)' => x = q
                 /\ "ok" \in acks'[e] => node'[e] = pushes'[q].group
      <4>1. /\ Captured(q, e) /\ pushes[q].own
            /\ pushes'[q].group = pushes[q].group
        BY <2>2, <3>3
      <4>2. p = q /\ \A x \in Pushers : Captured(x, e) => x = q
        BY <2>2, <2>4, <2>6, <4>1 DEF Untangled
      <4>. QED
        BY <2>2, <2>4, <3>2, <4>1, <4>2 DEF Untangled
    <3>. QED
      BY <2>1, <3>1, <3>3 DEF Untangled
  <2>. QED
    BY <2>5, <2>6
<1>16. ASSUME NEW p \in Pushers, Timeout(p) PROVE NodesInv'
  <2>1. /\ \/ pushes' = [pushes EXCEPT ![p] = NoPush]
           \/ /\ pushes[p].phase = "waiting"
              /\ pushes' = [pushes EXCEPT ![p].phase = "ready"]
        /\ UNCHANGED <<acks, node, stored, synced, tangled>>
    BY <1>16 DEF Timeout, Return, history
  <2>2. \A q \in Pushers, e \in Devices :
          Captured(q, e)' => /\ Captured(q, e)
                             /\ pushes'[q].own = pushes[q].own
                             /\ pushes'[q].group = pushes[q].group
    BY <2>1 DEF Captured, Shapes, PushShapes, NoPush
  <2>. QED
    BY <2>1, <2>2 DEF NodesInv, Untangled
<1>17. ASSUME NEW d \in Devices, Reboot(d) PROVE NodesInv'
  <2>1. /\ UNCHANGED <<pushes, acks, stored>> /\ synced' = synced \ {d}
        /\ \A e \in Devices \ {d} : node'[e] = node[e]
        /\ tangled \subseteq tangled'
        /\ d \notin tangled' => PushesTo(d) = {}
    BY <1>17 DEF Reboot, fleet, sending, Shapes
  <2>2. d \notin tangled' => \A p \in Pushers : ~Captured(p, d)
    BY <2>1 DEF PushesTo, Busy, Captured
  <2>. QED
    BY <2>1, <2>2 DEF NodesInv, Untangled, Captured
<1>18. ASSUME NEW d \in Devices, Identify(d) PROVE NodesInv'
  <2>1. /\ \/ pushes' = pushes
           \/ \E w \in Workers : /\ ~Busy(w)
                                 /\ pushes' = [pushes EXCEPT ![w] = Queued(d)]
        /\ UNCHANGED <<acks, node, tangled>>
    BY <1>18 DEF Identify
  <2>2. /\ synced' \subseteq synced
        /\ \A e \in synced' : stored'[e] = stored[e]
    BY <1>18 DEF Identify, Shapes
  <2>3. \A p \in Pushers, e \in Devices :
          Captured(p, e)' => Captured(p, e) /\ pushes'[p] = pushes[p]
    BY <2>1 DEF Captured, Shapes, PushShapes, Queued, NoPush
  <2>. QED
    BY <2>1, <2>2, <2>3 DEF NodesInv, Untangled
<1>19. ASSUME NEW d \in Devices, NEW status \in {"ok", "refused"},
             Ack(d, status)
      PROVE  NodesInv'
  <2>1. /\ acks' = [acks EXCEPT ![d] = @ \ {status}]
        /\ UNCHANGED <<node, stored, tangled>>
    BY <1>19 DEF Ack
  <2>2. \A e \in Devices : acks'[e] \subseteq acks[e]
    BY <2>1 DEF Shapes
  <2>3. CASE UNCHANGED <<pushes, synced>>
    BY <2>1, <2>2, <2>3 DEF NodesInv, Untangled, Captured
  <2>4. ASSUME NEW p \in WaitingFor(d), pushes' = [pushes EXCEPT ![p] = NoPush],
               \/ synced' = synced
               \/ /\ status = "ok" /\ status \in acks[d] /\ pushes[p].own
                  /\ pushes[p].group = stored[d] /\ synced' = synced \cup {d}
        PROVE  NodesInv'
    <3>1. p \in Pushers /\ Captured(p, d)
      BY DEF WaitingFor, Captured
    <3>2. \A q \in Pushers, e \in Devices :
            Captured(q, e)' => /\ Captured(q, e) /\ q # p
                               /\ pushes'[q] = pushes[q]
      BY <2>4, <3>1 DEF Captured, Shapes, PushShapes, NoPush
    <3>3. SUFFICES ASSUME NEW e \in Devices \ tangled' PROVE Untangled(e)'
      BY DEF NodesInv
    <3>4. Untangled(e)
      BY <2>1 DEF NodesInv
    <3>5. CASE e \in synced \/ e \notin synced'
      BY <2>1, <2>2, <2>4, <3>2, <3>4, <3>5 DEF Untangled
    <3>6. CASE e \notin synced /\ e \in synced'
      <4>1. e = d /\ pushes[p].own /\ "ok" \in acks[d]
            /\ pushes[p].group = stored[d]
        BY <2>4, <3>6
      <4>2. node[d] = stored[d] /\ \A q \in Pushers : ~Captured(q, d)'
        BY <3>1, <3>2, <3>4, <4>1 DEF Untangled
      <4>. QED
        BY <2>1, <4>1, <4>2 DEF Untangled
    <3>. QED
      BY <3>5, <3>6
  <2>. QED
    BY <1>19, <2>3, <2>4 DEF Ack, Return, Accepted, WaitingFor
<1>20. CASE UNCHANGED vars
  BY <1>20
     DEF vars, fleet, sending, bounds, history, Shapes, PushShapes,
     NodesInv, Untangled, Captured, NoPush, Queued, Pushers
<1>. QED
  BY <1>1, <1>2, <1>3, <1>4, <1>5, <1>6, <1>7, <1>8, <1>9, <1>10, <1>11,
  <1>12, <1>13, <1>14, <1>15, <1>16, <1>17, <1>18, <1>19, <1>20
     DEF Next, Operator, TaskStep, Push, Node

(* A device whose last SET_GROUP was acknowledged holds the group of its   *)
(* record, unless two of them met: setNodeGroupId retries what it captured *)
(* and an ACK is matched by sender and opcode alone.                       *)
THEOREM NodesHoldRecords == Spec => []CleanNodes
<1>1. Init => NodesInv
  BY DEF Init, NodesInv, Untangled, Captured, NoPush
<1>2. Shapes /\ NodesInv => CleanNodes
  BY DEF Shapes, NodesInv, Untangled, CleanNodes
<1>. QED
  BY ShapesAlways, NodesStep, <1>1, <1>2, PTL DEF Spec

-----------------------------------------------------------------------------
(* Induction over the naturals, for sets: a set with 0 that is closed      *)
(* under the successor holds them all.                                     *)
LEMMA Least ==
  ASSUME NEW T, T \subseteq Nat, T # {}
  PROVE  \E x \in T : \A y \in T : x <= y
<1>. DEFINE less == {p \in Nat \X Nat : p[1] < p[2]}
<1>1. IsWellFoundedOn(less, Nat)
  BY NatLessThanWellFounded DEF OpToRel
<1>2. PICK x \in T : \A y \in T : <<y, x>> \notin less
  BY <1>1, WFMin
<1>3. ASSUME NEW y \in T PROVE x <= y
  <2>1. <<y, x>> \in Nat \X Nat
    OBVIOUS
  <2>. QED
    BY <1>2, <2>1
<1>. QED
  BY <1>3

LEMMA Induct ==
  ASSUME NEW T, 0 \in T, \A n \in Nat : n \in T => n + 1 \in T
  PROVE  Nat \subseteq T
<1>. SUFFICES ASSUME Nat \ T # {} PROVE FALSE
  OBVIOUS
<1>1. PICK x \in Nat \ T : \A y \in Nat \ T : x <= y
  BY Least
<1>2. x # 0 /\ x - 1 \in Nat /\ x - 1 \in T
  BY <1>1
<1>3. (x - 1) + 1 \in T
  BY <1>2
<1>. QED
  BY <1>1, <1>3

-----------------------------------------------------------------------------
(* What Without returns.  Kept(f, s, S, i) is the clause of its function.  *)
Kept(f, s, S, i) ==
  IF i = 0 THEN <<>>
  ELSE IF s[i] \in S THEN f[i - 1] ELSE Append(f[i - 1], s[i])

LEMMA KeptOfPrevious ==
  ASSUME NEW s, NEW S, NEW f, NEW g, NEW i \in Nat, i # 0 => f[i - 1] = g[i - 1]
  PROVE  Kept(f, s, S, i) = Kept(g, s, S, i)
BY DEF Kept

LEMMA WithoutExists ==
  ASSUME NEW T, NEW s \in Seq(T), NEW S
  PROVE  \E f : /\ Without(s, S) = f[Len(s)]
                /\ f = [i \in 0..Len(s) |-> Kept(f, s, S, i)]
<1>. DEFINE P == {n \in Nat : \E f : f = [i \in 0..n |-> Kept(f, s, S, i)]}
<1>1. 0 \in P
  <2>. DEFINE f == [i \in 0..0 |-> <<>>]
  <2>1. \A i \in 0..0 : Kept(f, s, S, i) = <<>>
    BY DEF Kept
  <2>2. f = [i \in 0..0 |-> Kept(f, s, S, i)]
    BY <2>1
  <2>. QED
    BY <2>2
<1>2. ASSUME NEW n \in Nat, n \in P PROVE n + 1 \in P
  <2>1. PICK f : f = [i \in 0..n |-> Kept(f, s, S, i)]
    BY <1>2
  <2>. DEFINE g == [i \in 0..(n + 1) |->
                      IF i = n + 1 THEN Kept(f, s, S, i) ELSE f[i]]
  <2>2. ASSUME NEW i \in 0..(n + 1) PROVE g[i] = Kept(g, s, S, i)
    <3>1. i # 0 => g[i - 1] = f[i - 1]
      OBVIOUS
    <3>2. Kept(f, s, S, i) = Kept(g, s, S, i)
      BY <3>1, KeptOfPrevious
    <3>3. g[i] = Kept(f, s, S, i)
      BY SMTT(60), <2>1
    <3>. QED
      BY <3>2, <3>3
  <2>3. g = [i \in 0..(n + 1) |-> Kept(g, s, S, i)]
    BY <2>2
  <2>4. \E h : h = [i \in 0..(n + 1) |-> Kept(h, s, S, i)]
    <3>. HIDE DEF g
    <3>. QED
      BY <2>3
  <2>. QED
    BY <2>4
<1>3. Len(s) \in P
  BY <1>1, <1>2, Induct, LenProperties
<1>4. \E f : f = [i \in 0..Len(s) |-> Kept(f, s, S, i)]
  BY <1>3
<1>. QED
  BY <1>4 DEF Without, Kept

Distinct(s) == \A i, j \in DOMAIN s : s[i] = s[j] => i = j

LEMMA AppendedSet ==
  ASSUME NEW T, NEW s \in Seq(T), NEW e \in T
  PROVE  /\ Append(s, e) \in Seq(T) /\ Append(s, e) # <<>>
         /\ ToSet(Append(s, e)) = ToSet(s) \cup {e}
         /\ s # <<>> => Append(s, e)[1] = s[1]
         /\ s = <<>> => Append(s, e)[1] = e
         /\ Distinct(s) /\ e \notin ToSet(s) => Distinct(Append(s, e))
<1>1. /\ Append(s, e) \in Seq(T) /\ Len(Append(s, e)) = Len(s) + 1
      /\ \A i \in 1..Len(s) : Append(s, e)[i] = s[i]
      /\ Append(s, e)[Len(s) + 1] = e
      /\ DOMAIN Append(s, e) = 1..(Len(s) + 1) /\ DOMAIN s = 1..Len(s)
      /\ Len(s) \in Nat /\ (s = <<>> => Len(s) = 0) /\ (s # <<>> => Len(s) > 0)
  BY AppendProperties, LenProperties, EmptySeq
<1>2. 1..(Len(s) + 1) = (1..Len(s)) \cup {Len(s) + 1}
  BY <1>1
<1>3. ToSet(Append(s, e)) = ToSet(s) \cup {e}
  BY <1>1, <1>2 DEF ToSet
<1>4. Append(s, e) # <<>>
  BY <1>1
<1>5. s # <<>> => 1 \in 1..Len(s)
  BY <1>1
<1>6. Distinct(s) /\ e \notin ToSet(s) => Distinct(Append(s, e))
  <2>1. \A i \in 1..Len(s) : s[i] \in ToSet(s)
    BY <1>1 DEF ToSet
  <2>. QED
    BY <1>1, <1>2, <2>1 DEF Distinct
<1>. QED
  BY <1>1, <1>3, <1>4, <1>5, <1>6

LEMMA WithoutIs ==
  ASSUME NEW T, NEW s \in Seq(T), NEW S
  PROVE  /\ Without(s, S) \in Seq(T)
         /\ ToSet(Without(s, S)) = ToSet(s) \ S
         /\ s # <<>> /\ s[1] \notin S =>
              Without(s, S) # <<>> /\ Without(s, S)[1] = s[1]
         /\ Distinct(s) => Distinct(Without(s, S))
<1>1. PICK f : /\ Without(s, S) = f[Len(s)]
               /\ f = [i \in 0..Len(s) |-> Kept(f, s, S, i)]
  BY WithoutExists
<1>2. Len(s) \in Nat /\ DOMAIN s = 1..Len(s) /\ (s # <<>> => Len(s) > 0)
  BY LenProperties, EmptySeq
<1>. DEFINE Upto(i) == {s[j] : j \in 1..i}
            Good(i) == /\ f[i] \in Seq(T) /\ ToSet(f[i]) = Upto(i) \ S
                       /\ i > 0 /\ s[1] \notin S =>
                            f[i] # <<>> /\ f[i][1] = s[1]
                       /\ Distinct(s) => Distinct(f[i])
            P == {i \in Nat : i <= Len(s) => Good(i)}
<1>3. 0 \in P
  <2>1. f[0] = <<>>
    BY <1>1, <1>2 DEF Kept
  <2>2. <<>> \in Seq(T) /\ ToSet(<<>>) = {} /\ Distinct(<<>>)
    BY DEF ToSet, Distinct
  <2>3. Upto(0) \ S = {}
    OBVIOUS
  <2>4. Good(0)
    <3>. HIDE DEF Upto
    <3>. QED
      BY <2>1, <2>2, <2>3
  <2>. QED
    BY <2>4
<1>4. ASSUME NEW n \in Nat, n \in P PROVE n + 1 \in P
  <2>. SUFFICES ASSUME n + 1 <= Len(s) PROVE Good(n + 1)
    OBVIOUS
  <2>1. Good(n)
    BY <1>2, <1>4
  <2>. DEFINE e == s[n + 1]
  <2>2. f[n + 1] = IF e \in S THEN f[n] ELSE Append(f[n], e)
    <3>1. n + 1 \in 0..Len(s) /\ n + 1 # 0 /\ (n + 1) - 1 = n
      BY <1>2
    <3>2. f[n + 1] = Kept(f, s, S, n + 1)
      BY <1>1, <3>1
    <3>. QED
      BY <3>1, <3>2 DEF Kept
  <2>3. n + 1 \in 1..Len(s) /\ e \in T
    BY <1>2, ElementOfSeq
  <2>4. Upto(n + 1) = Upto(n) \cup {e}
    <3>1. 1..(n + 1) = (1..n) \cup {n + 1}
      OBVIOUS
    <3>. QED
      BY <3>1
  <2>5. CASE e \in S
    <3>1. f[n + 1] = f[n] /\ Upto(n + 1) \ S = Upto(n) \ S
      BY <2>2, <2>4, <2>5
    <3>2. s[1] \notin S => n > 0
      BY <2>5
    <3>. HIDE DEF Upto
    <3>. QED
      BY <2>1, <3>1, <3>2
  <2>6. CASE e \notin S
    <3>1. /\ f[n + 1] = Append(f[n], e)
          /\ Upto(n + 1) \ S = (Upto(n) \ S) \cup {e}
      BY <2>2, <2>4, <2>6
    <3>2. n = 0 => ToSet(f[n]) = {} /\ e = s[1]
      BY <2>1
    <3>3. n = 0 => f[n] = <<>>
      <4>1. f[n] # <<>> => 1 \in DOMAIN f[n]
        BY <2>1, LenProperties, EmptySeq
      <4>. QED
        BY <3>2, <4>1 DEF ToSet
    <3>4. Distinct(s) => e \notin Upto(n)
      <4>1. \A j \in 1..n : j \in DOMAIN s /\ j # n + 1
        BY <1>2
      <4>. QED
        BY <1>2, <2>3, <4>1 DEF Distinct
    <3>5. /\ f[n + 1] \in Seq(T) /\ f[n + 1] # <<>>
          /\ ToSet(f[n + 1]) = ToSet(f[n]) \cup {e}
          /\ f[n] # <<>> => f[n + 1][1] = f[n][1]
          /\ f[n] = <<>> => f[n + 1][1] = e
          /\ Distinct(f[n]) /\ e \notin ToSet(f[n]) => Distinct(f[n + 1])
      BY SMTT(60), <2>1, <2>3, <3>1, AppendedSet
    <3>6. s[1] \notin S => f[n + 1] # <<>> /\ f[n + 1][1] = s[1]
      BY <2>1, <3>2, <3>3, <3>5
    <3>. HIDE DEF Upto
    <3>. QED
      BY <2>1, <3>1, <3>4, <3>5, <3>6
  <2>. QED
    BY <2>5, <2>6
<1>5. Good(Len(s))
  <2>. HIDE DEF Good
  <2>1. Len(s) \in P
    BY <1>2, <1>3, <1>4, Induct
  <2>. QED
    BY <1>2, <2>1
<1>6. ToSet(s) = Upto(Len(s))
  BY <1>2 DEF ToSet
<1>. QED
  BY <1>1, <1>2, <1>5, <1>6

LEMMA RemovedIs ==
  ASSUME NEW T, NEW s \in Seq(T), NEW k \in 2..Len(s)
  PROVE  /\ RemoveAt(s, k) \in Seq(T)
         /\ Len(RemoveAt(s, k)) = Len(s) - 1
         /\ \A i \in 1..(Len(s) - 1) :
              RemoveAt(s, k)[i] = IF i < k THEN s[i] ELSE s[i + 1]
<1>1. Len(s) \in Nat
  BY LenProperties
<1>2. /\ SubSeq(s, 1, k - 1) \in Seq(T) /\ Len(SubSeq(s, 1, k - 1)) = k - 1
      /\ \A i \in 1..(k - 1) : SubSeq(s, 1, k - 1)[i] = s[i]
  BY <1>1, SubSeqProperties
<1>3. /\ SubSeq(s, k + 1, Len(s)) \in Seq(T)
      /\ Len(SubSeq(s, k + 1, Len(s))) = Len(s) - k
      /\ \A i \in 1..(Len(s) - k) : SubSeq(s, k + 1, Len(s))[i] = s[k + i]
  BY <1>1, SubSeqProperties
<1>. QED
  BY <1>1, <1>2, <1>3, ConcatProperties DEF RemoveAt

-----------------------------------------------------------------------------
(* The list of groups, in memory and saved.                                *)
GroupSet == UserGroups \cup {Home}

GroupsOK(gs) ==
  gs \in Seq(GroupSet) /\ gs # <<>> /\ gs[1] = Home /\ Distinct(gs)

LEMMA LoadedGroups ==
  ASSUME NEW gs, GroupsOK(gs)
  PROVE  GroupsOK(LoadGroups(gs))
<1>. USE FleetAssumption DEF GroupsOK
<1>1. Home \notin Reserved
  OBVIOUS
<1>2. GroupsOK(Without(gs, Reserved))
  BY <1>1, WithoutIs
<1>3. 1 \in DOMAIN Without(gs, Reserved)
  BY <1>2, LenProperties, EmptySeq
<1>4. Home \in ToSet(Without(gs, Reserved))
  BY <1>2, <1>3 DEF ToSet
<1>. QED
  BY <1>2, <1>4 DEF LoadGroups

LEMMA AppendedGroup ==
  ASSUME NEW gs, GroupsOK(gs), NEW g \in GroupSet \ ToSet(gs)
  PROVE  /\ GroupsOK(Append(gs, g)) /\ Len(Append(gs, g)) = Len(gs) + 1
         /\ ToSet(Append(gs, g)) = ToSet(gs) \cup {g}
         /\ \A i \in 1..Len(gs) : Append(gs, g)[i] = gs[i]
BY AppendedSet, AppendProperties DEF GroupsOK

\* A group that discovery is to put devices into is listed afterwards.
LEMMA ListedGroup ==
  ASSUME GroupsOK(groups), NEW g \in GroupSet,
         groups' = IF g \in ToSet(groups) THEN groups ELSE Append(groups, g)
  PROVE  GroupsOK(groups') /\ \E i \in 0..(Len(groups') - 1) : groups'[i + 1] = g
<1>1. GroupsOK(groups') /\ g \in ToSet(groups')
  <2>1. CASE g \in ToSet(groups)
    BY <2>1
  <2>2. CASE g \notin ToSet(groups)
    BY <2>2, AppendedGroup
  <2>. QED
    BY <2>1, <2>2
<1>2. Len(groups') \in Nat /\ DOMAIN groups' = 1..Len(groups')
  BY <1>1, LenProperties DEF GroupsOK
<1>3. PICK j \in 1..Len(groups') : groups'[j] = g
  BY <1>1, <1>2 DEF ToSet
<1>4. j - 1 \in 0..(Len(groups') - 1) /\ groups'[(j - 1) + 1] = g
  BY <1>2, <1>3
<1>. QED
  BY Zenon, <1>1, <1>4

LEMMA RemovedGroup ==
  ASSUME NEW gs, GroupsOK(gs), NEW k \in 2..Len(gs)
  PROVE  /\ GroupsOK(RemoveAt(gs, k)) /\ Len(RemoveAt(gs, k)) = Len(gs) - 1
         /\ ToSet(RemoveAt(gs, k)) = ToSet(gs) \ {gs[k]}
         /\ \A i \in 1..(Len(gs) - 1) :
              RemoveAt(gs, k)[i] = IF i < k THEN gs[i] ELSE gs[i + 1]
<1>. DEFINE rs == RemoveAt(gs, k)
<1>1. /\ gs \in Seq(GroupSet) /\ Len(gs) \in Nat /\ DOMAIN gs = 1..Len(gs)
      /\ gs[1] = Home /\ Distinct(gs)
  BY LenProperties DEF GroupsOK
<1>2. /\ rs \in Seq(GroupSet) /\ Len(rs) = Len(gs) - 1
      /\ \A i \in 1..(Len(gs) - 1) : rs[i] = IF i < k THEN gs[i] ELSE gs[i + 1]
  BY <1>1, RemovedIs
<1>3. DOMAIN rs = 1..(Len(gs) - 1)
  BY <1>2, LenProperties
<1>. HIDE DEF rs
<1>4. Distinct(rs)
  <2>. DEFINE from(i) == IF i < k THEN i ELSE i + 1
  <2>1. ASSUME NEW i \in 1..(Len(gs) - 1), NEW j \in 1..(Len(gs) - 1),
               rs[i] = rs[j]
        PROVE  i = j
    <3>1. rs[i] = gs[from(i)] /\ rs[j] = gs[from(j)]
      BY <1>2
    <3>2. from(i) \in DOMAIN gs /\ from(j) \in DOMAIN gs
      BY <1>1
    <3>3. from(i) = from(j)
      BY <1>1, <2>1, <3>1, <3>2 DEF Distinct
    <3>. QED
      BY <3>3
  <2>. QED
    BY <1>3, <2>1 DEF Distinct
<1>5. rs # <<>> /\ rs[1] = Home
  BY <1>1, <1>2, <1>3
<1>6. ToSet(rs) = ToSet(gs) \ {gs[k]}
  <2>1. ASSUME NEW g \in ToSet(rs) PROVE g \in ToSet(gs) \ {gs[k]}
    <3>1. PICK i \in 1..(Len(gs) - 1) : g = rs[i]
      BY <1>3 DEF ToSet
    <3>2. PICK j \in 1..Len(gs) : j # k /\ g = gs[j]
      BY SMTT(60), <1>1, <1>2, <3>1
    <3>. QED
      BY <1>1, <3>2 DEF ToSet, Distinct
  <2>2. ASSUME NEW g \in ToSet(gs) \ {gs[k]} PROVE g \in ToSet(rs)
    <3>1. PICK j \in 1..Len(gs) : g = gs[j] /\ j # k
      BY <1>1 DEF ToSet
    <3>2. \E i \in 1..(Len(gs) - 1) : rs[i] = g
      <4>1. CASE j < k
        BY <1>1, <1>2, <3>1, <4>1
      <4>2. CASE j > k
        <5>1. j - 1 \in 1..(Len(gs) - 1) /\ ~(j - 1 < k) /\ (j - 1) + 1 = j
          BY <1>1, <4>2
        <5>. QED
          BY <1>2, <3>1, <5>1
      <4>. QED
        BY <1>1, <3>1, <4>1, <4>2
    <3>. QED
      BY <1>3, <3>2 DEF ToSet
  <2>. QED
    BY <2>1, <2>2
<1>. QED
  BY <1>2, <1>4, <1>5, <1>6 DEF GroupsOK, rs

(* An id of a list fits the byte it travels in.                            *)
LEMMA GroupCount ==
  ASSUME NEW gs, GroupsOK(gs)
  PROVE  /\ Cardinality(ToSet(gs)) = Len(gs) /\ ToSet(gs) \subseteq GroupSet
         /\ Len(gs) \in 1..255
<1>1. /\ Len(gs) \in Nat /\ DOMAIN gs = 1..Len(gs) /\ Len(gs) > 0
      /\ \A i \in 1..Len(gs) : gs[i] \in GroupSet
  BY LenProperties, EmptySeq, ElementOfSeq DEF GroupsOK
<1>2. ToSet(gs) \subseteq GroupSet
  BY <1>1 DEF ToSet
<1>3. IsFiniteSet(1..Len(gs)) /\ Cardinality(1..Len(gs)) = Len(gs)
  BY <1>1, FS_Interval
<1>4. gs \in Bijection(1..Len(gs), ToSet(gs))
  BY <1>1 DEF GroupsOK, Distinct, ToSet, Bijection, Injection, Surjection,
     IsInjective
<1>5. Cardinality(ToSet(gs)) = Len(gs)
  BY <1>3, <1>4, FS_Bijection DEF ExistsBijection
<1>6. IsFiniteSet(GroupSet) /\ Cardinality(GroupSet) <= 255
  <2>1. IsFiniteSet(UserGroups) /\ Cardinality(UserGroups) <= 254
    BY FleetAssumption
  <2>2. Cardinality(UserGroups) \in Nat
    BY <2>1, FS_CardinalityType
  <2>3. /\ IsFiniteSet(GroupSet)
        /\ Cardinality(GroupSet) = IF Home \in UserGroups
                                   THEN Cardinality(UserGroups)
                                   ELSE Cardinality(UserGroups) + 1
    BY <2>1, FS_AddElement DEF GroupSet
  <2>. QED
    BY <2>1, <2>2, <2>3
<1>7. Cardinality(ToSet(gs)) <= Cardinality(GroupSet)
  BY <1>2, <1>6, FS_Subset
<1>8. Cardinality(GroupSet) \in Nat
  BY <1>6, FS_CardinalityType
<1>9. Len(gs) <= 255
  BY <1>1, <1>5, <1>6, <1>7, <1>8
<1>10. Len(gs) \in 1..255
  <2>1. Len(gs) \in Nat /\ Len(gs) > 0
    BY <1>1
  <2>2. \A n \in Nat : n > 0 /\ n <= 255 => n \in 1..255
    OBVIOUS
  <2>. QED
    BY Zenon, <1>9, <2>1, <2>2
<1>. QED
  BY <1>2, <1>5, <1>10

(* Records: their types, and whether each that is not adrift names, in a   *)
(* list of groups, the one meant for it.                                   *)
Bytes == 0..255
Names == GroupSet \cup {Nobody}

RecordsOK(r) ==
  \E devices \in SUBSET Devices :
    r.stored \in [devices -> Bytes] /\ r.meant \in [devices -> Names]

Points(i, g, gs) == i < Len(gs) /\ gs[i + 1] = g

Named(r, gs) ==
  \A d \in DOMAIN r.stored \ r.adrift : Points(r.stored[d], r.meant[d], gs)

(* What a call of save_to_db has read: its records name their groups in    *)
(* the list it has read, or in the one it is about to read, unless they    *)
(* were read around a deletion.                                            *)
SaveOK(c) ==
  /\ RecordsOK(c.records)
  /\ c.phase = "groups" /\ ~c.torn => Named(c.records, groups)
  /\ c.phase = "write" =>
       GroupsOK(c.groups) /\ (~c.torn => Named(c.records, c.groups))

SavesInv == \A s \in Savers : SaveOK(saves[s])

(* Either list starts with the static group and has no entry twice, and a  *)
(* group that was deleted does not come back.                              *)
ListsInv ==
  /\ GroupsOK(groups) /\ GroupsOK(disk.groups)
  /\ gone \cap ToSet(groups) = {}

LEMMA ListsStep ==
  ASSUME ListsInv, SavesInv, [Next]_vars
  PROVE  ListsInv'
<1>. USE DEF ListsInv
<1>1. ASSUME NEW g \in UserGroups, CreateGroup(g) PROVE ListsInv'
  <2>1. /\ groups' = Append(groups, g) /\ g \in GroupSet \ ToSet(groups)
        /\ g \notin gone /\ UNCHANGED <<gone, disk>>
    BY <1>1 DEF CreateGroup, bounds, GroupSet
  <2>2. GroupsOK(groups') /\ ToSet(groups') = ToSet(groups) \cup {g}
    BY <2>1, AppendedGroup
  <2>. QED
    BY <2>1, <2>2
<1>2. ASSUME NEW g \in UserGroups \cup {Home}, StartDiscover(g)
      PROVE  ListsInv'
  <2>1. /\ groups' = IF g \in ToSet(groups) THEN groups ELSE Append(groups, g)
        /\ g \in GroupSet /\ (g \notin ToSet(groups) => g \notin gone)
        /\ UNCHANGED <<disk, gone>>
    BY <1>2 DEF StartDiscover, bounds, GroupSet
  <2>2. CASE g \notin ToSet(groups)
    BY <2>1, <2>2, AppendedGroup
  <2>. QED
    BY <2>1, <2>2
<1>3. ASSUME NEW i \in Ids, DeleteGroup(i) PROVE ListsInv'
  <2>1. /\ groups' = RemoveAt(groups, i + 1) /\ i \in 1..(Len(groups) - 1)
        /\ gone' = gone \cup {groups[i + 1]} /\ UNCHANGED disk
    BY <1>3 DEF DeleteGroup
  <2>2. i + 1 \in 2..Len(groups)
    BY <2>1, LenProperties DEF GroupsOK
  <2>3. /\ GroupsOK(groups')
        /\ ToSet(groups') = ToSet(groups) \ {groups[i + 1]}
    BY <2>1, <2>2, RemovedGroup
  <2>. QED
    BY <2>1, <2>3
<1>4. CASE Reload \/ Restart
  <2>1. /\ groups' = LoadGroups(disk.groups) /\ gone' = gone \ ToSet(groups')
        /\ UNCHANGED disk
    BY <1>4 DEF Reload, Restart, Load
  <2>. QED
    BY <2>1, LoadedGroups
<1>5. ASSUME NEW s \in Savers, Write(s) PROVE ListsInv'
  <2>1. /\ saves[s].phase = "write" /\ UNCHANGED <<groups, gone>>
        /\ disk'.groups = saves[s].groups \/ disk' = disk
    BY <1>5 DEF Write, Save, fleet
  <2>. QED
    BY <2>1 DEF SavesInv, SaveOK
<1>7. CASE UNCHANGED <<groups, disk, gone>>
  BY <1>7
<1>8. ASSUME NEW d \in Devices,
             Step(d) \/ Reboot(d) \/ Identify(d)
             \/ \E status \in {"ok", "refused"} : Ack(d, status)
      PROVE  ListsInv'
  BY <1>7, <1>8 DEF Step, Reboot, Identify, Ack, fleet, bounds
<1>9. ASSUME NEW p \in Pushers, Push(p) PROVE ListsInv'
  BY <1>7, <1>9 DEF Push, Capture, Send, Timeout, fleet, history, bounds
<1>10. CASE \/ \E i \in Ids : \E ds \in SUBSET known \ {{}} : StartMove(ds, i)
            \/ \E skip \in BOOLEAN : StartForce(skip)
            \/ \E i \in Ids \cup {255} : \E ds \in SUBSET known : Status(i, ds)
            \/ \E r \in Routes : SaveNow(r)
            \/ \E s \in Savers : ReadGroups(s)
            \/ CloseWindow \/ EndSteps
  BY <1>7, <1>10
     DEF StartMove, StartForce, Status, SaveNow, ReadGroups, CloseWindow,
     EndSteps, fleet, bounds
<1>11. CASE UNCHANGED vars
  BY <1>7, <1>11 DEF vars, fleet, bounds
<1>. QED
  BY <1>1, <1>2, <1>3, <1>4, <1>5, <1>8, <1>9, <1>10, <1>11
     DEF Next, Operator, TaskStep, SaveStep, Node

-----------------------------------------------------------------------------
(* The types of records, in memory and saved.                              *)
TypesInv ==
  /\ known \subseteq Devices /\ online \in [Devices -> BOOLEAN]
  /\ stored \in [Devices -> Bytes] /\ node \in [Devices -> Bytes]
  /\ meant \in [Devices -> Names]
  /\ RecordsOK(disk.records)
  /\ task.target \in Bytes /\ task.goal \in GroupSet
  /\ \A p \in Pushers : pushes[p].group \in Bytes

LEMMA RecordsSaved ==
  ASSUME known \subseteq Devices, NEW f \in [Devices -> Bytes],
         NEW m \in [Devices -> Names], NEW a
  PROVE  RecordsOK(Saved(f, m, a))
<1>1. /\ Saved(f, m, a).stored \in [known -> Bytes]
      /\ Saved(f, m, a).meant \in [known -> Names]
  BY DEF Saved
<1>. QED
  BY <1>1 DEF RecordsOK

LEMMA NameIn ==
  ASSUME GroupsOK(groups), NEW i \in Nat
  PROVE  NameOf(i, groups) \in Names
BY LenProperties, ElementOfSeq DEF GroupsOK, NameOf, Names

LEMMA GroupsListed ==
  ASSUME ListsInv
  PROVE  /\ GroupsOK(groups) /\ Len(groups) \in 1..255
         /\ \A i \in 1..Len(groups) : groups[i] \in GroupSet
<1>1. GroupsOK(groups)
  BY DEF ListsInv
<1>2. groups \in Seq(GroupSet)
  BY <1>1 DEF GroupsOK
<1>. QED
  BY <1>1, <1>2, GroupCount, ElementOfSeq

LEMMA TypesStep ==
  ASSUME Shapes, ListsInv, TypesInv, SavesInv, [Next]_vars
  PROVE  TypesInv'
<1>. USE DEF TypesInv
<1>0. /\ GroupsOK(groups) /\ Len(groups) \in 1..255
      /\ \A i \in 1..Len(groups) : groups[i] \in GroupSet
      /\ Home \in GroupSet /\ Home \in Names /\ 0 \in Bytes
  <2>1. 0 \in Bytes
    BY DEF Bytes
  <2>. QED
    BY Zenon, <2>1, GroupsListed DEF GroupSet, Names
<1>t. DOMAIN task = DOMAIN NoTask
  BY DEF Shapes
<1>p. /\ DOMAIN pushes = Pushers /\ "task" \in Pushers
      /\ \A p \in Pushers :
           /\ DOMAIN pushes[p] = {"dev", "phase", "group", "tries", "own"}
           /\ pushes[p].phase # "idle" => pushes[p].dev \in Devices
           /\ pushes[p].group \in Bytes
      /\ NoPush.group = 0 /\ \A d : Queued(d).group = 0
  BY DEF Shapes, PushShapes, NoPush, Pushers, Queued
<1>i. \A i \in Nat : i < Len(groups) => i \in Bytes
  <2>1. \A n \in 1..255 : \A i \in Nat : i < n => i \in 0..255
    OBVIOUS
  <2>. QED
    BY Zenon, <1>0, <2>1 DEF Bytes
<1>1. ASSUME NEW g \in UserGroups, CreateGroup(g) PROVE TypesInv'
  BY <1>1 DEF CreateGroup, sending
<1>2. ASSUME NEW g \in UserGroups \cup {Home}, StartDiscover(g)
      PROVE  TypesInv'
  <2>1. /\ UNCHANGED <<known, stored, online, pushes, node, meant, disk>>
        /\ groups' = IF g \in ToSet(groups) THEN groups ELSE Append(groups, g)
        /\ task' = [NoTask EXCEPT !.kind = "discover", !.goal = g,
                      !.target = Index(g, groups'), !.phase = "window"]
    BY <1>2 DEF StartDiscover, Begin, sending
  <2>2. g \in GroupSet
    BY DEF GroupSet
  <2>3. /\ GroupsOK(groups')
        /\ \E i \in 0..(Len(groups') - 1) : groups'[i + 1] = g
    BY Zenon, <1>0, <2>1, <2>2, ListedGroup
  <2>4. Len(groups') \in 1..255
    BY <2>3, GroupCount
  <2>5. Index(g, groups') \in 0..(Len(groups') - 1)
    BY <2>3 DEF Index
  <2>6. task'.target \in Bytes /\ task'.goal \in GroupSet
    <3>1. \A n \in 1..255 : \A x \in 0..(n - 1) : x \in 0..255
      OBVIOUS
    <3>2. Index(g, groups') \in Bytes
      BY <2>4, <2>5, <3>1 DEF Bytes
    <3>. QED
      BY <2>1, <2>2, <3>2 DEF NoTask
  <2>. QED
    BY <2>1, <2>6
<1>3. ASSUME NEW i \in Ids, DeleteGroup(i) PROVE TypesInv'
  <2>1. /\ UNCHANGED <<known, online, pushes, node>>
        /\ i \in 1..(Len(groups) - 1)
        /\ stored' = [d \in Devices |-> Shifted(stored[d], i)]
        /\ meant' = [d \in Devices |-> IF meant[d] = groups[i + 1] THEN Home
                                       ELSE meant[d]]
        /\ UNCHANGED disk
        /\ task' = task \/ task' = [task EXCEPT !.stale = TRUE]
    BY <1>3 DEF DeleteGroup, sending
  <2>2. stored' \in [Devices -> Bytes]
    <3>0. i \in Nat
      BY FleetAssumption, FS_CardinalityType DEF Ids
    <3>1. \A x \in Bytes : Shifted(x, i) \in Bytes
      BY <3>0 DEF Shifted, Bytes
    <3>. QED
      BY <2>1, <3>1
  <2>3. meant' \in [Devices -> Names]
    BY <1>0, <2>1
  <2>4. task'.target = task.target /\ task'.goal = task.goal
    BY <1>t, <2>1 DEF NoTask
  <2>. QED
    BY <2>1, <2>2, <2>3, <2>4
<1>4. ASSUME NEW i \in Ids, NEW ds \in SUBSET known \ {{}}, StartMove(ds, i)
      PROVE  TypesInv'
  <2>1. /\ UNCHANGED <<known, stored, online, pushes, node, meant, disk>>
        /\ i < Len(groups)
        /\ task' = [NoTask EXCEPT !.kind = "move", !.todo = ds,
                      !.target = i, !.goal = groups[i + 1]]
    BY <1>4 DEF StartMove, Begin, sending, fleet, history
  <2>2. i \in Nat
    BY FleetAssumption, FS_CardinalityType DEF Ids
  <2>3. i \in Bytes /\ i + 1 \in 1..Len(groups)
    <3>1. \A n \in 1..255 : i < n => i + 1 \in 1..n
      BY <2>2
    <3>. QED
      BY <1>0, <1>i, <2>1, <2>2, <3>1
  <2>4. task'.target \in Bytes /\ task'.goal \in GroupSet
    BY <1>0, <2>1, <2>3 DEF NoTask
  <2>. QED
    BY <2>1, <2>4
<1>5. ASSUME NEW skip \in BOOLEAN, StartForce(skip) PROVE TypesInv'
  BY <1>0, <1>5
     DEF StartForce, Begin, sending, fleet, history, NoTask
<1>6. ASSUME NEW i \in Ids \cup {255}, NEW ds \in SUBSET known,
             Status(i, ds)
      PROVE  TypesInv'
  <2>1. /\ UNCHANGED <<known, stored, pushes, node, meant, disk>>
        /\ task' = [NoTask EXCEPT !.kind = "none"]
           \/ task' = NoTask
    BY <1>6 DEF Status, Begin, sending, history
  <2>2. online' \in [Devices -> BOOLEAN]
    BY <1>6 DEF Status
  <2>3. task'.target = 0 /\ task'.goal = Home
    BY <2>1 DEF NoTask
  <2>. QED
    BY Zenon, <1>0, <2>1, <2>2, <2>3
<1>7. CASE Reload \/ Restart
  <2>1. Load /\ UNCHANGED <<disk, node>> /\ (task' = task \/ task' = NoTask)
    BY <1>7 DEF Reload, Restart
  <2>2. PICK devices \in SUBSET Devices :
          /\ disk.records.stored \in [devices -> Bytes]
          /\ disk.records.meant \in [devices -> Names]
    BY DEF RecordsOK
  <2>3. DOMAIN disk.records.stored = devices
    BY <2>2
  <2>4. /\ known' = devices /\ online' \in [Devices -> BOOLEAN]
        /\ stored' = [d \in Devices |->
             IF d \in devices THEN disk.records.stored[d] ELSE 0]
        /\ meant' = [d \in Devices |->
             IF d \in devices THEN disk.records.meant[d] ELSE Home]
    BY <2>1, <2>3 DEF Load
  <2>5. stored' \in [Devices -> Bytes] /\ meant' \in [Devices -> Names]
    BY <1>0, <2>2, <2>4 DEF Names
  <2>6. \A p \in Pushers : pushes'[p].group \in Bytes
    <3>1. CASE Reload
      <4>1. pushes' = [p \in Pushers |->
              IF pushes[p].phase = "queued"
              THEN [pushes[p] EXCEPT !.phase = "ready", !.own = FALSE,
                                     !.group = stored[pushes[p].dev]]
              ELSE [pushes[p] EXCEPT !.own = ~Busy(p)]]
        BY <3>1 DEF Reload
      <4>2. ASSUME NEW p \in Pushers, pushes[p].phase = "queued"
            PROVE  pushes'[p].group = stored[pushes[p].dev]
        BY <1>p, <4>1, <4>2
      <4>3. ASSUME NEW p \in Pushers, pushes[p].phase # "queued"
            PROVE  pushes'[p].group = pushes[p].group
        BY <1>p, <4>1, <4>3
      <4>. QED
        BY <1>p, <4>2, <4>3
    <3>2. CASE Restart
      BY <1>0, <1>p, <3>2 DEF Restart
    <3>. QED
      BY <1>7, <3>1, <3>2
  <2>7. task'.target \in Bytes /\ task'.goal \in GroupSet
    BY <1>0, <2>1 DEF NoTask
  <2>. QED
    BY <2>1, <2>4, <2>5, <2>6, <2>7
<1>8. ASSUME NEW r \in Routes, SaveNow(r) PROVE TypesInv'
  BY <1>8 DEF SaveNow, sending, fleet, history
<1>9. CASE CloseWindow \/ EndSteps
  <2>1. UNCHANGED <<known, stored, online, pushes, node, meant, disk>>
    BY <1>9 DEF CloseWindow, EndSteps, sending, fleet, history
  <2>2. task'.target \in Bytes /\ task'.goal \in GroupSet
    <3>1. CASE CloseWindow
      <4>1. task'.target = task.target /\ task'.goal = task.goal
        BY <1>t, <3>1 DEF CloseWindow, NoTask
      <4>. QED
        BY <4>1
    <3>2. CASE EndSteps
      <4>1. \/ task'.target = task.target /\ task'.goal = task.goal
            \/ task'.target = 0 /\ task'.goal = Home
        BY <1>t, <3>2 DEF EndSteps, NoTask
      <4>. QED
        BY <1>0, <4>1
    <3>. QED
      BY <1>9, <3>1, <3>2
  <2>. QED
    BY <2>1, <2>2
<1>10. ASSUME NEW s \in Savers, SaveStep(s) PROVE TypesInv'
  <2>1. /\ UNCHANGED <<known, stored, online, pushes, node, meant>>
        /\ disk'.records = saves[s].records \/ disk' = disk
        /\ task' = NoTask \/ task' = task
    BY <1>10 DEF SaveStep, ReadGroups, Write, Save, sending, fleet, history
  <2>2. RecordsOK(disk'.records)
    BY <2>1 DEF SavesInv, SaveOK
  <2>3. task'.target \in Bytes /\ task'.goal \in GroupSet
    BY <1>0, <2>1 DEF NoTask
  <2>. QED
    BY <2>1, <2>2, <2>3
<1>11. ASSUME NEW d \in Devices, Step(d) PROVE TypesInv'
  <2>1. /\ UNCHANGED <<known, online, node, disk>>
        /\ task' = [task EXCEPT !.todo = @ \ {d}] /\ task.phase = "steps"
        /\ pushes' = pushes \/ pushes' = [pushes EXCEPT !["task"] = Queued(d)]
    BY <1>11 DEF Step
  <2>2. stored' \in [Devices -> Bytes] /\ meant' \in [Devices -> Names]
    <3>1. /\ \/ stored' = stored
             \/ stored' = [stored EXCEPT ![d] = task.target]
             \/ stored' = [stored EXCEPT ![d] = 0]
          /\ \/ meant' = meant
             \/ meant' = [meant EXCEPT ![d] = Home]
             \/ meant' = [meant EXCEPT ![d] = task.goal]
      BY <1>11 DEF Step, Clamped, Placed
    <3>. QED
      BY <1>0, <3>1 DEF Names
  <2>3. task'.target = task.target /\ task'.goal = task.goal
    BY <1>t, <2>1 DEF NoTask
  <2>4. \A p \in Pushers : pushes'[p].group \in Bytes
    BY ZenonT(60), <1>0, <1>p, <2>1
  <2>. QED
    BY <2>1, <2>2, <2>3, <2>4
<1>12. ASSUME NEW p \in Pushers, Capture(p) PROVE TypesInv'
  <2>1. /\ UNCHANGED <<known, online, stored, node, meant, disk, task>>
        /\ pushes' = [pushes EXCEPT ![p].phase = "ready",
                                    ![p].group = stored[pushes[p].dev]]
        /\ pushes[p].phase = "queued"
    BY <1>12 DEF Capture, fleet
  <2>2. \A q \in Pushers : pushes'[q].group \in Bytes
    BY ZenonT(60), <1>0, <1>p, <2>1
  <2>. QED
    BY <2>1, <2>2
<1>13. ASSUME NEW p \in Pushers, Send(p) PROVE TypesInv'
  <2>1. /\ UNCHANGED <<known, online, stored, meant, disk, task>>
        /\ pushes' = [pushes EXCEPT ![p].phase = "waiting", ![p].tries = @ + 1]
        /\ pushes[p].phase = "ready"
        /\ \/ node' = node
           \/ node' = [node EXCEPT ![pushes[p].dev] = pushes[p].group]
    BY <1>13 DEF Send, fleet, history
  <2>2. \A q \in Pushers : pushes'[q].group \in Bytes
    BY ZenonT(60), <1>0, <1>p, <2>1
  <2>3. node' \in [Devices -> Bytes]
    BY <2>1
  <2>. QED
    BY <2>1, <2>2, <2>3
<1>14. ASSUME NEW p \in Pushers, Timeout(p) PROVE TypesInv'
  <2>1. /\ UNCHANGED <<known, stored, node, meant, disk, task>>
        /\ pushes[p].phase = "waiting"
        /\ \/ /\ pushes' = [pushes EXCEPT ![p].phase = "ready"]
              /\ online' = online
           \/ /\ pushes' = [pushes EXCEPT ![p] = NoPush]
              /\ \/ online' = [online EXCEPT ![pushes[p].dev] = FALSE]
                 \/ online' = [online EXCEPT ![pushes[p].dev] =
                                 online[pushes[p].dev]]
    BY <1>14 DEF Timeout, Return, history
  <2>2. \A q \in Pushers : pushes'[q].group \in Bytes
    BY ZenonT(60), <1>0, <1>p, <2>1
  <2>3. online' \in [Devices -> BOOLEAN]
    BY <1>p, <2>1
  <2>. QED
    BY <2>1, <2>2, <2>3
<1>15. ASSUME NEW d \in Devices, Reboot(d) PROVE TypesInv'
  <2>1. /\ UNCHANGED <<known, stored, online, task, pushes, meant, disk>>
        /\ \E g \in Bytes : node' = [node EXCEPT ![d] = g]
    BY <1>0, <1>15, FleetAssumption DEF Reboot, fleet, sending, Bytes
  <2>. QED
    BY <2>1
<1>16. ASSUME NEW d \in Devices, Identify(d) PROVE TypesInv'
  <2>1. /\ UNCHANGED <<node, disk>> /\ known' = known \cup {d}
        /\ online' = [online EXCEPT ![d] = TRUE]
        /\ task' = IF task.phase = "window" THEN [task EXCEPT !.todo = @ \cup {d}]
                   ELSE task
        /\ \/ pushes' = pushes
           \/ \E w \in Workers : pushes' = [pushes EXCEPT ![w] = Queued(d)]
    BY <1>16 DEF Identify
  <2>2. Adopted(d) \in Bytes
    <3>1. stored[d] \in Bytes /\ node[d] \in Bytes
      OBVIOUS
    <3>. QED
      BY <3>1 DEF Adopted
  <2>3. /\ stored' \in [Devices -> Bytes] /\ meant' \in [Devices -> Names]
    <3>1. NameOf(node[d], groups) \in Names
      <4>1. node[d] \in Nat
        BY DEF Bytes
      <4>. QED
        BY <1>0, <4>1, NameIn
    <3>2. \/ stored' = [stored EXCEPT ![d] = Adopted(d)]
          \/ stored' = [[stored EXCEPT ![d] = Adopted(d)] EXCEPT ![d] = 0]
      BY <1>16 DEF Identify
    <3>3. \/ meant' = [meant EXCEPT ![d] = NameOf(node[d], groups)]
          \/ meant' = [meant EXCEPT ![d] = Home]
          \/ meant' = [meant EXCEPT ![d] = @]
      BY <1>16 DEF Identify
    <3>. QED
      BY <1>0, <2>2, <3>1, <3>2, <3>3
  <2>4. task'.target = task.target /\ task'.goal = task.goal
    BY <1>t, <2>1 DEF NoTask
  <2>5. \A p \in Pushers : pushes'[p].group \in Bytes
    BY ZenonT(60), <1>0, <1>p, <2>1
  <2>6. known' \subseteq Devices /\ online' \in [Devices -> BOOLEAN]
    BY <2>1
  <2>. QED
    BY <2>1, <2>3, <2>4, <2>5, <2>6
<1>17. ASSUME NEW d \in Devices, NEW status \in {"ok", "refused"},
              Ack(d, status)
       PROVE  TypesInv'
  <2>1. UNCHANGED <<known, stored, node, meant, disk, task>>
    BY <1>17 DEF Ack
  <2>2. /\ online' \in [Devices -> BOOLEAN]
        /\ \/ pushes' = pushes
           \/ \E p \in Pushers : pushes' = [pushes EXCEPT ![p] = NoPush]
    <3>1. ASSUME UNCHANGED pushes, online' = [online EXCEPT ![d] = d \in known]
          PROVE  online' \in [Devices -> BOOLEAN]
      BY <3>1
    <3>2. ASSUME NEW p \in WaitingFor(d), NEW link \in BOOLEAN,
                 Return(p, link)
          PROVE  /\ online' \in [Devices -> BOOLEAN]
                 /\ \E q \in Pushers : pushes' = [pushes EXCEPT ![q] = NoPush]
      BY <3>2 DEF Return, WaitingFor
    <3>. QED
      BY <1>17, <3>1, <3>2, Zenon DEF Ack
  <2>3. \A p \in Pushers : pushes'[p].group \in Bytes
    BY <1>0, <1>p, <2>2
  <2>. QED
    BY <2>1, <2>2, <2>3
<1>18. CASE UNCHANGED vars
  <2>1. UNCHANGED <<known, stored, online, task, pushes, node, meant, disk>>
    BY <1>18 DEF vars, fleet, sending, history
  <2>. QED
    BY <2>1 DEF RecordsOK
<1>. HIDE DEF TypesInv
<1>. QED
  BY <1>1, <1>2, <1>3, <1>4, <1>5, <1>6, <1>7, <1>8, <1>9, <1>10, <1>11,
     <1>12, <1>13, <1>14, <1>15, <1>16, <1>17, <1>18
     DEF Next, Operator, TaskStep, Push, Node

-----------------------------------------------------------------------------
(* Where the operator wants each device: the record of every device that   *)
(* is not adrift names the group meant for it, the saved records do so in  *)
(* the saved groups unless they were read around a deletion; a task that   *)
(* was overtaken by no deletion still aims at its group.                   *)
Placement ==
  /\ \A d \in Devices \ known : stored[d] = 0
  /\ \A d \in known \ adrift : Points(stored[d], meant[d], groups)

TaskAims ==
  /\ task.kind \in {"none", "move", "discover", "force"}
  /\ task.kind = "none" => task = NoTask
  /\ task.kind = "force" => task.phase = "steps"
  /\ task.kind \in {"move", "discover"} /\ ~task.stale =>
       Points(task.target, task.goal, groups)

MemberInv ==
  /\ Placement /\ TaskAims
  /\ ~disk.torn => Named(disk.records, disk.groups)

(* A group at the end of the list moves no other.                          *)
LEMMA PointsStill ==
  ASSUME NEW gs, GroupsOK(gs), NEW g \in GroupSet \ ToSet(gs)
  PROVE  /\ \A i \in Bytes : \A h :
              Points(i, h, gs) => Points(i, h, Append(gs, g))
         /\ \A r : RecordsOK(r) /\ Named(r, gs) => Named(r, Append(gs, g))
<1>1. /\ Len(Append(gs, g)) = Len(gs) + 1 /\ Len(gs) \in Nat
      /\ \A i \in 1..Len(gs) : Append(gs, g)[i] = gs[i]
  BY AppendedGroup, LenProperties DEF GroupsOK
<1>2. ASSUME NEW i \in Bytes, NEW h, Points(i, h, gs)
      PROVE  Points(i, h, Append(gs, g))
  <2>1. i < Len(gs) /\ gs[i + 1] = h /\ i \in Nat
    BY <1>2 DEF Points, Bytes
  <2>2. i + 1 \in 1..Len(gs) /\ i < Len(gs) + 1
    BY <1>1, <2>1
  <2>. QED
    BY <1>1, <2>1, <2>2 DEF Points
<1>3. ASSUME NEW r, RecordsOK(r), Named(r, gs) PROVE Named(r, Append(gs, g))
  <2>1. \A d \in DOMAIN r.stored : r.stored[d] \in Bytes
    BY <1>3 DEF RecordsOK
  <2>. QED
    BY <1>2, <1>3, <2>1 DEF Named
<1>. QED
  BY <1>2, <1>3

(* Index finds the group, and the first of the list is the static one.     *)
LEMMA PointsAt ==
  ASSUME NEW gs, GroupsOK(gs)
  PROVE  /\ \A g \in ToSet(gs) : Points(Index(g, gs), g, gs)
         /\ Points(0, Home, gs)
<1>1. Len(gs) \in Nat \ {0} /\ DOMAIN gs = 1..Len(gs) /\ gs[1] = Home
  BY LenProperties, EmptySeq DEF GroupsOK
<1>2. ASSUME NEW g \in ToSet(gs) PROVE Points(Index(g, gs), g, gs)
  <2>1. PICK j \in 1..Len(gs) : gs[j] = g
    BY <1>1 DEF ToSet
  <2>2. j - 1 \in 0..(Len(gs) - 1) /\ (j - 1) + 1 = j
    BY <1>1
  <2>3. \E i \in 0..(Len(gs) - 1) : gs[i + 1] = g
    BY <2>1, <2>2
  <2>4. Index(g, gs) \in 0..(Len(gs) - 1) /\ gs[Index(g, gs) + 1] = g
    BY <2>3 DEF Index
  <2>. QED
    BY <1>1, <2>4 DEF Points
<1>3. Points(0, Home, gs)
  BY <1>1 DEF Points
<1>. QED
  BY <1>2, <1>3

(* Deleting the group at index i and shifting the records keeps each of    *)
(* them at its group, those of the deleted group at the static one.        *)
LEMMA PointsShifted ==
  ASSUME NEW gs, GroupsOK(gs), NEW i \in 1..(Len(gs) - 1), NEW k \in Bytes,
         NEW h, Points(k, h, gs)
  PROVE  Points(Shifted(k, i), IF h = gs[i + 1] THEN Home ELSE h,
                RemoveAt(gs, i + 1))
<1>. DEFINE rs == RemoveAt(gs, i + 1)
<1>1. /\ Len(gs) \in Nat /\ DOMAIN gs = 1..Len(gs) /\ Distinct(gs)
      /\ gs[1] = Home /\ i \in Nat /\ i + 1 \in 2..Len(gs) /\ k \in Nat
  BY LenProperties DEF GroupsOK, Bytes
<1>2. /\ Len(rs) = Len(gs) - 1
      /\ \A j \in 1..(Len(gs) - 1) : rs[j] = IF j < i + 1 THEN gs[j]
                                             ELSE gs[j + 1]
  BY <1>1, RemovedGroup
<1>3. k < Len(gs) /\ gs[k + 1] = h /\ k + 1 \in DOMAIN gs /\ i + 1 \in DOMAIN gs
  BY <1>1 DEF Points
<1>4. h = gs[i + 1] <=> k = i
  BY <1>1, <1>3 DEF Distinct
<1>. HIDE DEF rs
<1>5. CASE k = i
  <2>1. rs[1] = Home /\ 0 < Len(rs)
    BY <1>1, <1>2
  <2>. QED
    BY <1>4, <1>5, <2>1 DEF Points, Shifted, rs
<1>6. CASE k < i
  <2>1. rs[k + 1] = gs[k + 1] /\ k < Len(rs)
    BY <1>1, <1>2, <1>6
  <2>. QED
    BY <1>1, <1>3, <1>4, <1>6, <2>1 DEF Points, Shifted, rs
<1>7. CASE k > i
  <2>0. k \in 1..(Len(gs) - 1) /\ ~(k < i + 1) /\ (k - 1) + 1 = k
    BY <1>1, <1>3, <1>7
  <2>1. rs[k] = gs[k + 1] /\ k - 1 < Len(rs)
    BY <1>1, <1>2, <1>3, <2>0
  <2>. QED
    BY <1>1, <1>3, <1>4, <1>7, <2>0, <2>1 DEF Points, Shifted, rs
<1>. QED
  BY <1>1, <1>5, <1>6, <1>7

LEMMA SnapshotNamed ==
  ASSUME Placement
  PROVE  Named(Snapshot, groups)
BY DEF Placement, Named, Snapshot, Saved

LEMMA SavedNamed ==
  ASSUME NEW f, NEW m, NEW a, NEW gs,
         \A d \in known \ a : Points(f[d], m[d], gs)
  PROVE  Named(Saved(f, m, a), gs)
BY DEF Named, Saved

LEMMA MemberStep ==
  ASSUME Shapes, ListsInv, TypesInv, SavesInv, MemberInv, [Next]_vars
  PROVE  MemberInv'
<1>0. /\ GroupsOK(groups) /\ GroupsOK(disk.groups)
      /\ known \subseteq Devices /\ DOMAIN task = DOMAIN NoTask
      /\ stored \in [Devices -> Bytes] /\ node \in [Devices -> Bytes]
      /\ meant \in [Devices -> Names] /\ 0 \in Bytes
      /\ task.target \in Bytes /\ RecordsOK(disk.records)
  BY DEF Shapes, ListsInv, TypesInv, Bytes
<1>1. Points(0, Home, groups)
  BY <1>0, PointsAt
<1>2. /\ \A d \in Devices \ known : stored[d] = 0
      /\ \A d \in known \ adrift : Points(stored[d], meant[d], groups)
  BY DEF MemberInv, Placement
<1>. DEFINE DiskNamed == ~disk.torn => Named(disk.records, disk.groups)
            Still     == UNCHANGED <<groups, known, stored, meant, adrift>>
<1>3. Still => Placement'
  BY DEF MemberInv, Placement
<1>4. /\ UNCHANGED <<task, groups>> => TaskAims'
      /\ task' = NoTask => TaskAims'
  BY DEF MemberInv, TaskAims, NoTask
<1>5. UNCHANGED disk => DiskNamed'
  BY DEF MemberInv
<1>6. Placement' /\ TaskAims' /\ DiskNamed' => MemberInv'
  BY DEF MemberInv
<1>7. ASSUME NEW g \in UserGroups, CreateGroup(g) PROVE MemberInv'
  <2>1. /\ UNCHANGED <<known, stored, meant, adrift, task>>
        /\ groups' = Append(groups, g) /\ g \in GroupSet \ ToSet(groups)
        /\ UNCHANGED disk
    BY <1>7 DEF CreateGroup, GroupSet
  <2>2. /\ \A i \in Bytes : \A h : Points(i, h, groups) => Points(i, h, groups')
        /\ \A r : RecordsOK(r) /\ Named(r, groups) => Named(r, groups')
    BY <1>0, <2>1, PointsStill
  <2>3. Placement'
    <3>1. \A d \in known : stored[d] \in Bytes
      BY <1>0
    <3>. QED
      BY <1>2, <2>1, <2>2, <3>1 DEF Placement
  <2>4. TaskAims'
    BY <1>0, <2>1, <2>2 DEF MemberInv, TaskAims
  <2>. QED
    BY <1>5, <1>6, <2>1, <2>3, <2>4
<1>8. ASSUME NEW g \in UserGroups \cup {Home}, StartDiscover(g)
      PROVE  MemberInv'
  <2>1. /\ UNCHANGED <<known, stored, meant, adrift, disk>>
        /\ groups' = IF g \in ToSet(groups) THEN groups ELSE Append(groups, g)
        /\ g \in GroupSet
        /\ task' = [NoTask EXCEPT !.kind = "discover", !.goal = g,
                      !.target = Index(g, groups'), !.phase = "window"]
    BY <1>8 DEF StartDiscover, Begin, GroupSet
  <2>2. GroupsOK(groups') /\ g \in ToSet(groups')
    BY <1>0, <2>1, AppendedGroup
  <2>3. TaskAims'
    <3>1. Points(Index(g, groups'), g, groups')
      BY <2>2, PointsAt
    <3>. QED
      BY <2>1, <3>1 DEF TaskAims, NoTask
  <2>4. \A i \in Bytes : \A h : Points(i, h, groups) => Points(i, h, groups')
    BY <1>0, <2>1, PointsStill
  <2>5. Placement'
    <3>1. \A d \in known : stored[d] \in Bytes
      BY <1>0
    <3>. QED
      BY <1>2, <2>1, <2>4, <3>1 DEF Placement
  <2>. QED
    BY <1>5, <1>6, <2>1, <2>3, <2>5
<1>9. ASSUME NEW i \in Ids, DeleteGroup(i) PROVE MemberInv'
  <2>1. /\ UNCHANGED known /\ i \in 1..(Len(groups) - 1)
        /\ groups' = RemoveAt(groups, i + 1)
        /\ stored' = [d \in Devices |-> Shifted(stored[d], i)]
        /\ meant' = [d \in Devices |-> IF meant[d] = groups[i + 1] THEN Home
                                       ELSE meant[d]]
        /\ adrift' = adrift \ {d \in adrift : /\ stored[d] = i
                                              /\ meant[d] = groups[i + 1]}
        /\ UNCHANGED disk
        /\ task' = IF task.kind = "none" THEN task
                   ELSE [task EXCEPT !.stale = TRUE]
    BY <1>9 DEF DeleteGroup
  <2>2. \A d \in known \ adrift' : Points(stored'[d], meant'[d], groups')
    <3>1. SUFFICES ASSUME NEW d \in known \ adrift'
                   PROVE  Points(stored'[d], meant'[d], groups')
      OBVIOUS
    <3>2. d \in Devices /\ stored[d] \in Bytes
      BY <1>0, <3>1
    <3>3. /\ stored'[d] = Shifted(stored[d], i)
          /\ meant'[d] = IF meant[d] = groups[i + 1] THEN Home ELSE meant[d]
      BY <2>1, <3>2
    <3>4. CASE d \notin adrift
      <4>1. Points(stored[d], meant[d], groups)
        BY <1>2, <3>1, <3>4
      <4>. QED
        BY <1>0, <2>1, <3>2, <3>3, <4>1, PointsShifted
    <3>5. CASE d \in adrift
      <4>1. stored[d] = i /\ meant[d] = groups[i + 1]
        BY <2>1, <3>1, <3>5
      <4>2. stored'[d] = 0 /\ meant'[d] = Home
        BY <3>3, <4>1 DEF Shifted
      <4>3. i + 1 \in 2..Len(groups)
        BY <1>0, <2>1, LenProperties DEF GroupsOK
      <4>4. GroupsOK(groups')
        BY <1>0, <2>1, <4>3, RemovedGroup
      <4>. QED
        BY <4>2, <4>4, PointsAt
    <3>. QED
      BY <3>4, <3>5
  <2>3. \A d \in Devices \ known : stored'[d] = 0
    <3>1. i # 0 /\ ~(0 > i)
      BY <2>1
    <3>. QED
      BY <1>2, <2>1, <3>1 DEF Shifted
  <2>4. Placement'
    BY <2>1, <2>2, <2>3 DEF Placement
  <2>5. TaskAims'
    <3>1. CASE task.kind = "none"
      BY <2>1, <3>1 DEF MemberInv, TaskAims, NoTask
    <3>2. CASE task.kind # "none"
      <4>1. /\ task'.kind = task.kind /\ task'.stale = TRUE
            /\ task'.phase = task.phase
        BY <1>0, <2>1, <3>2 DEF NoTask
      <4>. QED
        BY <3>2, <4>1 DEF MemberInv, TaskAims
    <3>. QED
      BY <3>1, <3>2
  <2>. QED
    BY <1>5, <1>6, <2>1, <2>4, <2>5
<1>10. ASSUME NEW i \in Ids, NEW ds \in SUBSET known \ {{}}, StartMove(ds, i)
       PROVE  MemberInv'
  <2>1. /\ Still /\ UNCHANGED disk /\ i < Len(groups)
        /\ task' = [NoTask EXCEPT !.kind = "move", !.todo = ds,
                      !.target = i, !.goal = groups[i + 1]]
    BY <1>10 DEF StartMove, Begin, fleet, history
  <2>2. TaskAims'
    BY <2>1 DEF TaskAims, NoTask, Points
  <2>. QED
    BY <1>3, <1>5, <1>6, <2>1, <2>2
<1>11. ASSUME NEW skip \in BOOLEAN, StartForce(skip) PROVE MemberInv'
  <2>1. /\ Still /\ UNCHANGED disk
        /\ task' = [NoTask EXCEPT !.kind = "force", !.todo = known,
                      !.total = Len(groups), !.skip = skip]
    BY <1>11 DEF StartForce, Begin, fleet, history
  <2>2. TaskAims'
    BY <2>1 DEF TaskAims, NoTask
  <2>. QED
    BY <1>3, <1>5, <1>6, <2>1, <2>2
<1>12. ASSUME NEW i \in Ids \cup {255}, NEW ds \in SUBSET known,
              Status(i, ds)
       PROVE  MemberInv'
  <2>1. Still /\ UNCHANGED disk /\ task' = NoTask
    BY <1>12 DEF Status, Begin, history
  <2>. QED
    BY <1>3, <1>4, <1>5, <1>6, <2>1
<1>13. CASE Reload \/ Restart
  <2>1. Load /\ UNCHANGED disk /\ task' = NoTask
    BY <1>13 DEF Reload, Restart
  <2>2. PICK devices \in SUBSET Devices :
          /\ disk.records.stored \in [devices -> Bytes]
          /\ disk.records.meant \in [devices -> Names]
    BY <1>0 DEF RecordsOK
  <2>3. DOMAIN disk.records.stored = devices
    BY <2>2
  <2>4. /\ known' = devices /\ groups' = LoadGroups(disk.groups)
        /\ stored' = [d \in Devices |->
             IF d \in devices THEN disk.records.stored[d] ELSE 0]
        /\ meant' = [d \in Devices |->
             IF d \in devices THEN disk.records.meant[d] ELSE Home]
        /\ adrift' = IF disk.torn \/ groups' # disk.groups THEN devices
                     ELSE disk.records.adrift
    BY <2>1, <2>3 DEF Load
  <2>5. ASSUME NEW d \in known' \ adrift'
        PROVE  Points(stored'[d], meant'[d], groups')
    <3>1. ~disk.torn /\ groups' = disk.groups /\ d \in devices
          /\ d \notin disk.records.adrift
      BY <2>4, <2>5
    <3>2. Points(disk.records.stored[d], disk.records.meant[d], disk.groups)
      BY <2>3, <3>1 DEF MemberInv, Named
    <3>. QED
      BY <2>4, <3>1, <3>2
  <2>6. \A d \in Devices \ known' : stored'[d] = 0
    BY <2>4
  <2>7. Placement'
    BY <2>5, <2>6 DEF Placement
  <2>. QED
    BY <1>4, <1>5, <1>6, <2>1, <2>7
<1>14. ASSUME NEW r \in Routes, SaveNow(r) PROVE MemberInv'
  <2>1. Still /\ UNCHANGED <<disk, task>>
    BY <1>14 DEF SaveNow, fleet, history
  <2>. QED
    BY <1>3, <1>4, <1>5, <1>6, <2>1
<1>15. CASE CloseWindow
  <2>1. /\ Still /\ UNCHANGED disk
        /\ task.kind = "discover" /\ task.phase = "window"
        /\ task' = [task EXCEPT !.phase = "steps",
                                !.todo = IF task.target = 0 THEN {} ELSE @]
    BY <1>15 DEF CloseWindow, fleet, history
  <2>2. /\ task'.kind = "discover" /\ task'.phase = "steps"
        /\ task'.stale = task.stale
        /\ task'.target = task.target /\ task'.goal = task.goal
    BY <1>0, <2>1 DEF NoTask
  <2>3. TaskAims'
    BY <2>1, <2>2 DEF MemberInv, TaskAims
  <2>. QED
    BY <1>3, <1>5, <1>6, <2>1, <2>3
<1>16. CASE EndSteps
  <2>1. /\ Still /\ UNCHANGED disk
        /\ \/ task' = NoTask
           \/ task.kind = "move" /\ task' = [task EXCEPT !.phase = "saving"]
    BY <1>16 DEF EndSteps, fleet, history
  <2>2. ASSUME task.kind = "move", task' = [task EXCEPT !.phase = "saving"]
        PROVE  TaskAims'
    <3>1. /\ task'.kind = "move" /\ task'.stale = task.stale
          /\ task'.target = task.target /\ task'.goal = task.goal
      BY <1>0, <2>2 DEF NoTask
    <3>. QED
      BY <2>1, <2>2, <3>1 DEF MemberInv, TaskAims
  <2>. QED
    BY <1>3, <1>4, <1>5, <1>6, <2>1, <2>2
<1>17. ASSUME NEW s \in Savers, SaveStep(s) PROVE MemberInv'
  <2>1. CASE ReadGroups(s)
    <3>1. Still /\ UNCHANGED <<disk, task>>
      BY <2>1 DEF ReadGroups, fleet, history
    <3>. QED
      BY <1>3, <1>4, <1>5, <1>6, <3>1
  <2>2. CASE Write(s)
    <3>1. /\ Still /\ saves[s].phase = "write"
          /\ task' = NoTask \/ task' = task
          /\ \/ disk' = [records |-> saves[s].records,
                         groups |-> saves[s].groups, torn |-> saves[s].torn]
             \/ UNCHANGED disk
      BY <2>2 DEF Write, Save, fleet
    <3>2. ~saves[s].torn => Named(saves[s].records, saves[s].groups)
      BY <3>1 DEF SavesInv, SaveOK
    <3>3. DiskNamed'
      BY <1>5, <3>1, <3>2
    <3>. QED
      BY <1>3, <1>4, <1>6, <3>1, <3>3
  <2>. QED
    BY <1>17, <2>1, <2>2 DEF SaveStep
<1>18. ASSUME NEW d \in Devices, Step(d) PROVE MemberInv'
  <2>1. /\ UNCHANGED <<groups, known, disk>>
        /\ task' = [task EXCEPT !.todo = @ \ {d}]
        /\ task.phase = "steps" /\ d \in task.todo
    BY <1>18 DEF Step
  <2>2. /\ task'.kind = task.kind /\ task'.phase = task.phase
        /\ task'.stale = task.stale
        /\ task'.target = task.target /\ task'.goal = task.goal
    BY <1>0, <2>1 DEF NoTask
  <2>3. task.kind \in {"move", "discover", "force"}
    BY <2>1 DEF MemberInv, TaskAims, NoTask
  <2>4. TaskAims'
    BY <2>1, <2>2, <2>3 DEF MemberInv, TaskAims
  <2>5. Placement'
    <3>1. CASE d \notin known
      BY <1>3, <1>18, <3>1 DEF Step
    <3>2. CASE d \in known /\ task.kind = "force"
      <4>1. \/ UNCHANGED <<stored, meant, adrift>>
            \/ /\ stored' = [stored EXCEPT ![d] = 0]
               /\ meant' = [meant EXCEPT ![d] = Home]
               /\ adrift' = adrift \ {d}
        BY <1>18, <3>2 DEF Step, Clamped
      <4>. QED
        BY <1>0, <1>1, <1>2, <1>3, <2>1, <3>2, <4>1 DEF Placement
    <3>3. CASE d \in known /\ task.kind # "force"
      <4>1. Placed(d)
        BY <1>18, <3>3 DEF Step
      <4>2. ASSUME ~task.stale
            PROVE  /\ Points(task.target, task.goal, groups)
                   /\ task.goal \notin gone
        <5>1. Points(task.target, task.goal, groups)
          BY <2>1, <2>3, <3>3, <4>2 DEF MemberInv, TaskAims
        <5>2. task.target + 1 \in 1..Len(groups)
          <6>1. task.target \in Nat /\ task.target < Len(groups)
            <7>1. \A t \in 0..255 : t \in Nat
              OBVIOUS
            <7>. QED
              BY Zenon, <1>0, <5>1, <7>1 DEF Points, Bytes
          <6>2. Len(groups) \in Nat
            BY <1>0, LenProperties DEF GroupsOK
          <6>. QED
            BY <6>1, <6>2
        <5>3. task.goal \in ToSet(groups)
          BY <1>0, <5>1, <5>2, LenProperties DEF Points, ToSet, GroupsOK
        <5>. QED
          BY <5>1, <5>3 DEF ListsInv
      <4>3. /\ stored' = [stored EXCEPT ![d] = task.target]
            /\ meant' = [meant EXCEPT ![d] = IF task.goal \in gone THEN Home
                                             ELSE task.goal]
            /\ adrift' = IF task.stale THEN adrift \cup {d} ELSE adrift \ {d}
        BY <4>1 DEF Placed
      <4>4. \A x \in Devices \ {d} :
              stored'[x] = stored[x] /\ meant'[x] = meant[x]
        BY <1>0, <4>3
      <4>5. ~task.stale => Points(stored'[d], meant'[d], groups)
        BY <1>0, <4>2, <4>3
      <4>6. \A x \in known \ adrift' : Points(stored'[x], meant'[x], groups)
        BY <1>0, <1>2, <4>3, <4>4, <4>5
      <4>7. \A x \in Devices \ known : stored'[x] = 0
        BY <1>2, <3>3, <4>4
      <4>. QED
        BY <2>1, <4>6, <4>7 DEF Placement
    <3>. QED
      BY <3>1, <3>2, <3>3
  <2>. QED
    BY <1>5, <1>6, <2>1, <2>4, <2>5
<1>19. ASSUME NEW d \in Devices, Identify(d) PROVE MemberInv'
  <2>1. /\ UNCHANGED <<groups, disk>> /\ known' = known \cup {d}
        /\ task' = IF task.phase = "window" THEN [task EXCEPT !.todo = @ \cup {d}]
                   ELSE task
    BY <1>19 DEF Identify
  <2>2. TaskAims'
    <3>1. CASE task.phase # "window"
      BY <1>4, <2>1, <3>1
    <3>2. CASE task.phase = "window"
      <4>1. /\ task'.kind = task.kind /\ task'.phase = task.phase
            /\ task'.stale = task.stale
            /\ task'.target = task.target /\ task'.goal = task.goal
        BY <1>0, <2>1, <3>2 DEF NoTask
      <4>2. task.kind # "none"
        BY <3>2 DEF MemberInv, TaskAims, NoTask
      <4>. QED
        BY <2>1, <4>1, <4>2 DEF MemberInv, TaskAims
    <3>. QED
      BY <3>1, <3>2
  <2>. DEFINE restore == d \in known /\ node[d] = 0 /\ task.kind # "discover"
              valid   == Adopted(d) < Len(groups)
  <2>3. /\ stored' = [stored EXCEPT ![d] =
                        IF restore /\ ~valid THEN 0 ELSE Adopted(d)]
        /\ meant' = [meant EXCEPT ![d] =
                       IF d \notin known THEN NameOf(node[d], groups)
                       ELSE IF restore /\ ~valid THEN Home ELSE meant[d]]
        /\ adrift' = IF stored'[d] = stored[d] /\ d \in known THEN adrift
                     ELSE IF restore \/ (d \notin known /\ valid)
                          THEN adrift \ {d} ELSE adrift \cup {d}
    BY <1>0, <1>19 DEF Identify
  <2>4. \A x \in Devices \ {d} :
          stored'[x] = stored[x] /\ meant'[x] = meant[x]
    BY <1>0, <2>3
  <2>5. d \notin adrift' => Points(stored'[d], meant'[d], groups)
    <3>1. SUFFICES ASSUME d \notin adrift'
                   PROVE  Points(stored'[d], meant'[d], groups)
      OBVIOUS
    <3>2. /\ stored'[d] = IF restore /\ ~valid THEN 0 ELSE Adopted(d)
          /\ meant'[d] = IF d \notin known THEN NameOf(node[d], groups)
                         ELSE IF restore /\ ~valid THEN Home ELSE meant[d]
      BY <1>0, <2>3
    <3>3. CASE d \notin known
      <4>1. stored'[d] = node[d] /\ meant'[d] = NameOf(node[d], groups)
            /\ Adopted(d) = node[d]
        BY <1>2, <3>2, <3>3 DEF Adopted
      <4>2. node[d] < Len(groups)
        BY <2>3, <3>1, <3>3, <4>1
      <4>. QED
        BY <4>1, <4>2 DEF Points, NameOf
    <3>4. CASE d \in known /\ restore /\ ~valid
      BY <1>1, <3>2, <3>4
    <3>5. CASE d \in known /\ ~(restore /\ ~valid)
      <4>1. stored'[d] = Adopted(d) /\ meant'[d] = meant[d]
        BY <3>2, <3>5
      <4>2. CASE stored'[d] = stored[d]
        <5>1. d \in known \ adrift
          BY <2>3, <3>1, <3>5, <4>2
        <5>. QED
          BY <1>2, <4>1, <4>2, <5>1
      <4>3. CASE stored'[d] # stored[d]
        <5>1. ~restore
          BY <4>1, <4>3 DEF Adopted
        <5>. QED
          BY <2>3, <3>1, <3>5, <4>3, <5>1
      <4>. QED
        BY <4>2, <4>3
    <3>. QED
      BY <3>3, <3>4, <3>5
  <2>6. \A x \in known' \ adrift' : Points(stored'[x], meant'[x], groups)
    <3>1. \A x \in known \ {d} : x \in Devices \ {d}
                                 /\ (x \notin adrift' => x \notin adrift)
      BY <1>0, <2>3
    <3>. QED
      BY <1>2, <2>1, <2>4, <2>5, <3>1
  <2>7. \A x \in Devices \ known' : stored'[x] = 0
    BY <1>2, <2>1, <2>4
  <2>8. Placement'
    BY <2>1, <2>6, <2>7 DEF Placement
  <2>. QED
    BY <1>5, <1>6, <2>1, <2>2, <2>8
<1>20. CASE \/ \E d \in Devices : \/ Reboot(d)
                                  \/ \E status \in {"ok", "refused"} :
                                       Ack(d, status)
            \/ \E p \in Pushers : Push(p)
            \/ UNCHANGED vars
  <2>1. Still /\ UNCHANGED <<disk, task>>
    BY <1>20
       DEF Reboot, Ack, Push, Capture, Send, Timeout, vars, fleet, history
  <2>. QED
    BY <1>3, <1>4, <1>5, <1>6, <2>1
<1>. QED
  BY <1>7, <1>8, <1>9, <1>10, <1>11, <1>12, <1>13, <1>14, <1>15, <1>16,
     <1>17, <1>18, <1>19, <1>20
     DEF Next, Operator, TaskStep, Node

-----------------------------------------------------------------------------
(* The calls: none is sent more often than it may be, and those that wait  *)
(* for an ACK are those in the list of them.                               *)
CallOK(call) ==
  /\ call.tries \in 0..Attempts
  /\ call.phase = "queued" => call.tries = 0
  /\ call.phase = "ready" => call.tries < Attempts

Waiting == {p \in Pushers : pushes[p].phase = "waiting"}

CallsInv ==
  /\ \A p \in Pushers : CallOK(pushes[p])
  /\ waits \in Seq(Pushers) /\ ToSet(waits) = Waiting

LEMMA NewCalls ==
  CallOK(NoPush) /\ \A d : CallOK(Queued(d))
BY FleetAssumption DEF CallOK, NoPush, Queued

LEMMA CallsStep ==
  ASSUME Shapes, CallsInv, [Next]_vars
  PROVE  CallsInv'
<1>1. /\ DOMAIN pushes = Pushers /\ "task" \in Pushers
      /\ Workers \subseteq Pushers
      /\ \A p \in Pushers :
           DOMAIN pushes[p] = {"dev", "phase", "group", "tries", "own"}
  BY DEF Shapes, PushShapes, NoPush, Pushers
<1>2. /\ \A p \in Pushers : CallOK(pushes[p])
      /\ waits \in Seq(Pushers) /\ ToSet(waits) = Waiting
  BY DEF CallsInv
<1>3. Attempts \in Nat /\ 0 < Attempts
  BY FleetAssumption
\* A call that begins in the place of one that does not wait.
<1>4. ASSUME NEW p \in Pushers, NEW d, pushes[p].phase # "waiting",
             pushes' = [pushes EXCEPT ![p] = Queued(d)], UNCHANGED waits
      PROVE  CallsInv'
  <2>1. Waiting' = Waiting
    BY <1>1, <1>4 DEF Waiting, Queued, NoPush
  <2>2. \A q \in Pushers : CallOK(pushes'[q])
    BY <1>1, <1>2, <1>4, NewCalls
  <2>. QED
    BY <1>2, <1>4, <2>1, <2>2 DEF CallsInv
\* A call that stops waiting, to be sent again or to return.
<1>5. ASSUME NEW p \in Pushers, NEW call, CallOK(call),
             call.phase # "waiting", pushes[p].phase = "waiting",
             pushes' = [pushes EXCEPT ![p] = call],
             waits' = Without(waits, {p})
      PROVE  CallsInv'
  <2>1. Waiting' = Waiting \ {p}
    BY <1>1, <1>5 DEF Waiting
  <2>2. waits' \in Seq(Pushers) /\ ToSet(waits') = ToSet(waits) \ {p}
    BY <1>2, <1>5, WithoutIs
  <2>3. \A q \in Pushers : CallOK(pushes'[q])
    BY <1>1, <1>2, <1>5
  <2>. QED
    BY <1>2, <2>1, <2>2, <2>3 DEF CallsInv
<1>6. ASSUME NEW p \in Pushers, Capture(p) PROVE CallsInv'
  <2>1. /\ pushes' = [pushes EXCEPT ![p].phase = "ready",
                                    ![p].group = stored[pushes[p].dev]]
        /\ pushes[p].phase = "queued" /\ UNCHANGED waits
    BY <1>6 DEF Capture
  <2>2. /\ pushes'[p].tries = pushes[p].tries /\ pushes'[p].phase = "ready"
        /\ \A q \in Pushers \ {p} : pushes'[q] = pushes[q]
    BY <1>1, <2>1
  <2>3. CallOK(pushes'[p])
    BY <1>2, <1>3, <2>1, <2>2 DEF CallOK
  <2>4. Waiting' = Waiting
    BY <2>1, <2>2 DEF Waiting
  <2>. QED
    BY <1>2, <2>1, <2>2, <2>3, <2>4 DEF CallsInv
<1>7. ASSUME NEW p \in Pushers, Send(p) PROVE CallsInv'
  <2>1. /\ pushes' = [pushes EXCEPT ![p].phase = "waiting",
                                    ![p].tries = @ + 1]
        /\ pushes[p].phase = "ready" /\ waits' = Append(waits, p)
    BY <1>7 DEF Send
  <2>2. /\ pushes'[p].tries = pushes[p].tries + 1
        /\ pushes'[p].phase = "waiting"
        /\ \A q \in Pushers \ {p} : pushes'[q] = pushes[q]
    BY <1>1, <2>1
  <2>3. CallOK(pushes'[p])
    BY <1>2, <1>3, <2>1, <2>2 DEF CallOK
  <2>4. Waiting' = Waiting \cup {p}
    BY <2>1, <2>2 DEF Waiting
  <2>5. waits' \in Seq(Pushers) /\ ToSet(waits') = ToSet(waits) \cup {p}
    BY <1>2, <2>1, AppendedSet
  <2>. QED
    BY <1>2, <2>2, <2>3, <2>4, <2>5 DEF CallsInv
<1>8. ASSUME NEW p \in Pushers, Timeout(p) PROVE CallsInv'
  <2>1. pushes[p].phase = "waiting" /\ waits' = Without(waits, {p})
    BY <1>8 DEF Timeout, Return
  <2>2. CASE pushes[p].tries < Attempts
    <3>. DEFINE call == [pushes[p] EXCEPT !.phase = "ready"]
    <3>1. pushes' = [pushes EXCEPT ![p] = call]
      BY <1>1, <1>8, <2>2 DEF Timeout
    <3>2. call.phase = "ready" /\ call.tries = pushes[p].tries
      BY <1>1
    <3>3. CallOK(call)
      BY <1>2, <2>2, <3>2 DEF CallOK
    <3>. QED
      BY <1>5, <2>1, <3>1, <3>2, <3>3
  <2>3. CASE ~(pushes[p].tries < Attempts)
    <3>1. pushes' = [pushes EXCEPT ![p] = NoPush]
      BY <1>8, <2>3 DEF Timeout, Return
    <3>. QED
      BY <1>5, <2>1, <3>1, NewCalls DEF NoPush
  <2>. QED
    BY <2>2, <2>3
<1>9. ASSUME NEW d \in Devices, NEW status \in {"ok", "refused"},
             Ack(d, status)
      PROVE  CallsInv'
  <2>1. CASE UNCHANGED <<pushes, waits>>
    BY <2>1 DEF CallsInv, Waiting
  <2>2. ASSUME NEW p \in WaitingFor(d), NEW link, Return(p, link)
        PROVE  CallsInv'
    <3>1. p \in Pushers /\ pushes[p].phase = "waiting"
      BY <2>2 DEF WaitingFor
    <3>2. /\ pushes' = [pushes EXCEPT ![p] = NoPush]
          /\ waits' = Without(waits, {p})
      BY <2>2 DEF Return
    <3>. QED
      BY <1>5, <3>1, <3>2, NewCalls DEF NoPush
  <2>. QED
    BY <1>9, <2>1, <2>2 DEF Ack
<1>10. ASSUME NEW d \in Devices, Step(d) PROVE CallsInv'
  <2>1. /\ UNCHANGED waits /\ pushes["task"].phase = "idle"
        /\ pushes' = pushes \/ pushes' = [pushes EXCEPT !["task"] = Queued(d)]
    BY <1>10 DEF Step, Busy
  <2>2. CASE UNCHANGED pushes
    BY <2>1, <2>2 DEF CallsInv, Waiting
  <2>. QED
    BY <1>1, <1>4, <2>1, <2>2
<1>11. ASSUME NEW d \in Devices, Identify(d) PROVE CallsInv'
  <2>1. /\ UNCHANGED waits
        /\ \/ pushes' = pushes
           \/ \E w \in Workers : /\ pushes[w].phase = "idle"
                                 /\ pushes' = [pushes EXCEPT ![w] = Queued(d)]
    BY <1>11 DEF Identify, Busy
  <2>2. CASE UNCHANGED pushes
    BY <2>1, <2>2 DEF CallsInv, Waiting
  <2>. QED
    BY <1>1, <1>4, <2>1, <2>2
<1>12. CASE Reload
  <2>1. /\ UNCHANGED waits
        /\ pushes' = [p \in Pushers |->
             IF pushes[p].phase = "queued"
             THEN [pushes[p] EXCEPT !.phase = "ready", !.own = FALSE,
                                    !.group = stored[pushes[p].dev]]
             ELSE [pushes[p] EXCEPT !.own = ~Busy(p)]]
    BY <1>12 DEF Reload
  <2>2. ASSUME NEW p \in Pushers
        PROVE  /\ pushes'[p].tries = pushes[p].tries
               /\ pushes'[p].phase = IF pushes[p].phase = "queued"
                                     THEN "ready" ELSE pushes[p].phase
    BY <1>1, <2>1, <2>2
  <2>3. \A p \in Pushers : CallOK(pushes'[p])
    BY <1>2, <1>3, <2>2 DEF CallOK
  <2>4. Waiting' = Waiting
    BY <2>2 DEF Waiting
  <2>. QED
    BY <1>2, <2>1, <2>3, <2>4 DEF CallsInv
<1>13. CASE Restart
  <2>1. pushes' = [p \in Pushers |-> NoPush] /\ waits' = <<>>
    BY <1>13 DEF Restart
  <2>2. Waiting' = {} /\ \A p \in Pushers : CallOK(pushes'[p])
    BY <2>1, NewCalls DEF Waiting, NoPush
  <2>3. waits' \in Seq(Pushers) /\ ToSet(waits') = {}
    BY <2>1 DEF ToSet
  <2>. QED
    BY <2>2, <2>3 DEF CallsInv
<1>14. CASE UNCHANGED sending
  BY <1>14 DEF sending, CallsInv, Waiting
<1>15. CASE \/ \E g \in UserGroups : CreateGroup(g)
            \/ \E g \in UserGroups \cup {Home} : StartDiscover(g)
            \/ \E i \in Ids : \/ DeleteGroup(i)
                              \/ \E ds \in SUBSET known \ {{}} :
                                   StartMove(ds, i)
            \/ \E skip \in BOOLEAN : StartForce(skip)
            \/ \E i \in Ids \cup {255} : \E ds \in SUBSET known : Status(i, ds)
            \/ \E r \in Routes : SaveNow(r)
  BY <1>14, <1>15
     DEF CreateGroup, StartDiscover, DeleteGroup, StartMove, StartForce,
     Status, SaveNow
<1>16. CASE \/ CloseWindow \/ EndSteps \/ UNCHANGED vars
            \/ \E d \in Devices : Reboot(d)
            \/ \E s \in Savers : SaveStep(s)
  BY <1>14, <1>16
     DEF CloseWindow, EndSteps, SaveStep, ReadGroups, Write, Reboot, vars
<1>. QED
  BY <1>6, <1>7, <1>8, <1>9, <1>10, <1>11, <1>12, <1>13, <1>15, <1>16
     DEF Next, Operator, TaskStep, Push, Node

-----------------------------------------------------------------------------
(* What the calls of save_to_db have read stays right: a group that is     *)
(* added moves no other, and a deletion marks those it comes between.      *)
LEMMA SaveOKStep ==
  ASSUME Shapes, ListsInv, ListsInv', TypesInv, TypesInv', MemberInv,
         MemberInv', NEW s \in Savers, SaveOK(saves[s]), SaveMoves(s)
  PROVE  SaveOK(saves[s])'
<1>0. /\ GroupsOK(groups) /\ GroupsOK(groups')
      /\ known \subseteq Devices /\ DOMAIN saves[s] = DOMAIN NoSave
      /\ RecordsOK(saves[s].records)
  BY DEF Shapes, SaveShapes, ListsInv, TypesInv, SaveOK
<1>1. CASE saves'[s] = NoSave
  <2>1. /\ NoSave.records.stored \in [{} -> Bytes]
        /\ NoSave.records.meant \in [{} -> Names] /\ {} \in SUBSET Devices
    BY DEF NoSave
  <2>2. RecordsOK(NoSave.records)
    BY Zenon, <2>1 DEF RecordsOK
  <2>. QED
    BY <1>1, <2>2 DEF SaveOK, NoSave
<1>2. CASE Begins(s)
  <2>1. RecordsOK(Snapshot) /\ Named(Snapshot, groups)
    BY <1>0, RecordsSaved, SnapshotNamed DEF Snapshot, TypesInv, MemberInv
  <2>2. /\ saves'[s].records = Snapshot /\ saves'[s].phase = "groups"
        /\ groups' = groups
    BY <1>2 DEF Begins, Saving, NoSave
  <2>. QED
    BY <2>1, <2>2 DEF SaveOK
<1>3. CASE Lists(s)
  <2>. DEFINE records == Saved(stored', meant', adrift')
  <2>1. /\ saves'[s].records = records /\ saves'[s].phase = "write"
        /\ saves'[s].groups = groups' /\ known' = known
    BY <1>3 DEF Lists, Dumped, Saving, NoSave
  <2>2. /\ stored' \in [Devices -> Bytes] /\ meant' \in [Devices -> Names]
        /\ \A d \in known' \ adrift' : Points(stored'[d], meant'[d], groups')
    BY DEF TypesInv, MemberInv, Placement
  <2>3. RecordsOK(records) /\ Named(records, groups')
    BY <1>0, <2>1, <2>2, RecordsSaved, SavedNamed
  <2>. QED
    BY <1>0, <2>1, <2>3 DEF SaveOK
<1>4. CASE Reads(s)
  <2>1. /\ saves'[s].phase = "write" /\ saves'[s].groups = groups
        /\ saves'[s].records = saves[s].records
        /\ saves'[s].torn = saves[s].torn /\ saves[s].phase = "groups"
    BY <1>0, <1>4 DEF Reads, NoSave
  <2>. QED
    BY <1>0, <2>1 DEF SaveOK
<1>5. CASE GoesOn(s)
  <2>1. /\ saves'[s].phase = saves[s].phase
        /\ saves'[s].groups = saves[s].groups
        /\ saves'[s].records = saves[s].records
        /\ ~saves'[s].torn =>
             /\ ~saves[s].torn
             /\ saves[s].phase = "groups" => groups' = groups \/ Lengthened
    BY <1>5 DEF GoesOn
  <2>2. ASSUME saves[s].phase = "groups", ~saves'[s].torn
        PROVE  Named(saves[s].records, groups')
    <3>1. Named(saves[s].records, groups)
      BY <2>1, <2>2 DEF SaveOK
    <3>2. CASE Lengthened
      <4>1. PICK g \in GroupSet \ ToSet(groups) : groups' = Append(groups, g)
        BY <3>2 DEF Lengthened, GroupSet
      <4>. QED
        BY <1>0, <3>1, <4>1, PointsStill
    <3>. QED
      BY <2>1, <2>2, <3>1, <3>2
  <2>. QED
    BY <1>0, <2>1, <2>2 DEF SaveOK
<1>. QED
  BY <1>1, <1>2, <1>3, <1>4, <1>5 DEF SaveMoves

FleetInv ==
  Shapes /\ ListsInv /\ TypesInv /\ MemberInv /\ CallsInv /\ SavesInv

LEMMA FleetInvInit == Init => FleetInv
<1>. SUFFICES ASSUME Init PROVE FleetInv
  OBVIOUS
<1>1. /\ groups = <<Home>> /\ known = {} /\ adrift = {} /\ gone = {}
      /\ stored = [d \in Devices |-> 0] /\ node = [d \in Devices |-> 0]
      /\ meant = [d \in Devices |-> Home]
      /\ online = [d \in Devices |-> FALSE] /\ task = NoTask
      /\ pushes = [p \in Pushers |-> NoPush] /\ waits = <<>>
      /\ disk.records = Snapshot /\ disk.groups = groups
      /\ saves = [s \in Savers |-> NoSave]
  BY DEF Init
<1>2. GroupsOK(groups)
  <2>1. groups \in Seq(GroupSet) /\ Len(groups) = 1 /\ DOMAIN groups = 1..1
    BY <1>1 DEF GroupSet
  <2>. QED
    BY <1>1, <2>1 DEF GroupsOK, Distinct
<1>3. Placement
  BY <1>1 DEF Placement
<1>4. RecordsOK(Snapshot) /\ 0 \in Bytes /\ Home \in GroupSet /\ Home \in Names
  <2>1. 0 \in Bytes /\ Home \in GroupSet /\ Home \in Names
    BY DEF Bytes, GroupSet, Names
  <2>2. /\ known \subseteq Devices /\ stored \in [Devices -> Bytes]
        /\ meant \in [Devices -> Names]
    BY <1>1, <2>1
  <2>. QED
    BY <2>1, <2>2, RecordsSaved DEF Snapshot
<1>5. Shapes
  BY ShapesInit
<1>6. ListsInv
  BY <1>1, <1>2 DEF ListsInv
<1>7. TypesInv
  BY <1>1, <1>4 DEF TypesInv, NoTask, NoPush
<1>8. MemberInv
  BY <1>1, <1>3, SnapshotNamed DEF MemberInv, TaskAims, NoTask
<1>9. CallsInv
  <2>1. Waiting = {} /\ ToSet(waits) = {} /\ waits \in Seq(Pushers)
    BY <1>1 DEF Waiting, NoPush, ToSet
  <2>. QED
    BY <1>1, <2>1, NewCalls DEF CallsInv
<1>10. SavesInv
  <2>1. /\ NoSave.records.stored \in [{} -> Bytes]
        /\ NoSave.records.meant \in [{} -> Names] /\ {} \in SUBSET Devices
    BY DEF NoSave
  <2>2. RecordsOK(NoSave.records)
    BY Zenon, <2>1 DEF RecordsOK
  <2>. QED
    BY <1>1, <2>2 DEF SavesInv, SaveOK, NoSave
<1>. QED
  BY <1>5, <1>6, <1>7, <1>8, <1>9, <1>10 DEF FleetInv

LEMMA FleetInvAlways == Spec => []FleetInv
<1>1. FleetInv /\ [Next]_vars => FleetInv'
  <2>. SUFFICES ASSUME FleetInv, [Next]_vars PROVE FleetInv'
    OBVIOUS
  <2>1. Shapes' /\ ListsInv' /\ TypesInv' /\ MemberInv' /\ CallsInv'
    BY ShapesStep, ListsStep, TypesStep, MemberStep, CallsStep DEF FleetInv
  <2>2. \A s \in Savers : SaveMoves(s)
    BY SavesStep DEF FleetInv
  <2>3. SavesInv'
    BY <2>1, <2>2, SaveOKStep DEF FleetInv, SavesInv
  <2>. QED
    BY <2>1, <2>3 DEF FleetInv
<1>. QED
  BY FleetInvInit, <1>1, PTL DEF Spec

(* Types, and what the calls and the lists rest on: the static group stays *)
(* in front of a list without repetitions, every record holds a byte, no   *)
(* SET_GROUP is sent more than Attempts times (setNodeGroupId), and the    *)
(* calls that wait for an ACK are those an ACK is matched with.            *)
THEOREM TypeCorrect == Spec => []TypeOK
<1>1. FleetInv => TypeOK
  <2>. SUFFICES ASSUME FleetInv PROVE TypeOK
    OBVIOUS
  <2>1. /\ groups[1] = Home /\ Cardinality(ToSet(groups)) = Len(groups)
        /\ ToSet(groups) \subseteq UserGroups \cup {Home}
    BY GroupCount DEF FleetInv, ListsInv, GroupsOK, GroupSet
  <2>2. /\ known \subseteq Devices /\ online \in [Devices -> BOOLEAN]
        /\ stored \in [Devices -> 0..255] /\ node \in [Devices -> 0..255]
        /\ meant \in [Devices -> UserGroups \cup {Home, Nobody}]
    <3>1. Names = UserGroups \cup {Home, Nobody}
      BY DEF Names, GroupSet
    <3>. QED
      BY <3>1 DEF FleetInv, TypesInv, Bytes
  <2>3. /\ \A p \in Pushers : pushes[p].tries \in 0..Attempts
        /\ ToSet(waits) = {p \in Pushers : pushes[p].phase = "waiting"}
    BY DEF FleetInv, CallsInv, CallOK, Waiting
  <2>. QED
    BY <2>1, <2>2, <2>3 DEF TypeOK
<1>. QED
  BY FleetInvAlways, <1>1, PTL

(* After any moves, deletions, discoveries, restores, reloads and          *)
(* restarts, in any order and for any number of devices and groups, the id *)
(* a record holds names the group the operator last put the device in      *)
(* (api_groups_delete shifts the records as it shifts the list), but for   *)
(* the devices the property excepts.                                       *)
THEOREM MembershipHolds == Spec => []CleanMembership
<1>1. FleetInv => CleanMembership
  BY DEF FleetInv, MemberInv, Placement, Points, CleanMembership, NameOf
<1>. QED
  BY FleetInvAlways, <1>1, PTL
=============================================================================
