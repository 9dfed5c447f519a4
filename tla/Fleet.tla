------------------------------- MODULE Fleet -------------------------------
(***************************************************************************)
(* Which group each device is in, kept in four places: the host's record   *)
(* of the device (an index into the list of groups), the node's own copy,  *)
(* the saved state, and the operator's mind.                               *)
(*                                                                         *)
(* The routes and the tasks of the browser change the records under the    *)
(* state lock and tell the nodes by SET_GROUP after they released it.  A   *)
(* SET_GROUP is captured, sent up to Attempts times and acknowledged over  *)
(* a radio that loses packets; a node that restarts reports group 0 and    *)
(* is restored by a worker of its own.  The records are saved whole, after *)
(* some changes only, and a restart or a reload takes the saved ones.  A   *)
(* save takes no lock: it reads the devices, then the groups, then writes, *)
(* and others change what it has read, or save it, in between.             *)
(*                                                                         *)
(* Groups are identities here, ids are positions.  The history variables   *)
(* say what the operator meant, so that a record which names another group *)
(* than it was meant to can be told.                                       *)
(***************************************************************************)
EXTENDS Naturals, Sequences, FiniteSets, SequencesExt, Selection

CONSTANTS
  Devices,
  Home,        \* "All WLED Nodes", the static group at index 0
  UserGroups,  \* groups the operator may create
  Reserved,    \* those of them named as load_from_db drops groups
  Workers,     \* threads of the executor of the automatic restore
  Routes,      \* threads of the web server that save without the lock
  Foreign,     \* groups a node may be given by another gateway
  Attempts,    \* attempts of one SET_GROUP
  MaxTasks,    \* bound: tasks started, reloads and saves of Routes
  MaxDeletes,  \* bound: groups deleted
  MaxFaults    \* bound: packets lost or late, refusals, failed saves, restarts

(* An id is the byte SET_GROUP carries and never 255, which means all: the *)
(* lists of groups considered are no longer than that allows.              *)
ASSUME FleetAssumption ==
  /\ Home \notin UserGroups /\ Reserved \subseteq UserGroups
  /\ IsFiniteSet(UserGroups) /\ Cardinality(UserGroups) <= 254
  /\ Foreign \subseteq 0..255
  /\ Routes \cap {"task", "edit"} = {}
  /\ Attempts \in Nat \ {0}
  /\ MaxTasks \in Nat /\ MaxDeletes \in Nat /\ MaxFaults \in Nat

VARIABLES
  groups,   \* GroupRepository
  known,    \* devices in DeviceRepository
  stored,   \* groupId of their records
  online,   \* link_online of their records
  task,     \* the task of the task manager
  pushes,   \* calls of setNodeGroupId: the task's, and one of each worker
  waits,    \* those waiting for an ACK, oldest first
  recent,   \* devices restored before, maybe within the cooldown
  saves,    \* calls of save_to_db, each with what it has read
  disk,     \* rl_state_v1
  node,     \* the group each node holds
  acks      \* ACKs in the air, by device

VARIABLES   \* history and bounds
  faults, tasks, gone,
  meant,    \* the group the operator wants each device in
  adrift,   \* devices whose record may name another group
  synced,   \* devices whose node was told what the record says
  tangled,  \* devices one SET_GROUP of which met another, or its late ACK
  unsaved   \* the records may have changed since those saved were read

fleet   == <<groups, known, stored, online>>
sending == <<pushes, waits, acks>>
bounds  == <<faults, tasks, gone>>
history == <<meant, adrift, synced, tangled, unsaved>>
vars    == <<fleet, task, sending, recent, saves, disk, node, bounds,
             history>>

Nobody  == "nobody"
Pushers == {"task"} \cup Workers

(* The task that ends a move, the route that holds the state lock, and the *)
(* routes that save without it.                                            *)
Savers  == {"task", "edit"} \cup Routes

NoTask  == [kind |-> "none", todo |-> {}, target |-> 0, goal |-> Home,
            total |-> 0, skip |-> FALSE, stale |-> FALSE, phase |-> "steps"]
NoSave  == [phase |-> "idle", groups |-> <<>>, old |-> FALSE, torn |-> FALSE,
            records |-> [stored |-> [d \in {} |-> 0],
                         meant |-> [d \in {} |-> Home], adrift |-> {}]]
NoPush  == [dev |-> Nobody, phase |-> "idle", group |-> 0, tries |-> 0,
            own |-> TRUE]

NameOf(i, gs) == IF i < Len(gs) THEN gs[i + 1] ELSE Nobody
Index(g, gs)  == CHOOSE i \in 0..(Len(gs) - 1) : gs[i + 1] = g

Fault == faults < MaxFaults /\ faults' = faults + 1
Busy(p) == pushes[p].phase # "idle"
PushesTo(d) == {p \in Pushers : Busy(p) /\ pushes[p].dev = d}

-----------------------------------------------------------------------------
(* Saving and loading.                                                     *)
Saved(devices, word, lost) ==
  [stored |-> [d \in known |-> devices[d]],
   meant  |-> [d \in known |-> word[d]], adrift |-> lost]

Snapshot == Saved(stored, meant, adrift)

(* What load_from_db makes of the saved groups.                            *)
LoadGroups(gs) ==
  LET kept == Without(gs, Reserved) IN
  IF Home \in ToSet(kept) THEN kept ELSE Append(kept, Home)

(* rl_lock, from a change of the list of groups until it is saved.         *)
Locked == saves["edit"].phase # "idle"

(* A change makes old what a call has read; cut: the list of groups lost   *)
(* an entry, and does not go with the devices read before.                 *)
Overtaken(cut) ==
  [s \in Savers |->
    [saves[s] EXCEPT
      !.old  = \/ @
               \/ /\ saves[s].phase \in {"groups", "write"}
                  /\ <<known', stored'>> # <<known, stored>>
               \/ saves[s].phase = "write" /\ groups' # groups,
      !.torn = @ \/ (cut /\ saves[s].phase = "groups")]]

(* A call that has read the devices, and one that has read the groups too. *)
Saving(records) == [NoSave EXCEPT !.phase = "groups", !.records = records]
Dumped(records, gs) ==
  [Saving(records) EXCEPT !.phase = "write", !.groups = gs]

ReadGroups(s) ==
  /\ saves[s].phase = "groups"
  /\ saves' = [saves EXCEPT ![s].phase = "write", ![s].groups = groups]
  /\ UNCHANGED <<fleet, task, sending, recent, disk, node, bounds, history>>

(* Mutant: the groups are left to the key they had before P1-5.            *)
SaveDevices(s) ==
  /\ disk' = [disk EXCEPT !.records = saves[s].records,
                          !.torn = saves[s].torn]
  /\ unsaved' = saves[s].old
  /\ UNCHANGED faults

(* What was read is written, whatever was saved meanwhile.  The write may  *)
(* fail; every caller goes on.                                             *)
Save(s) ==
  \/ /\ disk' = [records |-> saves[s].records, groups |-> saves[s].groups,
                 torn |-> saves[s].torn]
     /\ unsaved' = saves[s].old
     /\ UNCHANGED faults
  \/ /\ Fault
     /\ unsaved' = TRUE
     /\ UNCHANGED disk

(* The end of save_to_db, and of the task that called it.                  *)
Write(s) ==
  /\ saves[s].phase = "write" /\ Save(s)
  /\ saves' = [saves EXCEPT ![s] = NoSave]
  /\ task' = IF s = "task" THEN NoTask ELSE task
  /\ UNCHANGED <<fleet, sending, recent, node, tasks, gone,
                 meant, adrift, synced, tangled>>

(* A save by itself reads the devices: that of api_save, which has seen no *)
(* task run some time before, that of a renamed device, which does not     *)
(* look, or before a restart that of shutdown().                           *)
SaveNow(r) ==
  /\ saves[r].phase = "idle"
  /\ tasks < MaxTasks /\ tasks' = tasks + 1
  /\ saves' = [saves EXCEPT ![r] = Saving(Snapshot)]
  /\ UNCHANGED <<fleet, task, sending, recent, disk, node, faults, gone,
                 history>>

(* load_from_db: new records, none of them online; a worker goes on with   *)
(* the record it was given.                                                *)
Load ==
  LET was     == disk.records
      devices == DOMAIN was.stored
  IN
  /\ groups' = LoadGroups(disk.groups)
  /\ known' = devices
  /\ stored' = [d \in Devices |-> IF d \in devices THEN was.stored[d] ELSE 0]
  /\ online' = [d \in Devices |-> FALSE]
  /\ meant' = [d \in Devices |-> IF d \in devices THEN was.meant[d] ELSE Home]
  /\ adrift' = IF disk.torn \/ groups' # disk.groups THEN devices
               ELSE was.adrift
  /\ synced' = {}
  /\ gone' = gone \ ToSet(groups')
  /\ unsaved' = (groups' # disk.groups)

Reload ==
  /\ task = NoTask
  /\ tasks < MaxTasks /\ tasks' = tasks + 1
  /\ Load
  /\ pushes' = [p \in Pushers |->
       IF pushes[p].phase = "queued"
       THEN [pushes[p] EXCEPT !.phase = "ready", !.own = FALSE,
                              !.group = stored[pushes[p].dev]]
       ELSE [pushes[p] EXCEPT !.own = ~Busy(p)]]
  /\ UNCHANGED <<task, waits, acks, recent, disk, node, faults,
                 tangled>>
  /\ saves' = Overtaken(TRUE)

(* The process stops, a save that is not written with it, and starts from  *)
(* what was saved.                                                         *)
Restart ==
  /\ Fault
  /\ Load
  /\ task' = NoTask /\ saves' = [s \in Savers |-> NoSave]
  /\ pushes' = [p \in Pushers |-> NoPush] /\ waits' = <<>>
  /\ recent' = {}
  /\ tangled' = {d \in Devices : acks[d] # {}}
  /\ UNCHANGED <<acks, disk, node, tasks>>

-----------------------------------------------------------------------------
(* The routes.  Those that change the list of groups save it before they   *)
(* release the lock.                                                       *)
CreateGroup(g) ==
  /\ ~Locked
  /\ g \in UserGroups \ (ToSet(groups) \cup gone)
  /\ groups' = Append(groups, g)
  /\ unsaved' = TRUE
  /\ UNCHANGED <<known, stored, online, task, sending, recent, disk, node,
                 bounds, meant, adrift, synced, tangled>>
  /\ saves' = [Overtaken(FALSE) EXCEPT !["edit"] = Dumped(Snapshot, groups')]

(* Mutant: the devices of later groups are left where they were.           *)
ShiftedAtOrAbove(i, gid) == IF i = gid THEN 0 ELSE i

Shifted(i, gid) == IF i = gid THEN 0 ELSE IF i > gid THEN i - 1 ELSE i

(* api_groups_delete; it does not look at the task that is running.        *)
DeleteGroup(gid) ==
  /\ ~Locked /\ Cardinality(gone) < MaxDeletes
  /\ gid \in 1..(Len(groups) - 1)
  /\ LET g == groups[gid + 1] IN
     /\ groups' = RemoveAt(groups, gid + 1)
     /\ stored' = [d \in Devices |-> Shifted(stored[d], gid)]
     /\ gone' = gone \cup {g}
     /\ meant' = [d \in Devices |-> IF meant[d] = g THEN Home ELSE meant[d]]
     /\ adrift' = adrift \ {d \in adrift : stored[d] = gid /\ meant[d] = g}
     /\ synced' = {d \in synced : stored'[d] = stored[d]}
     /\ unsaved' = TRUE
     /\ task' = IF task.kind = "none" THEN task
                ELSE [task EXCEPT !.stale = TRUE]
  /\ UNCHANGED <<known, online, sending, recent, disk, node, faults, tasks,
                 tangled>>
  /\ saves' = [Overtaken(TRUE) EXCEPT
                 !["edit"] = Dumped(Saved(stored', meant', adrift'), groups')]

Begin(t) ==
  /\ task = NoTask /\ tasks < MaxTasks
  /\ task' = t /\ tasks' = tasks + 1

(* api_devices_update_meta: the target is an index from here on.           *)
StartMove(macs, target) ==
  /\ macs \subseteq known /\ target < Len(groups)
  /\ Begin([NoTask EXCEPT !.kind = "move", !.todo = macs,
              !.target = target, !.goal = groups[target + 1]])
  /\ UNCHANGED <<fleet, sending, recent, saves, disk, node, faults, gone,
                 history>>

(* api_groups_force.                                                       *)
StartForce(skip) ==
  /\ ~Locked
  /\ Begin([NoTask EXCEPT !.kind = "force", !.todo = known,
              !.total = Len(groups), !.skip = skip])
  /\ UNCHANGED <<fleet, sending, recent, saves, disk, node, faults, gone,
                 history>>

(* api_discover; a group created for it is not saved.                      *)
StartDiscover(g) ==
  /\ ~Locked
  /\ g \in ToSet(groups) \cup (UserGroups \ gone)
  /\ groups' = IF g \in ToSet(groups) THEN groups ELSE Append(groups, g)
  /\ unsaved' = (unsaved \/ groups' # groups)
  /\ Begin([NoTask EXCEPT !.kind = "discover", !.goal = g,
              !.target = Index(g, groups'), !.phase = "window"])
  /\ UNCHANGED <<known, stored, online, sending, recent, disk, node, faults,
                 gone, meant, adrift, synced, tangled>>
  /\ saves' = Overtaken(FALSE)

(* The window is over; with target 0 nobody is assigned.                   *)
CloseWindow ==
  /\ task.kind = "discover" /\ task.phase = "window"
  /\ task' = [task EXCEPT !.phase = "steps",
                          !.todo = IF task.target = 0 THEN {} ELSE @]
  /\ UNCHANGED <<fleet, sending, recent, saves, disk, node, bounds, history>>

(* api_status: get_status at the end of its window.  The nodes of a group  *)
(* answer by what they hold, the devices of the group are expected to.     *)
Status(gid, answered) ==
  LET all == gid = 255 IN
  /\ Begin(NoTask)
  /\ answered \subseteq {d \in known : all \/ node[d] = gid}
  /\ online' = [d \in Devices |->
       d \in answered \/ (online[d] /\ ~all /\ stored[d] # gid)]
  /\ UNCHANGED <<groups, known, stored, sending, recent, saves, disk, node,
                 faults, gone, history>>

Queued(d) == [NoPush EXCEPT !.dev = d, !.phase = "queued"]

(* The operator's word for d, applied at its place in a task.              *)
Placed(d) ==
  /\ stored' = [stored EXCEPT ![d] = task.target]
  /\ meant' = [meant EXCEPT ![d] = IF task.goal \in gone THEN Home
                                   ELSE task.goal]
  /\ adrift' = IF task.stale THEN adrift \cup {d} ELSE adrift \ {d}
  /\ unsaved' = TRUE
  /\ synced' = synced \ {d}

(* The sanity check of _iterate_force_groups and of the restore.           *)
Clamped(d, total) ==
  IF stored[d] < total THEN
    UNCHANGED <<stored, meant, adrift, unsaved>>
  ELSE
    /\ stored' = [stored EXCEPT ![d] = 0]
    /\ meant' = [meant EXCEPT ![d] = Home]
    /\ adrift' = adrift \ {d}
    /\ unsaved' = TRUE

(* One device of a task: its record, under the lock but for a discovery,   *)
(* then its SET_GROUP, unless the device was offline already.              *)
Step(d) ==
  /\ task.phase = "steps" /\ ~Busy("task") /\ d \in task.todo
  /\ ~Locked \/ task.kind = "discover"
  /\ task' = [task EXCEPT !.todo = @ \ {d}]
  /\ IF d \notin known THEN
       UNCHANGED <<stored, meant, adrift, synced, unsaved, pushes>>
     ELSE
       /\ IF task.kind = "force"
          THEN /\ Clamped(d, task.total)
               /\ synced' = synced \ {x \in {d} : stored'[x] # stored[x]}
          ELSE Placed(d)
       /\ IF /\ ~online[d]
             /\ task.kind = "move" \/ (task.kind = "force" /\ task.skip)
          THEN UNCHANGED pushes
          ELSE pushes' = [pushes EXCEPT !["task"] = Queued(d)]
  /\ UNCHANGED <<groups, known, online, waits, acks, recent, disk, node,
                 bounds, tangled>>
  /\ saves' = Overtaken(FALSE)

(* The steps are done: a move is saved, from the devices on, the others    *)
(* are not.                                                                *)
EndSteps ==
  /\ task.kind # "none" /\ task.phase = "steps"
  /\ ~Busy("task") /\ task.todo = {}
  /\ IF task.kind = "move"
     THEN /\ task' = [task EXCEPT !.phase = "saving"]
          /\ saves' = [saves EXCEPT !["task"] = Saving(Snapshot)]
     ELSE task' = NoTask /\ UNCHANGED saves
  /\ UNCHANGED <<fleet, sending, recent, disk, node, bounds, history>>

-----------------------------------------------------------------------------
(* setNodeGroupId.                                                         *)
Capture(p) ==
  /\ pushes[p].phase = "queued"
  /\ LET d == pushes[p].dev IN
     /\ pushes' = [pushes EXCEPT ![p].phase = "ready", ![p].group = stored[d]]
     /\ synced' = synced \ {d}
     /\ tangled' = IF PushesTo(d) # {p} \/ acks[d] # {} THEN tangled \cup {d}
                   ELSE tangled \ {d}
  /\ UNCHANGED <<fleet, task, waits, acks, recent, saves, disk, node, bounds,
                 meant, adrift, unsaved>>

(* One attempt: the node hears it or not, and its ACK is lost or not.      *)
Send(p) ==
  /\ pushes[p].phase = "ready"
  /\ pushes' = [pushes EXCEPT ![p].phase = "waiting", ![p].tries = @ + 1]
  /\ waits' = Append(waits, p)
  /\ LET d == pushes[p].dev IN
     \/ /\ node' = [node EXCEPT ![d] = pushes[p].group]
        /\ acks' = [acks EXCEPT ![d] = @ \cup {"ok"}] /\ UNCHANGED faults
     \/ /\ Fault
        /\ node' \in {node, [node EXCEPT ![d] = pushes[p].group]}
        /\ UNCHANGED acks
     \/ /\ Fault
        /\ acks' = [acks EXCEPT ![d] = @ \cup {"refused"}] /\ UNCHANGED node
  /\ UNCHANGED <<fleet, task, recent, saves, disk, tasks, gone, history>>

(* The call returns: a worker marks the device offline when it failed.     *)
Return(p, link) ==
  /\ pushes' = [pushes EXCEPT ![p] = NoPush]
  /\ waits' = Without(waits, {p})
  /\ online' = [online EXCEPT ![pushes[p].dev] = link]

(* Mutant: any ACK counts.                                                 *)
AcceptedAlways(status) == TRUE

(* What setNodeGroupId returns for the ACK it got.                         *)
Accepted(status) == status = "ok"

WaitingFor(d) ==
  {p \in Pushers : pushes[p].phase = "waiting" /\ pushes[p].dev = d}

Since(p) == CHOOSE i \in DOMAIN waits : waits[i] = p

(* An ACK of d arrives: it is matched by sender and opcode alone, with the *)
(* call that waits the longest.                                            *)
Ack(d, status) ==
  /\ ~Locked
  /\ status \in acks[d]
  /\ acks' = [acks EXCEPT ![d] = @ \ {status}]
  /\ \/ /\ WaitingFor(d) = {}
        /\ online' = [online EXCEPT ![d] = d \in known]
        /\ UNCHANGED <<pushes, waits, synced>>
     \/ \E p \in WaitingFor(d) :
          /\ \A q \in WaitingFor(d) : Since(p) <= Since(q)
          /\ Return(p, /\ d \in known
                       /\ p = "task" \/ Accepted(status) \/ ~pushes[p].own)
          /\ synced' = IF /\ Accepted(status) /\ pushes[p].own
                          /\ pushes[p].group = stored[d]
                       THEN synced \cup {d} ELSE synced
  /\ UNCHANGED <<groups, known, stored, task, recent, saves, disk, node,
                 bounds, meant, adrift, tangled, unsaved>>

(* A call that gives up although an ACK is in the air counts as a fault.   *)
Late(d) == IF acks[d] = {} THEN UNCHANGED faults ELSE Fault

(* Mutant: an attempt too many.                                            *)
TimeoutOneMore(p) ==
  /\ pushes[p].phase = "waiting"
  /\ Late(pushes[p].dev)
  /\ LET d == pushes[p].dev IN
     IF pushes[p].tries <= Attempts THEN
       /\ pushes' = [pushes EXCEPT ![p].phase = "ready"]
       /\ waits' = Without(waits, {p})
       /\ UNCHANGED online
     ELSE Return(p, IF pushes[p].own THEN FALSE ELSE online[d])
  /\ UNCHANGED <<groups, known, stored, task, acks, recent, saves, disk, node,
                 tasks, gone, history>>

(* No ACK in time: another attempt, with the group captured, or the end.   *)
Timeout(p) ==
  /\ pushes[p].phase = "waiting"
  /\ Late(pushes[p].dev)
  /\ LET d == pushes[p].dev IN
     IF pushes[p].tries < Attempts THEN
       /\ pushes' = [pushes EXCEPT ![p].phase = "ready"]
       /\ waits' = Without(waits, {p})
       /\ UNCHANGED online
     ELSE Return(p, IF pushes[p].own THEN FALSE ELSE online[d])
  /\ UNCHANGED <<groups, known, stored, task, acks, recent, saves, disk, node,
                 tasks, gone, history>>

-----------------------------------------------------------------------------
(* A node starts again in group 0, or was given another by another host.   *)
Reboot(d) ==
  /\ Fault
  /\ \E g \in Foreign \cup {0} : node' = [node EXCEPT ![d] = g]
  /\ synced' = synced \ {d}
  /\ tangled' = IF PushesTo(d) # {} THEN tangled \cup {d} ELSE tangled
  /\ UNCHANGED <<fleet, task, sending, recent, saves, disk, tasks, gone,
                 meant, adrift, unsaved>>

(* update_from_identify: a record of group 0 takes the node's word.        *)
Adopted(d) == IF stored[d] = 0 THEN node[d] ELSE stored[d]

(* IDENTIFY_REPLY of d, in a discovery or of its own after a restart:      *)
(* the record is made or updated, and a node that lost its group restored. *)
Identify(d) ==
  /\ ~Locked
  /\ known' = known \cup {d}
  /\ LET told    == [stored EXCEPT ![d] = Adopted(d)]
         restore == d \in known /\ node[d] = 0 /\ task.kind # "discover"
         valid   == told[d] < Len(groups)
         free    == {w \in Workers : ~Busy(w)}
     IN
     /\ stored' = IF restore /\ ~valid THEN [told EXCEPT ![d] = 0] ELSE told
     /\ unsaved' = (unsaved \/ stored' # stored \/ d \notin known)
     /\ meant' = [meant EXCEPT ![d] =
                    IF d \notin known THEN NameOf(node[d], groups)
                    ELSE IF restore /\ ~valid THEN Home ELSE @]
     /\ adrift' = IF stored'[d] = stored[d] /\ d \in known THEN adrift
                  ELSE IF restore \/ (d \notin known /\ valid) THEN adrift \ {d}
                  ELSE adrift \cup {d}
     /\ \/ /\ restore /\ stored'[d] # 0
           /\ recent' = recent \cup {d}
           /\ \E w \in free : pushes' = [pushes EXCEPT ![w] = Queued(d)]
        \/ /\ restore /\ stored'[d] # 0 => d \in recent
           /\ UNCHANGED <<recent, pushes>>
  /\ online' = [online EXCEPT ![d] = TRUE]
  /\ task' = IF task.phase = "window" THEN [task EXCEPT !.todo = @ \cup {d}]
             ELSE task
  /\ synced' = IF stored'[d] # stored[d] THEN synced \ {d} ELSE synced
  /\ UNCHANGED <<groups, waits, acks, disk, node, bounds, tangled>>
  /\ saves' = Overtaken(FALSE)

-----------------------------------------------------------------------------
Init ==
  /\ groups = <<Home>> /\ known = {}
  /\ stored = [d \in Devices |-> 0]
  /\ online = [d \in Devices |-> FALSE]
  /\ task = NoTask
  /\ pushes = [p \in Pushers |-> NoPush] /\ waits = <<>>
  /\ recent = {}
  /\ node = [d \in Devices |-> 0]
  /\ acks = [d \in Devices |-> {}]
  /\ faults = 0 /\ tasks = 0 /\ gone = {}
  /\ meant = [d \in Devices |-> Home]
  /\ adrift = {} /\ synced = {} /\ tangled = {}
  /\ unsaved = FALSE /\ saves = [s \in Savers |-> NoSave]
  /\ disk = [records |-> Snapshot, groups |-> groups, torn |-> FALSE]

Ids == 0..Cardinality(UserGroups)

Operator ==
  \/ \E g \in UserGroups : CreateGroup(g)
  \/ \E g \in UserGroups \cup {Home} : StartDiscover(g)
  \/ \E i \in Ids : \/ DeleteGroup(i)
                    \/ \E ds \in SUBSET known \ {{}} : StartMove(ds, i)
  \/ \E skip \in BOOLEAN : StartForce(skip)
  \/ \E i \in Ids \cup {255} : \E ds \in SUBSET known : Status(i, ds)
  \/ \E r \in Routes : SaveNow(r)
  \/ Reload

TaskStep == CloseWindow \/ EndSteps \/ \E d \in Devices : Step(d)

SaveStep(s) == ReadGroups(s) \/ Write(s)

Push(p) == Capture(p) \/ Send(p) \/ Timeout(p)

Node(d) ==
  \/ Reboot(d) \/ Identify(d)
  \/ \E status \in {"ok", "refused"} : Ack(d, status)

Next ==
  \/ Operator \/ TaskStep \/ Restart
  \/ \E s \in Savers : SaveStep(s)
  \/ \E p \in Pushers : Push(p)
  \/ \E d \in Devices : Node(d)

Spec == Init /\ [][Next]_vars

-----------------------------------------------------------------------------
(* Types; the list of groups has no entry twice and keeps the static one   *)
(* in front; a SET_GROUP is sent Attempts times at most.                   *)
TypeOK ==
  /\ groups[1] = Home /\ Cardinality(ToSet(groups)) = Len(groups)
  /\ ToSet(groups) \subseteq UserGroups \cup {Home}
  /\ known \subseteq Devices /\ online \in [Devices -> BOOLEAN]
  /\ stored \in [Devices -> 0..255] /\ node \in [Devices -> 0..255]
  /\ meant \in [Devices -> UserGroups \cup {Home, Nobody}]
  /\ \A p \in Pushers : pushes[p].tries \in 0..Attempts
  /\ ToSet(waits) = {p \in Pushers : pushes[p].phase = "waiting"}

(* After any moves, deletions, discoveries, restores and restarts the id   *)
(* a record holds names the group the operator last put the device in, or  *)
(* group 0 for a deleted one (api_groups_delete shifts every record).      *)
(* Excepted are devices placed by a task older than a deletion, those that *)
(* brought a group of their own, and all of them when a reload dropped a   *)
(* group or found what was read around a deletion.                         *)
CleanMembership ==
  \A d \in known \ adrift : NameOf(stored[d], groups) = meant[d]

(* A device whose last SET_GROUP was acknowledged holds the group of its   *)
(* record (setNodeGroupId captures the group, and retries what it          *)
(* captured), unless two of them met.                                      *)
CleanNodes == \A d \in synced \ tangled : node[d] = stored[d]

(* What a restart would read is what the host knows (save_to_db writes     *)
(* devices and groups under one key), after any saves that overlap.        *)
(* Excepted, as unsaved, are what is not saved by design, a save that      *)
(* failed, one that is not written yet, and one overtaken: save_to_db      *)
(* holds no lock, so the devices may change after it read them and the     *)
(* groups after it read those, and what it then writes is older than       *)
(* memory, and than what another call may have saved meanwhile.            *)
CleanDisk ==
  ~unsaved => /\ disk.groups = groups
              /\ disk.records.stored = Snapshot.stored

(* Devices and groups are written "atomically" (save_to_db): as they were  *)
(* at one moment.  They are not: no lock is held while they are read.      *)
SavedAtOnce == ~disk.torn

(* A device that was put in group 0, by the deletion of its group too, is  *)
(* brought in line by the restore when it is heard of, with nothing left   *)
(* to do for the operator (api_groups_delete): its record stays at 0.      *)
DeletionReachesNodes ==
  [][\A d \in known : task.kind = "none" /\ stored[d] = 0 /\ meant[d] = Home
       => stored'[d] = 0 \/ d \notin known']_vars
=============================================================================
