# RaceLink Host: TLA+ specification

RaceLink Host is the Python runtime that controls a fleet of LoRa LED nodes
(WLED devices, start blocks) through one USB gateway. This directory holds
TLA+ models of the host, TLC configurations that check them on small
instances, and proofs, checked by TLAPS, of their main safety properties for
every number of threads, devices, groups and slots.

Everything is translated from the Python sources. The gateway firmware, the
nodes, the radio, the USB cable and the operating system are external: they are
modelled from what the host's code sends them and expects of them. So are
NetworkManager and the nodes' HTTP interface, which the OTA workflows use.

    cd tla
    tlc -workers 2 -config GatewaySend.cfg MCGatewaySend
    tlapm GatewaySend_proofs.tla

`PROJECT.json` lists the components, the runs, the source lines each definition
stands for, the hazards, one mutation of the code per property that TLC must
catch, and the theorems.

## 1. The system

| Component | Source | State | Operations | Model |
|---|---|---|---|---|
| Send path | `transport/gateway_serial.py` | `_tx_lock` and its condition, `_pending_send_outcome`, the port, the RX thread | `_send_m2n`, `_handle_frame`, `_fulfill_pending_outcome`, `_handle_disconnect`, `close` | `GatewaySend` |
| Request and reply | `services/pending_requests.py`, `services/gateway_service.py`, `controller.py` | registry of pending requests, `_pending_expect`, online flag of each device | `send_and_wait_for_reply`, `send_and_wait_with_retries`, `try_match`, `pending_try_match`, `pending_window_closed` | `RequestReply` |
| Configuration mirror | `services/gateway_service.py`, `services/config_service.py`, `controller.py` | `_pending_config` per device, the device records | `send_config`, `handle_ack_event` | `RequestReply` |
| Connection life cycle | `controller.py`, `services/gateway_service.py`, `transport/gateway_serial.py` | `transport`, `ready`, `last_gateway_error`, retry timer, reconnect flag and timestamp, listeners | `onStartup`, `discoverPort`, `retry_gateway`, `_schedule_gateway_retry`, `schedule_reconnect`, `shutdown` | `GatewayLink` |
| Device and group state | `state/*`, `domain/models.py`, `controller.py`, `web/api.py` | repositories under one lock, the saved copy | create and delete groups, move devices, force groups, `save_to_db`, `load_from_db`, reload | `Fleet` |
| Automatic group restore | `services/gateway_service.py` | recent restores, executor of 8 workers | `_restore_known_device_group`, `_spawn_auto_reassign_worker` | `Fleet` |
| Discovery and status | `services/discovery_service.py`, `status_service.py`, `gateway_service.py` | online flags, known devices | `discover_devices`, `get_status`, `handle_identify_reply` | `Fleet` |
| Tasks and event stream | `web/tasks.py`, `web/sse.py` | the one task, client queues, master state, transport hook | `start`, `update`, `broadcast`, `on_transport_event`, `api_events` | `TaskFeed` (not the master state and the hook) |
| Scene store | `services/scenes_service.py`, `web/api.py` | `scenes.json`, its cache, the id counter | create, update, delete, duplicate, renumber, load | `SceneActions`, `SceneStore` |
| Dispatch planner, offsets | `services/dispatch_planner.py`, `offset_dispatch_optimizer.py`, `domain/offset_formula.py` | none (pure) | `plan_action_dispatch`, `plan_offset_setup`, `evaluate_offset_ms` | `DispatchPlan` |
| Scene runner, control services | `services/scene_runner_service.py`, `control_service.py`, `sync_service.py`, `startblock_service.py` | results of a run | `run`, `_dispatch`, `send_*` | `SceneRunner` |
| OTA and host Wi-Fi | `services/ota_workflow_service.py`, `ota_service.py`, `host_wifi_service.py` | the node's access point, the host's radio and connection | `run_firmware_update`, `download_presets` | `OtaWorkflow` |
| Frame decoder | `transport/gateway_serial.py`, `transport/framing.py` | byte state machine of `_reader` | `_reader` | planned |
| Collectors, streams | `services/gateway_service.py`, `stream_service.py` | replies of one broadcast, `acked` | `send_and_collect`, `send_stream` | planned; their result is an input of `Fleet` |
| Preset stores | `services/rl_presets_service.py`, `presets_service.py` | keyed records and files | create, update, delete | as the deletion of a preset in `SceneRunner` |
| Web API | `web/api.py`, `blueprint.py`, `request_helpers.py`, `dto.py` | none of its own | some sixty routes | with the state they change |
| Wire protocol | `protocol/*`, `transport/gateway_events.py`, `racelink_proto*.{h,py}` | none | encode, decode, which opcode answers which | as needed |

How they interact. A web request, a task thread, a reconnect thread, the retry
timer or a restore worker calls a service; the service calls the transport,
which writes one frame under `_tx_lock` and waits for the gateway's outcome
event. The transport's RX thread decodes events and calls, in this order, the
waiting sender's slot (`_fulfill_pending_outcome`) and the listeners:
`on_transport_event` of the gateway service (replies, ACKs, state events, loss
of the link) and that of the event stream. A TX listener stamps the expectation
of a unicast request after its outcome is known. The loss of the link reaches
the controller from the RX thread or from a sender, and makes it reconnect on a
thread of its own.

What is hard here is that all these threads share state that is only partly
under locks: a condition variable that releases the lock a comment relies on;
a registry that matches by device and opcode, never by request; one stash and
one expectation that later requests overwrite; `self.transport`, the timer and
the reconnect flag under no lock at all; losses judged by a timestamp. Group ids
are positions in a list: deleting a group renumbers the records, the scenes, a
running task's target and the ids the nodes hold, each in its own way and none
of them in one step. Nothing keeps two scenes from running at once; a node's
offset outlives the scene that set it. An OTA request changes the host's own
Wi-Fi, and must undo it whatever fails.
`PROJECT.json` has the full list of hazards, each at its line.

What makes each component correct:

* Send path: every call returns one outcome, the outcome of its own frame, and
  leaves nothing registered.
* Request and reply: every call returns; a success is the reply to this request;
  the registry holds the requests that wait and no other; the mirror of a
  device is its configuration.
* Connection: one transport, one timer, one reconnect at a time; ready means
  ready; a lost link comes back; shutdown releases all.
* Devices and groups: a record names the group the operator meant, the node
  holds what its record says, a restart would read what the host knows.
* Tasks and events: one task; what the browser shows last is the last state.
* Scene store: references follow the deletion of groups, ids are not reused, the
  cache is the file.
* Runner and planner: every node ends with the offset the formula asks for,
  children reach the participants and no other, the report is what was sent.
* OTA: what is reported as done was done, to the right device; access points are
  closed and the host's Wi-Fi is restored whatever fails; every request ends.
* Collectors: a node counts once, for this broadcast.

## 2. Plan

Done, in this order: `GatewaySend`, `RequestReply`, `GatewayLink`, `TaskFeed` with
their contracts and proofs; `SceneActions` and `SceneStore`; `DispatchPlan` and
`SceneRunner`; `Fleet` and `OtaWorkflow` with their proofs; then the proofs of the
other safety properties of `GatewayLink`, `RequestReply` and `Fleet`, of
`SceneStore`, and of all three of `SceneRunner`. Next:

1. `MasterFeed`: the gateway's state as the browser sees it, with the transport
   hook of the event stream, composed with `GatewayLink`. Abstract
   specification: a browser that has been given everything shows the gateway.
2. `Collector`: `send_and_collect` and `send_stream`, whose outcome is an input of
   `Fleet` so far.
3. The preset stores, which follow the pattern of the scene store.
4. `FrameReader`, and `GatewaySend` composed with `RequestReply`, so that an
   expectation is stamped by the outcome the send path really gives.

## 3. The modules

### GatewaySend, SendContract

Threads in `Senders` go through `_send_m2n`: `Register` (take the lock, put
the slot into `_pending_send_outcome`), `WriteFrame` (write, then `wait_for`,
which **releases the lock**), `Wake` or `TimeOut`, `Return`; or `WriteRaises`
and, outside the lock, `ReportDisconnect`. `HandleFrame` is the RX thread's
dispatch of one outcome event, with the whole of `_fulfill_pending_outcome`;
`ReadRaises` its handling of a lost port. `StateRequestRaises`, `CloseBegin`
and `ClosePort` are the other ways the port goes away.

The gateway is external: it holds one frame, rejects or transmits it, transmits
auto-sync frames of its own, reports errors or stays silent. Time is abstracted:
a waiting call may time out at any moment. `of` in a slot and `mishaps` are
history variables: which frame an event was about, and what has happened so far
that can misdirect an outcome.

`SendContract` is what a caller sees: a call is open, then has exactly one
outcome, which is not revised; one call is answered per step.

### RequestReply, RequestContract

Callers run `send_config` or `setNodeGroupId` down to
`send_and_wait_for_reply`: `Begin` (stash the payload), `Register`,
`Transmit` (with the fate of frame and reply chosen by the radio),
`StampExpect` or `SendFails`, `Wake` or `Expire`, `Cancel`, and either another
attempt or `ReturnReply`/`ReturnFailure`. The RX thread takes one event at a
time through the steps of `on_transport_event` and `try_match` that other
threads can interleave with: find the request, complete it, remove it, update
the device, read the expectation, mark online, sweep, clear.

The fates of a frame and its reply are lost frame, lost reply, refusal, answer;
replies of one device are not reordered, but may come after the caller has
given up. `answered` and `mishaps` are history variables.

`RequestContract` hides registry and RX thread: a call makes up to
`MaxAttempts` attempts, succeeds only when its key has been answered and fails
only after the last attempt.

### GatewayLink

A *slot* is one run of `discoverPort` with what it creates: one transport and at
most one timer. The four origins are `Startup`, `RetryGateway`, `TimerFires`
and the reconnect thread made by `ScheduleReconnect`. Each attempt goes
through the steps between which another thread can act: take and reset
`self.transport`, close the old one and create a new one, open (or fail with
one of the codes of `classify_gateway_error`), start the RX thread, set
`ready`, clear the error, install the listeners; or record the error, cancel
the timer, arm it; and the `finally` of the reconnect thread. `ReaderReports`,
`SenderReports` and `GatewayReports` are the three ways a loss is reported,
`FinishDisconnect` what `_handle_disconnect` does after its listeners have run,
`Shutdown*` the steps of `shutdown()`.

Abstractions: delays and the attempt count that selects them; a fired timer's
handle counts as none, since cancelling it does nothing; a transport nothing
refers to closes its port when it is collected. Reading and resetting
`self.transport` is one step, and so is cancelling a timer: finer steps would
only add overlaps of a kind the model already has.

`overlap`, `ignored`, `unheard` and `wasReady` are history variables. The
properties named `Clean...` hold as long as attempts do not overlap (and, where
said, no loss was ignored or unheard); section 5 says what happens then.

### TaskFeed

Web threads start tasks, a task thread notes its progress and finishes, the RX
thread counts replies into the running task, and browsers come and go. A change
of the task is one step under the manager's lock (`Change`); its broadcast goes
on outside it: `TakeSnapshot` under the lock again, `ListClients` under the
bridge's, then one `Put` per client. `RxSeesTask`, `RxReads` and `RxWrites` are
the three separate locked accesses with which the RX thread counts one reply;
`Connect`, `SeedRead` and `SeedPut` the steps of a new request for the feed.
Queues are FIFO and unbounded, so a client is represented by the event put last.
The counter of RX windows works as the one of replies and is left out.

`crossed`, `handover` and `heard` are history variables: `crossed` becomes true
when the task changes while an older snapshot of it is on its way (then a
browser may be left with a task that is shown as running although it is over);
`handover` when a task starts between the reading and the writing of a count
(then it is given its predecessor's). `CleanFeed` and `CleanCounter` say that
nothing else can go wrong.

### Fleet

Which group a device is in is kept in four places: the host's record (`stored`, a
position in `groups`), the node (`node`), the saved state (`disk`) and the
operator's mind (`meant`). `CreateGroup`, `DeleteGroup`, `StartMove`,
`StartForce`, `StartDiscover`, `Status`, `Reload` are the routes; `Step`,
`CloseWindow` and `EndSteps` the task thread, which changes one record after
another (under the state lock, but for the devices a discovery assigns), sends a
SET_GROUP after each and saves in the end.

`save_to_db` takes no lock. A call of it (`saves`) reads the devices, then the groups
(`ReadGroups`), then writes what it has read (`Write`), and everything else may
happen in between. Three kinds of thread call it: the task at the end of a move;
the routes `CreateGroup` and `DeleteGroup`, one at a time, because they hold `rl_lock`
from their change until the state is written (`Locked`); and `Routes`, which hold
no lock: the save button, the renaming of a device, a shutdown (`SaveNow`). Every
step that changes devices or groups says which calls it overtakes (`Overtaken`): what
those write is old, and it is of two moments (`torn`) when the list of groups lost
an entry, or was loaded anew, after the devices were read. A save that was overtaken
overwrites a later one with what it has read. A SET_GROUP is a call of `setNodeGroupId`, by the task or by a worker
of the automatic restore: `Capture` reads the record, `Send` and `Timeout` are its
attempts, `Ack` is the RX thread giving an ACK to the oldest call that waits for
one of that device. `Reboot` puts a node into group 0, `Identify` is the whole of
the host's handler, with the adoption of the node's group and the restore.
`Restart` is a crash of the host.

The cooldown of the restore is a set of devices that may leave it at any time;
discovery's window is one step, which says who answered. Renaming a group is left
out: the position is what matters. `meant`, `adrift`, `synced`, `tangled` and
`unsaved` are history variables. They say which of the things that are lost by
the design of the code happened: a task's target captured before a deletion, a
group a node brought from elsewhere, a reload that dropped a group whose name is
reserved, two SET_GROUPs to one device in flight, a change the code does not save
(discovery and forced groups do not), a save that failed or was overtaken.

`Selection` has what the list comprehensions of the code do, `Without`: the groups
that `load_from_db` keeps, the calls that still wait after one has been answered,
and, in `DispatchPlan` and `SceneRunner`, the groups besides the participants.

### SceneActions, SceneStore

`SceneActions` has the validator and the canonical form of an action with the
migration of the legacy shapes, and the shift of its group references. In
`SceneStore` every operation of `SceneService` is one step under its lock:
`Create` (and duplicate), `Update`, `Delete`, the renumbering within
`DeleteGroup`; a write or a read may fail, the process may restart. The editor
composes a draft from the groups it was shown (`Compose`, `Open`), which may have
changed when it is saved. `intent` is what each scene was meant to address, by
group and not by id; `adrift` the scenes composed before a deletion and saved
after it, whose renumbering failed, or with two offsets for one group.

What a request may hold is `RawAction`: any fields whatever the kind, and kinds that
are none. The validator drops the fields a kind does not have, as the code builds
its result anew. Both sorts of the code (`ids.sort()`, `canonical_values.sort`)
and the dropping of repeated ids in a shift (`FirstOf`) are one stable sort,
`Arranged`: the position at which an element ends is the number of those ahead of
it, so that it is defined for lists of every length and can be reasoned about.

An operation finds its scene by the key; a deletion takes out the entry at that
key's position. It is the only one as keys are distinct, which is part of
`Addressable`.

### DispatchPlan, SceneRunner

`DispatchPlan` translates the planner, the three strategies of the offset
optimizer with the bytes they cost, the offset formulas as the host evaluates
them (`Evaluate`) and as a node does (`NodeFormula`), and the cost badge.
`SceneRunner` runs scenes on it: `Begin` plans an action, `SendOut`,
`SendRefused`, `SendRaises` and `SendNowhere` send its operations one after
another, `Results` and `Conclude` are the fold of the outcomes and
`stop_on_error`. Meanwhile another run sends its own, the transport is lost and
found, a preset is deleted. The nodes keep the effective offset and drop an
effect whose offset flag is not theirs. Effect parameters are one value, or
invalid. Where the planner loops, over children, bytes or costs, the model has a
recursive function over the positions of the list, which proofs can unfold.

### OtaWorkflow

One task works on one request; each call out of the process is a step with what
it may come to: `SwitchOn`, `OpenAp`, `JoinAp` (profiles, scan, connect),
`SwitchOnAgain`, `SeeNode` (the identity, by mac), `UploadFile`, `PostImage` (with
the page that tells success from failure), `Unlock`, `CloseAp`, `Download`,
`RestoreHostWifi`. A CONFIG or its answer is lost, `nmcli` fails, an answer is lost
after the node acted, the image is refused, the node is locked; `Roam` moves the
host to another access point of a name it knows, `Toggle` is somebody at the
radio switch. `moved`, `unread`, `meddled` and `deaf` are history variables.

## 4. The runs

| Run | Instance | What it shows |
|---|---|---|
| `send` | 2 threads, 1 call each, 1 auto-sync frame, error or dropped frame | no registration outlives its call (`NoStaleRegistration`); outcomes are the caller's own until something goes wrong (`CleanAttribution`); one outcome per call (`ImplementsContract`); every send returns; a pulled cable is noticed without a send |
| `reply` | 2 callers, 1 device, 2 opcodes, 2 values, waiting or not, 1 state event | the registry is exact; replies are the caller's own until attempts overlap or expire; when all is quiet the mirror is the device's configuration, unless an attempt expired or a payload was overwritten; no expectation is wiped by a stale snapshot |
| `reply_retries` | 1 caller, 2 calls of up to 2 attempts | the retry loop implements its contract; every call returns |
| `link` | 3 slots, 3 inputs, up to the first overlap | one timer, no rival transports, true readiness, a retry pending when one is due, complete shutdown, an owned reconnect flag; reconnects end; losses are recovered from |
| `task_feed` | 1 web thread, 1 task thread, 1 browser, 2 tasks, 1 note or event | one task at a time and a manager that is busy only then; feed and counter are exact unless crossed or handed over; a running task ends |
| `fleet` | 1 device, 2 groups (one of a reserved name), 1 restore worker, 1 route that saves, 2 attempts, 2 tasks, reloads or saves, 1 deletion, 1 fault, under `SavesApart` | records name the groups meant, nodes hold their records, the disk has what the host knows, each with the exceptions its comment names |
| `scenes` | 2 groups, 5 drafts, 2 ids, 2 deletions, 2 failed reads or writes or restarts | ids and keys are distinct, the cache is the file, references follow deletions, ids are not reused |
| `scene_run` | 2 runs, 4 devices in 4 groups, 5 scenes, 1 fault | offsets as asked for with whichever strategy; children stay inside their container; the report is what was sent |
| `ota` | 3 devices, two of them behind access points of one name, one locked, 2 requests, 2 attempts, 3 faults | done means done, the right device, access points closed, radio restored; every request ends |

Three more runs expect a violation; they are in section 5. The types of
`GatewaySend`, `RequestReply`, `GatewayLink`, `TaskFeed` and `OtaWorkflow` (their
`TypeOK`) are proved and not run; those of `Fleet` are both.

**Bounds.** Two threads are what every hazard of the send path and the registry
needs: one whose registration, reply or expectation is taken, one who takes it.
That one call each is enough for safety is what the proofs add, which hold for
any number of calls. In `reply_retries` the second call meets the first one's
late events. Three slots
in `GatewayLink` are one attempt in flight, the transport it replaces, and a
third that overlaps or that the timer starts; `MaxInputs` bounds only what
comes from outside (user, cable, gateway errors, other processes), never what
the host does. In `link` the constraint `BeforeOverlap` leaves out what
follows the first overlap; all its invariants are proved without it, and
`ReconnectOwned` speaks of what follows an overlap too. Its two liveness
properties are shown for behaviours without overlap only. In
`task_feed` the broadcast of a task's end overlaps the start of the next task,
and one event or note overlaps either.

`fleet` has one device: devices meet only in the order of a task and the choice
of a free worker, and all four invariants are proved for any number of devices,
workers, routes and tasks. Two tasks are one that changes the records and one that
changes them again, the reload that reads them back, or a route's save: with the
save of a handler, and that of a task, two or three calls of `save_to_db` overlap.
The constraint `SavesApart` follows a save and a captured SET_GROUP one after the
other: a save takes records and groups, a captured SET_GROUP the node and its link
flag, and neither reads what the other changes. The proofs do without it.
Two groups are one to delete and one that moves into its place. A fault is also a
SET_GROUP that gives up while its ACK is in the air. In `scenes` two ids are an original and its
duplicate, and five drafts one of each shape the validator treats apart. The five
scenes of `scene_run` are picked so that each strategy is the cheapest once,
each mode of the formula, every kind of action and every way to fail occur.
In `ota` two requests are what a leftover of the first (a profile, an access point
left open) needs to meet the second, and three faults the retry after a lost
answer and one more.

Symmetry: callers and values in `reply`, the operator's groups in `scenes`, which
appear in no ordered operator and nowhere by name; no liveness is checked there.

**Deadlock** is not checked: every instance stops when its callers have made
all their calls or the host has shut down; that none stops earlier is what the
liveness properties say. Only `scenes` checks it:
its requests never come to an end.

**Fairness** is weak and per thread: a thread that can run does run; an armed
timer fires; five seconds pass; a started `close()` or `shutdown()` completes.
What a task does (`target_fn`) returns or raises: the services it calls wait
with timeouts only, the OTA workflow too, each call of which has one
(`WF_vars(Work)`). All of these are threads of the host process. `_tx_lock` is
never held across anything that blocks but the write itself, so weak fairness is
enough for each sender. `Fleet`, `SceneStore` and `SceneRunner` are checked for
safety only and state no fairness; that their tasks end is `BusyEnds` of
`TaskFeed`. Nothing is assumed of the gateway, the radio, the nodes, the cable or
other processes; `LossRecovers` alone asks, in its own premise, that the
gateway is finally there and its port free.

## 5. Where the code differs from what it says

Three runs expect a violation; each refutes a sentence of the repository.

* `send_overlap` (`OverlapAttribution`): while one thread waits for its outcome,
  `wait_for` has released `_tx_lock`; the second sender replaces the registration
  and is given the outcome of the first one's frame (`gateway_serial.py:129-134`).
* `scene_outcome` (`RefusedSendIsError`): the control services drop the outcome of
  a send (`control_service.py:201`), so that a frame the gateway rejected counts as
  sent and `stop_on_error` does not see "a clean failure"
  (`gateway_serial.py:484-487`).
* `fleet_deletion` (`DeletionReachesNodes`): the nodes of a deleted group are told
  nothing; the next Identify of such a node has the host adopt the id it still
  holds (`models.py:60-80`), which the deletion has given to another group, where
  the docstring of the route says that the restore pushes the new ids out
  (`api.py:751-753`).

The modules keep further formulas of this kind, which TLC refutes as well when
one takes the place of the invariants and properties of the configuration named:

| Formula | In place of the properties of | What the code says, what it does |
|---|---|---|
| `SingleInFlight` | `GatewaySend_overlap.cfg`, as INVARIANT | "`_tx_lock` enforces a single in-flight send" (`gateway_serial.py:447`); two are in flight |
| `AutoSyncAttribution` | the same with `MaxNoise = 1`, as INVARIANT | orphan outcomes are dropped (`gateway_serial.py:143-147`); while somebody waits they are not |
| `DisconnectAnswersWaiters` | `GatewaySend_overlap.cfg`, as PROPERTY | a lost link answers a waiting send with USB_ERROR (`gateway_serial.py:867-871`); it runs into its timeout |
| `MirrorFollowsAck` | `RequestReply.cfg`, as PROPERTY | the ACK applies what the firmware just confirmed (`config_service.py:5-8`); `handle_ack_event` pops the one payload stashed for the device, and a late ACK applies the payload of the next request |
| `SweptHadNoReply` | `RequestReply.cfg`, as INVARIANT | a device is marked offline when it did not answer (`gateway_service.py:1340-1343`); the expectation is stamped after the outcome, possibly after its reply was handled, and the next state event then sweeps a device that has just answered |
| `SweepOnTransition` | `RequestReply.cfg`, as PROPERTY | the sweep follows RX_WINDOW (`gateway_service.py:1004-1007`); every other state event sweeps |
| `LossIsPolled` | `GatewayLink.cfg`, as INVARIANT | a lost link is polled for (`test_gateway_error_classification.py:115-116`); a loss within five seconds of a reconnect is ignored after `ready` was reset: no timer, no error, no polling |
| `NoRivalTransports` | `GatewayLink.cfg` without its constraint, as INVARIANT | the previous transport is released before a new one is built, or two "fight over the same OS file descriptor" (`controller.py:533-536`); two attempts take `self.transport` without a lock, and one opens the port while the other's transport holds it |
| `SingleTimer` | the same | "Only one timer is ever active" (`controller.py:665`); two overlapping failures arm two |
| `ShutdownReleases` | the same | shutdown releases the transport (`controller.py:730`); an attempt in flight opens it again |
| `LinkLostWasReady` | `GatewayLink.cfg`, as INVARIANT | LINK_LOST follows readiness (`controller.py:185-187`); a send on a transport that never opened causes it |
| `LossRecovers` | `GatewayLink.cfg` with `Configured = TRUE` | a loss is polled for (`controller.py:185-188`); a missing configured port is HOST_ERROR, which is not |
| `EstimateIsSent` | `SceneRunner_outcome.cfg`, as INVARIANT | "if the runner emits N packets for an action, this function predicts exactly N" (`scene_cost_estimator.py:184-187`); an `offset_group` that is degraded is counted, and nothing of it is sent |
| `SavedAtOnce` | `Fleet.cfg`, as INVARIANT | devices and groups are persisted "atomically" (`controller.py:290`); the list of groups may change between the reading of the two |
| `ReferencesFollow` | `SceneStore.cfg`, as INVARIANT | references follow a deletion (`scenes_service.py`, `renumber_group_references`); a scene composed before it and saved after, or one whose rewriting failed, names other groups |
| `OneValuePerGroup` | `SceneStore.cfg`, as INVARIANT | the values of an explicit offset are "one per group" (`scenes_service.py:508-509`), and a group without one "shouldn't happen for valid inputs" (`offset_dispatch_optimizer.py:155-156`); the validator compares their number only, and takes two for one group and none for another; a deletion keeps the first of the two, the optimizer sends the last |
| `HostLeavesTheAp` | `OtaWorkflow.cfg`, as INVARIANT | the host's Wi-Fi is restored to "the previous state when done" (`host_wifi_service.py:3-5`); the connection is released only if the radio was off before (`ota_workflow_service.py:37`), otherwise the host stays in the node's access point |

What the exceptions of the other properties, and the translation itself, showed:

* Groups. `save_to_db` holds no lock while it lists devices and groups, so a save
  around a deletion is torn although its docstring says "atomically"
  (`controller.py:289-300`). Nor does it hold one until it has written: a group that
  is created, or deleted, and saved after another call has read the groups is
  overwritten by what that call writes, and the state stays old until the next save
  (`controller.py:304-312`, `api.py:886-902`). Discovery and forced groups do not save at all. A
  move of an offline device to group 0 is undone by its next Identify. A task's
  target index outlives a deletion. A late ACK of one SET_GROUP completes the next
  one. `load_from_db` drops groups of reserved names and thereby shifts the ids
  behind them. A node's own group is adopted with no check of its range. The
  sweep of "all groups" in discovery reads an attribute `RL_DeviceGroup` does not
  have (`api.py:487-497`), so its list of groups is always empty.
* Scenes. A creation whose write failed stays in the cache until the next
  successful write. After a file that could not be read ids start again, where
  `scenes_service.py:847-849` says that they never recycle. The collapse of all
  groups into a broadcast never happens: `app.py:101` gives the service no getter
  of the known groups.
* Runs. A child that addresses a device outside its container is sent, where the
  docstring at `scenes_service.py:328-329` says degraded. Nodes left in offset
  mode by an earlier scene accept the broadcast children of a later container;
  strategy C resets such nodes, strategy B does not. A sync without a transport
  is reported as ok, and so is a start block whose answer is an error: its result
  is a dictionary that is not empty. The runner's module docstring says that a
  run continues on errors; `stop_on_error` is true by default.
* OTA. `disconnect_ap` does not look at the exit code of nmcli. A 200 whose page
  cannot be read counts as success (`unread`). The identity of the node is
  checked once, before several uploads (`moved`). `results["ok"]` stays true
  when devices failed without `stop_on_error`. The download of presets
  closes the access point when it succeeded (`ota_workflow_service.py:176`) and leaves
  it open when it failed. A `radio_enabled()` that fails counts as "off", and the
  restore then turns a radio off that was on.

## 6. What is proved

The proofs are for any set of threads, devices, groups, opcodes and slots, and any
bounds, from the assumption at the head of each module (`SendAssumption`,
`RequestAssumption`, `LinkAssumption`, `FeedAssumption`, `FleetAssumption`,
`StoreAssumption`, `RunnerAssumption`, `OtaAssumption`). They say that markers such
as "nobody" are not members of the sets and that bounds are natural numbers.
`Fleet` assumes further that there are at most 254 groups besides the static one
and that nodes bring ids that are a byte: the id of a group is a byte of the frame.
`SceneStore` assumes that a draft is a list of actions with the fields the validator
reads, of any value (`RawAction`), and says whether to stop on errors.
`SceneRunner` assumes that its scenes are as the store keeps them: actions are lists
whose group ids are in 0..254, `stop_on_error` is a Boolean, a container holds
effects only (`ChildKinds`, as `_canonical_offset_group_child` demands), and its offset
is a block that `_canonical_offset_block` takes (`OffsetBlocks`: 16 bits for base and
step, a centre in 0..254, a cycle in 1..255, explicit values no node has to clamp).
Drafts pass the same validator before they are run. It assumes too that
`offset_mode` is one of the flags a user may set (`USER_FLAG_KEYS`). TLC evaluates the assumptions in every run.

* `GatewaySend_proofs`: `TypeCorrect`; `RegistrationDiscipline`
  (`NoStaleRegistration`); `CleanCallsAreAttributed` (`CleanAttribution`);
  `SendImplementsContract` (`ImplementsContract`).
  `NoStaleRegistration` alone is not inductive: a step of one thread may leave
  another one registered with a slot that is filled. `SlotInv` adds what the lock
  gives: its holder is exactly the thread between registering and writing,
  that thread is the registered one and has no outcome yet, and whoever is
  leaving has one; the contract follows from it. Attribution needs the gateway
  too: `CleanInv` says that while nothing has gone wrong one call waits, that the
  frame at the gateway's door, the frame on air and the event on its way back
  exclude one another, and that each of them is that call's.
* `RequestReply_proofs`: `TypeCorrect`; `ExpectationsAreNotLost`
  (`NoSilentLoss`), from `RxInv`, what the RX thread holds at each of its steps;
  `RegistryIsExact` (`RegistryMatchesWaiters`), from `RegistryInv`: callers own
  their requests, no identity is used twice, and a request the RX thread is
  about to remove has its reply if its caller still waits;
  `RetriesImplementContract` (`ImplementsContract`), from `AnsweredInv`:
  whatever completes a request is a reply some device has given to its key;
  `CleanRepliesAreAttributed` (`CleanSuccess`), from `CleanInv`: while nothing
  has gone wrong, open calls have different keys and a reply on its way finds
  no request of its key but its own;
  `MirrorIsTrue` (`CleanMirror`), from `MirrorInv`: as long as no attempt has expired
  and no payload was overwritten, a device has at most one configuration request
  that is still to be sent or to be applied, and the stash holds its payload;
  once that request has been acknowledged the device has it, too. `CleanMirror`,
  which speaks of a quiet system only, says nothing of the steps in between.
* `GatewayLink_proofs`: `TypeCorrect`; `ReconnectsAreOwned` (`ReconnectOwned`),
  however attempts overlap, from `OwnInv`: an unused slot carries no origin, so
  no new attempt takes over the place of the reconnect that set the flag;
  `OneTimerUnlessOverlap` (`CleanSingleTimer`), from `AloneInv` (without overlap
  there is one attempt at a time and none after shutdown has begun) and
  `TimerInv` (when a timer is about to be armed none is);
  `NoRivalsUnlessOverlap` (`CleanNoRivals`), from `RivalInv`: where a transport
  with an open port can be referred to from;
  `ShutdownIsComplete` (`CleanShutdown`), from `ReaderInv`, the same for a transport
  with a running RX thread, and `ShutInv`: what shutdown has taken away nobody
  brings back;
  `ReadyMeansReady` (`CleanReady`), from `HookInv` (the flag of the installed
  listeners speaks of the current transport), `PlaceInv` (nothing of an attempt's
  transport is in use before it exists, and a report about the current one that
  only has to be finished was ignored or unheard) and `LiveInv` (an open transport
  stays open until its loss is heard);
  `RetryIsPending` (`CleanRetryPending`), from `FailureInv` and `RetryInv`: until a loss
  is ignored, a controller that is not ready and has no reconnect coming is
  within an attempt, or polled.
* `TaskFeed_proofs`: `TypeCorrect`; `TasksExclude` (`OneTaskAtATime`), which is
  inductive as it stands; `CountsAreExact` (`CleanCounter`), with what the RX
  thread has read (`CounterInv`); `FeedIsCurrent` (`CleanFeed`), from `FeedInv`:
  while no change crosses an older snapshot, every snapshot on its way is the
  task, and a browser that does not show the task will be given it.

* `Fleet_proofs`: `DiskIsCurrent` (`CleanDisk`), from `DiskInv`: what a call of
  `save_to_db` has read is what the host knows unless the call was overtaken, which
  needs what one step can do to a call (`SaveMoves`, `SavesStep`) and to the saved
  state (`DiskMoves`); `NodesHoldRecords` (`CleanNodes`), from `NodesInv`: for a
  device whose SET_GROUPs have not met, at most one call is under way, an ACK in
  the air is its own, and says that the node has the group the call captured.
  `Shapes` is as much of the types as these need.
  `TypeCorrect` (`TypeOK`) and `MembershipHolds` (`CleanMembership`) rest on
  `FleetInv`. Its `ListsInv` says that both lists of groups, the live and the saved
  one, begin with the static group and name no group twice, also behind the filter
  of `load_from_db`, and that a deleted group does not come back: only then does
  shifting the records by one (`PointsShifted`) leave each of them with the group it
  named. `TypesInv` bounds records, nodes and captured ids by a byte; `MemberInv`
  adds that the records a restart would read name the groups meant unless the
  save was torn, and what a task still has to do; `SavesInv` says the same of what
  each call of `save_to_db` has read and may still write; `CallsInv` that the calls listed as
  waiting are the calls that wait.
* `SceneStore_proofs`: `CacheIsFile` (`CleanCache`), `ScenesAreAddressable`
  (`Addressable`), `IdsAreNotReused` (`NoIdReused`), from `StoreInv`: in the file as in
  the cache ids and keys are distinct and ids are below the counter; the counter is
  past every id that ever was in the file; and what the cache has beyond the file
  are the scenes whose creation failed to be written. A key is free because
  the loop of `_unique_key` tries one more key than there are scenes (`KeyIsFree`).
  `TypeCorrect` (`TypeOK`) and `ReferencesHold` (`CleanReferences`) rest on `RefsInv`.
  That what is stored is valid says too little of what a shift makes of it, and
  `CleanReferences` says nothing of the cache, which the next write is made from. So the
  invariant says what the stored form is (`IsActions`: ids in strict order, values in the order
  of their groups, none of the fields a kind does not have), for the file and for the
  cache (`ScenesInv`); that a scene that is not adrift names only groups there are,
  with one offset each at most, and means what was meant (`MeantInv`); that the
  cache has every scene of the file, so that a renumbering that finds nothing to move
  in the cache leaves nothing behind in the file; that a draft that is not old names
  groups there are (`DraftInv`); and that the list of groups begins with the
  static one and names none twice (`GroupsInv`). TLC checked it on the instance of
  `scenes` first. The proof rests on lemmas about the operators:
  what the stable sort returns (`ArrangedThrough`, from the ranks in `Ranks`) and
  that it leaves alone what is in order (`ArrangedStays`); that the validator's
  result is of the stored form and is returned as it is when it is validated
  again (`CanonIs`, `ActionStays`), which is why a reload changes nothing
  (`FileReads`); that a shifted id stands for the group it stood for, or for the static one
  (`ShiftName`), so that a shifted action means what was meant
  (`ShiftedTarget`, `ShiftedValues`, `ShiftedAction`, `ActionsRenumbered`); and that a new
  group changes the meaning of none (`MeaningStays`).
  `ShiftedValues` is where two offsets for one group must be excepted: the shift leaves
  one value per id, so that of two for the deleted group only the first moves to the
  static one.
* `SceneRunner_proofs`: `ReportIsTrue` (`ReportMatchesWire`), from `RunsInv`: as long as
  no operation of an action has failed, what was handed to the transport and what
  is left make up what was planned. The report alone is not inductive, since it is
  written after the last operation. The proof needs what the planner returns for
  any action (`PlanIs`, over the three strategies in `SetupIs` and the children of a
  container in `ContainerIs`): a list of operations, and none that is a sync but for
  the action that is one.
  `OffsetsArrive` (`OffsetsReachParticipants`) and `ChildrenAreContained`
  (`ChildrenStayInside`), from `OffsetsInv`. That the nodes hold the right offsets once
  all are sent says nothing about the steps before; the invariant is that what a
  node holds *and* what is still to be sent to it end in the offset that the
  container asks for (`Due`: the last offset operation left for a node is what
  counts, or what it holds if there is none), and that every child left carries the
  offset flag of its container. Sending an operation keeps this (`EndsTail`);
  planning establishes it (`PlanEnds`), by one lemma per packet sequence: group by
  group (`EndsGroups`), a formula for all with the others reset (`EndsFormula`), and
  one frame, the only way to clear all that can be the cheapest (`ClearingIsOne`). A
  formula gives the same on host and node because a packet holds all of it
  (`PackedFormula`, `EvaluateIs`), an explicit list because the value evaluated on
  the host is clamped already (`ClampKeeps`).
* `OtaWorkflow_proofs`: `TypeCorrect` (`TypeOK`, with the places at which a request of
  each kind can be, `Located`); `ApsAreClosed` (`ApsClosed`), from `ApsInv`: the only
  open access point of the devices done with is that of the device at hand;
  `RadioIsRestored` (`RadioRestored`), from `RadioInv`: what the task remembers is
  the radio it found; `OnlyExpected` (`OnlyTheExpected`) and `OkIsDone`
  (`OkMeansDone`), from `GivenInv`: while the host stays where it saw the device,
  it is in that device's access point, and what is no longer to do for it has
  been given to it.

The provers cannot instantiate the library's induction theorems, which take the
statement as an operator. Where a proof needs induction over a list it takes the
*set* of the positions at which the statement fails and its least member (`Least`,
`Climb`, `Induct`, from the well-foundedness of `<` on the naturals), so that `Without`,
the sums of bytes and the concatenated plans are proved for every length.

Only model-checked is liveness (`EverySendReturns`, `UnplugIsNoticed`,
`EveryCallReturns`, `ReconnectEnds`, `LossRecovers`, `BusyEnds`, `EveryRunEnds`), which
is out of reach of the provers used. Every invariant, refinement and step property of a run that is
expected to pass has its theorem.

## 7. What is not modelled

* The collecting of replies (`send_and_collect`) and stream sends: a late ACK of an
  earlier stream counts for a later one (`gateway_service.py:568`). `Fleet` takes
  their result, who answered, as an input.
* The master state of the event stream and its transport hook (`sse.py:180`).
* The decoder of `_reader`: bytes, escapes and checksums, `gateway_serial.py:718`.
* The preset stores, except that a preset may be gone when a scene runs.
* Start blocks and specials beyond one send; the cache of a group's last control.
* Read-only routes, uploads and downloads of files, renaming of groups.
* Air-time formulas over reals; the tables of WLED effects and palettes; the
  wiring of the application; the browser's JavaScript and HTML; the build, the
  code generators and the tools. They keep no state that changes over time.

In the modelled parts: the content of frames beyond what the properties tell
apart, logging, the wording of errors (except the classification of a missing
configured port, which decides whether it is retried), and the lengths of
delays. In `TaskFeed`: "master", "refresh" and "gateway" events, and a request for
the feed that is broken off before its response has begun. In `Fleet`: Identify and
the poll of a status are one step each (the handler clamps a record later than it
updates it, without the lock). A reload counts as a task, is one step and looks at
the running task in that step. The devices are read in one step, and so are the groups; a
deletion shifts the records, removes the group and has the state read in one step, where a
save without the lock may see the records shifted and the list not yet. Saves of the start
block and of the special parameters, and that of the migration within a load, are not told
apart from `SaveNow`. `acks` is a set: two ACKs of one device and status that are late at
once are one (`tangled` excepts such a device). In
`OtaWorkflow`: multipart bodies and digests. In `SceneStore`: the slug of a label,
which stands for itself, and `replace_all`, which only tests call; the parameters
of a formula that depend on a group, as `center`, are not followed through a deletion,
which does not shift them either.
