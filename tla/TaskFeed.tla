------------------------------ MODULE TaskFeed ------------------------------
(***************************************************************************)
(* The one long-running task of the web layer (TaskManager) and the feed   *)
(* of task events to browsers (SSEBridge): web threads that start a task,  *)
(* the thread that runs it, the RX thread that counts replies into it, and *)
(* browsers that connect to the feed and leave it.                         *)
(*                                                                         *)
(* Every change of the task is made under TaskManager's lock; the snapshot *)
(* that is broadcast is taken later under the same lock, and handed to the *)
(* clients' queues after the list of clients was copied under another one. *)
(* These are the steps here.  A client's queue is FIFO and unbounded, so   *)
(* it is represented by the task event put last.                           *)
(*                                                                         *)
(* Only "task" events are modelled; "master", "refresh" and "gateway"      *)
(* events are independent of them.  A task is reduced to what the          *)
(* properties tell apart: state, error, the counter of replies and the     *)
(* progress notes its own thread writes into meta.                         *)
(***************************************************************************)
EXTENDS Naturals

CONSTANTS
  Handlers,    \* web threads that start tasks
  Runners,     \* task threads; one that has ended may be used again
  Rx,          \* the transport's RX thread
  Clients,     \* browsers
  MaxTasks,    \* bound: tasks started
  MaxEvents    \* bound: progress notes, and transport events that concern
               \* a running task

ASSUME FeedAssumption ==
  /\ Handlers \cap Runners = {}
  /\ Rx \notin Handlers \cup Runners
  /\ MaxTasks \in Nat /\ MaxEvents \in Nat

VARIABLES
  task,      \* TaskManager._task
  at,        \* where each thread is
  after,     \* where a thread goes on after the broadcast it is making
  payload,   \* the snapshot a thread is broadcasting
  todo,      \* clients a thread has still to hand its snapshot to
  seen,      \* rx_replies in the snapshot the RX thread counts from
  events,    \* how much of MaxEvents has been used
  clients,   \* SSEBridge._clients
  tap,       \* where each client's request for the feed is
  seed,      \* the snapshot a client is about to be given first
  shown,     \* the task event each client was given last
  heard,     \* history: replies the RX thread has counted for this task
  crossed,   \* history: the task changed while an older snapshot of it was
             \* on its way to some client
  handover   \* history: a task started between reading and writing a count

threadVars == <<at, after, payload, todo>>
clientVars == <<clients, tap, seed, shown>>
history    == <<heard, crossed, handover>>
vars       == <<task, threadVars, seen, events, clientVars, history>>

Threads == Handlers \cup Runners \cup {Rx}

NoTask == [id |-> 0, state |-> "none", counted |-> FALSE, error |-> FALSE,
           replies |-> 0, notes |-> 0]

NewTask(counted) ==
  [NoTask EXCEPT !.id = task.id + 1, !.state = "running", !.counted = counted]

Running == task.state = "running"

Init ==
  /\ task = NoTask
  /\ at = [a \in Threads |-> "idle"]
  /\ after = [a \in Threads |-> "idle"]
  /\ payload = [a \in Threads |-> NoTask]
  /\ todo = [a \in Threads |-> {}]
  /\ seen = 0
  /\ events = 0
  /\ clients = {}
  /\ tap = [c \in Clients |-> "off"]
  /\ seed = [c \in Clients |-> NoTask]
  /\ shown = [c \in Clients |-> NoTask]
  /\ heard = 0
  /\ crossed = FALSE
  /\ handover = FALSE

-----------------------------------------------------------------------------
(* TaskManager.update and SSEBridge.broadcast.                             *)

OlderSnapshotUnderWay ==
  \/ \E a \in Threads : at[a] \in {"list", "put"}
  \/ \E c \in Clients : tap[c] = "seeding"

\* Thread a, now at from, changes the task under the lock; it broadcasts it
\* next and then goes on at to.
Change(a, from, to, new) ==
  /\ at[a] = from
  /\ at' = [at EXCEPT ![a] = "snapshot"]
  /\ after' = [after EXCEPT ![a] = to]
  /\ task' = new
  /\ crossed' = (crossed \/ OlderSnapshotUnderWay)
  /\ UNCHANGED <<payload, todo, clientVars>>

\* "self.snapshot()", evaluated before broadcast is called.
TakeSnapshot(a) ==
  /\ at[a] = "snapshot"
  /\ at' = [at EXCEPT ![a] = "list"]
  /\ payload' = [payload EXCEPT ![a] = task]
  /\ UNCHANGED <<task, after, todo, seen, events, clientVars, history>>

\* "clients_snapshot = list(self._clients)".
ListClients(a) ==
  /\ at[a] = "list"
  /\ at' = [at EXCEPT ![a] = "put"]
  /\ todo' = [todo EXCEPT ![a] = clients]
  /\ UNCHANGED <<task, after, payload, seen, events, clientVars, history>>

\* "q.put_nowait".
Put(a, c) ==
  /\ at[a] = "put"
  /\ c \in todo[a]
  /\ todo' = [todo EXCEPT ![a] = @ \ {c}]
  /\ shown' = [shown EXCEPT ![c] = payload[a]]
  /\ UNCHANGED <<task, at, after, payload, seen, events, clients, tap, seed,
                 history>>

EndBroadcast(a) ==
  /\ at[a] = "put"
  /\ todo[a] = {}
  /\ at' = [at EXCEPT ![a] = after[a]]
  /\ after' = [after EXCEPT ![a] = "idle"]
  /\ payload' = [payload EXCEPT ![a] = NoTask]
  /\ UNCHANGED <<task, todo, seen, events, clientVars, history>>

Broadcast(a) ==
  \/ TakeSnapshot(a) \/ ListClients(a)
  \/ (\E c \in Clients : Put(a, c)) \/ EndBroadcast(a)

-----------------------------------------------------------------------------
(* Threads that start tasks: TaskManager.start.                            *)

\* Mutant of Start: the test for a running task is left to is_running().
StartUnchecked(h, counted) ==
  /\ task.id < MaxTasks
  /\ Change(h, "idle", "spawn", NewTask(counted))
  /\ heard' = 0
  /\ handover' = (handover \/ at[Rx] = "write")
  /\ UNCHANGED <<seen, events>>

\* Mutant of Start: the new task inherits the counter.
StartKeepsReplies(h, counted) ==
  /\ task.id < MaxTasks
  /\ ~Running
  /\ Change(h, "idle", "spawn",
            [NewTask(counted) EXCEPT !.replies = task.replies])
  /\ heard' = 0
  /\ handover' = (handover \/ at[Rx] = "write")
  /\ UNCHANGED <<seen, events>>

\* Test and creation are one step under the lock.  While a task is running
\* start returns None and changes nothing.
Start(h, counted) ==
  /\ task.id < MaxTasks
  /\ ~Running
  /\ Change(h, "idle", "spawn", NewTask(counted))
  /\ heard' = 0
  /\ handover' = (handover \/ at[Rx] = "write")
  /\ UNCHANGED <<seen, events>>

\* "thread.start()", after the broadcast.
Spawn(h, r) ==
  /\ at[h] = "spawn"
  /\ at[r] = "idle"
  /\ at' = [at EXCEPT ![h] = "idle", ![r] = "work"]
  /\ UNCHANGED <<task, after, payload, todo, seen, events, clientVars,
                 history>>

-----------------------------------------------------------------------------
(* The task's own thread: runner().                                        *)

\* target_fn reports progress through update(meta=...).
Note(r) ==
  /\ events < MaxEvents
  /\ events' = events + 1
  /\ Change(r, "work", "work", [task EXCEPT !.notes = @ + 1])
  /\ UNCHANGED <<seen, heard, handover>>

\* Mutant of Finish: the final state is set but not broadcast.
FinishSilently(r, failed) ==
  /\ at[r] = "work"
  /\ at' = [at EXCEPT ![r] = "idle"]
  /\ task' = [task EXCEPT !.state = IF failed THEN "error" ELSE "done",
                          !.error = @ \/ failed]
  /\ UNCHANGED <<after, payload, todo, seen, events, clientVars, history>>

\* target_fn returns or raises.
Finish(r, failed) ==
  /\ Change(r, "work", "idle",
            [task EXCEPT !.state = IF failed THEN "error" ELSE "done",
                         !.error = @ \/ failed])
  /\ UNCHANGED <<seen, events, heard, handover>>

-----------------------------------------------------------------------------
(* The RX thread: SSEBridge.on_transport_event.                            *)

Advance(a, from, to) ==
  /\ at[a] = from
  /\ at' = [at EXCEPT ![a] = to]
  /\ UNCHANGED <<after, payload, todo>>

\* An event that concerns a running task: "if self._task_is_running()".
RxSeesTask(to) ==
  /\ events < MaxEvents
  /\ events' = events + 1
  /\ Running
  /\ Advance(Rx, "idle", to)
  /\ UNCHANGED <<task, seen, clientVars, history>>

\* "snap = self._task_snapshot()"; only a task that counts this kind of
\* reply is updated.
RxReads ==
  /\ Advance(Rx, "read", IF task.counted THEN "write" ELSE "idle")
  /\ seen' = IF task.counted THEN task.replies ELSE 0
  /\ heard' = IF task.counted THEN heard + 1 ELSE heard
  /\ UNCHANGED <<task, events, clientVars, crossed, handover>>

\* Mutant of RxWrites: the state of the snapshot is written back too.
RxWritesState ==
  /\ Change(Rx, "write", "idle",
            [task EXCEPT !.replies = seen + 1, !.state = "running"])
  /\ seen' = 0
  /\ UNCHANGED <<events, heard, handover>>

\* "self._task_update(rx_replies=... + 1)", of whatever the task is by now.
RxWrites ==
  /\ Change(Rx, "write", "idle", [task EXCEPT !.replies = seen + 1])
  /\ seen' = 0
  /\ UNCHANGED <<events, heard, handover>>

\* EV_ERROR: "self._task_update(last_error=...)".
RxReportsError ==
  /\ Change(Rx, "fault", "idle", [task EXCEPT !.error = TRUE])
  /\ UNCHANGED <<seen, events, heard, handover>>

-----------------------------------------------------------------------------
(* Browsers: api_events.                                                   *)

Connect(c) ==
  /\ tap[c] = "off"
  /\ tap' = [tap EXCEPT ![c] = "added"]
  /\ clients' = clients \cup {c}
  /\ UNCHANGED <<task, threadVars, seen, events, seed, shown, history>>

SeedRead(c) ==
  /\ tap[c] = "added"
  /\ tap' = [tap EXCEPT ![c] = "seeding"]
  /\ seed' = [seed EXCEPT ![c] = task]
  /\ UNCHANGED <<task, threadVars, seen, events, clients, shown, history>>

SeedPut(c) ==
  /\ tap[c] = "seeding"
  /\ tap' = [tap EXCEPT ![c] = "on"]
  /\ shown' = [shown EXCEPT ![c] = seed[c]]
  /\ seed' = [seed EXCEPT ![c] = NoTask]
  /\ UNCHANGED <<task, threadVars, seen, events, clients, history>>

\* The generator ends.  What is still put into its queue reaches nobody; a
\* new connection has a queue of its own.
Leave(c) ==
  /\ tap[c] = "on"
  /\ tap' = [tap EXCEPT ![c] = "off"]
  /\ clients' = clients \ {c}
  /\ todo' = [a \in Threads |-> todo[a] \ {c}]
  /\ shown' = [shown EXCEPT ![c] = NoTask]
  /\ UNCHANGED <<task, at, after, payload, seen, events, seed, history>>

-----------------------------------------------------------------------------
Handler(h) ==
  \/ \E counted \in BOOLEAN : Start(h, counted)
  \/ \E r \in Runners : Spawn(h, r)

Runner(r) == Note(r) \/ \E failed \in BOOLEAN : Finish(r, failed)

RxThread ==
  \/ \E to \in {"read", "fault"} : RxSeesTask(to)
  \/ RxReads \/ RxWrites \/ RxReportsError

Browser(c) == Connect(c) \/ SeedRead(c) \/ SeedPut(c) \/ Leave(c)

Next ==
  \/ \E a \in Threads : Broadcast(a)
  \/ \E h \in Handlers : Handler(h)
  \/ \E r \in Runners : Runner(r)
  \/ RxThread
  \/ \E c \in Clients : Browser(c)

Spec == Init /\ [][Next]_vars

\* Threads run, and what a task does returns or raises.  Nothing is assumed
\* of users, browsers or the gateway.
Fairness ==
  /\ \A a \in Threads : WF_vars(Broadcast(a))
  /\ \A h \in Handlers : WF_vars(\E r \in Runners : Spawn(h, r))
  /\ \A r \in Runners : WF_vars(Runner(r))

FairSpec == Spec /\ Fairness

-----------------------------------------------------------------------------
(* Properties.                                                             *)

Locations == {"idle", "snapshot", "list", "put", "spawn", "work", "read",
              "write", "fault"}

Tasks == [id : Nat, state : {"none", "running", "done", "error"},
          counted : BOOLEAN, error : BOOLEAN, replies : Nat, notes : Nat]

\* Types; and SSEBridge knows a client as long as its request lasts.
TypeOK ==
  /\ task \in Tasks
  /\ at \in [Threads -> Locations]
  /\ after \in [Threads -> {"idle", "spawn", "work"}]
  /\ payload \in [Threads -> Tasks]
  /\ todo \in [Threads -> SUBSET clients]
  /\ seen \in Nat /\ heard \in Nat
  /\ events \in 0..MaxEvents
  /\ clients = {c \in Clients : tap[c] # "off"}
  /\ tap \in [Clients -> {"off", "added", "seeding", "on"}]
  /\ seed \in [Clients -> Tasks]
  /\ shown \in [Clients -> Tasks]
  /\ crossed \in BOOLEAN /\ handover \in BOOLEAN

\* A thread that carries the task: it is about to spawn its thread, or is
\* that thread and not yet at its end.
Broadcasting(a) == at[a] \in {"snapshot", "list", "put"}

Carrying(a) ==
  \/ at[a] \in {"spawn", "work"}
  \/ Broadcasting(a) /\ after[a] \in {"spawn", "work"}

\* TaskManager keeps track of a single task: at most one thread carries a
\* task, however starts, endings and counts interleave, and the manager is
\* busy exactly while there is one; so no request is refused on account of
\* a task that is over.
OneTaskAtATime ==
  /\ \A a, b \in Threads : Carrying(a) /\ Carrying(b) => a = b
  /\ Running <=> \E a \in Threads : Carrying(a)

\* When no broadcast and no connection is under way, the last task event of
\* every client is the task as it is, unless the task has changed while an
\* older snapshot was on its way: then the older one may have come last.
Settled ==
  /\ \A a \in Threads : ~Broadcasting(a)
  /\ \A c \in Clients : tap[c] \in {"off", "on"}

CleanFeed ==
  ~crossed /\ Settled => \A c \in clients : shown[c] = task

\* The counter of a task is the number of replies counted for it, unless a
\* task started between the RX thread's reading and writing a count: then
\* the new one has been given the count of the old one.
CleanCounter ==
  ~handover =>
    heard = IF at[Rx] = "write" THEN task.replies + 1 ELSE task.replies

\* A running task comes to an end and the manager is free again.
BusyEnds == Running ~> ~Running
=============================================================================
