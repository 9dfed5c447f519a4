---------------------------- MODULE GatewayLink -----------------------------
(***************************************************************************)
(* The life cycle of the gateway connection in RaceLink_Host: attempts to  *)
(* connect (discoverPort) made by the startup code, by the user's retry    *)
(* button, by the one-shot retry timer and by the reconnect thread that a  *)
(* link loss spawns; the listeners that hear of the loss; and shutdown.    *)
(*                                                                         *)
(* None of this is under a lock: every attempt re-reads self.transport,    *)
(* which another attempt may have replaced.  A slot stands for one attempt *)
(* together with what it creates: one transport and at most one timer.     *)
(* Slots that nothing refers to are used again.                            *)
(*                                                                         *)
(* A step is what a thread does between two points where it blocks or      *)
(* where another thread has been started that can observe the difference;  *)
(* reading and resetting self.transport is one step, and so is cancelling  *)
(* a timer.  Delays are abstracted: a timer that is armed may fire at any  *)
(* time, and so does the attempt count that only selects the delay.        *)
(***************************************************************************)
EXTENDS Naturals, FiniteSets

CONSTANTS
  Slots,       \* attempts that can be in flight or leave something behind
  Configured,  \* is the port given by the option psi_comms_port?
  MaxInputs    \* bound: what users, the cable, the gateway's errors and
               \* other processes do

None   == 0        \* no transport, no timer
NoCode == "none"   \* no error, no origin

ASSUME LinkAssumption ==
  /\ Slots \subseteq Nat \ {None}
  /\ Configured \in BOOLEAN
  /\ MaxInputs \in Nat

VARIABLES
  pc,           \* where each attempt is in discoverPort; "free" if unused
  origin,       \* who made the attempt
  old,          \* old_transport of each attempt
  failure,      \* error code an attempt is about to record, or NoCode
  transport,    \* self.transport, or None
  ready,        \* self.ready
  error,        \* code of last_gateway_error, or NoCode
  recovering,   \* _link_recovery_pending
  handle,       \* _gateway_retry_timer; None also for a timer that has fired
  armed,        \* timers that have been started and not cancelled
  hooksDone,    \* _transport_hooks_installed
  inProgress,   \* _reconnect_in_progress
  recent,       \* less than 5 s since _last_reconnect_ts
  port,         \* each transport's port: "new" (none found), "open", "closed"
  readers,      \* number of RX threads of each transport
  hooked,       \* transports with the gateway service's listeners
  reports,      \* link losses between schedule_reconnect's test and its set
  started,      \* onStartup has been called
  shut,         \* progress of shutdown(): "no", "flagged", "taken", "done"
  shutOld,      \* the transport shutdown() is about to close, or None
  plugged,      \* the gateway is there and answers
  busy,         \* another process holds the gateway's port
  inputs,       \* how much of MaxInputs has been used
  wasReady,     \* history: a connection has been established before
  overlap,      \* history: an attempt began beside another or a shutdown
  ignored,      \* history: a loss was ignored since the last attempt began
  unheard       \* history: a loss was reported to no listener since then

runVars  == <<pc, origin, old, failure>>
ctlVars  == <<transport, ready, error, recovering>>
tmrVars  == <<handle, armed>>
recVars  == <<inProgress, recent, reports>>
portVars == <<port, readers>>
hookVars == <<hooksDone, hooked>>
shutVars == <<shut, shutOld>>
envVars  == <<plugged, busy>>
history  == <<wasReady, overlap, ignored, unheard>>
vars     == <<runVars, ctlVars, tmrVars, recVars, portVars, hookVars, shutVars,
              started, envVars, inputs, history>>

Codes == {"NOT_FOUND", "PORT_BUSY", "LINK_LOST", "HOST_ERROR"}

Origins == {"startup", "manual", "timer", "reconnect"}

Init ==
  /\ pc = [k \in Slots |-> "free"]
  /\ origin = [k \in Slots |-> NoCode]
  /\ old = [k \in Slots |-> None]
  /\ failure = [k \in Slots |-> NoCode]
  /\ transport = None
  /\ ready = FALSE
  /\ error = NoCode
  /\ recovering = FALSE
  /\ handle = None
  /\ armed = {}
  /\ hooksDone = FALSE
  /\ inProgress = FALSE
  /\ recent = FALSE
  /\ port = [k \in Slots |-> "new"]
  /\ readers = [k \in Slots |-> 0]
  /\ hooked = {}
  /\ reports = {}
  /\ started = FALSE
  /\ shut = "no"
  /\ shutOld = None
  /\ plugged \in BOOLEAN
  /\ busy = FALSE
  /\ inputs = 0
  /\ wasReady = FALSE
  /\ overlap = FALSE
  /\ ignored = FALSE
  /\ unheard = FALSE

-----------------------------------------------------------------------------
\* Something happens outside the host's own threads.
Input ==
  /\ inputs < MaxInputs
  /\ inputs' = inputs + 1

InFlight == {k \in Slots : pc[k] # "free"}

\* A transport nothing refers to is garbage, and with it its port is closed.
Referenced(x) ==
  \/ x \in {transport, shutOld}
  \/ readers[x] > 0
  \/ \E k \in Slots : old[k] = x

Holders == {x \in Slots : port[x] = "open" /\ Referenced(x)}

PortFree == ~busy /\ Holders = {}

Unused(k) ==
  /\ pc[k] = "free"
  /\ ~Referenced(k)
  /\ k \notin armed \cup {handle}
  /\ \A r \in reports : r.of # k

Goto(k, from, to) ==
  /\ pc[k] = from
  /\ pc' = [pc EXCEPT ![k] = to]

\* An attempt comes into being, in the first unused slot.  Its transport is
\* created later; the slot's port and listeners are fresh from here on.
Begin(k, who) ==
  /\ Unused(k)
  /\ \A j \in Slots : Unused(j) => k <= j
  /\ pc' = [pc EXCEPT ![k] = IF who = "reconnect" THEN "release" ELSE "take"]
  /\ origin' = [origin EXCEPT ![k] = who]
  /\ port' = [port EXCEPT ![k] = "new"]
  /\ hooked' = hooked \ {k}
  /\ overlap' = (overlap \/ InFlight # {} \/ shut # "no")
  /\ ignored' = FALSE
  /\ unheard' = FALSE
  /\ UNCHANGED <<old, failure, readers, hooksDone, wasReady>>

-----------------------------------------------------------------------------
(* Who makes an attempt.                                                   *)

\* onStartup.
Startup(k) ==
  /\ ~started
  /\ started' = TRUE
  /\ Begin(k, "startup")
  /\ UNCHANGED <<ctlVars, tmrVars, recVars, shutVars, envVars, inputs>>

\* retry_gateway: cancel the timer, forget the recovery, try now.
RetryGateway(k) ==
  /\ Input
  /\ armed' = armed \ {handle}
  /\ handle' = None
  /\ recovering' = FALSE
  /\ Begin(k, "manual")
  /\ UNCHANGED <<transport, ready, error, recVars, shutVars, started, envVars>>

Fired(j) ==
  /\ j \in armed
  /\ armed' = armed \ {j}
  /\ handle' = IF handle = j THEN None ELSE handle

\* _fire.
TimerFires(j, k) ==
  /\ Fired(j)
  /\ shut = "no"
  /\ Begin(k, "timer")
  /\ UNCHANGED <<ctlVars, recVars, shutVars, started, envVars, inputs>>

TimerFiresTooLate(j) ==
  /\ Fired(j)
  /\ shut # "no"
  /\ UNCHANGED <<runVars, ctlVars, recVars, portVars, hookVars, shutVars,
                 started, envVars, inputs, history>>

-----------------------------------------------------------------------------
(* One attempt: discoverPort.                                              *)

\* The transport x is closed: its RX threads end, its port is released.
CloseTransport(x) ==
  /\ port' = [p \in Slots |-> IF p = x /\ port[p] = "open" THEN "closed"
                              ELSE port[p]]
  /\ readers' = [p \in Slots |-> IF p = x THEN 0 ELSE readers[p]]

\* The reconnect thread first closes self.transport itself ...
ReleaseOld(k) ==
  /\ Goto(k, "release", "drop")
  /\ CloseTransport(transport)
  /\ UNCHANGED <<origin, old, failure, ctlVars, tmrVars, recVars, hookVars,
                 shutVars, started, envVars, inputs, history>>

\* ... and then drops whatever self.transport is by now.
DropOld(k) ==
  /\ Goto(k, "drop", "close")
  /\ transport' = None
  /\ UNCHANGED <<origin, old, failure, ready, error, recovering, tmrVars,
                 recVars, portVars, hookVars, shutVars, started, envVars,
                 inputs, history>>

\* old_transport = self.transport; self.transport = None.
TakeOld(k) ==
  /\ Goto(k, "take", "close")
  /\ old' = [old EXCEPT ![k] = transport]
  /\ transport' = None
  /\ UNCHANGED <<origin, failure, ready, error, recovering, tmrVars, recVars,
                 portVars, hookVars, shutVars, started, envVars, inputs,
                 history>>

\* Mutant of CloseAndCreate: the old transport is only forgotten.
CreateOnly(k) ==
  /\ Goto(k, "close", "open")
  /\ old' = [old EXCEPT ![k] = None]
  /\ hooksDone' = FALSE
  /\ transport' = k
  /\ UNCHANGED <<origin, failure, ready, error, recovering, tmrVars, recVars,
                 portVars, hooked, shutVars, started, envVars, inputs,
                 history>>

\* Mutant of CloseAndCreate: the new transport counts as hooked.
CreateHooked(k) ==
  /\ Goto(k, "close", "open")
  /\ CloseTransport(old[k])
  /\ old' = [old EXCEPT ![k] = None]
  /\ transport' = k
  /\ UNCHANGED <<origin, failure, ready, error, recovering, tmrVars, recVars,
                 hookVars, shutVars, started, envVars, inputs, history>>

\* Close the old transport and create a new one.
CloseAndCreate(k) ==
  /\ Goto(k, "close", "open")
  /\ CloseTransport(old[k])
  /\ old' = [old EXCEPT ![k] = None]
  /\ hooksDone' = FALSE
  /\ transport' = k
  /\ UNCHANGED <<origin, failure, ready, error, recovering, tmrVars, recVars,
                 hooked, shutVars, started, envVars, inputs, history>>

Fail(k, from, code) ==
  /\ Goto(k, from, "record")
  /\ failure' = [failure EXCEPT ![k] = code]

\* discover_and_open finds and opens the gateway's port.
OpenSucceeds(k) ==
  /\ Goto(k, "open", "start")
  /\ plugged /\ PortFree
  /\ port' = [port EXCEPT ![k] = "open"]
  /\ UNCHANGED <<origin, old, failure, ctlVars, tmrVars, recVars, readers,
                 hookVars, shutVars, started, envVars, inputs, history>>

\* The code discover_and_open's failure is recorded with.  Discovery sees a
\* locked port and asks self.transport, by then, whether there was one; a
\* configured port raises, and a missing one is no known kind of error.
OpenFailures(k) ==
  LET locked == plugged /\ ~PortFree IN
  IF Configured
  THEN {IF locked THEN "PORT_BUSY" ELSE "HOST_ERROR"}
  ELSE CASE transport = k    -> {IF locked THEN "PORT_BUSY" ELSE "NOT_FOUND"}
         [] transport = None -> {"NOT_FOUND"}
         [] OTHER            -> {"PORT_BUSY", "NOT_FOUND"}

OpenFails(k) ==
  /\ ~plugged \/ ~PortFree
  /\ \E code \in OpenFailures(k) : Fail(k, "open", code)
  /\ UNCHANGED <<origin, old, ctlVars, tmrVars, recVars, portVars, hookVars,
                 shutVars, started, envVars, inputs, history>>

\* self.transport.start() on an open transport.
StartReader(k) ==
  /\ Goto(k, "start", "ready")
  /\ transport # None
  /\ port[transport] = "open"
  /\ readers' = [readers EXCEPT ![transport] = @ + 1]
  /\ UNCHANGED <<origin, old, failure, ctlVars, tmrVars, recVars, port,
                 hookVars, shutVars, started, envVars, inputs, history>>

\* start() on a transport another thread has closed opens it again.
ReopenAndStart(k) ==
  /\ Goto(k, "start", "ready")
  /\ transport # None
  /\ port[transport] # "open"
  /\ port[transport] = "closed" \/ Configured
  /\ plugged /\ PortFree
  /\ port' = [port EXCEPT ![transport] = "open"]
  /\ readers' = [readers EXCEPT ![transport] = @ + 1]
  /\ UNCHANGED <<origin, old, failure, ctlVars, tmrVars, recVars, hookVars,
                 shutVars, started, envVars, inputs, history>>

\* start() raises: there is no transport, it has no port, or opening fails.
StartFails(k) ==
  /\ \/ transport = None
     \/ transport # None /\ port[transport] = "new" /\ ~Configured
     \/ /\ transport # None /\ port[transport] # "open"
        /\ ~plugged \/ ~PortFree
  /\ Fail(k, "start",
          IF /\ transport # None
             /\ port[transport] = "closed" \/ Configured
             /\ plugged
          THEN "PORT_BUSY" ELSE "HOST_ERROR")
  /\ UNCHANGED <<origin, old, ctlVars, tmrVars, recVars, portVars, hookVars,
                 shutVars, started, envVars, inputs, history>>

MarkReady(k) ==
  /\ Goto(k, "ready", "clear")
  /\ ready' = TRUE
  /\ recovering' = FALSE
  /\ wasReady' = TRUE
  /\ UNCHANGED <<origin, old, failure, transport, error, tmrVars, recVars,
                 portVars, hookVars, shutVars, started, envVars, inputs,
                 overlap, ignored, unheard>>

\* _clear_gateway_error.
ClearError(k) ==
  /\ Goto(k, "clear", "hook")
  /\ error' = NoCode
  /\ armed' = armed \ {handle}
  /\ handle' = None
  /\ UNCHANGED <<origin, old, failure, transport, ready, recovering, recVars,
                 portVars, hookVars, shutVars, started, envVars, inputs,
                 history>>

\* install_transport_hooks.
InstallHooks ==
  IF hooksDone \/ transport = None
  THEN UNCHANGED hookVars
  ELSE /\ hooked' = hooked \cup {transport}
       /\ hooksDone' = TRUE

\* The listeners are installed and the port's name is logged, which raises
\* when the transport has gone.
HookTransport(k) ==
  /\ InstallHooks
  /\ IF transport = None THEN Fail(k, "hook", "HOST_ERROR")
     ELSE Goto(k, "hook", "end") /\ UNCHANGED failure
  /\ UNCHANGED <<origin, old, ctlVars, tmrVars, recVars, portVars, shutVars,
                 started, envVars, inputs, history>>

Resolved(code) ==
  IF code = "NOT_FOUND" /\ recovering THEN "LINK_LOST" ELSE code

Retried == {"PORT_BUSY", "LINK_LOST"}

\* Mutant of RecordError: a missing gateway stays NOT_FOUND.
RecordErrorPlain(k) ==
  LET code == failure[k] IN
  /\ Goto(k, "record",
          IF code \in Retried /\ shut = "no" THEN "cancel" ELSE "end")
  /\ ready' = FALSE
  /\ error' = code
  /\ failure' = [failure EXCEPT ![k] = NoCode]
  /\ UNCHANGED <<origin, old, transport, recovering, tmrVars, recVars,
                 portVars, hookVars, shutVars, started, envVars, inputs,
                 history>>

\* _record_gateway_error, up to the decision to retry.
RecordError(k) ==
  LET code == Resolved(failure[k]) IN
  /\ Goto(k, "record",
          IF code \in Retried /\ shut = "no" THEN "cancel" ELSE "end")
  /\ ready' = FALSE
  /\ error' = code
  /\ failure' = [failure EXCEPT ![k] = NoCode]
  /\ UNCHANGED <<origin, old, transport, recovering, tmrVars, recVars,
                 portVars, hookVars, shutVars, started, envVars, inputs,
                 history>>

\* Mutant of CancelTimer: the handle is dropped, its timer goes on.
CancelTimerHandle(k) ==
  /\ Goto(k, "cancel", "arm")
  /\ handle' = None
  /\ UNCHANGED <<origin, old, failure, ctlVars, armed, recVars, portVars,
                 hookVars, shutVars, started, envVars, inputs, history>>

\* _schedule_gateway_retry: cancel the timer there is ...
CancelTimer(k) ==
  /\ Goto(k, "cancel", "arm")
  /\ armed' = armed \ {handle}
  /\ handle' = None
  /\ UNCHANGED <<origin, old, failure, ctlVars, recVars, portVars, hookVars,
                 shutVars, started, envVars, inputs, history>>

\* Mutant of ArmTimer: the timer is created and not started.
ArmTimerUnstarted(k) ==
  /\ Goto(k, "arm", "end")
  /\ handle' = k
  /\ UNCHANGED <<origin, old, failure, ctlVars, armed, recVars, portVars,
                 hookVars, shutVars, started, envVars, inputs, history>>

\* ... and start another.
ArmTimer(k) ==
  /\ Goto(k, "arm", "end")
  /\ armed' = armed \cup {k}
  /\ handle' = k
  /\ UNCHANGED <<origin, old, failure, ctlVars, recVars, portVars, hookVars,
                 shutVars, started, envVars, inputs, history>>

\* Mutant of EndAttempt: a failed reconnect stays in progress.
EndAttemptIfReady(k) ==
  /\ Goto(k, "end", "free")
  /\ origin' = [origin EXCEPT ![k] = NoCode]
  /\ inProgress' = IF origin[k] = "reconnect" /\ ready THEN FALSE
                   ELSE inProgress
  /\ UNCHANGED <<old, failure, ctlVars, tmrVars, recent, reports, portVars,
                 hookVars, shutVars, started, envVars, inputs, history>>

\* discoverPort returns; the reconnect thread's "finally".
EndAttempt(k) ==
  /\ Goto(k, "end", "free")
  /\ origin' = [origin EXCEPT ![k] = NoCode]
  /\ inProgress' = IF origin[k] = "reconnect" THEN FALSE ELSE inProgress
  /\ UNCHANGED <<old, failure, ctlVars, tmrVars, recent, reports, portVars,
                 hookVars, shutVars, started, envVars, inputs, history>>

-----------------------------------------------------------------------------
(* A loss is reported: EV_ERROR, on_transport_event, schedule_reconnect.   *)

\* The part of _handle_disconnect up to schedule_reconnect's early return.
\* "gateway" is an EV_ERROR frame of the gateway itself, which the RX thread
\* dispatches.  A thread makes one report at a time.
Report(x, by) ==
  LET heard  == x \in hooked
      spawns == heard /\ ~inProgress /\ ~recent
  IN
  /\ \A r \in reports : r.of = x => (r.by = "sender") # (by = "sender")
  /\ ready' = (ready /\ ~heard)
  /\ unheard' = (unheard \/ ~heard)
  /\ ignored' = (ignored \/ (heard /\ ~spawns))
  /\ reports' = reports \cup
       {[of |-> x, by |-> by, at |-> IF spawns THEN "schedule" ELSE "finish"]}
  /\ UNCHANGED <<runVars, transport, error, recovering, tmrVars, inProgress,
                 recent, portVars, hookVars, shutVars, started, envVars,
                 wasReady, overlap>>

\* _reader: reading raises.
ReaderReports(x) ==
  /\ readers[x] > 0
  /\ port[x] = "open"
  /\ ~plugged
  /\ Report(x, "reader")
  /\ UNCHANGED inputs

\* _send_m2n: writing raises, also on a transport that never was open.
SenderReports(x) ==
  /\ x = transport
  /\ ~plugged \/ port[x] # "open"
  /\ Report(x, "sender")
  /\ Input

\* An EV_ERROR frame is dispatched.
GatewayReports(x) ==
  /\ readers[x] > 0
  /\ port[x] = "open"
  /\ plugged
  /\ Report(x, "gateway")
  /\ Input

\* schedule_reconnect after its early return: spawn the reconnect thread.
ScheduleReconnect(r, k) ==
  /\ r \in reports /\ r.at = "schedule"
  /\ reports' = (reports \ {r}) \cup {[r EXCEPT !.at = "finish"]}
  /\ recent' = TRUE
  /\ inProgress' = TRUE
  /\ recovering' = TRUE
  /\ Begin(k, "reconnect")
  /\ UNCHANGED <<transport, ready, error, tmrVars, shutVars, started,
                 envVars, inputs>>

\* The rest of _handle_disconnect: close the port; a reader that reported
\* its own loss ends.
FinishDisconnect(r) ==
  LET x == r.of IN
  /\ r \in reports /\ r.at = "finish"
  /\ reports' = reports \ {r}
  /\ port' = IF r.by # "gateway" /\ port[x] = "open"
             THEN [port EXCEPT ![x] = "closed"] ELSE port
  /\ readers' = IF r.by = "reader" /\ readers[x] > 0
                THEN [readers EXCEPT ![x] = @ - 1] ELSE readers
  /\ UNCHANGED <<runVars, ctlVars, tmrVars, inProgress, recent, hookVars,
                 shutVars, started, envVars, inputs, history>>

\* Mutant of ReaderStops: a thread that has ended ends again.
ReaderStopsAgain(x) ==
  /\ port[x] # "open"
  /\ \A r \in reports : r.of = x => r.by = "sender"
  /\ readers' = [readers EXCEPT ![x] = @ - 1]
  /\ UNCHANGED <<runVars, ctlVars, tmrVars, recVars, port, hookVars,
                 shutVars, started, envVars, inputs, history>>

\* _reader sees _stop after another thread has handled the disconnect.
ReaderStops(x) ==
  /\ readers[x] > 0
  /\ port[x] # "open"
  /\ \A r \in reports : r.of = x => r.by = "sender"
  /\ readers' = [readers EXCEPT ![x] = @ - 1]
  /\ UNCHANGED <<runVars, ctlVars, tmrVars, recVars, port, hookVars,
                 shutVars, started, envVars, inputs, history>>

\* A thread about to send a request installs the listeners first.
SenderInstallsHooks ==
  /\ ~hooksDone /\ transport # None
  /\ InstallHooks
  /\ UNCHANGED <<runVars, ctlVars, tmrVars, recVars, portVars, shutVars,
                 started, envVars, inputs, history>>

FiveSecondsPass ==
  /\ recent
  /\ recent' = FALSE
  /\ UNCHANGED <<runVars, ctlVars, tmrVars, inProgress, reports, portVars,
                 hookVars, shutVars, started, envVars, inputs, history>>

-----------------------------------------------------------------------------
(* shutdown().                                                             *)

ShutdownBegins ==
  /\ shut = "no"
  /\ shut' = "flagged"
  /\ overlap' = (overlap \/ InFlight # {} \/ reports # {})
  /\ UNCHANGED <<runVars, ctlVars, tmrVars, recVars, portVars, hookVars,
                 shutOld, started, envVars, inputs, wasReady, ignored,
                 unheard>>

\* Mutant of ShutdownTakes: the timer stays armed.
ShutdownKeepsTimer ==
  /\ shut = "flagged"
  /\ shut' = "taken"
  /\ shutOld' = transport
  /\ transport' = None
  /\ UNCHANGED <<runVars, ready, error, recovering, tmrVars, recVars,
                 portVars, hookVars, started, envVars, inputs, history>>

\* Cancel the timer and take the transport.
ShutdownTakes ==
  /\ shut = "flagged"
  /\ shut' = "taken"
  /\ armed' = armed \ {handle}
  /\ handle' = None
  /\ shutOld' = transport
  /\ transport' = None
  /\ UNCHANGED <<runVars, ready, error, recovering, recVars, portVars,
                 hookVars, started, envVars, inputs, history>>

\* Close it; the state is saved; "self.ready = False".
ShutdownCloses ==
  /\ shut = "taken"
  /\ shut' = "done"
  /\ CloseTransport(shutOld)
  /\ shutOld' = None
  /\ ready' = FALSE
  /\ UNCHANGED <<runVars, transport, error, recovering, tmrVars, recVars,
                 hookVars, started, envVars, inputs, history>>

-----------------------------------------------------------------------------
(* The gateway's USB cable and other processes (external).                 *)

Replug ==
  /\ Input
  /\ plugged' = ~plugged
  /\ UNCHANGED <<runVars, ctlVars, tmrVars, recVars, portVars, hookVars,
                 shutVars, started, busy, history>>

OtherProcess ==
  /\ Input
  /\ busy \/ (plugged /\ PortFree)
  /\ busy' = ~busy
  /\ UNCHANGED <<runVars, ctlVars, tmrVars, recVars, portVars, hookVars,
                 shutVars, started, plugged, history>>

-----------------------------------------------------------------------------
AttemptStep(k) ==
  \/ ReleaseOld(k) \/ DropOld(k) \/ TakeOld(k) \/ CloseAndCreate(k)
  \/ OpenSucceeds(k) \/ OpenFails(k)
  \/ StartReader(k) \/ ReopenAndStart(k) \/ StartFails(k)
  \/ MarkReady(k) \/ ClearError(k) \/ HookTransport(k)
  \/ RecordError(k) \/ CancelTimer(k) \/ ArmTimer(k) \/ EndAttempt(k)

TimerStep == \E j \in Slots :
  TimerFiresTooLate(j) \/ \E k \in Slots : TimerFires(j, k)

ReportStep == \E r \in reports :
  FinishDisconnect(r) \/ \E k \in Slots : ScheduleReconnect(r, k)

ReaderStep(x) == ReaderReports(x) \/ ReaderStops(x)

ShutdownStep == ShutdownTakes \/ ShutdownCloses

Next ==
  \/ \E k \in Slots :
       \/ Startup(k) \/ RetryGateway(k) \/ AttemptStep(k)
       \/ ReaderStep(k) \/ SenderReports(k) \/ GatewayReports(k)
  \/ TimerStep \/ ReportStep \/ SenderInstallsHooks \/ FiveSecondsPass
  \/ ShutdownBegins \/ ShutdownStep
  \/ Replug \/ OtherProcess

Spec == Init /\ [][Next]_vars

\* Threads run, armed timers fire, time passes.  Nothing is assumed of
\* users, senders, the cable or other processes.
Fairness ==
  /\ \A k \in Slots : WF_vars(AttemptStep(k)) /\ WF_vars(ReaderStep(k))
  /\ WF_vars(TimerStep)
  /\ WF_vars(ReportStep)
  /\ WF_vars(FiveSecondsPass)
  /\ WF_vars(ShutdownStep)

FairSpec == Spec /\ Fairness

-----------------------------------------------------------------------------
(* Properties.                                                             *)

FlagsOK ==
  /\ ready \in BOOLEAN /\ recovering \in BOOLEAN /\ hooksDone \in BOOLEAN
  /\ inProgress \in BOOLEAN /\ recent \in BOOLEAN /\ started \in BOOLEAN
  /\ plugged \in BOOLEAN /\ busy \in BOOLEAN
  /\ wasReady \in BOOLEAN /\ overlap \in BOOLEAN
  /\ ignored \in BOOLEAN /\ unheard \in BOOLEAN

DataOK ==
  /\ pc \in [Slots -> {"free", "release", "drop", "take", "close", "open",
                       "start", "ready", "clear", "hook", "record", "cancel",
                       "arm", "end"}]
  /\ origin \in [Slots -> Origins \cup {NoCode}]
  /\ old \in [Slots -> Slots \cup {None}]
  /\ failure \in [Slots -> Codes \cup {NoCode}]
  /\ transport \in Slots \cup {None}
  /\ error \in Codes \cup {NoCode}
  /\ handle \in Slots \cup {None}
  /\ armed \in SUBSET Slots
  /\ port \in [Slots -> {"new", "open", "closed"}]
  /\ readers \in [Slots -> Nat]
  /\ hooked \in SUBSET Slots
  /\ reports \in SUBSET [of : Slots, by : {"reader", "sender", "gateway"},
                         at : {"schedule", "finish"}]
  /\ shut \in {"no", "flagged", "taken", "done"}
  /\ shutOld \in Slots \cup {None}
  /\ inputs \in 0..MaxInputs

TypeOK == FlagsOK /\ DataOK

\* _schedule_gateway_retry: only one timer is ever active, and it is the one
\* a retry by the user or shutdown() can cancel.
SingleTimer == armed \subseteq {handle}

CleanSingleTimer == ~overlap => SingleTimer

\* discoverPort: the previous transport is released before a new one is
\* built, so no transport fights another one for the port.
NoRivalTransports ==
  \A k \in Slots : pc[k] = "open" => Holders \subseteq {k}

CleanNoRivals == ~overlap => NoRivalTransports

Quiet == InFlight = {} /\ reports = {} /\ shut = "no"

\* When nothing is under way, "ready" is what it says: the transport's port
\* is open, one RX thread reads it, and its losses will be heard; unless a
\* loss was reported before the listeners were there or was ignored.
CleanReady ==
  ~overlap /\ Quiet /\ ready /\ ~unheard /\ ~ignored =>
    /\ transport \in hooked
    /\ port[transport] = "open"
    /\ readers[transport] = 1

\* When nothing is under way and the gateway is not ready, either a retry is
\* pending or the recorded error is one that is not retried.
RetryPending ==
  Quiet /\ started /\ ~ready =>
    armed # {} \/ error \in {"NOT_FOUND", "HOST_ERROR"}

\* The same for attempts that did not overlap and losses that were not
\* ignored because they came within five seconds or during a reconnect.
CleanRetryPending == ~overlap /\ ~ignored => RetryPending

\* Docstring of test_not_found_upgrades_to_link_lost_during_recovery: when
\* the cable was pulled, and the RX thread has noticed, the host keeps
\* polling until the gateway is back.
LossIsPolled ==
  ~overlap /\ ~plugged /\ (\A x \in Slots : readers[x] = 0) => RetryPending

\* Comment on _link_recovery_pending: LINK_LOST is said of a gateway that
\* was ready before.
LinkLostWasReady == error = "LINK_LOST" => wasReady

\* Docstring of shutdown(): it releases the serial transport.
ShutdownReleases == shut = "done" => Holders = {}

\* So it does, with the timer and the readiness, if no attempt overlaps it
\* or follows it.
CleanShutdown ==
  shut = "done" /\ ~overlap =>
    Holders = {} /\ armed = {} /\ ~ready /\ \A x \in Slots : readers[x] = 0

\* Losses are ignored on account of a reconnect in progress only while there
\* is one, however attempts overlap.
ReconnectOwned ==
  inProgress => \E k \in Slots : origin[k] = "reconnect"

\* A reconnect that is in progress comes to an end; otherwise no later loss
\* would be handled.
ReconnectEnds == inProgress ~> ~inProgress

\* Once a loss has been noticed and the gateway is back for good, it becomes
\* ready, unless the user retries or shutdown() is called.
LossRecovers ==
  <>[](plugged /\ ~busy) => (recovering ~> (~recovering \/ shut # "no"))
=============================================================================
