---------------------------- MODULE GatewaySend -----------------------------
(***************************************************************************)
(* The synchronous send path of GatewaySerialTransport: threads that call  *)
(* _send_m2n, the RX reader thread that hands them the gateway's outcome   *)
(* events, and the loss or closing of the USB link under both.             *)
(*                                                                         *)
(* _tx_lock is modelled explicitly.  Condition.wait_for releases it while  *)
(* a sender waits, so a second sender can register and write before the    *)
(* first has its outcome; pending is a single slot all of them share.      *)
(*                                                                         *)
(* The gateway firmware is external: it holds one frame at a time, rejects *)
(* or transmits what it is sent, transmits auto-sync frames of its own and *)
(* may report an error or stay silent.  Time is abstracted: a waiting call *)
(* may time out at any moment, which covers every real delay.              *)
(***************************************************************************)
EXTENDS Integers, Sequences

CONSTANTS
  Senders,     \* threads that call _send_m2n
  MaxSends,    \* bound: calls each thread makes
  MaxNoise     \* bound: auto-sync frames, EV_ERRORs and dropped frames

Nobody == "nobody"

ASSUME SendAssumption ==
  /\ {Nobody, "gateway"} \cap Senders = {}
  /\ MaxSends \in Nat
  /\ MaxNoise \in Nat

VARIABLES
  txLock,       \* holder of _tx_lock, or Nobody
  pc,           \* where each sender is in _send_m2n
  calls,        \* calls each sender has started; numbers its frames
  slot,         \* outcome_slot[0] of each sender's current or last call
  pending,      \* owner of _pending_send_outcome, or Nobody (None)
  link,         \* the port: "open", "closing" (_stop set by close()),
                \* "closed", or "lost" (_handle_disconnect has run)
  reader,       \* the RX thread: "running" or "exited"
  cable,        \* is the USB cable plugged in?
  toGateway,    \* frames written and not yet taken by the gateway
  gwTx,         \* the frame the gateway is transmitting: {} or {f}
  fromGateway,  \* outcome events the reader has not dispatched
  aired,        \* frames whose transmission the gateway has completed
  noise,        \* how much of MaxNoise has been used
  mishaps       \* history: what has happened that can misdirect an outcome

hostVars    == <<txLock, pc, calls, slot, pending>>
linkVars    == <<link, reader, cable>>
gatewayVars == <<toGateway, gwTx, fromGateway, aired, noise>>
vars        == <<hostVars, linkVars, gatewayVars, mishaps>>

Codes == {"SUCCESS", "REJECTED", "TIMEOUT", "USB_ERROR"}

AutoFrame == <<"gateway", 0>>     \* a frame of the gateway's own auto-sync
NoFrame   == <<Nobody, 0>>        \* "about no frame"

Frame(t) == <<t, calls[t]>>       \* the frame of t's current or last call

Frames  == Senders \X (0..MaxSends)
Origins == Frames \cup {AutoFrame, NoFrame}
Events  == [kind : {"TX_DONE", "TX_REJECTED", "EV_ERROR"}, of : Origins]

\* outcome_slot[0]: Empty is Python's None; "of" records, for the
\* properties only, which frame the event behind the outcome was about.
Empty    == [code |-> "None", of |-> NoFrame]
Outcomes == [code : Codes, of : Origins]

Kinds == {"overlap", "timeout", "autosync", "error"}

Init ==
  /\ txLock = Nobody
  /\ pc = [t \in Senders |-> "idle"]
  /\ calls = [t \in Senders |-> 0]
  /\ slot = [t \in Senders |-> Empty]
  /\ pending = Nobody
  /\ link = "open"
  /\ reader = "running"
  /\ cable = TRUE
  /\ toGateway = <<>>
  /\ gwTx = {}
  /\ fromGateway = <<>>
  /\ aired = {}
  /\ noise = 0
  /\ mishaps = {}

-----------------------------------------------------------------------------
(* Sender threads: _send_m2n.                                              *)

Transition(t, from, to) ==
  /\ pc[t] = from
  /\ pc' = [pc EXCEPT ![t] = to]

PortOpen == link \in {"open", "closing"}

\* "with self._tx_outcome_cv": register the fresh slot before writing.
Register(t) ==
  /\ Transition(t, "idle", "registered")
  /\ calls[t] < MaxSends
  /\ txLock = Nobody
  /\ txLock' = t
  /\ calls' = [calls EXCEPT ![t] = @ + 1]
  /\ slot' = [slot EXCEPT ![t] = Empty]
  /\ pending' = t
  /\ mishaps' = IF \E u \in Senders : pc[u] = "waiting"
                THEN mishaps \cup {"overlap"} ELSE mishaps
  /\ UNCHANGED <<linkVars, gatewayVars>>

\* ser.write succeeds and wait_for releases the lock.  With the cable out
\* the driver may still accept a frame that then goes nowhere.
WriteFrame(t) ==
  /\ Transition(t, "registered", "waiting")
  /\ PortOpen
  /\ toGateway' = IF cable THEN Append(toGateway, Frame(t)) ELSE toGateway
  /\ txLock' = Nobody
  /\ UNCHANGED <<calls, slot, pending, linkVars, gwTx, fromGateway, aired,
                 noise, mishaps>>

\* Mutant of WriteRaises: the failed call stays registered.
WriteRaisesRegistered(t) ==
  /\ Transition(t, "registered", "broken")
  /\ ~PortOpen \/ ~cable
  /\ slot' = [slot EXCEPT ![t] = [code |-> "USB_ERROR", of |-> NoFrame]]
  /\ txLock' = Nobody
  /\ UNCHANGED <<calls, pending, linkVars, gatewayVars, mishaps>>

\* ser.write raises SerialException: answer locally and deregister.
WriteRaises(t) ==
  /\ Transition(t, "registered", "broken")
  /\ ~PortOpen \/ ~cable
  /\ slot' = [slot EXCEPT ![t] = [code |-> "USB_ERROR", of |-> NoFrame]]
  /\ pending' = Nobody
  /\ txLock' = Nobody
  /\ UNCHANGED <<calls, linkVars, gatewayVars, mishaps>>

\* _handle_disconnect, called by the failed sender once it left the lock.
ReportDisconnect(t) ==
  /\ Transition(t, "broken", "leaving")
  /\ link' = "lost"
  /\ UNCHANGED <<txLock, calls, slot, pending, reader, cable, gatewayVars,
                 mishaps>>

\* wait_for returns True: the slot is filled and the lock is reacquired.
Wake(t) ==
  /\ Transition(t, "waiting", "leaving")
  /\ txLock = Nobody
  /\ slot[t] # Empty
  /\ pending' = Nobody
  /\ UNCHANGED <<txLock, calls, slot, linkVars, gatewayVars, mishaps>>

\* Mutant of TimeOut: only the registered sender has a deadline.
TimeOutIfRegistered(t) ==
  /\ Transition(t, "waiting", "leaving")
  /\ txLock = Nobody
  /\ slot[t] = Empty
  /\ pending = t
  /\ slot' = [slot EXCEPT ![t] = [code |-> "TIMEOUT", of |-> NoFrame]]
  /\ pending' = Nobody
  /\ mishaps' = mishaps \cup {"timeout"}
  /\ UNCHANGED <<txLock, calls, linkVars, gatewayVars>>

\* wait_for returns False after SEND_OUTCOME_TIMEOUT_S.
TimeOut(t) ==
  /\ Transition(t, "waiting", "leaving")
  /\ txLock = Nobody
  /\ slot[t] = Empty
  /\ slot' = [slot EXCEPT ![t] = [code |-> "TIMEOUT", of |-> NoFrame]]
  /\ pending' = Nobody
  /\ mishaps' = mishaps \cup {"timeout"}
  /\ UNCHANGED <<txLock, calls, linkVars, gatewayVars>>

\* The TX_M2N and TX_OUTCOME listeners are told and the outcome returned.
Return(t) ==
  /\ Transition(t, "leaving", "idle")
  /\ UNCHANGED <<txLock, calls, slot, pending, linkVars, gatewayVars, mishaps>>

\* send_state_request by any thread: its write raises inside the lock.
StateRequestRaises ==
  /\ txLock = Nobody
  /\ ~PortOpen \/ ~cable
  /\ link' = "lost"
  /\ UNCHANGED <<hostVars, reader, cable, gatewayVars, mishaps>>

-----------------------------------------------------------------------------
(* The RX reader thread.                                                   *)

\* Mutant of CodeOf: the name of the event leaks into the outcome.
CodeOfLeaks(ev) == ev.kind

\* Mutant of CodeOf: a frame is done when it was answered.
CodeOfAnyAnswer(ev) == IF ev.kind = "EV_ERROR" THEN "USB_ERROR" ELSE "SUCCESS"

CodeOf(ev) == CASE ev.kind = "TX_DONE"     -> "SUCCESS"
                [] ev.kind = "TX_REJECTED" -> "REJECTED"
                [] OTHER                   -> "USB_ERROR"

\* Mutant of FulfillPendingOutcome: a later event replaces the outcome.
FulfillOverwrites(ev) ==
  slot' = [t \in Senders |->
             IF t = pending
             THEN [code |-> CodeOf(ev), of |-> ev.of]
             ELSE slot[t]]

\* _fulfill_pending_outcome: an event nobody is registered for is dropped,
\* a slot that already holds an outcome keeps it.
FulfillPendingOutcome(ev) ==
  slot' = [t \in Senders |->
             IF t = pending /\ slot[t] = Empty
             THEN [code |-> CodeOf(ev), of |-> ev.of]
             ELSE slot[t]]

\* _handle_frame for an outcome event; needs the lock for the slot.  The
\* reader looks at _stop only between reads, so what it has already read
\* is dispatched even after the link was closed.
HandleFrame ==
  /\ reader = "running"
  /\ fromGateway # <<>>
  /\ txLock = Nobody
  /\ FulfillPendingOutcome(Head(fromGateway))
  /\ fromGateway' = Tail(fromGateway)
  /\ UNCHANGED <<txLock, pc, calls, pending, linkVars, toGateway, gwTx,
                 aired, noise, mishaps>>

\* Mutant of ReadRaises: the reader ends without handling the disconnect.
ReadRaisesSilently ==
  /\ reader = "running"
  /\ ~PortOpen \/ ~cable
  /\ reader' = "exited"
  /\ UNCHANGED <<hostVars, link, cable, gatewayVars, mishaps>>

\* ser.read raises: _handle_disconnect, then leave the loop.
ReadRaises ==
  /\ reader = "running"
  /\ ~PortOpen \/ ~cable
  /\ reader' = "exited"
  /\ link' = "lost"
  /\ UNCHANGED <<hostVars, cable, gatewayVars, mishaps>>

\* The loop condition sees _stop.
ReaderStops ==
  /\ reader = "running"
  /\ link # "open"
  /\ reader' = "exited"
  /\ UNCHANGED <<hostVars, link, cable, gatewayVars, mishaps>>

-----------------------------------------------------------------------------
(* close() by another thread, and the cable.                               *)

CloseBegin ==
  /\ link = "open"
  /\ link' = "closing"
  /\ UNCHANGED <<hostVars, reader, cable, gatewayVars, mishaps>>

\* The reader was joined, or the one-second join gave up on it.
ClosePort ==
  /\ link = "closing"
  /\ link' = "closed"
  /\ UNCHANGED <<hostVars, reader, cable, gatewayVars, mishaps>>

Unplug ==
  /\ cable
  /\ cable' = FALSE
  /\ UNCHANGED <<hostVars, link, reader, gatewayVars, mishaps>>

-----------------------------------------------------------------------------
(* The gateway firmware (external).                                        *)

Emit(kind, f) ==
  fromGateway' = Append(fromGateway, [kind |-> kind, of |-> f])

GatewayAccepts ==
  /\ cable /\ toGateway # <<>> /\ gwTx = {}
  /\ gwTx' = {Head(toGateway)}
  /\ toGateway' = Tail(toGateway)
  /\ UNCHANGED <<hostVars, linkVars, fromGateway, aired, noise, mishaps>>

\* TXPENDING while it transmits; OVERSIZE and ZEROLEN at any time.
GatewayRejects ==
  /\ cable /\ toGateway # <<>>
  /\ Emit("TX_REJECTED", Head(toGateway))
  /\ toGateway' = Tail(toGateway)
  /\ UNCHANGED <<hostVars, linkVars, gwTx, aired, noise, mishaps>>

GatewayFinishes ==
  /\ cable
  /\ \E f \in gwTx : Emit("TX_DONE", f) /\ aired' = aired \cup {f}
  /\ gwTx' = {}
  /\ UNCHANGED <<hostVars, linkVars, toGateway, noise, mishaps>>

GatewayAutoSync ==
  /\ cable /\ gwTx = {} /\ noise < MaxNoise
  /\ gwTx' = {AutoFrame}
  /\ noise' = noise + 1
  /\ mishaps' = mishaps \cup {"autosync"}
  /\ UNCHANGED <<hostVars, linkVars, toGateway, fromGateway, aired>>

GatewayError ==
  /\ cable /\ noise < MaxNoise
  /\ Emit("EV_ERROR", NoFrame)
  /\ noise' = noise + 1
  /\ mishaps' = mishaps \cup {"error"}
  /\ UNCHANGED <<hostVars, linkVars, toGateway, gwTx, aired>>

\* A stalled gateway: a frame is taken and never answered.
GatewayStalls ==
  /\ cable /\ toGateway # <<>> /\ noise < MaxNoise
  /\ toGateway' = Tail(toGateway)
  /\ noise' = noise + 1
  /\ UNCHANGED <<hostVars, linkVars, gwTx, fromGateway, aired, mishaps>>

-----------------------------------------------------------------------------
Sender(t) ==
  \/ Register(t) \/ WriteFrame(t) \/ WriteRaises(t) \/ ReportDisconnect(t)
  \/ Wake(t) \/ TimeOut(t) \/ Return(t)

Reader == HandleFrame \/ ReadRaises \/ ReaderStops

Gateway ==
  \/ GatewayAccepts \/ GatewayRejects \/ GatewayFinishes
  \/ GatewayAutoSync \/ GatewayError \/ GatewayStalls

Host == StateRequestRaises \/ CloseBegin \/ ClosePort

Next == (\E t \in Senders : Sender(t)) \/ Reader \/ Gateway \/ Host \/ Unplug

Spec == Init /\ [][Next]_vars

\* Threads that can run do run: the operating system schedules the senders
\* and the reader, and a started close() completes.  Nothing is assumed of
\* the gateway, of the cable, or of callers making another call.
Progress(t) ==
  \/ WriteFrame(t) \/ WriteRaises(t) \/ ReportDisconnect(t)
  \/ Wake(t) \/ TimeOut(t) \/ Return(t)

Fairness ==
  /\ \A t \in Senders : WF_vars(Progress(t))
  /\ WF_vars(Reader)
  /\ WF_vars(ClosePort)

FairSpec == Spec /\ Fairness

-----------------------------------------------------------------------------
(* Properties.                                                             *)

TypeOK ==
  /\ txLock \in Senders \cup {Nobody}
  /\ pc \in [Senders -> {"idle", "registered", "waiting", "broken", "leaving"}]
  /\ calls \in [Senders -> 0..MaxSends]
  /\ slot \in [Senders -> Outcomes \cup {Empty}]
  /\ pending \in Senders \cup {Nobody}
  /\ link \in {"open", "closing", "closed", "lost"}
  /\ reader \in {"running", "exited"}
  /\ cable \in BOOLEAN
  /\ toGateway \in Seq(Frames)
  /\ gwTx \in SUBSET (Frames \cup {AutoFrame})
  /\ fromGateway \in Seq(Events)
  /\ aired \in SUBSET (Frames \cup {AutoFrame})
  /\ noise \in 0..MaxNoise
  /\ mishaps \in SUBSET Kinds

\* An outcome event is only ever written into the slot of a call that is
\* still inside the critical section or waiting: every exit path of
\* _send_m2n takes its registration back, also when a second sender had
\* replaced it meanwhile.
NoStaleRegistration ==
  pending # Nobody =>
    /\ pc[pending] \in {"registered", "waiting"}
    /\ pc[pending] = "registered" => slot[pending] = Empty

Answered(t) == slot[t].code \in {"SUCCESS", "REJECTED"}

OwnOutcome(t) ==
  /\ slot[t].of = Frame(t)
  /\ slot[t].code = "SUCCESS" => Frame(t) \in aired

\* The outcome contract of _send_m2n as long as nothing has gone wrong: no
\* two calls have overlapped, none has timed out, the gateway has sent
\* neither auto-sync frames nor errors.  Then SUCCESS and REJECTED are about
\* the caller's own frame, and SUCCESS means it went on air.
CleanAttribution ==
  mishaps = {} => \A t \in Senders : Answered(t) => OwnOutcome(t)

\* Comment on _tx_lock: with it, no NACK or TX_DONE lands in the wrong slot
\* when threads write back-to-back.
OverlapAttribution ==
  mishaps \subseteq {"overlap"} =>
    \A t \in Senders : Answered(t) => OwnOutcome(t)

\* Comment on the slot: outcome events of the gateway's own auto-sync
\* transmissions are dropped, never given to a waiting sender.
AutoSyncAttribution ==
  mishaps \subseteq {"autosync"} =>
    \A t \in Senders : Answered(t) => OwnOutcome(t)

\* Docstring of _send_m2n: _tx_lock enforces a single in-flight send.
SingleInFlight ==
  \A t, u \in Senders : pc[t] = "waiting" /\ pc[u] = "waiting" => t = u

\* Comment in the EV_ERROR branch of _handle_frame: the disconnect path
\* arrives there too and surfaces USB_ERROR on any pending send, so a send
\* pending when the link is lost does not run into its timeout.
DisconnectAnswersWaiters ==
  [][\A t \in Senders :
       link = "lost" /\ slot[t] = Empty => slot'[t].code # "TIMEOUT"]_vars

\* A call of _send_m2n comes back, whatever becomes of the gateway, of the
\* cable or of the sender's registration: wait_for has a deadline.
EverySendReturns ==
  \A t \in Senders : pc[t] # "idle" ~> pc[t] = "idle"

\* A pulled cable is noticed without any send: the reader ends and the port
\* is given back to the operating system.
UnplugIsNoticed == ~cable ~> reader = "exited" /\ ~PortOpen

\* The promise to callers, with the slot protocol hidden.
CallState(t) ==
  IF pc[t] = "idle" THEN "idle"
  ELSE IF slot[t] = Empty THEN "open" ELSE slot[t].code

callStates == [t \in Senders |-> CallState(t)]

Contract == INSTANCE SendContract WITH call <- callStates

ImplementsContract == Contract!Spec
=============================================================================
