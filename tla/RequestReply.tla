---------------------------- MODULE RequestReply ----------------------------
(***************************************************************************)
(* Unicast request and reply in GatewayService: threads that send a        *)
(* request to a device and wait for its reply with retries, the registry   *)
(* of pending requests, and the RX reader thread that completes them and   *)
(* updates the device records: link state, the single pending expectation  *)
(* of the controller, and the host's mirror of the device's configuration. *)
(*                                                                         *)
(* A step of a thread is what it does under one lock, so the RX thread's   *)
(* handling of one event interleaves with the callers everywhere the code  *)
(* lets go of a lock: between completing a request and removing it, between*)
(* waking the caller and reading the stashed configuration, and between    *)
(* reading and clearing the expectation.                                   *)
(*                                                                         *)
(* The transport (see GatewaySend) is seen as: a frame is put on air or    *)
(* not, and the caller learns of it before its TX listener runs.  A device *)
(* (external) executes a request it hears and acknowledges it, refuses it, *)
(* or its reply is lost.  Time is abstracted: a wait may expire whenever   *)
(* its request has no reply yet.                                           *)
(***************************************************************************)
EXTENDS Integers, Sequences

CONSTANTS
  Callers,      \* threads that send requests
  Devices,      \* unicast receivers, all known to the device repository
  Ops,          \* opcodes whose response policy asks for a reply
  Values,       \* payloads of a request
  Waits,        \* the values of wait_for_ack callers use
  MaxAttempts,  \* UNICAST_MAX_ATTEMPTS
  MaxCalls,     \* bound: calls each thread makes
  MaxStates     \* bound: gateway state events

CONFIG    == "CONFIG"      \* OPC_CONFIG: its ACK updates the mirror
SET_GROUP == "SET_GROUP"   \* OPC_SET_GROUP: giving up marks offline

ASSUME RequestAssumption ==
  /\ Waits \subseteq BOOLEAN
  /\ Devices # {} /\ Ops # {} /\ Values # {}
  /\ MaxAttempts \in Nat \ {0}
  /\ MaxCalls \in Nat
  /\ MaxStates \in Nat

VARIABLES
  pc,          \* where each caller is
  calls,       \* calls each caller has begun
  tries,       \* attempts of each caller's current call
  cur,         \* the request of each caller's current or last attempt
  issued,      \* number of requests created: gives each its identity
  registry,    \* PendingRequestRegistry: requests waiting for a reply
  completed,   \* requests whose done event is set, each with its reply,
               \* as long as their caller or the RX thread knows them
  inbox,       \* events from the gateway the RX thread has not taken
  rxAt,        \* where the RX thread is in handling an event
  rxEvent,     \* the request the handled reply is about: {} or {r}
  rxOk,        \* the ack_status of the handled reply is 0
  rxMatch,     \* candidate of try_match: {} or {r}
  rxExpect,    \* snapshot of the expectation: {} or {r}
  gwState,     \* gateway_state_byte, mirrored: is it RX_WINDOW?
  expect,      \* _pending_expect: {} (None) or {r}
  link,        \* link_online of each device record
  stash,       \* _pending_config of each device: {} or {value}
  mirror,      \* the host's copy of each device's configuration
  config,      \* the configuration each device really has
  states,      \* gateway state events so far
  answered,    \* history: device and opcode pairs that have had a reply
  mishaps      \* history: what has happened that can misdirect a reply

callerVars == <<pc, calls, tries, cur, issued>>
rxVars     == <<rxAt, rxEvent, rxOk, rxMatch, rxExpect, gwState>>
devVars    == <<link, stash, mirror>>
extVars    == <<inbox, config, states, answered>>
vars       == <<callerVars, rxVars, devVars, extVars,
                registry, completed, expect, mishaps>>

Requests == [nr : Nat, by : Callers, dev : Devices, op : Ops, val : Values]

Keys     == Devices \X Ops
KeyOf(r) == <<r.dev, r.op>>

\* "ack" and "nack" are replies to the request in of; "window" and
\* "nonWindow" are EV_STATE_CHANGED or EV_STATE_REPORT events.
Events == [kind : {"ack", "nack", "window", "nonWindow"},
           of : SUBSET Requests]

NoRequest(t) == [nr |-> 0, by |-> t, dev |-> CHOOSE d \in Devices : TRUE,
                 op |-> CHOOSE o \in Ops : TRUE,
                 val |-> CHOOSE v \in Values : TRUE]

Init ==
  /\ pc = [t \in Callers |-> "idle"]
  /\ calls = [t \in Callers |-> 0]
  /\ tries = [t \in Callers |-> 0]
  /\ cur = [t \in Callers |-> NoRequest(t)]
  /\ issued = 0
  /\ registry = {}
  /\ completed = {}
  /\ inbox = <<>>
  /\ rxAt = "ready"
  /\ rxEvent = {}
  /\ rxOk = FALSE
  /\ rxMatch = {}
  /\ rxExpect = {}
  /\ gwState = "unknown"
  /\ expect = {}
  /\ link = [d \in Devices |-> "unknown"]
  /\ stash = [d \in Devices |-> {}]
  /\ config \in [Devices -> Values]
  /\ mirror = config
  /\ states = 0
  /\ answered = {}
  /\ mishaps = {}

-----------------------------------------------------------------------------
(* Callers: send_config and setNodeGroupId, down to                        *)
(* send_and_wait_for_reply.                                                *)

Transition(t, from, to) ==
  /\ pc[t] = from
  /\ pc' = [pc EXCEPT ![t] = to]

Add(k, S) == IF k THEN S ELSE {}

\* A reply to key k may still come from an earlier or a concurrent request.
Outstanding(k) ==
  \/ \E u \in Callers : pc[u] # "idle" /\ KeyOf(cur[u]) = k
  \/ \E i \in 1..Len(inbox) : \E r \in inbox[i].of : KeyOf(r) = k

\* A call begins: send_config stashes its payload for the device's ACK,
\* over whatever is stashed there.  A call that does not wait ("casting")
\* makes one attempt and is not registered.
Begin(t, d, o, v, waits) ==
  /\ Transition(t, "idle", IF waits THEN "starting" ELSE "casting")
  /\ calls[t] < MaxCalls
  /\ calls' = [calls EXCEPT ![t] = @ + 1]
  /\ tries' = [tries EXCEPT ![t] = 0]
  /\ issued' = IF waits THEN issued ELSE issued + 1
  /\ cur' = [cur EXCEPT ![t] = [nr |-> IF waits THEN 0 ELSE issued + 1,
                                by |-> t, dev |-> d, op |-> o, val |-> v]]
  /\ stash' = IF o = CONFIG THEN [stash EXCEPT ![d] = {v}] ELSE stash
  /\ mishaps' = mishaps \cup Add(Outstanding(<<d, o>>), {"overlap"})
                        \cup Add(o = CONFIG /\ stash[d] # {}, {"restash"})
  /\ UNCHANGED <<rxVars, link, mirror, extVars, registry, completed, expect>>

\* The PendingRequest objects of t go out of scope.
Forget(t) == {c \in completed : c.req.by # t}

\* send_and_wait_for_reply: register a new request before sending it.
Register(t) ==
  /\ Transition(t, "starting", "registered")
  /\ tries' = [tries EXCEPT ![t] = @ + 1]
  /\ issued' = issued + 1
  /\ cur' = [cur EXCEPT ![t].nr = issued + 1]
  /\ registry' = registry \cup {cur'[t]}
  /\ completed' = Forget(t)
  /\ UNCHANGED <<calls, rxVars, devVars, extVars, expect, mishaps>>

\* What becomes of a frame the transport has put on air, or has not: the
\* outcome of the send is not looked at.
Fates == {"notHeard", "replyLost", "ack", "nack"}

\* send_fn has written the frame and has its outcome.
Transmit(t, fate) ==
  LET r == cur[t] IN
  /\ \/ Transition(t, "registered", "sent")
     \/ Transition(t, "casting", "cast")
  /\ config' = IF r.op = CONFIG /\ fate \in {"replyLost", "ack"}
               THEN [config EXCEPT ![r.dev] = r.val] ELSE config
  /\ IF fate \in {"ack", "nack"}
     THEN /\ inbox' = Append(inbox, [kind |-> fate, of |-> {r}])
          /\ answered' = answered \cup {KeyOf(r)}
     ELSE UNCHANGED <<inbox, answered>>
  /\ UNCHANGED <<calls, tries, cur, issued, rxVars, devVars, states, registry,
                 completed, expect, mishaps>>

\* on_transport_tx, called by the sender once it has the outcome: stamp the
\* expectation, over any other.
StampExpect(t) ==
  /\ \/ Transition(t, "sent", "waiting")
     \/ Transition(t, "cast", "idle")
  /\ expect' = {cur[t]}
  /\ UNCHANGED <<calls, tries, cur, issued, rxVars, devVars, extVars, registry,
                 completed, mishaps>>

\* The write raised: no TX_M2N event, hence no stamp; the caller waits all
\* the same.
SendFails(t) ==
  /\ \/ Transition(t, "registered", "waiting")
     \/ Transition(t, "casting", "idle")
  /\ UNCHANGED <<calls, tries, cur, issued, rxVars, devVars, extVars, registry,
                 completed, expect, mishaps>>

HasReply(r) == \E c \in completed : c.req = r

\* done.wait returns True.
Wake(t) ==
  /\ Transition(t, "waiting", "matched")
  /\ HasReply(cur[t])
  /\ UNCHANGED <<calls, tries, cur, issued, rxVars, devVars, extVars, registry,
                 completed, expect, mishaps>>

\* Mutant of Expire: only the sweep of the expectation ends a wait.
ExpireWhenSwept(t) ==
  /\ Transition(t, "waiting", "expired")
  /\ ~HasReply(cur[t])
  /\ cur[t] \notin expect
  /\ mishaps' = mishaps \cup {"expired"}
  /\ UNCHANGED <<calls, tries, cur, issued, rxVars, devVars, extVars, registry,
                 completed, expect>>

\* done.wait returns False; a reply that comes now is thrown away.
Expire(t) ==
  /\ Transition(t, "waiting", "expired")
  /\ ~HasReply(cur[t])
  /\ mishaps' = mishaps \cup {"expired"}
  /\ UNCHANGED <<calls, tries, cur, issued, rxVars, devVars, extVars, registry,
                 completed, expect>>

\* Mutant of Cancel: not in a finally, an expired request stays registered.
CancelIfMatched(t) ==
  /\ \/ Transition(t, "matched", "replied")
     \/ tries[t] < MaxAttempts /\ Transition(t, "expired", "starting")
     \/ tries[t] >= MaxAttempts /\ Transition(t, "expired", "failed")
  /\ registry' = IF pc[t] = "matched" THEN registry \ {cur[t]} ELSE registry
  /\ UNCHANGED <<calls, tries, cur, issued, rxVars, devVars, extVars,
                 completed, expect, mishaps>>

\* Mutant of Cancel: the loop ends one attempt early.
CancelGivesUpEarly(t) ==
  /\ \/ Transition(t, "matched", "replied")
     \/ tries[t] < MaxAttempts - 1 /\ Transition(t, "expired", "starting")
     \/ tries[t] >= MaxAttempts - 1 /\ Transition(t, "expired", "failed")
  /\ registry' = registry \ {cur[t]}
  /\ UNCHANGED <<calls, tries, cur, issued, rxVars, devVars, extVars,
                 completed, expect, mishaps>>

\* "finally: cancel", then on to the next attempt, or out of the loop.
Cancel(t) ==
  /\ \/ Transition(t, "matched", "replied")
     \/ tries[t] < MaxAttempts /\ Transition(t, "expired", "starting")
     \/ tries[t] >= MaxAttempts /\ Transition(t, "expired", "failed")
  /\ registry' = registry \ {cur[t]}
  /\ UNCHANGED <<calls, tries, cur, issued, rxVars, devVars, extVars,
                 completed, expect, mishaps>>

\* mark_online after a match, and the call returns.
ReturnReply(t) ==
  /\ Transition(t, "replied", "idle")
  /\ link' = [link EXCEPT ![cur[t].dev] = "online"]
  /\ completed' = Forget(t)
  /\ UNCHANGED <<calls, tries, cur, issued, rxVars, stash, mirror, extVars,
                 registry, expect, mishaps>>

\* The call returns without a reply; setNodeGroupId marks offline.
ReturnFailure(t) ==
  /\ Transition(t, "failed", "idle")
  /\ link' = IF cur[t].op = SET_GROUP
             THEN [link EXCEPT ![cur[t].dev] = "offline"] ELSE link
  /\ completed' = Forget(t)
  /\ UNCHANGED <<calls, tries, cur, issued, rxVars, stash, mirror, extVars,
                 registry, expect, mishaps>>

-----------------------------------------------------------------------------
(* The RX reader thread: on_transport_event.                               *)

RxStep(from, to) ==
  /\ rxAt = from
  /\ rxAt' = to

\* Mutant of Candidate: any reply of the device matches.
CandidateOfDevice(r) ==
  {q \in registry : /\ q.dev = r.dev
                    /\ \A p \in registry : p.dev = r.dev => q.nr <= p.nr}

\* try_match under its lock: the oldest request with the key of the reply.
Candidate(r) ==
  {q \in registry : /\ KeyOf(q) = KeyOf(r)
                    /\ \A p \in registry : KeyOf(p) = KeyOf(r) => q.nr <= p.nr}

\* A device reply is taken and a waiter looked for.
RxReply ==
  LET ev == Head(inbox) IN
  /\ inbox # <<>>
  /\ ev.kind \in {"ack", "nack"}
  /\ \E r \in ev.of :
       /\ rxMatch' = Candidate(r)
       /\ RxStep("ready", IF Candidate(r) = {} THEN "update" ELSE "complete")
       /\ rxEvent' = {r}
  /\ rxOk' = (ev.kind = "ack")
  /\ inbox' = Tail(inbox)
  /\ UNCHANGED <<callerVars, gwState, rxExpect, devVars, config, states,
                 answered, registry, completed, expect, mishaps>>

\* req.reply = ev and done.set(), outside the lock.
RxComplete ==
  /\ RxStep("complete", "remove")
  /\ completed' = completed \cup
       {[req |-> q, reply |-> r] : q \in rxMatch, r \in rxEvent}
  /\ UNCHANGED <<callerVars, gwState, rxEvent, rxOk, rxMatch, rxExpect,
                 devVars, extVars, registry, expect, mishaps>>

RxRemove ==
  /\ RxStep("remove", "update")
  /\ registry' = registry \ rxMatch
  /\ rxMatch' = {}
  /\ UNCHANGED <<callerVars, gwState, rxEvent, rxOk, rxExpect, devVars,
                 extVars, completed, expect, mishaps>>

\* Mutant of RxUpdate: the stashed entry is stored, not its value.
RxUpdateStoresEntry ==
  /\ RxStep("update", "expect")
  /\ \E r \in rxEvent :
       /\ link' = [link EXCEPT ![r.dev] = "online"]
       /\ IF r.op = CONFIG /\ rxOk
          THEN /\ stash' = [stash EXCEPT ![r.dev] = {}]
               /\ mirror' = [mirror EXCEPT ![r.dev] = stash[r.dev]]
          ELSE UNCHANGED <<stash, mirror>>
  /\ UNCHANGED <<callerVars, gwState, rxEvent, rxOk, rxMatch, rxExpect,
                 extVars, registry, completed, expect, mishaps>>

\* Mutant of RxUpdate: the status of the ACK is not looked at.
RxUpdateAnyStatus ==
  /\ RxStep("update", "expect")
  /\ \E r \in rxEvent :
       /\ link' = [link EXCEPT ![r.dev] = "online"]
       /\ IF r.op = CONFIG
          THEN /\ stash' = [stash EXCEPT ![r.dev] = {}]
               /\ mirror' = [mirror EXCEPT ![r.dev] =
                    IF stash[r.dev] = {} THEN @
                    ELSE CHOOSE v \in stash[r.dev] : TRUE]
          ELSE UNCHANGED <<stash, mirror>>
  /\ UNCHANGED <<callerVars, gwState, rxEvent, rxOk, rxMatch, rxExpect,
                 extVars, registry, completed, expect, mishaps>>

\* handle_ack_event: ack_update marks the device online; a positive ACK of
\* OPC_CONFIG pops the stash and applies it to the mirror.
RxUpdate ==
  /\ RxStep("update", "expect")
  /\ \E r \in rxEvent :
       /\ link' = [link EXCEPT ![r.dev] = "online"]
       /\ IF r.op = CONFIG /\ rxOk
          THEN /\ stash' = [stash EXCEPT ![r.dev] = {}]
               /\ mirror' = [mirror EXCEPT ![r.dev] =
                    IF stash[r.dev] = {} THEN @
                    ELSE CHOOSE v \in stash[r.dev] : TRUE]
          ELSE UNCHANGED <<stash, mirror>>
  /\ UNCHANGED <<callerVars, gwState, rxEvent, rxOk, rxMatch, rxExpect,
                 extVars, registry, completed, expect, mishaps>>

\* pending_try_match: snapshot the expectation and compare it.
RxReadExpect ==
  LET hit == \E p \in expect, r \in rxEvent : KeyOf(p) = KeyOf(r) IN
  /\ RxStep("expect", IF hit THEN "markOnline" ELSE "ready")
  /\ rxExpect' = IF hit THEN expect ELSE {}
  /\ rxEvent' = IF hit THEN rxEvent ELSE {}
  /\ rxOk' = (hit /\ rxOk)
  /\ UNCHANGED <<callerVars, gwState, rxMatch, devVars, extVars, registry,
                 completed, expect, mishaps>>

RxMarkOnline ==
  /\ RxStep("markOnline", "clear")
  /\ link' = [d \in Devices |->
                IF \E p \in rxExpect : p.dev = d THEN "online" ELSE link[d]]
  /\ UNCHANGED <<callerVars, gwState, rxEvent, rxOk, rxMatch, rxExpect, stash,
                 mirror, extVars, registry, completed, expect, mishaps>>

\* A state event; pending_window_closed for any state but RX_WINDOW.
RxState ==
  LET ev == Head(inbox)
      sweep == ev.kind = "nonWindow" /\ expect # {}
  IN
  /\ inbox # <<>>
  /\ ev.kind \in {"window", "nonWindow"}
  /\ RxStep("ready", IF sweep THEN "sweep" ELSE "ready")
  /\ rxExpect' = IF sweep THEN expect ELSE {}
  /\ gwState' = ev.kind
  /\ inbox' = Tail(inbox)
  /\ UNCHANGED <<callerVars, rxEvent, rxOk, rxMatch, devVars, config, states,
                 answered, registry, completed, expect, mishaps>>

RxMarkOffline ==
  /\ RxStep("sweep", "clear")
  /\ link' = [d \in Devices |->
                IF \E p \in rxExpect : p.dev = d THEN "offline" ELSE link[d]]
  /\ UNCHANGED <<callerVars, gwState, rxEvent, rxOk, rxMatch, rxExpect, stash,
                 mirror, extVars, registry, completed, expect, mishaps>>

\* Mutant of RxClearExpect: clear whatever is there.
RxClearAnyExpect ==
  /\ RxStep("clear", "ready")
  /\ expect' = {}
  /\ rxExpect' = {}
  /\ rxEvent' = {}
  /\ rxOk' = FALSE
  /\ UNCHANGED <<callerVars, gwState, rxMatch, devVars, extVars, registry,
                 completed, mishaps>>

\* clear_pending_expect_if: only the expectation that was read is dropped.
RxClearExpect ==
  /\ RxStep("clear", "ready")
  /\ expect' = IF expect = rxExpect THEN {} ELSE expect
  /\ rxExpect' = {}
  /\ rxEvent' = {}
  /\ rxOk' = FALSE
  /\ UNCHANGED <<callerVars, gwState, rxMatch, devVars, extVars, registry,
                 completed, mishaps>>

-----------------------------------------------------------------------------
(* The gateway reports its state (external).                               *)

GatewayState(kind) ==
  /\ states < MaxStates
  /\ states' = states + 1
  /\ inbox' = Append(inbox, [kind |-> kind, of |-> {}])
  /\ UNCHANGED <<callerVars, rxVars, devVars, config, answered, registry,
                 completed, expect, mishaps>>

-----------------------------------------------------------------------------
\* What a caller's own thread does once its call has begun.
Progress(t) ==
  \/ Register(t)
  \/ \E fate \in Fates : Transmit(t, fate)
  \/ StampExpect(t) \/ SendFails(t) \/ Wake(t) \/ Expire(t) \/ Cancel(t)
  \/ ReturnReply(t) \/ ReturnFailure(t)

Caller(t) ==
  \/ \E d \in Devices, o \in Ops, v \in Values, waits \in Waits :
       Begin(t, d, o, v, waits)
  \/ Progress(t)

Reader ==
  \/ RxReply \/ RxComplete \/ RxRemove \/ RxUpdate
  \/ RxReadExpect \/ RxMarkOnline \/ RxState \/ RxMarkOffline
  \/ RxClearExpect

Gateway == \E kind \in {"window", "nonWindow"} : GatewayState(kind)

Next == (\E t \in Callers : Caller(t)) \/ Reader \/ Gateway

Spec == Init /\ [][Next]_vars

\* Threads that can run do run; nothing is assumed of devices, of the
\* gateway, or of anyone beginning another call.
Fairness ==
  /\ \A t \in Callers : WF_vars(Progress(t))
  /\ WF_vars(Reader)

FairSpec == Spec /\ Fairness

-----------------------------------------------------------------------------
(* Properties.                                                             *)

Locations == {"idle", "starting", "registered", "sent", "waiting", "matched",
              "expired", "replied", "failed", "casting", "cast"}

TypeOK ==
  /\ pc \in [Callers -> Locations]
  /\ calls \in [Callers -> 0..MaxCalls]
  /\ tries \in [Callers -> 0..MaxAttempts]
  /\ cur \in [Callers -> Requests]
  /\ issued \in Nat
  /\ registry \in SUBSET Requests
  /\ completed \in SUBSET [req : Requests, reply : Requests]
  /\ inbox \in Seq(Events)
  /\ rxAt \in {"ready", "complete", "remove", "update", "expect",
               "markOnline", "sweep", "clear"}
  /\ rxEvent \in SUBSET Requests
  /\ rxOk \in BOOLEAN
  /\ rxMatch \in SUBSET Requests
  /\ rxExpect \in SUBSET Requests
  /\ gwState \in {"unknown", "window", "nonWindow"}
  /\ expect \in SUBSET Requests
  /\ link \in [Devices -> {"unknown", "online", "offline"}]
  /\ stash \in [Devices -> SUBSET Values]
  /\ mirror \in [Devices -> Values]
  /\ config \in [Devices -> Values]
  /\ states \in 0..MaxStates
  /\ answered \in SUBSET Keys
  /\ mishaps \in SUBSET {"overlap", "restash", "expired"}

\* The registry holds exactly the requests of callers between register and
\* cancel, apart from those a reply has completed: no attempt that is over
\* is left behind to swallow the reply to a later one, and none that still
\* waits is missing, however try_match and cancel interleave.
Registered(t) == pc[t] \in {"registered", "sent", "waiting", "expired"}

RegistryMatchesWaiters ==
  /\ \A r \in registry :
       /\ r = cur[r.by]
       /\ Registered(r.by) \/ pc[r.by] = "matched"
  /\ \A t \in Callers :
       Registered(t) /\ cur[t] \notin registry => HasReply(cur[t])

\* As long as no attempt has expired and no call has begun while a reply of
\* the same device and opcode could still come, the reply a caller is given
\* is the reply to its own request.
CleanSuccess ==
  mishaps = {} => \A c \in completed : c.reply = c.req

\* When all is quiet and nothing is stashed, the host's mirror of a device
\* is the device's configuration, as long as no attempt has expired and no
\* payload was stashed over one not yet taken: lost frames, lost replies and
\* refusals do not break it.
Quiet ==
  /\ \A t \in Callers : pc[t] = "idle"
  /\ inbox = <<>>
  /\ rxAt = "ready"

CleanMirror ==
  mishaps \cap {"expired", "restash"} = {} /\ Quiet =>
    \A d \in Devices : stash[d] = {} => mirror[d] = config[d]

\* Docstring of clear_pending_expect_if: the RX thread never wipes an
\* expectation other than the one it read, so one that disappears was
\* matched by a reply to its device and opcode, or swept by a state event.
NoSilentLoss ==
  [][\A p \in expect : expect' = {} =>
       /\ rxAt = "clear" /\ rxExpect = {p}
       /\ \A r \in rxEvent : KeyOf(r) = KeyOf(p)]_vars

\* A call comes back whatever becomes of its frames and replies.
EveryCallReturns == \A t \in Callers : pc[t] # "idle" ~> pc[t] = "idle"

\* config_service: the device record reflects what the firmware has just
\* confirmed, so the mirror only takes the value of the request whose ACK
\* is being handled.
MirrorFollowsAck ==
  [][\A d \in Devices : mirror'[d] # mirror[d] =>
       \E r \in rxEvent : r.dev = d /\ r.val = mirror'[d]]_vars

\* Comment in on_transport_event: the sweep is triggered on the transition
\* from RX_WINDOW to another state.
SweepOnTransition ==
  [][rxAt = "ready" /\ rxAt' = "sweep" => gwState = "window"]_vars

\* Comment in pending_window_closed: a swept expectation is one that has
\* timed out, so its request has had no reply.
SweptHadNoReply ==
  rxAt = "sweep" => \A p \in rxExpect : ~HasReply(p)

\* The promise to callers, with registry and RX thread hidden.
Phase(t) ==
  CASE pc[t] \in {"idle", "casting", "cast"} -> "idle"
    [] pc[t] \in {"replied", "failed"} -> pc[t]
    [] OTHER -> "open"

phases   == [t \in Callers |-> Phase(t)]
askedKey == [t \in Callers |-> KeyOf(cur[t])]
attempts == [t \in Callers |-> IF Phase(t) = "idle" THEN 0 ELSE tries[t]]

Contract == INSTANCE RequestContract
              WITH phase <- phases, asked <- askedKey, replies <- answered

ImplementsContract == Contract!Spec
=============================================================================
