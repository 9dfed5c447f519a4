----------------------------- MODULE SceneRunner -----------------------------
(***************************************************************************)
(* The runs of scenes (SceneRunnerService.run) with the services that send *)
(* their operations (ControlService, SyncService, StartblockService), over *)
(* a gateway that may be lost, may refuse a frame or leave its outcome     *)
(* unreported, and a radio on which a node may miss one.                   *)
(*                                                                         *)
(* A run is the thread of one request: it plans an action, sends the       *)
(* operations of the plan one after another, waiting for the outcome of    *)
(* each, and appends a result.  Nothing keeps two requests from running    *)
(* two scenes at once, or a preset from being deleted meanwhile.           *)
(***************************************************************************)
EXTENDS DispatchPlan

CONSTANTS
  Runs,       \* requests that run a scene
  Scenes,     \* scenes in canonical form: actions and stop_on_error
  Devices,    \* devices of the repository
  GroupOf,    \* the group of each
  AllPresets, \* the presets there are at first, by reference
  MaxFaults   \* bound: frames refused or missed, transports lost, presets
              \* deleted

(* Scenes are as the store keeps them: lists of actions, ids of groups,    *)
(* offsets the validator takes, effects in a container.  A draft passes    *)
(* the same validator before it is run.                                    *)
IsList(s) == s \in Seq(ToSet(s))

OffsetBlocks ==
  {o \in [mode : {"none", "explicit", "linear", "vshape", "modulo"},
          base : Int, step : Int, par : Int,
          values : Seq([id : 0..254, ms : Nat]), ms : Nat] :
     /\ Within(o.base, -32768, 32767) = o.base
     /\ Within(o.step, -32768, 32767) = o.step
     /\ o.mode = "vshape" => o.par \in 0..254
     /\ o.mode = "modulo" => o.par \in 1..255
     /\ \A v \in ToSet(o.values) : v.ms <= OffsetMax}

ChildKinds == {"rl_preset", "wled_preset", "wled_control"}

ASSUME RunnerAssumption ==
  /\ "offset_mode" \in UserFlags
  /\ GroupOf \in [Devices -> 0..254] /\ MaxFaults \in Nat
  /\ \A s \in Scenes :
       /\ s.stop \in BOOLEAN /\ IsList(s.actions)
       /\ \A a \in ToSet(s.actions) :
            /\ a.target.ids \in Seq(0..254) /\ IsList(a.actions)
            /\ a.kind = "offset_group" => a.offset \in OffsetBlocks
            /\ \A c \in ToSet(a.actions) :
                 c.target.ids \in Seq(0..254) /\ c.kind \in ChildKinds

VARIABLES
  run,        \* the requests: the scene each runs, what is left to send of
              \* the current action, its all_ok, and the results so far
  transport,  \* "up", "closed", or "none"
  presets,    \* the preset store
  offsetOf,   \* the nodes: the effective offset block of each
  faults,     \* how much of MaxFaults has been used
  told        \* history, by run: what it handed to the transport, how many
              \* operations each plan had, actions with a frame that failed,
              \* whether it was undisturbed since the current action began,
              \* and the nodes' offsets then

vars == <<run, transport, presets, offsetOf, faults, told>>

(* The groups the host knows of, from the first (_known_group_ids).        *)
Known == Without([i \in 1..255 |-> i - 1], 0..254 \ {GroupOf[d] : d \in Devices})

NoScene == [actions |-> <<>>, stop |-> TRUE]
Idle    == [scene |-> NoScene, on |-> FALSE, ops |-> <<>>, ok |-> TRUE,
            results |-> <<>>]

Current(r) == run[r].scene.actions[Len(run[r].results) + 1]
Running(r) == run[r].on /\ Len(run[r].results) < Len(run[r].scene.actions)

Spend(n) == faults + n <= MaxFaults /\ faults' = faults + n

(* Another run is disturbed by what r does.                                *)
Disturbed(others) ==
  [s \in Runs |-> IF s \in others THEN [told[s] EXCEPT !.quiet = FALSE]
                  ELSE told[s]]

(* run(): the scene as stored, or the draft of the request.                *)
Start(r) ==
  /\ run[r] = Idle
  /\ \E s \in Scenes : run' = [run EXCEPT ![r].scene = s, ![r].on = TRUE]
  /\ UNCHANGED <<transport, presets, offsetOf, faults, told>>

(* Mutant: one skipped action too many.                                    *)
ResultsOneMore(r, result) ==
  LET done == Append(run[r].results, result)
      left == Len(run[r].scene.actions) - Len(done)
  IN IF run[r].scene.stop /\ result = "error"
     THEN done \o [i \in 1..(left + 1) |-> "skipped"] ELSE done

(* The result of the current action, and of those that are not run because *)
(* of it.                                                                  *)
Results(r, result) ==
  LET done == Append(run[r].results, result)
      left == Len(run[r].scene.actions) - Len(done)
  IN IF run[r].scene.stop /\ result = "error"
     THEN done \o [i \in 1..left |-> "skipped"] ELSE done

(* The action is over.                                                     *)
Conclude(r, result) ==
  run' = [run EXCEPT ![r].results = Results(r, result),
                     ![r].ops = <<>>, ![r].ok = TRUE]

(* _dispatch() and the plan.  A delay sleeps and succeeds; an exception is *)
(* an error; a degraded plan is not sent at all.                           *)
Begin(r) ==
  LET a    == Current(r)
      plan == PlanAction(a, Known, GroupOf, presets)
  IN
  /\ Running(r) /\ run[r].ops = <<>>
  /\ IF plan.raises THEN Conclude(r, "error")
     ELSE IF plan.degraded THEN Conclude(r, "degraded")
     ELSE IF plan.ops = <<>> THEN
       Conclude(r, IF a.kind = "offset_group" THEN "error" ELSE "ok")
     ELSE run' = [run EXCEPT ![r].ops = plan.ops]
  /\ told' = [told EXCEPT
                ![r].sent    = Append(@, 0),
                ![r].planned = Append(@, IF plan.degraded \/ plan.raises THEN 0
                                         ELSE Len(plan.ops)),
                ![r].badge   = Append(@, Estimate(a, Known, GroupOf, presets)),
                ![r].quiet   = TRUE,
                ![r].before  = offsetOf]
  /\ UNCHANGED <<transport, presets, offsetOf, faults>>

(* The nodes a frame is for, and the gate of the firmware: a node takes an *)
(* effect when the offset flag agrees with its being in offset mode.       *)
IsFor(op, d) ==
  IF op.dev = NoDevice THEN op.group \in {All, GroupOf[d]} ELSE op.dev = d

Accepts(op, d) ==
  /\ IsFor(op, d)
  /\ op.sender \in {"send_wled_control", "send_wled_preset"}
  /\ ("offset_mode" \in op.flags) = (offsetOf[d].mode # "none")

(* The firmware's own evaluation of its block.                             *)
NodeOffset(d) == NodeFormula(offsetOf[d], GroupOf[d])

(* Mutant: only the last operation of an action tells how it went.         *)
FoldLast(all_ok, ok) == ok

FoldOk(all_ok, ok) == all_ok /\ ok

(* The operation at the head was dealt with: the next one is, or the       *)
(* action is over.                                                         *)
Sent(r, ok) ==
  LET all_ok == FoldOk(run[r].ok, ok) IN
  IF Len(run[r].ops) = 1 THEN Conclude(r, IF all_ok THEN "ok" ELSE "error")
  ELSE run' = [run EXCEPT ![r].ops = Tail(@), ![r].ok = all_ok]

(* Without a transport the services answer False, send_startblock_control  *)
(* an empty dict; send_sync answers nothing, and the runner takes that for *)
(* success.                                                                *)
SendNowhere(r) ==
  /\ run[r].ops # <<>> /\ transport = "none"
  /\ Head(run[r].ops).sender = "send_wled_preset"
       => Head(run[r].ops).what # BadParams
  /\ Sent(r, Head(run[r].ops).sender = "send_sync")
  /\ told' = [told EXCEPT ![r].quiet = FALSE]
  /\ UNCHANGED <<transport, presets, offsetOf, faults>>

Handed(r, refused, disturbed) ==
  LET n    == Len(told[r].sent)
      sent == [told[r].sent EXCEPT ![n] = @ + 1]
  IN
  told' = [Disturbed((Runs \ {r}) \cup disturbed) EXCEPT
             ![r].sent = sent,
             ![r].refused = IF refused THEN @ \cup {n} ELSE @]

(* The gateway transmits the frame; a node may miss it.                    *)
SendOut(r) ==
  LET op == Head(run[r].ops) IN
  /\ run[r].ops # <<>> /\ transport = "up"
  /\ op.sender = "send_wled_preset" => op.what # BadParams
  /\ \E missed \in {{}} \cup {{d} : d \in Devices} :
       /\ Spend(Cardinality(missed))
       /\ \A d \in missed : op.sender = "send_offset" /\ IsFor(op, d)
       /\ offsetOf' = [d \in Devices |->
                         IF op.sender = "send_offset" /\ IsFor(op, d)
                            /\ d \notin missed
                         THEN op.cfg ELSE offsetOf[d]]
       /\ Handed(r, FALSE, IF missed = {} THEN {} ELSE {r})
  /\ Sent(r, TRUE)
  /\ UNCHANGED <<transport, presets>>

(* The frame is rejected by the gateway, not reported on in time, or not   *)
(* written; the services drop the SendOutcome and answer True.             *)
SendRefused(r) ==
  /\ run[r].ops # <<>>
  /\ \/ transport = "up" /\ Spend(1)
     \/ transport = "closed" /\ UNCHANGED faults
  /\ Head(run[r].ops).sender = "send_wled_preset"
       => Head(run[r].ops).what # BadParams
  /\ Sent(r, TRUE)
  /\ Handed(r, TRUE, {r})
  /\ UNCHANGED <<transport, presets, offsetOf>>

(* send_wled_preset reads its parameters before it looks for a transport.  *)
SendRaises(r) ==
  /\ run[r].ops # <<>>
  /\ Head(run[r].ops).sender = "send_wled_preset"
  /\ Head(run[r].ops).what = BadParams
  /\ Conclude(r, "error")
  /\ UNCHANGED <<transport, presets, offsetOf, faults, told>>

(* The link is lost, its loss handled, and the link found again.           *)
LoseTransport ==
  /\ transport = "up" /\ Spend(1) /\ transport' = "closed"
  /\ UNCHANGED <<run, presets, offsetOf, told>>

ClearTransport ==
  /\ transport = "closed" /\ transport' = "none"
  /\ UNCHANGED <<run, presets, offsetOf, faults, told>>

FindTransport ==
  /\ transport = "none" /\ transport' = "up"
  /\ UNCHANGED <<run, presets, offsetOf, faults, told>>

DeletePreset(p) ==
  /\ p \in DOMAIN presets /\ Spend(1)
  /\ presets' = [q \in DOMAIN presets \ {p} |-> presets[q]]
  /\ UNCHANGED <<run, transport, offsetOf, told>>

Init ==
  /\ run = [r \in Runs |-> Idle]
  /\ transport = "up"
  /\ presets = AllPresets
  /\ offsetOf = [d \in Devices |-> NoOffset]
  /\ faults = 0
  /\ told = [r \in Runs |->
               [sent |-> <<>>, planned |-> <<>>, badge |-> <<>>,
                refused |-> {}, quiet |-> TRUE, before |-> offsetOf]]

Next ==
  \/ \E r \in Runs : \/ Start(r) \/ Begin(r) \/ SendOut(r) \/ SendRefused(r)
                     \/ SendNowhere(r) \/ SendRaises(r)
  \/ LoseTransport \/ ClearTransport \/ FindTransport
  \/ \E p \in DOMAIN AllPresets : DeletePreset(p)

Spec == Init /\ [][Next]_vars

-----------------------------------------------------------------------------
Verdicts == {"ok", "error", "degraded", "skipped"}

(* Types; and a run has as many results as it has begun actions, less the  *)
(* one it is sending, plus those it skipped.                               *)
TypeOK ==
  /\ transport \in {"up", "closed", "none"} /\ faults \in 0..MaxFaults
  /\ DOMAIN presets \subseteq DOMAIN AllPresets
  /\ \A r \in Runs :
       LET done == run[r].results IN
       /\ ToSet(done) \subseteq Verdicts
       /\ Len(done) <= Len(run[r].scene.actions)
       /\ Len(told[r].sent) =
            Cardinality({i \in DOMAIN done : done[i] # "skipped"})
            + (IF run[r].ops # <<>> THEN 1 ELSE 0)

Setting(r) == Running(r) /\ run[r].ops # <<>> /\ Current(r).kind = "offset_group"
IsSet(r)   == Setting(r) /\ \A i \in DOMAIN run[r].ops :
                               run[r].ops[i].sender # "send_offset"

Participates(a, d) ==
  a.target.kind = "broadcast" \/ GroupOf[d] \in ToSet(a.target.ids)

(* What a container asks of a group.                                       *)
Wanted(o, g) ==
  IF o.mode = "explicit" THEN ValueOf(o.values, g) ELSE NodeFormula(o, g)

(* Whichever of the packet sequences was the cheapest, when a container's  *)
(* children are about to be sent every participating node computes the     *)
(* offset the formula gives its group, and no other node was put into      *)
(* offset mode (plan_offset_setup, evaluate_offset_ms).                    *)
OffsetsReachParticipants ==
  \A r \in Runs : IsSet(r) /\ told[r].quiet =>
    \A d \in Devices :
      LET a == Current(r) IN
      IF Participates(a, d)
      THEN /\ NodeOffset(d) = Wanted(a.offset, GroupOf[d])
           /\ (offsetOf[d].mode = "none") = (a.offset.mode = "none")
      ELSE offsetOf[d] \in {NoOffset, told[r].before[d]}

(* A child of a container is taken by every participating node its target  *)
(* names, whatever flags its preset was stored with (force_offset_flag);   *)
(* and by no other node, unless the container clears offsets or nodes      *)
(* outside it were left in offset mode before.                             *)
ChildrenStayInside ==
  \A r \in Runs :
    LET a == Current(r)  op == Head(run[r].ops) IN
    IsSet(r) /\ told[r].quiet =>
      /\ \A d \in Devices : IsFor(op, d) /\ Participates(a, d) => Accepts(op, d)
      /\ \/ a.offset.mode = "none"
         \/ \E d \in Devices :
              ~Participates(a, d) /\ told[r].before[d] # NoOffset
         \/ \A d \in Devices : Accepts(op, d) => Participates(a, d)

(* The report is true to what was done: the operations of an action that   *)
(* is reported as ok were all handed to the transport (a sync is reported  *)
(* ok without one), nothing was of an action that is degraded or skipped,  *)
(* and after an error exactly a scene that stops on errors skips the rest. *)
ReportMatchesWire ==
  \A r \in Runs : \A i \in DOMAIN run[r].results :
    LET v == run[r].results[i]
        failed == \E j \in 1..(i - 1) : run[r].results[j] = "error"
    IN
    /\ v = "ok" /\ run[r].scene.actions[i].kind # "sync"
         => told[r].sent[i] = told[r].planned[i]
    /\ v = "degraded" => told[r].sent[i] = 0
    /\ (v = "skipped") = (failed /\ run[r].scene.stop)

(* A comment in the transport says that the runner's stop_on_error sees a  *)
(* send that failed as a clean failure (gateway_serial.py:484-487).        *)
RefusedSendIsError ==
  \A r \in Runs : \A i \in told[r].refused \cap DOMAIN run[r].results :
    run[r].results[i] = "error"

(* The docstring of estimate_action says that the badge of an action shows *)
(* exactly the packets the runner emits for it.                            *)
EstimateIsSent ==
  \A r \in Runs : \A i \in DOMAIN run[r].results :
    run[r].results[i] \in {"ok", "degraded"} /\ told[r].refused = {}
    /\ run[r].scene.actions[i].kind # "sync"
      => told[r].sent[i] = told[r].badge[i]
=============================================================================
