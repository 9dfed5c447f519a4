----------------------------- MODULE DispatchPlan -----------------------------
(***************************************************************************)
(* What a scene's action puts on the wire (dispatch_planner.py,            *)
(* offset_dispatch_optimizer.py, offset_formula.py, packets.py): pure      *)
(* functions of the action, of the groups the host knows, of the presets   *)
(* and of the devices it can look up.  The runner sends the operations     *)
(* they return and the cost badge counts them.                             *)
(*                                                                         *)
(* An action is one record for all kinds; an effect's parameters are what  *)
(* it shows, one value, and of the flags only those named by UserFlags.    *)
(***************************************************************************)
EXTENDS Integers, Sequences, FiniteSets, SequencesExt, Selection

CONSTANTS
  UserFlags,  \* USER_FLAG_KEYS: "offset_mode" and what else is told apart
  NoDevice,   \* no device
  NoRef,      \* no presetId among the parameters
  BadParams   \* parameters int() or tuple() raises for

All == 255
OffsetMax == 65535

Abs(v) == IF v < 0 THEN -v ELSE v
Within(v, lo, hi) == IF v < lo THEN lo ELSE IF v > hi THEN hi ELSE v
Clamp(v) == Within(v, 0, OffsetMax)

(* An offset block.  par is the center of a vshape, the cycle of a modulo; *)
(* values are those of an explicit block as it is stored, ms is the one    *)
(* that goes into a packet.                                                *)
Offset(mode, base, step, par, values, ms) ==
  [mode |-> mode, base |-> base, step |-> step, par |-> par,
   values |-> values, ms |-> ms]
NoOffset     == Offset("none", 0, 0, 0, <<>>, 0)
Explicit(ms) == Offset("explicit", 0, 0, 0, <<>>, ms)

(* What a node makes of its block (OffsetMode in racelink_proto.h).        *)
NodeFormula(o, g) ==
  CASE o.mode = "none"     -> 0
    [] o.mode = "explicit" -> o.ms
    [] o.mode = "linear"   -> Clamp(o.base + g * o.step)
    [] o.mode = "vshape"   -> Clamp(o.base + Abs(g - o.par) * o.step)
    [] o.mode = "modulo"   -> Clamp(o.base + (g % o.par) * o.step)

(* Mutant: the sign of the distance from the center is kept.               *)
EvaluateSigned(o, gid) ==
  CASE o.mode = "none"     -> 0
    [] o.mode = "explicit" -> Clamp(o.ms)
    [] o.mode = "linear"   -> Clamp(o.base + gid * o.step)
    [] o.mode = "vshape"   -> Clamp(o.base + (gid - o.par) * o.step)
    [] o.mode = "modulo"   -> Clamp(o.base + (gid % o.par) * o.step)

Evaluate(o, gid) ==
  CASE o.mode = "none"     -> 0
    [] o.mode = "explicit" -> Clamp(o.ms)
    [] o.mode = "linear"   -> Clamp(o.base + gid * o.step)
    [] o.mode = "vshape"   -> Clamp(o.base + Abs(gid - o.par) * o.step)
    [] o.mode = "modulo"   ->
         Clamp(o.base + (gid % (IF o.par > 0 THEN o.par ELSE 1)) * o.step)

(* build_offset_body(): what the packet carries, and its bytes.            *)
Packed(o) ==
  LET b == Within(o.base, -32768, 32767)
      s == Within(o.step, -32768, 32767)
  IN
  CASE o.mode = "none"     -> NoOffset
    [] o.mode = "explicit" -> Explicit(Clamp(o.ms))
    [] o.mode = "linear"   -> Offset("linear", b, s, 0, <<>>, 0)
    [] o.mode = "vshape"   ->
         Offset("vshape", b, s, Within(o.par, 0, 254), <<>>, 0)
    [] o.mode = "modulo"   ->
         Offset("modulo", b, s, Within(o.par, 1, 255), <<>>, 0)

Bytes(o) ==
  CASE o.mode = "none"     -> 2
    [] o.mode = "explicit" -> 4
    [] o.mode = "linear"   -> 6
    [] OTHER               -> 7

(* A WireOp: the service method that sends it, its target, and what it     *)
(* carries: an offset block, or an effect with its flags.                  *)
Op(sender, group, dev, cfg, what, flags) ==
  [sender |-> sender, group |-> group, dev |-> dev, cfg |-> cfg,
   what |-> what, flags |-> flags]
OffsetOp(group, o) ==
  Op("send_offset", group, NoDevice, Packed(o), NoRef, {})

-----------------------------------------------------------------------------
(* plan_offset_setup(): up to three ways to give every group of the target *)
(* its offset, and the cheapest of them.                                   *)
Plan(strategy, ops) == [strategy |-> strategy, ops |-> ops]

BroadcastFormula(t, o) ==
  IF t.kind = "broadcast" /\ o.mode # "explicit"
  THEN {Plan("A", <<OffsetOp(All, o)>>)} ELSE {}

(* The value of a group in an explicit block: the last entry counts.       *)
ValueOf(values, g) ==
  LET for == {i \in DOMAIN values : values[i].id = g}
  IN IF for = {} THEN 0
     ELSE values[CHOOSE i \in for : \A j \in for : j <= i].ms

OneGroup(t, o, g) ==
  CASE o.mode = "explicit"                     -> Explicit(ValueOf(o.values, g))
    [] o.mode = "none" /\ t.kind # "broadcast" -> NoOffset
    [] OTHER                                   -> Explicit(Evaluate(o, g))

GroupByGroup(t, o, known) ==
  LET to == IF t.kind = "broadcast" THEN known ELSE t.ids IN
  IF to = <<>> THEN {}
  ELSE {Plan("B", [i \in DOMAIN to |-> OffsetOp(to[i], OneGroup(t, o, to[i]))])}

(* Mutant: the groups that do not take part are not reset.                 *)
FormulaWithoutResets(t, o, known) ==
  IF t.kind = "broadcast" \/ o.mode \in {"none", "explicit"} THEN {}
  ELSE {Plan("C", <<OffsetOp(All, o)>>)}

FormulaWithResets(t, o, known) ==
  LET others == Without(known, ToSet(t.ids)) IN
  IF t.kind = "broadcast" \/ o.mode \in {"none", "explicit"} \/ known = <<>>
  THEN {}
  ELSE {Plan("C", <<OffsetOp(All, o)>>
                  \o [i \in DOMAIN others |-> OffsetOp(others[i], NoOffset)])}

TotalBytes(ops) ==
  LET upto[i \in 0..Len(ops)] ==
        IF i = 0 THEN 0 ELSE upto[i - 1] + Bytes(ops[i].cfg)
  IN upto[Len(ops)]

Rank(p) == CASE p.strategy = "A" -> 1 [] p.strategy = "B" -> 2 [] OTHER -> 3
Cheaper(p, q) ==
  \/ Len(p.ops) < Len(q.ops)
  \/ Len(p.ops) = Len(q.ops) /\ TotalBytes(p.ops) < TotalBytes(q.ops)
  \/ /\ Len(p.ops) = Len(q.ops) /\ TotalBytes(p.ops) = TotalBytes(q.ops)
     /\ Rank(p) <= Rank(q)

PlanSetup(t, o, known) ==
  LET ways == BroadcastFormula(t, o) \cup GroupByGroup(t, o, known)
              \cup FormulaWithResets(t, o, known)
  IN IF ways = {} THEN Plan("A", <<>>)
     ELSE CHOOSE p \in ways : \A q \in ways : Cheaper(p, q)

-----------------------------------------------------------------------------
(* The plan of an action: its operations, whether it is degraded, and      *)
(* whether making it raises.                                               *)
Actions(ops) == [ops |-> ops, degraded |-> FALSE, raises |-> FALSE]
Degraded     == [ops |-> <<>>, degraded |-> TRUE, raises |-> FALSE]
Raising      == [ops |-> <<>>, degraded |-> FALSE, raises |-> TRUE]

(* _resolve_target(): empty when the target cannot be resolved.  A device  *)
(* is sent the group it is stored with.                                    *)
Resolve(t, groupOf) ==
  CASE t.kind = "broadcast" -> <<[group |-> All, dev |-> NoDevice]>>
    [] t.kind = "groups"    ->
         [i \in DOMAIN t.ids |-> [group |-> t.ids[i], dev |-> NoDevice]]
    [] OTHER                ->
         IF t.mac \in DOMAIN groupOf
         THEN <<[group |-> groupOf[t.mac], dev |-> t.mac]>> ELSE <<>>

(* Mutant: a flag stored with the preset wins.                             *)
MergePersistedFirst(persisted, override) ==
  {f \in UserFlags : f \in persisted \/ (f \in DOMAIN override /\ override[f])}

MergeFlags(persisted, override) ==
  {f \in UserFlags :
     IF f \in DOMAIN override THEN override[f] ELSE f \in persisted}

(* The flag a container forces on its children.                            *)
NoForce == {}
Forced(b) == {b}
Override(a, force) ==
  [f \in DOMAIN a.override \cup (IF force = {} THEN {} ELSE {"offset_mode"}) |->
     IF f = "offset_mode" /\ force # {} THEN TRUE \in force ELSE a.override[f]]

Sender(kind) ==
  CASE kind = "wled_preset" -> "send_wled_preset"
    [] kind = "startblock"  -> "send_startblock"
    [] OTHER                -> "send_wled_control"

PlanEffect(a, force, groupOf, presets) ==
  LET to    == Resolve(a.target, groupOf)
      found == a.kind # "rl_preset" \/ a.ref \in DOMAIN presets
      what  == IF a.kind = "rl_preset" THEN presets[a.ref].what ELSE a.what
      kept  == IF a.kind = "rl_preset" THEN presets[a.ref].flags ELSE {}
      flags == MergeFlags(kept, Override(a, force))
  IN
  IF to = <<>> \/ ~found THEN Degraded
  ELSE IF Sender(a.kind) = "send_wled_control" /\ what = BadParams THEN Raising
  ELSE Actions([i \in DOMAIN to |-> Op(Sender(a.kind), to[i].group,
                                       to[i].dev, NoOffset, what, flags)])

PlanOffsetGroup(a, known, groupOf, presets) ==
  LET setup == PlanSetup(a.target, a.offset, known)
      kids  == [i \in DOMAIN a.actions |->
                  PlanEffect(a.actions[i], Forced(a.offset.mode # "none"),
                             groupOf, presets)]
  IN
  IF \E i \in DOMAIN kids : kids[i].raises THEN Raising
  ELSE [ops      |-> setup.ops
                     \o FlattenSeq([i \in DOMAIN kids |-> kids[i].ops]),
        degraded |-> \E i \in DOMAIN kids : kids[i].degraded,
        raises   |-> FALSE]

(* plan_action_dispatch().                                                 *)
PlanAction(a, known, groupOf, presets) ==
  CASE a.kind = "delay"        -> Actions(<<>>)
    [] a.kind = "sync"         ->
         Actions(<<Op("send_sync", All, NoDevice, NoOffset, NoRef, {})>>)
    [] a.kind = "offset_group" -> PlanOffsetGroup(a, known, groupOf, presets)
    [] OTHER                   -> PlanEffect(a, NoForce, groupOf, presets)

(* estimate_action(): the packets the badge of an action shows.            *)
Estimate(a, known, groupOf, presets) ==
  Len(PlanAction(a, known, groupOf, presets).ops)
=============================================================================
