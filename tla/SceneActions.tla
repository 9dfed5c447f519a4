---------------------------- MODULE SceneActions ----------------------------
(***************************************************************************)
(* The actions of a scene as the store validates, keeps and rewrites them  *)
(* (scenes_service.py): canonical form, migration of the legacy shapes,    *)
(* and the shift of group references after a group was deleted.            *)
(*                                                                         *)
(* An action is one record for all kinds; the fields its kind does not     *)
(* have are empty.  Parameters and flags are left out: the validator       *)
(* copies them.  "Valid..." is the absence of every ValueError, and the    *)
(* operator beside it is the value returned then.                          *)
(***************************************************************************)
EXTENDS Integers, Sequences, SequencesExt   \* and so FiniteSets

CONSTANTS
  GroupIdMax,   \* the largest id of a group (254; 255 is the broadcast)
  MaxActions,   \* actions of a scene
  MaxEntries,   \* groups of an offset_group
  MaxChildren,  \* children of an offset_group
  Macs,         \* addresses of devices
  NoMac         \* what stands for no address, and for an invalid one

Target(kind, ids, mac) == [kind |-> kind, ids |-> ids, mac |-> mac]
NoTarget  == Target("none", <<>>, NoMac)
Broadcast == Target("broadcast", <<>>, NoMac)
Groups(ids) == Target("groups", ids, NoMac)

(* A child carries what the shift and the validator look at.               *)
Child(kind, target) == [kind |-> kind, target |-> target]

Action(kind, target, mode, values, children) ==
  [kind |-> kind, target |-> target, mode |-> mode, values |-> values,
   actions |-> children]

EffectKinds == {"rl_preset", "wled_preset", "wled_control"}
Effect(kind, target) == Action(kind, target, "", <<>>, <<>>)
Plain(kind)          == Action(kind, NoTarget, "", <<>>, <<>>)
OffsetGroup(target, mode, values, children) ==
  Action("offset_group", target, mode, values, children)

(* What a request may hold: any fields, whatever the kind, and kinds that  *)
(* are none ("other").                                                     *)
TargetKinds == {"none", "scope", "group", "groups_offset", "broadcast",
                "groups", "device", "other"}
ActionKinds ==
  EffectKinds \cup {"offset_group", "sync", "delay", "startblock", "other"}
Modes == {"", "none", "explicit", "formula", "other"}

Value     == [id : Int, ms : Int]
RawTarget == [kind : TargetKinds, ids : Seq(Int), mac : Macs \cup {NoMac}]
RawChild  == [kind : ActionKinds, target : RawTarget]
RawAction == [kind : ActionKinds, target : RawTarget, mode : Modes,
              values : Seq(Value), actions : Seq(RawChild)]

(* A pre-hierarchy action: its target carried the groups and the offset.   *)
Legacy(kind, target, mode, values) ==
  Action(kind, [target EXCEPT !.kind = "groups_offset"], mode, values, <<>>)

MigrateTarget(t) ==
  CASE t.kind = "scope" -> Broadcast
    [] t.kind = "group" -> Groups(t.ids)
    [] OTHER            -> t

ValidTarget(raw) ==
  LET t == MigrateTarget(raw) IN
  \/ t.kind = "broadcast"
  \/ t.kind = "groups" /\ t.ids # <<>> /\ IsInjective(t.ids)
                       /\ ToSet(t.ids) \subseteq 0..GroupIdMax
  \/ t.kind = "device" /\ t.mac \in Macs

(* The elements of s at the positions in S, in the order of their keys,    *)
(* those of one key in the order of s: a stable sort.                      *)
Arranged(s, S, key) ==
  LET ahead(i) == {j \in S : \/ key[j] < key[i]
                             \/ key[j] = key[i] /\ j < i}
  IN [n \in 1..Cardinality(S) |->
        s[CHOOSE i \in S : Cardinality(ahead(i)) = n - 1]]

Sorted(ids) == Arranged(ids, DOMAIN ids, ids)

CanonTarget(raw) ==
  LET t == MigrateTarget(raw) IN
  CASE t.kind = "broadcast" -> Broadcast
    [] t.kind = "groups"    -> Groups(Sorted(t.ids))
    [] OTHER                -> Target(t.kind, <<>>, t.mac)

(* An explicit offset needs a value per group of a concrete list; that no  *)
(* id occurs twice among the values is not asked.                          *)
ValidOffset(mode, values, target) ==
  \/ mode \in {"none", "formula"}
  \/ /\ mode = "explicit"
     /\ target.kind # "broadcast"
     /\ Len(values) = Len(target.ids)
     /\ \A i \in DOMAIN values : values[i].id \in ToSet(target.ids)

CanonValues(mode, values) ==
  IF mode = "explicit"
  THEN Arranged(values, DOMAIN values, [i \in DOMAIN values |-> values[i].id])
  ELSE <<>>

ValidChild(c, container) ==
  /\ c.kind \in EffectKinds
  /\ ValidTarget(c.target)
  /\ LET t == CanonTarget(c.target) IN
     t.kind = "groups" /\ container.kind = "groups"
       => ToSet(t.ids) \subseteq ToSet(container.ids)

CanonChild(c) == [c EXCEPT !.target = CanonTarget(@)]

ValidOffsetGroup(a) ==
  /\ ValidTarget(a.target)
  /\ LET t == CanonTarget(a.target) IN
     /\ t.kind # "device"
     /\ Len(t.ids) <= MaxEntries
     /\ ValidOffset(a.mode, a.values, t)
     /\ Len(a.actions) <= MaxChildren
     /\ \A i \in DOMAIN a.actions : ValidChild(a.actions[i], t)

CanonOffsetGroup(a) ==
  [a EXCEPT !.target = CanonTarget(@),
            !.values = CanonValues(a.mode, @),
            !.actions = [i \in DOMAIN @ |-> CanonChild(@[i])]]

(* The legacy groups were "all" (no ids here) or a list; the one child     *)
(* addresses the whole container.                                          *)
MigrateLegacy(a) ==
  IF a.target.kind # "groups_offset" THEN a
  ELSE OffsetGroup(IF a.target.ids = <<>> THEN Broadcast
                   ELSE Groups(a.target.ids),
                   a.mode, a.values, <<Child(a.kind, Broadcast)>>)

ValidAction(raw) ==
  LET a == MigrateLegacy(raw) IN
  \/ a.kind = "offset_group" /\ ValidOffsetGroup(a)
  \/ a.kind \in {"sync", "delay"} /\ a.target = NoTarget
  \/ a.kind \in EffectKinds \cup {"startblock"} /\ ValidTarget(a.target)

CanonAction(raw) ==
  LET a == MigrateLegacy(raw) IN
  CASE a.kind = "offset_group"      -> CanonOffsetGroup(a)
    [] a.kind \in {"sync", "delay"} -> Plain(a.kind)
    [] OTHER                        -> Effect(a.kind, CanonTarget(a.target))

ValidActions(raw) ==
  /\ Len(raw) <= MaxActions
  /\ \A i \in DOMAIN raw : ValidAction(raw[i])

CanonActions(raw) == [i \in DOMAIN raw |-> CanonAction(raw[i])]

-----------------------------------------------------------------------------
(* The deletion of group d: references to it become 0, those to the groups *)
(* above it go down by one.                                                *)
ShiftGroupDown(g, d) == IF g >= d THEN g - 1 ELSE g   \* mutant: off by one

ShiftGroup(g, d) ==
  CASE g = d -> 0
    [] g > d -> g - 1
    [] OTHER -> g

(* The elements of s, each key at its first occurrence.                    *)
FirstOf(s, keys) ==
  LET new(i) == \A j \in 1..(i - 1) : keys[j] # keys[i]
  IN Arranged(s, {i \in DOMAIN s : new(i)}, [i \in DOMAIN s |-> i])

ShiftTarget(t, d) ==
  LET ids == [i \in DOMAIN t.ids |-> ShiftGroup(t.ids[i], d)] IN
  IF t.kind # "groups" THEN t
  ELSE [t EXCEPT !.ids = FirstOf(ids, ids)]

ShiftValues(values, d) ==
  LET shifted == [i \in DOMAIN values |->
                    [values[i] EXCEPT !.id = ShiftGroup(@, d)]]
  IN FirstOf(shifted, [i \in DOMAIN values |-> shifted[i].id])

ShiftChild(c, d) == [c EXCEPT !.target = ShiftTarget(@, d)]

RenumberAction(a, d) ==
  [a EXCEPT
     !.target = ShiftTarget(@, d),
     !.values = ShiftValues(@, d),
     !.actions = [i \in DOMAIN @ |-> ShiftChild(@[i], d)]]

RenumberActions(acts, d) == [i \in DOMAIN acts |-> RenumberAction(acts[i], d)]
=============================================================================
