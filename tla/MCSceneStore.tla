---------------------------- MODULE MCSceneStore ----------------------------
(* SceneStore on a small instance: two groups of the operator beside the   *)
(* static one, and one draft of each shape the validator treats apart.     *)
EXTENDS SceneStore

CONSTANTS m1

At(id, ms) == [id |-> id, ms |-> ms]

(* One group, in the legacy form.                                          *)
OneGroup == <<Effect("rl_preset", Target("group", <<1>>, NoMac))>>
(* A container of both groups with a value each, and a child of one.       *)
Explicit == <<OffsetGroup(Groups(<<2, 1>>), "explicit",
                <<At(2, 7), At(1, 5)>>,
                <<Child("rl_preset", Groups(<<2>>))>>),
              Plain("sync")>>
(* Two values for one group and none for Home.                             *)
Twice == <<OffsetGroup(Groups(<<1, 0>>), "explicit",
               <<At(1, 5), At(1, 7)>>,
               <<Child("rl_preset", Broadcast)>>)>>
(* A pre-hierarchy action with Home and the second group, and a container  *)
(* of all with a child of one.                                             *)
Old == <<Legacy("wled_preset", Groups(<<0, 2>>), "formula", <<>>),
         OffsetGroup(Broadcast, "formula", <<>>,
           <<Child("wled_control", Groups(<<2>>))>>),
         Effect("startblock", Target("device", <<>>, m1))>>
(* Refused: a child of a group that does not participate.                  *)
Outside == <<OffsetGroup(Groups(<<1>>), "formula", <<>>,
               <<Child("rl_preset", Groups(<<2>>))>>)>>

AllDrafts ==
  {[acts |-> a, stop |-> "on"] : a \in {Explicit, Twice, Old, Outside}}
  \cup {[acts |-> OneGroup, stop |-> "off"]}

UserGroupsMayBeSwapped == Permutations(UserGroups)
=============================================================================
