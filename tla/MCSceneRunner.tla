---------------------------- MODULE MCSceneRunner ----------------------------
(* SceneRunner on a small instance: a device in each of four groups, so    *)
(* that every packet sequence of the optimizer is the cheapest once.       *)
EXTENDS SceneRunner

CONSTANTS d0, d1, d2, d3, stranger, p1, fx

DeviceGroups == (d0 :> 0 @@ d1 :> 1) @@ (d2 :> 2 @@ d3 :> 3)
(* A preset stored with the flag a container must override.                *)
OnePreset == p1 :> [what |-> fx, flags |-> {"offset_mode"}]

To(kind, ids, mac) == [kind |-> kind, ids |-> ids, mac |-> mac]
Everyone == To("broadcast", <<>>, NoDevice)
To_(ids) == To("groups", ids, NoDevice)
Device(d) == To("device", <<>>, d)

A(kind, target, offset, kids, ref, what, override) ==
  [kind |-> kind, target |-> target, offset |-> offset, actions |-> kids,
   ref |-> ref, what |-> what, override |-> override]
None == [f \in {} |-> TRUE]
Off  == "offset_mode" :> FALSE
Preset(target)  == A("rl_preset", target, NoOffset, <<>>, p1, NoRef, None)
Plain(target)   == A("rl_preset", target, NoOffset, <<>>, p1, NoRef, Off)
Control(target, what) ==
  A("wled_control", target, NoOffset, <<>>, NoRef, what, Off)
Wled(target, what) ==
  A("wled_preset", target, NoOffset, <<>>, NoRef, what, None)
Start_(target)  == A("startblock", target, NoOffset, <<>>, NoRef, fx, None)
Sync            == A("sync", Everyone, NoOffset, <<>>, NoRef, NoRef, None)
Delay           == A("delay", Everyone, NoOffset, <<>>, NoRef, NoRef, None)
Container(target, offset, kids) ==
  A("offset_group", target, offset, kids, NoRef, NoRef, None)

At(id, ms) == [id |-> id, ms |-> ms]
Linear == Offset("linear", 10, 30000, 0, <<>>, 0)
Vshape == Offset("vshape", 300, -200, 2, <<>>, 0)
Modulo == Offset("modulo", -5, 20, 2, <<>>, 0)
Values == Offset("explicit", 0, 0, 0, <<At(0, 40), At(2, 9)>>, 0)

Scene(stop, actions) == [stop |-> stop, actions |-> actions]

ManyScenes == {
  (* A broadcast formula; the nodes then leave offset mode group by group. *)
  Scene(TRUE, <<Container(Everyone, Vshape, <<Control(To_(<<1, 2>>), fx)>>),
                Sync,
                Container(To_(<<3>>), NoOffset, <<Plain(Device(d3))>>)>>),
  (* A formula with one reset, and values for two groups.                  *)
  Scene(TRUE, <<Container(To_(<<0, 1, 3>>), Linear, <<Preset(Everyone)>>),
                Container(To_(<<0, 2>>), Values,
                          <<Control(To_(<<0>>), fx)>>)>>),
  (* Group by group: two of four, by formula.                              *)
  Scene(FALSE, <<Container(To_(<<1, 2>>), Vshape,
                           <<Control(Device(d2), fx), Wled(Everyone, fx)>>),
                 Control(To_(<<0, 3>>), fx)>>),
  (* Actions that fail in their several ways, with and without a stop.     *)
  Scene(FALSE, <<Container(Everyone, Modulo, <<Control(Device(stranger), fx)>>),
                 Wled(To_(<<1>>), BadParams), Start_(Device(d1)), Delay>>),
  Scene(TRUE, <<Preset(To_(<<2>>)), Control(Everyone, BadParams), Sync>>) }
=============================================================================
