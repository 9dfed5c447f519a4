----------------------------- MODULE SceneStore -----------------------------
(***************************************************************************)
(* The store of scenes (SceneService): one JSON file that is replaced      *)
(* whole, a cached copy of it, and the counter ids are vended from; with   *)
(* the editor of a browser, which composes a scene's actions from the      *)
(* group list it was shown, and the deletion of a group, which shifts the  *)
(* references of every scene.                                              *)
(*                                                                         *)
(* Every operation of the service runs under its lock and is one step      *)
(* here.  A write may fail (disk full), a read may fail (the file is then  *)
(* taken as empty), and the process may stop between any two operations.   *)
(* A group is identified by the operator's idea of it, never by its id,    *)
(* so that what a scene means can be told from the numbers it stores.      *)
(*                                                                         *)
(* The collapse of a target that names every group into a broadcast is     *)
(* not here: app.py gives the service no getter of the known groups, so    *)
(* the running program never performs it.                                  *)
(***************************************************************************)
EXTENDS SceneActions

CONSTANTS
  Home,        \* the static group at index 0; devices of a deleted group
               \* and references to it end there
  UserGroups,  \* groups the operator may create
  Labels,      \* labels of scenes
  Drafts,      \* what the editor may send: action lists with stop_on_error
  MaxIds,      \* bound: ids vended
  MaxFaults,   \* bound: failed writes, failed reads and restarts
  MaxDeletes   \* bound: groups deleted

ASSUME StoreAssumption ==
  /\ Home \notin UserGroups
  /\ MaxIds \in Nat /\ MaxFaults \in Nat /\ MaxDeletes \in Nat
  /\ GroupIdMax \in Nat
  /\ \A d \in Drafts : d.acts \in Seq(RawAction) /\ d.stop \in {"on", "off"}

VARIABLES
  file,     \* scenes.json
  cache,    \* _cache: the scenes it holds, or NoCache
  nextId,   \* _next_id, or -1 for None
  groups,   \* GroupRepository: the groups by index, the first has id 0
  draft,    \* what the editor is about to send, or NoDraft
  faults,   \* how much of MaxFaults has been used
  gone,     \* history: groups deleted
  everIds,  \* history: ids of scenes that were ever in the file
  intent,   \* history: what each saved scene was meant to do
  adrift,   \* history: scenes whose references may have missed a deletion,
            \* or with two offsets for one group
  tainted,  \* history: the cache was filled by a failed read, or holds a
            \* scene whose creation failed
  unread    \* history: a read has failed

serviceVars == <<file, cache, nextId>>
history     == <<gone, everIds, intent, adrift, tainted, unread>>
vars        == <<serviceVars, groups, draft, faults, history>>

NoCache == [held |-> FALSE, scenes |-> <<>>]
Holding(scenes) == [held |-> TRUE, scenes |-> scenes]
NoDraft == [acts |-> <<>>, stop |-> "on", old |-> TRUE]

NoFile  == [there |-> FALSE, next |-> 0, scenes |-> <<>>]

Scene(id, key, acts, stop) ==
  [id |-> id, key |-> key, acts |-> acts, stop |-> stop]

IdsOf(scenes) == {scenes[i].id : i \in DOMAIN scenes}

(* What _load makes of an entry: malformed actions are dropped, a missing  *)
(* stop_on_error reads as on.                                              *)
LoadScene(s) ==
  [s EXCEPT !.acts = IF ValidActions(@) THEN CanonActions(@) ELSE <<>>,
            !.stop = IF @ = "absent" THEN "on" ELSE @]

LoadScenes(f) == [i \in DOMAIN f.scenes |-> LoadScene(f.scenes[i])]

(* Mutant: the counter in the file is not looked at.                       *)
LoadNextFromIds(f) ==
  IF f.scenes = <<>> THEN 0
  ELSE 1 + CHOOSE i \in IdsOf(f.scenes) : \A j \in IdsOf(f.scenes) : j <= i

LoadNext(f) ==
  LET used == IdsOf(f.scenes) IN
  IF \A i \in used : f.next > i THEN f.next
  ELSE 1 + CHOOSE i \in used : \A j \in used : j <= i

(* _items(): the cache, or a load of the file; a read that fails yields    *)
(* an empty store whose ids start again at 0.                              *)
Items ==
  IF cache.held THEN {[scenes |-> cache.scenes, next |-> nextId, bad |-> 0]}
  ELSE {[scenes |-> LoadScenes(file), next |-> LoadNext(file), bad |-> 0]}
       \cup IF file.there THEN {[scenes |-> <<>>, next |-> 0, bad |-> 1]}
            ELSE {}

Spend(n) == faults + n <= MaxFaults /\ faults' = faults + n

(* The read is over: the cache holds it.                                   *)
Loaded(it) ==
  /\ cache' = Holding(it.scenes) /\ nextId' = it.next
  /\ tainted' = (tainted \/ it.bad = 1)
  /\ UNCHANGED <<file, everIds>>

(* Mutant: the cache is not invalidated.                                   *)
WrittenBehindCache(it, scenes, next) ==
  /\ file' = [there |-> TRUE, next |-> next, scenes |-> scenes]
  /\ cache' = Holding(it.scenes) /\ nextId' = next
  /\ tainted' = FALSE
  /\ everIds' = everIds \cup IdsOf(scenes)

(* _write_atomic and _invalidate.                                          *)
Written(it, scenes, next) ==
  /\ file' = [there |-> TRUE, next |-> next, scenes |-> scenes]
  /\ cache' = NoCache /\ nextId' = next
  /\ tainted' = FALSE
  /\ everIds' = everIds \cup IdsOf(scenes)

(* A list() or get().                                                      *)
Read ==
  \E it \in Items :
    /\ Spend(it.bad) /\ unread' = (unread \/ it.bad = 1)
    /\ Loaded(it)
    /\ UNCHANGED <<groups, draft, gone, intent, adrift>>

-----------------------------------------------------------------------------
(* What a scene does, told by the groups themselves.                       *)
NameOf(id, gs) == IF id < Len(gs) THEN gs[id + 1] ELSE NoMac
Names(t, gs)   == [kind |-> t.kind, mac |-> t.mac,
                   to |-> {NameOf(t.ids[i], gs) : i \in DOMAIN t.ids}]

Meaning(acts, gs) ==
  [i \in DOMAIN acts |->
     [kind |-> acts[i].kind, on |-> Names(acts[i].target, gs),
      mode |-> acts[i].mode,
      ms   |-> {<<NameOf(v.id, gs), v.ms>> : v \in ToSet(acts[i].values)},
      each |-> [j \in DOMAIN acts[i].actions |->
                  [kind |-> acts[i].actions[j].kind,
                   on   |-> Names(acts[i].actions[j].target, gs)]]]]

(* The deletion of a group moves what was meant for it to Home.            *)
Rehome(on, g) ==
  IF g \notin on.to THEN on ELSE [on EXCEPT !.to = (@ \ {g}) \cup {Home}]

RehomeMs(ms, g) ==
  LET kept == {p \in ms : p[1] # g} IN
  IF \E p \in kept : p[1] = Home THEN kept
  ELSE kept \cup {<<Home, p[2]>> : p \in ms \ kept}

RehomeChild(c, g) == [c EXCEPT !.on = Rehome(@, g)]

AfterDeletion(meant, g) ==
  [i \in DOMAIN meant |->
     [meant[i] EXCEPT
        !.on = Rehome(@, g), !.ms = RehomeMs(@, g),
        !.each = [j \in DOMAIN @ |-> RehomeChild(@[j], g)]]]

(* An explicit offset with two values for a group.                         *)
Doubled(acts) ==
  \E i \in DOMAIN acts : \E j, k \in DOMAIN acts[i].values :
    j # k /\ acts[i].values[j].id = acts[i].values[k].id

Saved(id, acts, stop) ==
  /\ intent' = [i \in DOMAIN intent \cup {id} |->
                 IF i = id THEN [acts |-> Meaning(acts, groups), stop |-> stop]
                 ELSE intent[i]]
  /\ adrift' = IF draft.old \/ Doubled(acts) THEN adrift \cup {id}
               ELSE adrift \ {id}

Refers(acts) ==
  LET targets(a) ==
        {a.target} \cup {a.actions[j].target : j \in DOMAIN a.actions}
  IN UNION {UNION {ToSet(t.ids) : t \in targets(CanonAction(acts[i]))} :
              i \in DOMAIN acts}

(* The editor shows the groups there are; ids are picked from that list.   *)
Compose ==
  /\ draft = NoDraft
  /\ \E d \in Drafts :
       /\ ValidActions(d.acts) => \A i \in Refers(d.acts) : i < Len(groups)
       /\ draft' = [acts |-> d.acts, stop |-> d.stop, old |-> FALSE]
  /\ UNCHANGED <<serviceVars, groups, faults, history>>

(* get(): the editor opens a scene, or duplicate() reads its source.  What *)
(* is saved from it later is a request, or a hold of the lock, of its own. *)
Open(key) ==
  /\ draft = NoDraft
  /\ \E it \in Items :
       /\ Spend(it.bad) /\ unread' = (unread \/ it.bad = 1)
       /\ Loaded(it)
       /\ \E n \in DOMAIN it.scenes :
            /\ it.scenes[n].key = key
            /\ draft' = [acts |-> it.scenes[n].acts,
                         stop |-> it.scenes[n].stop,
                         old  |-> it.scenes[n].id \in adrift]
  /\ UNCHANGED <<groups, gone, intent, adrift>>

(* A ValueError of the validator, before anything else was done.           *)
Refuse ==
  /\ draft # NoDraft /\ ~ValidActions(draft.acts)
  /\ draft' = NoDraft
  /\ UNCHANGED <<serviceVars, groups, faults, history>>

(* Mutant: a label always gives the same key.                              *)
UniqueKeyOfLabel(label, taken) == <<label, 1>>

UniqueKey(label, taken) ==
  CHOOSE k \in {<<label, n>> : n \in 1..(Cardinality(taken) + 1)} :
    /\ k \notin taken
    /\ \A n \in 1..(k[2] - 1) : <<label, n>> \in taken

KeysOf(scenes) == {scenes[i].key : i \in DOMAIN scenes}

(* create() after validation.  The new scene is appended to the cached     *)
(* list itself, so a write that fails leaves it there.                     *)
Insert(it, label, acts, stop) ==
  LET scene  == Scene(it.next, UniqueKey(label, KeysOf(it.scenes)), acts, stop)
      scenes == Append(it.scenes, scene)
  IN
  /\ it.next < MaxIds
  /\ unread' = (unread \/ it.bad = 1)
  /\ \/ /\ Spend(it.bad)
        /\ Written(it, scenes, it.next + 1)
        /\ Saved(scene.id, acts, stop)
     \/ /\ Spend(it.bad + 1)
        /\ cache' = Holding(scenes) /\ nextId' = it.next + 1
        /\ tainted' = TRUE
        /\ Saved(scene.id, acts, stop)
        /\ UNCHANGED <<file, everIds>>

Create(label) ==
  /\ draft # NoDraft /\ ValidActions(draft.acts)
  /\ \E it \in Items :
       Insert(it, label, CanonActions(draft.acts), draft.stop)
  /\ draft' = NoDraft
  /\ UNCHANGED <<groups, gone>>

(* Mutant: what is sent to replace a scene is not validated.               *)
UpdateUnchecked(key) ==
  /\ draft # NoDraft
  /\ \E it \in Items : \E n \in DOMAIN it.scenes :
       LET acts == CanonActions(draft.acts)
           new  == [it.scenes EXCEPT ![n].acts = acts, ![n].stop = draft.stop]
       IN
       /\ it.scenes[n].key = key
       /\ unread' = (unread \/ it.bad = 1)
       /\ Spend(it.bad)
       /\ Written(it, new, it.next)
       /\ Saved(it.scenes[n].id, acts, draft.stop)
  /\ draft' = NoDraft
  /\ UNCHANGED <<groups, gone>>

(* update() changes a copy of the cached list.                             *)
Update(key) ==
  /\ draft # NoDraft /\ ValidActions(draft.acts)
  /\ \E it \in Items : \E n \in DOMAIN it.scenes :
       LET acts == CanonActions(draft.acts)
           new  == [it.scenes EXCEPT ![n].acts = acts, ![n].stop = draft.stop]
       IN
       /\ it.scenes[n].key = key
       /\ unread' = (unread \/ it.bad = 1)
       /\ \/ /\ Spend(it.bad)
             /\ Written(it, new, it.next)
             /\ Saved(it.scenes[n].id, acts, draft.stop)
          \/ /\ Spend(it.bad + 1)
             /\ Loaded(it) /\ UNCHANGED <<intent, adrift>>
  /\ draft' = NoDraft
  /\ UNCHANGED <<groups, gone>>

(* delete() keeps the scenes of other keys: all but the one of this key.   *)
Delete(key) ==
  /\ \E it \in Items : \E n \in DOMAIN it.scenes :
       /\ it.scenes[n].key = key
       /\ unread' = (unread \/ it.bad = 1)
       /\ \/ LET left == RemoveAt(it.scenes, n) IN
             /\ Spend(it.bad)
             /\ Written(it, left, it.next)
             /\ intent' = [i \in DOMAIN intent \cap IdsOf(left) |-> intent[i]]
             /\ adrift' = adrift \cap IdsOf(left)
          \/ /\ Spend(it.bad + 1)
             /\ Loaded(it) /\ UNCHANGED <<intent, adrift>>
  /\ UNCHANGED <<groups, draft, gone>>

(* renumber_group_references(): all scenes or none.  It raises when the    *)
(* shift leaves a scene the validator refuses, and when the write fails.   *)
Renumber(it, d) ==
  LET shifted(s) == RenumberActions(s.acts, d)
      moved      == {n \in DOMAIN it.scenes :
                       shifted(it.scenes[n]) # it.scenes[n].acts}
      valid      == \A n \in moved : ValidActions(shifted(it.scenes[n]))
      new        == [n \in DOMAIN it.scenes |->
                       IF n \notin moved THEN it.scenes[n]
                       ELSE [it.scenes[n] EXCEPT
                               !.acts = CanonActions(shifted(it.scenes[n]))]]
  IN
  \/ /\ valid /\ Spend(it.bad)
     /\ IF moved = {} THEN Loaded(it) ELSE Written(it, new, it.next)
     /\ UNCHANGED adrift
  \/ /\ ~valid \/ moved # {}
     /\ Spend(it.bad + (IF valid THEN 1 ELSE 0))
     /\ Loaded(it)
     /\ adrift' = adrift \cup IdsOf(file.scenes) \cup IdsOf(it.scenes)

(* api_groups_delete holds the state lock throughout; a renumbering that   *)
(* raises is logged and the group is dropped all the same.                 *)
DeleteGroup(d) ==
  /\ Cardinality(gone) < MaxDeletes
  /\ d \in 1..(Len(groups) - 1)
  /\ \E it \in Items :
       /\ unread' = (unread \/ it.bad = 1)
       /\ Renumber(it, d)
  /\ groups' = RemoveAt(groups, d + 1)
  /\ gone' = gone \cup {groups[d + 1]}
  /\ intent' = [i \in DOMAIN intent |->
                  [intent[i] EXCEPT !.acts = AfterDeletion(@, groups[d + 1])]]
  /\ draft' = IF draft = NoDraft THEN draft ELSE [draft EXCEPT !.old = TRUE]

CreateGroup(g) ==
  /\ g \in UserGroups \ (ToSet(groups) \cup gone)
  /\ groups' = Append(groups, g)
  /\ UNCHANGED <<serviceVars, draft, faults, history>>

(* The process stops and starts again.                                     *)
Restart ==
  /\ Spend(1)
  /\ cache' = NoCache /\ nextId' = -1 /\ tainted' = FALSE
  /\ UNCHANGED <<file, groups, draft, gone, everIds, intent, adrift, unread>>

Init ==
  /\ file = NoFile
  /\ cache = NoCache /\ nextId = -1
  /\ groups = <<Home>>
  /\ draft = NoDraft
  /\ faults = 0
  /\ gone = {} /\ everIds = {} /\ adrift = {}
  /\ intent = [i \in {} |-> 0]
  /\ tainted = FALSE /\ unread = FALSE

Keys == {<<l, n>> : l \in Labels, n \in 1..MaxIds}

Next ==
  \/ Read \/ Compose \/ Refuse \/ Restart
  \/ \E l \in Labels : Create(l)
  \/ \E k \in Keys : Open(k) \/ Update(k) \/ Delete(k)
  \/ \E d \in 1..Cardinality(UserGroups) : DeleteGroup(d)
  \/ \E g \in UserGroups : CreateGroup(g)

Spec == Init /\ [][Next]_vars

-----------------------------------------------------------------------------
SceneType ==
  [id : 0..(MaxIds - 1), key : Keys, stop : {"on", "off", "absent"}]

ScenesOK(scenes) ==
  /\ \A i \in DOMAIN scenes :
       /\ [id |-> scenes[i].id, key |-> scenes[i].key,
           stop |-> scenes[i].stop] \in SceneType
       /\ ValidActions(scenes[i].acts)

(* Types; and a scene that was stored is one the validator takes.          *)
TypeOK ==
  /\ file.there \in BOOLEAN /\ file.next \in 0..MaxIds
  /\ ScenesOK(file.scenes)
  /\ cache \in {NoCache, Holding(cache.scenes)} /\ ScenesOK(cache.scenes)
  /\ nextId \in -1..MaxIds
  /\ ToSet(groups) \subseteq UserGroups \cup {Home} /\ groups[1] = Home
  /\ faults \in 0..MaxFaults
  /\ everIds \subseteq 0..(MaxIds - 1) /\ adrift \subseteq DOMAIN intent

Distinct(scenes) ==
  \A i, j \in DOMAIN scenes :
    scenes[i].id = scenes[j].id \/ scenes[i].key = scenes[j].key => i = j

(* The ids and the keys of the scenes in the file, and of those in the     *)
(* cache, are distinct, so that a route and a binding address one scene    *)
(* (_unique_key, next_id), over failed reads and writes too.               *)
Addressable == Distinct(file.scenes) /\ Distinct(cache.scenes)

(* What the service lists is what a restarted process would list           *)
(* (_invalidate after every write), unless a creation failed or the file   *)
(* could not be read since the cache was filled.                           *)
CleanCache ==
  cache.held /\ ~tainted =>
    cache.scenes = LoadScenes(file) /\ nextId = LoadNext(file)

(* After any sequence of saves, deletions of groups, failed writes and     *)
(* restarts a scene addresses the groups it was meant for, by the offsets  *)
(* it was given, or group 0 in place of a deleted one                      *)
(* (renumber_group_references), and stops on errors as it was told to.     *)
(* Excepted are scenes whose ids were picked before a deletion they were   *)
(* saved after, those a renumbering failed for, and those with two offsets *)
(* for one group: of these the shift keeps the first, the planner takes    *)
(* the last.                                                               *)
CleanReferences ==
  \A s \in ToSet(LoadScenes(file)) :
    s.id \notin adrift /\ ~unread =>
      /\ Meaning(s.acts, groups) = intent[s.id].acts
      /\ s.stop = intent[s.id].stop

(* An id is given to one scene only, over deletions and restarts, so that  *)
(* a binding to it never fires another scene (next_id in the file), unless *)
(* the file could not be read once.                                        *)
NoIdReused ==
  [][\A i \in IdsOf(file'.scenes) \ IdsOf(file.scenes) :
       i \notin everIds \/ unread']_vars

(* The premise CleanReferences spares: every reference to a group follows  *)
(* the deletion of another one.                                            *)
ReferencesFollow ==
  \A s \in ToSet(LoadScenes(file)) :
    Meaning(s.acts, groups) = intent[s.id].acts

(* An explicit offset has one value for each of its groups, as the message *)
(* of _canonical_offset_block asks; it looks at how many there are only.   *)
OneValuePerGroup == \A s \in ToSet(LoadScenes(file)) : ~Doubled(s.acts)
=============================================================================
