-------------------------- MODULE SceneStore_proofs --------------------------
(***************************************************************************)
(* The store of scenes: its cache says what the file says, no two scenes   *)
(* share an id or a key, an id is given to one scene only, what is stored  *)
(* is what the validator takes, and a scene keeps addressing the groups it *)
(* was meant for over the deletion of others; for every draft the editor   *)
(* may send and any number of scenes, groups and faults.                   *)
(*                                                                         *)
(* The module goes from the lists of scenes (Listed, StoreInv) over the    *)
(* stable sort, the canonical form of an action, the shift of its groups   *)
(* and what it means, to the invariant of the references (RefsInv).        *)
(***************************************************************************)
EXTENDS SceneStore, SequenceTheorems, FiniteSetTheorems, WellFoundedInduction,
        TLAPS

Fields == {"id", "key", "acts", "stop"}

(* A list of scenes as the file and the cache keep it, with the counter    *)
(* its next id is vended from.                                             *)
Listed(scenes, next) ==
  /\ scenes \in Seq(ToSet(scenes)) /\ Distinct(scenes) /\ next \in Nat
  /\ \A i \in DOMAIN scenes :
       /\ DOMAIN scenes[i] = Fields
       /\ scenes[i].id \in Nat /\ scenes[i].id < next

LEMMA ListedIs ==
  ASSUME NEW scenes, NEW next, Listed(scenes, next)
  PROVE  Len(scenes) \in Nat /\ DOMAIN scenes = 1..Len(scenes)
BY LenProperties DEF Listed

-----------------------------------------------------------------------------
(* What the service does to a list.                                        *)
LEMMA ListedNone == Listed(<<>>, 0) /\ IdsOf(<<>>) = {} /\ Distinct(<<>>)
<1>1. <<>> \in Seq(ToSet(<<>>)) /\ DOMAIN <<>> = {}
  BY EmptySeq
<1>. QED
  BY <1>1 DEF Listed, IdsOf, Distinct

LEMMA ListedAppended ==
  ASSUME NEW scenes, NEW next, Listed(scenes, next), NEW scene,
         DOMAIN scene = Fields, scene.id = next, scene.key \notin KeysOf(scenes)
  PROVE  /\ Listed(Append(scenes, scene), next + 1)
         /\ IdsOf(Append(scenes, scene)) = IdsOf(scenes) \cup {next}
<1>. DEFINE n == Len(scenes)  new == Append(scenes, scene)
            T == ToSet(scenes) \cup {scene}
<1>1. n \in Nat /\ DOMAIN scenes = 1..n /\ scenes \in Seq(T)
  BY ListedIs, SeqMonotonic DEF Listed
<1>2. /\ new \in Seq(T) /\ DOMAIN new = 1..(n + 1) /\ new[n + 1] = scene
      /\ \A i \in 1..n : new[i] = scenes[i]
  BY <1>1, AppendProperties, LenProperties
<1>. HIDE DEF new, n
<1>3. ToSet(new) = T
  BY <1>1, <1>2 DEF ToSet
<1>4. \A i \in 1..n : /\ scenes[i].id \in Nat /\ scenes[i].id < next
                      /\ scenes[i].key # scene.key
  BY <1>1 DEF Listed, KeysOf
<1>5. Distinct(new)
  <2>1. SUFFICES ASSUME NEW i \in 1..(n + 1), NEW j \in 1..(n + 1),
                        new[i].id = new[j].id \/ new[i].key = new[j].key
                 PROVE  i = j
    BY <1>2 DEF Distinct
  <2>2. next \in Nat
    BY DEF Listed
  <2>3. CASE i \in 1..n /\ j \in 1..n
    BY <1>1, <1>2, <2>1, <2>3 DEF Listed, Distinct
  <2>4. CASE i \in 1..n /\ j = n + 1
    BY <1>2, <1>4, <2>1, <2>2, <2>4
  <2>5. CASE i = n + 1 /\ j \in 1..n
    BY <1>2, <1>4, <2>1, <2>2, <2>5
  <2>. QED
    BY <1>1, <2>3, <2>4, <2>5
<1>6. next + 1 \in Nat /\ next < next + 1
      /\ \A k \in Nat : k < next => k < next + 1
  BY DEF Listed
<1>7. ASSUME NEW i \in 1..(n + 1)
      PROVE  /\ DOMAIN new[i] = Fields
             /\ new[i].id \in Nat /\ new[i].id < next + 1
  <2>1. CASE i \in 1..n
    BY <1>1, <1>2, <1>6, <2>1 DEF Listed
  <2>2. CASE i = n + 1
    BY <1>2, <1>6, <2>2 DEF Listed
  <2>. QED
    BY <1>1, <2>1, <2>2
<1>8. Listed(new, next + 1)
  BY <1>2, <1>3, <1>5, <1>6, <1>7 DEF Listed
<1>9. IdsOf(new) = IdsOf(scenes) \cup {next}
  BY <1>1, <1>2 DEF IdsOf
<1>. QED
  BY <1>8, <1>9 DEF new

LEMMA RemovedIs ==
  ASSUME NEW T, NEW s \in Seq(T), NEW k \in 1..Len(s)
  PROVE  /\ RemoveAt(s, k) \in Seq(T)
         /\ Len(RemoveAt(s, k)) = Len(s) - 1
         /\ \A i \in 1..(Len(s) - 1) :
              RemoveAt(s, k)[i] = IF i < k THEN s[i] ELSE s[i + 1]
<1>. DEFINE left == SubSeq(s, 1, k - 1)  right == SubSeq(s, k + 1, Len(s))
<1>1. Len(s) \in Nat
  BY LenProperties
<1>2. /\ left \in Seq(T) /\ Len(left) = k - 1
      /\ \A i \in 1..(k - 1) : left[i] = s[i]
  BY <1>1, SubSeqProperties
<1>3. /\ right \in Seq(T) /\ Len(right) = Len(s) - k
      /\ \A i \in 1..(Len(s) - k) : right[i] = s[k + i]
  BY <1>1, SubSeqProperties
<1>4. RemoveAt(s, k) = left \o right
  BY DEF RemoveAt
<1>. HIDE DEF left, right
<1>5. /\ left \o right \in Seq(T)
      /\ Len(left \o right) = Len(left) + Len(right)
      /\ \A i \in 1..(Len(left) + Len(right)) :
           (left \o right)[i] = IF i <= Len(left) THEN left[i]
                               ELSE right[i - Len(left)]
  BY <1>2, <1>3, ConcatProperties
<1>6. ASSUME NEW i \in 1..(Len(s) - 1)
      PROVE  RemoveAt(s, k)[i] = IF i < k THEN s[i] ELSE s[i + 1]
  <2>1. CASE i < k
    BY <1>1, <1>2, <1>3, <1>4, <1>5, <2>1
  <2>2. CASE ~(i < k)
    <3>1. /\ i - (k - 1) \in 1..(Len(s) - k) /\ k + (i - (k - 1)) = i + 1
          /\ ~(i <= Len(left)) /\ i \in 1..(Len(left) + Len(right))
      BY <1>1, <1>2, <1>3, <2>2
    <3>. QED
      BY <1>2, <1>3, <1>4, <1>5, <2>2, <3>1
  <2>. QED
    BY <2>1, <2>2
<1>. QED
  BY <1>1, <1>2, <1>3, <1>4, <1>5, <1>6

LEMMA ListedRemoved ==
  ASSUME NEW scenes, NEW next, Listed(scenes, next), NEW k \in DOMAIN scenes
  PROVE  /\ Listed(RemoveAt(scenes, k), next)
         /\ IdsOf(RemoveAt(scenes, k)) \subseteq IdsOf(scenes)
<1>. DEFINE n == Len(scenes)  T == ToSet(scenes)
            new == RemoveAt(scenes, k)
            At(i) == IF i < k THEN i ELSE i + 1
<1>1. n \in Nat /\ DOMAIN scenes = 1..n /\ scenes \in Seq(T) /\ k \in 1..n
  BY ListedIs DEF Listed
<1>2. new \in Seq(T) /\ Len(new) = n - 1
  BY <1>1, RemovedIs
<1>3. \A i \in 1..(n - 1) : new[i] = scenes[At(i)]
  BY <1>1, RemovedIs
<1>4. DOMAIN new = 1..(n - 1) /\ n - 1 \in Nat
  BY <1>1, <1>2, LenProperties
<1>5. /\ \A i \in 1..(n - 1) : At(i) \in 1..n
      /\ \A i, j \in 1..(n - 1) : At(i) = At(j) => i = j
  BY <1>1
<1>. HIDE DEF new, At, n
<1>6. new \in Seq(ToSet(new))
  <2>1. \A i \in 1..(n - 1) : new[i] \in ToSet(new)
    BY <1>4 DEF ToSet
  <2>2. new \in [1..(n - 1) -> T]
    BY <1>2, LenProperties, <1>4
  <2>3. new \in [1..(n - 1) -> ToSet(new)]
    BY <2>1, <2>2
  <2>. QED
    BY <1>4, <2>3, SeqDef
<1>7. Listed(new, next)
  <2>1. Distinct(new)
    <3>1. SUFFICES ASSUME NEW i \in 1..(n - 1), NEW j \in 1..(n - 1),
                          new[i].id = new[j].id \/ new[i].key = new[j].key
                   PROVE  i = j
      BY <1>4 DEF Distinct
    <3>2. At(i) = At(j)
      BY SMTT(60), <1>1, <1>3, <1>5, <3>1 DEF Listed, Distinct
    <3>. QED
      BY <1>5, <3>2
  <2>2. \A i \in 1..(n - 1) : /\ DOMAIN new[i] = Fields
                              /\ new[i].id \in Nat /\ new[i].id < next
    BY <1>1, <1>3, <1>5 DEF Listed
  <2>. QED
    BY <1>4, <1>6, <2>1, <2>2 DEF Listed
<1>8. IdsOf(new) \subseteq IdsOf(scenes)
  BY <1>1, <1>3, <1>4, <1>5 DEF IdsOf
<1>. QED
  BY <1>7, <1>8 DEF new

LEMMA ListedReplaced ==
  ASSUME NEW scenes, NEW next, Listed(scenes, next),
         NEW new, new = [i \in DOMAIN scenes |-> new[i]],
         \A i \in DOMAIN scenes :
           /\ DOMAIN new[i] = Fields
           /\ new[i].id = scenes[i].id /\ new[i].key = scenes[i].key
  PROVE  Listed(new, next) /\ IdsOf(new) = IdsOf(scenes)
<1>1. Len(scenes) \in Nat /\ DOMAIN scenes = 1..Len(scenes)
  BY ListedIs
<1>2. DOMAIN new = DOMAIN scenes
  OBVIOUS
<1>3. new \in [1..Len(scenes) -> ToSet(new)]
  BY <1>1, <1>2 DEF ToSet
<1>4. new \in Seq(ToSet(new))
  BY <1>1, <1>3
<1>. QED
  BY <1>1, <1>2, <1>4 DEF Listed, Distinct, IdsOf

(* A list read from the file has the ids and the keys of the file.         *)
LEMMA ListedLoaded ==
  ASSUME NEW f, Listed(f.scenes, f.next)
  PROVE  /\ Listed(LoadScenes(f), f.next) /\ IdsOf(LoadScenes(f)) = IdsOf(f.scenes)
         /\ LoadNext(f) = f.next
<1>. DEFINE new == LoadScenes(f)
<1>1. new = [i \in DOMAIN f.scenes |-> LoadScene(f.scenes[i])]
  BY DEF LoadScenes
<1>2. ASSUME NEW i \in DOMAIN f.scenes
      PROVE  /\ DOMAIN new[i] = Fields
             /\ new[i].id = f.scenes[i].id /\ new[i].key = f.scenes[i].key
  BY ZenonT(60), <1>1, <1>2 DEF Listed, LoadScene, Fields
<1>3. new = [i \in DOMAIN f.scenes |-> new[i]]
  BY <1>1
<1>. HIDE DEF new
<1>4. Listed(new, f.next) /\ IdsOf(new) = IdsOf(f.scenes)
  BY <1>2, <1>3, ListedReplaced
<1>5. LoadNext(f) = f.next
  BY DEF Listed, LoadNext, IdsOf
<1>. QED
  BY <1>4, <1>5 DEF new

(* The first of a set of numbers.                                          *)
LEMMA Least ==
  ASSUME NEW T, T \subseteq Nat, T # {}
  PROVE  \E x \in T : \A y \in T : x <= y
<1>. DEFINE less == {p \in Nat \X Nat : p[1] < p[2]}
<1>1. IsWellFoundedOn(less, Nat)
  BY NatLessThanWellFounded DEF OpToRel
<1>2. PICK x \in T : \A y \in T : <<y, x>> \notin less
  BY <1>1, WFMin
<1>3. ASSUME NEW y \in T PROVE x <= y
  <2>1. <<y, x>> \in Nat \X Nat
    OBVIOUS
  <2>. QED
    BY <1>2, <2>1
<1>. QED
  BY <1>3

(* Among one more key than are taken, a free one; and the first of them.   *)
LEMMA KeyIsFree ==
  ASSUME NEW taken, IsFiniteSet(taken), NEW label
  PROVE  /\ UniqueKey(label, taken) \notin taken
         /\ \E n \in 1..(Cardinality(taken) + 1) :
              UniqueKey(label, taken) = <<label, n>>
<1>. DEFINE N == Cardinality(taken) + 1
            key == [n \in 1..N |-> <<label, n>>]
            free == {n \in 1..N : <<label, n>> \notin taken}
<1>1. Cardinality(taken) \in Nat
  BY FS_CardinalityType
<1>2. free # {}
  <2>1. SUFFICES ASSUME free = {} PROVE FALSE
    OBVIOUS
  <2>2. key \in [1..N -> taken]
    BY <2>1
  <2>3. IsFiniteSet(1..N) /\ Cardinality(taken) < Cardinality(1..N)
    <3>1. N \in Int /\ 1 \in Int /\ ~(1 > N) /\ N - 1 + 1 = N
          /\ Cardinality(taken) < N
      BY <1>1
    <3>2. IsFiniteSet(1..N) /\ Cardinality(1..N) = IF 1 > N THEN 0 ELSE N - 1 + 1
      BY <3>1, FS_Interval
    <3>. QED
      BY <3>1, <3>2
  <2>4. PICK x, y \in 1..N : x # y /\ key[x] = key[y]
    <3>. HIDE DEF key, N
    <3>. QED
      BY <2>2, <2>3, FS_PigeonHole
  <2>5. key[x] = <<label, x>> /\ key[y] = <<label, y>>
    OBVIOUS
  <2>. QED
    BY <2>4, <2>5
<1>3. PICK m \in free : \A n \in free : m <= n
  <2>1. free \subseteq Nat
    OBVIOUS
  <2>. QED
    BY <1>2, <2>1, Least
<1>4. \A n \in 1..(m - 1) : <<label, n>> \in taken
  BY <1>1, <1>3
<1>5. \E k \in {<<label, n>> : n \in 1..N} :
        /\ k \notin taken
        /\ \A n \in 1..(k[2] - 1) : <<label, n>> \in taken
  <2>1. <<label, m>>[2] = m
    OBVIOUS
  <2>. QED
    BY <1>3, <1>4, <2>1
<1>. QED
  BY <1>5 DEF UniqueKey

LEMMA KeysFinite ==
  ASSUME NEW scenes, NEW next, Listed(scenes, next)
  PROVE  IsFiniteSet(KeysOf(scenes))
<1>1. Len(scenes) \in Nat /\ DOMAIN scenes = 1..Len(scenes)
  BY ListedIs
<1>2. IsFiniteSet(1..Len(scenes))
  BY <1>1, FS_Interval
<1>. DEFINE f == [i \in 1..Len(scenes) |-> scenes[i].key]
<1>3. f \in Surjection(1..Len(scenes), KeysOf(scenes))
  BY <1>1 DEF KeysOf, Surjection
<1>. QED
  BY <1>2, <1>3, FS_Surjection

-----------------------------------------------------------------------------
(* The file and the cache hold lists; and as long as no read has failed    *)
(* the counter, in the cache and in the file, is past every id there ever  *)
(* was, and the cache holds no scene that is out of the file but whose     *)
(* creation failed.                                                        *)
ListsInv ==
  /\ Listed(file.scenes, file.next)
  /\ IF cache.held
     THEN cache = Holding(cache.scenes) /\ Listed(cache.scenes, nextId)
     ELSE cache = NoCache

IdsInv ==
  ~unread =>
    /\ \A i \in everIds : i \in Nat /\ i < file.next
    /\ cache.held =>
         /\ file.next <= nextId
         /\ IdsOf(cache.scenes) \cap everIds \subseteq IdsOf(file.scenes)

StoreInv == ListsInv /\ IdsInv /\ CleanCache

\* Ids that come into the file are new.
NewIds ==
  \A i \in IdsOf(file'.scenes) \ IdsOf(file.scenes) : i \notin everIds \/ unread'

(* What an operation works on.                                             *)
LEMMA ItemIs ==
  ASSUME StoreInv, NEW it \in Items
  PROVE  /\ Listed(it.scenes, it.next) /\ it.bad \in {0, 1}
         /\ it.bad = 1 => it.scenes = <<>> /\ it.next = 0
         /\ it.bad = 0 /\ ~unread =>
              /\ file.next <= it.next
              /\ IdsOf(it.scenes) \cap everIds \subseteq IdsOf(file.scenes)
         /\ it.bad = 0 /\ (cache.held => ~tainted) =>
              it.scenes = LoadScenes(file) /\ it.next = LoadNext(file)
<1>1. CASE cache.held
  <2>1. it = [scenes |-> cache.scenes, next |-> nextId, bad |-> 0]
    BY <1>1 DEF Items
  <2>. QED
    BY <1>1, <2>1 DEF StoreInv, ListsInv, IdsInv, CleanCache
<1>2. CASE ~cache.held
  <2>1. \/ it = [scenes |-> LoadScenes(file), next |-> LoadNext(file), bad |-> 0]
        \/ it = [scenes |-> <<>>, next |-> 0, bad |-> 1]
    BY <1>2 DEF Items
  <2>2. /\ Listed(LoadScenes(file), file.next) /\ LoadNext(file) = file.next
        /\ IdsOf(LoadScenes(file)) = IdsOf(file.scenes)
    BY ListedLoaded DEF StoreInv, ListsInv
  <2>3. file.next \in Nat
    BY DEF StoreInv, ListsInv, Listed
  <2>. QED
    BY <1>2, <2>1, <2>2, <2>3, ListedNone
<1>. QED
  BY <1>1, <1>2

(* An operation that leaves the file as it is.                             *)
LEMMA AfterLoad ==
  ASSUME StoreInv, NEW it \in Items, Loaded(it),
         unread' = (unread \/ it.bad = 1)
  PROVE  StoreInv' /\ NewIds
<1>1. /\ UNCHANGED <<file, everIds>> /\ cache' = Holding(it.scenes)
      /\ nextId' = it.next /\ tainted' = (tainted \/ it.bad = 1)
  BY DEF Loaded
<1>2. cache'.held /\ cache'.scenes = it.scenes
  BY <1>1 DEF Holding
<1>3. ListsInv'
  BY <1>1, <1>2, ItemIs DEF StoreInv, ListsInv
<1>4. IdsInv'
  BY <1>1, <1>2, ItemIs DEF StoreInv, IdsInv
<1>5. CleanCache'
  <2>1. ~tainted' => it.bad = 0 /\ ~tainted
    BY <1>1, ItemIs
  <2>2. ~tainted' => it.scenes = LoadScenes(file) /\ it.next = LoadNext(file)
    BY <2>1, ItemIs
  <2>3. LoadScenes(file') = LoadScenes(file) /\ LoadNext(file') = LoadNext(file)
    BY <1>1
  <2>. QED
    BY <1>1, <1>2, <2>2, <2>3 DEF CleanCache
<1>. QED
  BY <1>1, <1>3, <1>4, <1>5 DEF StoreInv, NewIds

(* An operation that replaces the file.                                    *)
LEMMA AfterWrite ==
  ASSUME StoreInv, NEW it \in Items, unread' = (unread \/ it.bad = 1),
         NEW scenes, NEW next, Listed(scenes, next), it.next <= next,
         IdsOf(scenes) \subseteq IdsOf(it.scenes) \cup {it.next},
         Written(it, scenes, next)
  PROVE  StoreInv' /\ NewIds
<1>1. /\ file' = [there |-> TRUE, next |-> next, scenes |-> scenes]
      /\ cache' = NoCache /\ everIds' = everIds \cup IdsOf(scenes)
  BY DEF Written
<1>2. ~cache'.held /\ file'.scenes = scenes /\ file'.next = next
  BY <1>1 DEF NoCache
<1>3. ListsInv'
  BY <1>1, <1>2 DEF ListsInv
<1>4. it.next \in Nat /\ next \in Nat /\ file.next \in Nat
  BY ItemIs DEF Listed, StoreInv, ListsInv
<1>5. \A i \in IdsOf(scenes) : i \in Nat /\ i < next
  BY DEF Listed, IdsOf
<1>6. ~unread' => ~unread /\ it.bad = 0 /\ file.next <= it.next
  BY ItemIs
<1>7. ~unread' => \A i \in everIds : i \in Nat /\ i < file.next
  BY <1>6 DEF StoreInv, IdsInv
<1>8. IdsInv'
  BY <1>1, <1>2, <1>4, <1>5, <1>6, <1>7 DEF IdsInv
<1>9. NewIds
  <2>1. ASSUME NEW i \in IdsOf(scenes) \ IdsOf(file.scenes), ~unread'
        PROVE  i \notin everIds
    <3>1. CASE i \in IdsOf(it.scenes)
      BY <1>6, <2>1, <3>1, ItemIs
    <3>2. CASE i = it.next
      BY <1>4, <1>6, <1>7, <2>1, <3>2
    <3>. QED
      BY <2>1, <3>1, <3>2
  <2>. QED
    BY <1>2, <2>1 DEF NewIds
<1>10. CleanCache'
  BY <1>2 DEF CleanCache
<1>. QED
  BY <1>3, <1>8, <1>9, <1>10 DEF StoreInv

(* create(): the scene is new in id and key, whether the write succeeds or *)
(* leaves it in the cached list.                                           *)
LEMMA AfterInsert ==
  ASSUME StoreInv, NEW it \in Items, NEW label, NEW acts, NEW stop,
         Insert(it, label, acts, stop)
  PROVE  StoreInv' /\ NewIds
<1>. DEFINE scene == Scene(it.next, UniqueKey(label, KeysOf(it.scenes)),
                           acts, stop)
            scenes == Append(it.scenes, scene)
<1>1. Listed(it.scenes, it.next)
  BY ItemIs
<1>2. UniqueKey(label, KeysOf(it.scenes)) \notin KeysOf(it.scenes)
  BY <1>1, KeysFinite, KeyIsFree
<1>3. DOMAIN scene = Fields /\ scene.id = it.next /\ scene.key \notin KeysOf(it.scenes)
  BY <1>2 DEF Scene, Fields
<1>4. unread' = (unread \/ it.bad = 1)
  BY DEF Insert
<1>5. \/ Written(it, scenes, it.next + 1)
      \/ /\ cache' = Holding(scenes) /\ nextId' = it.next + 1
         /\ tainted' = TRUE /\ UNCHANGED <<file, everIds>>
  BY DEF Insert
<1>. HIDE DEF scene
<1>6. /\ Listed(scenes, it.next + 1)
      /\ IdsOf(scenes) = IdsOf(it.scenes) \cup {it.next}
  BY <1>1, <1>3, ListedAppended
<1>7. it.next \in Nat /\ it.next <= it.next + 1
  BY <1>1 DEF Listed
<1>. HIDE DEF scenes
<1>8. CASE Written(it, scenes, it.next + 1)
  BY <1>4, <1>6, <1>7, <1>8, AfterWrite
<1>9. CASE /\ cache' = Holding(scenes) /\ nextId' = it.next + 1
           /\ tainted' = TRUE /\ UNCHANGED <<file, everIds>>
  <2>1. cache'.held /\ cache'.scenes = scenes
    BY <1>9 DEF Holding
  <2>2. ListsInv'
    BY <1>6, <1>9, <2>1 DEF StoreInv, ListsInv
  <2>3. IdsInv'
    <3>1. SUFFICES ASSUME ~unread'
                   PROVE  /\ \A i \in everIds : i \in Nat /\ i < file.next
                          /\ file.next <= it.next + 1
                          /\ IdsOf(scenes) \cap everIds \subseteq IdsOf(file.scenes)
      BY <1>9, <2>1 DEF IdsInv
    <3>2. ~unread /\ it.bad = 0 /\ file.next <= it.next
          /\ IdsOf(it.scenes) \cap everIds \subseteq IdsOf(file.scenes)
      BY <1>4, <3>1, ItemIs
    <3>3. \A i \in everIds : i \in Nat /\ i < file.next
      BY <3>2 DEF StoreInv, IdsInv
    <3>4. file.next \in Nat
      BY DEF StoreInv, ListsInv, Listed
    <3>5. it.next \notin everIds
      BY <1>7, <3>2, <3>3, <3>4
    <3>. QED
      BY <1>6, <1>7, <3>2, <3>3, <3>4, <3>5
  <2>. QED
    BY <1>9, <2>2, <2>3 DEF StoreInv, CleanCache, NewIds
<1>. QED
  BY <1>5, <1>8, <1>9

(* A renumbering or an update keeps the ids and the keys.                  *)
LEMMA AfterRewrite ==
  ASSUME StoreInv, NEW it \in Items, unread' = (unread \/ it.bad = 1),
         NEW new, new = [n \in DOMAIN it.scenes |-> new[n]],
         \A n \in DOMAIN it.scenes :
           /\ DOMAIN new[n] = DOMAIN it.scenes[n]
           /\ new[n].id = it.scenes[n].id /\ new[n].key = it.scenes[n].key,
         Written(it, new, it.next)
  PROVE  StoreInv' /\ NewIds
<1>1. Listed(it.scenes, it.next)
  BY ItemIs
<1>2. \A n \in DOMAIN it.scenes : DOMAIN new[n] = Fields
  BY <1>1 DEF Listed
<1>3. Listed(new, it.next) /\ IdsOf(new) = IdsOf(it.scenes)
  BY <1>1, <1>2, ListedReplaced
<1>4. it.next <= it.next
  BY <1>1 DEF Listed
<1>. QED
  BY <1>3, <1>4, AfterWrite

LEMMA StoreStep ==
  ASSUME StoreInv, [Next]_vars
  PROVE  StoreInv' /\ NewIds
<1>1. ASSUME NEW it \in Items, unread' = (unread \/ it.bad = 1), Loaded(it)
      PROVE  StoreInv' /\ NewIds
  BY <1>1, AfterLoad
<1>2. CASE Read \/ \E k \in Keys : Open(k)
  BY <1>1, <1>2 DEF Read, Open
<1>3. ASSUME NEW l \in Labels, Create(l) PROVE StoreInv' /\ NewIds
  BY <1>3, AfterInsert DEF Create
<1>4. ASSUME NEW k \in Keys, Update(k) PROVE StoreInv' /\ NewIds
  <2>0. PICK it \in Items : \E n \in DOMAIN it.scenes :
          /\ unread' = (unread \/ it.bad = 1)
          /\ \/ Loaded(it)
             \/ Written(it, [it.scenes EXCEPT
                               ![n].acts = CanonActions(draft.acts),
                               ![n].stop = draft.stop], it.next)
    BY <1>4 DEF Update
  <2>1. PICK n \in DOMAIN it.scenes :
          /\ unread' = (unread \/ it.bad = 1)
          /\ \/ Loaded(it)
             \/ Written(it, [it.scenes EXCEPT
                               ![n].acts = CanonActions(draft.acts),
                               ![n].stop = draft.stop], it.next)
    BY <2>0
  <2>. DEFINE new == [it.scenes EXCEPT ![n].acts = CanonActions(draft.acts),
                                       ![n].stop = draft.stop]
  <2>2. /\ new = [i \in DOMAIN it.scenes |-> new[i]]
        /\ \A i \in DOMAIN it.scenes :
             /\ DOMAIN new[i] = DOMAIN it.scenes[i]
             /\ new[i].id = it.scenes[i].id /\ new[i].key = it.scenes[i].key
    <3>1. \A i \in DOMAIN it.scenes : DOMAIN it.scenes[i] = Fields
      BY ItemIs DEF Listed
    <3>2. DOMAIN new = DOMAIN it.scenes
      OBVIOUS
    <3>3. new = [i \in DOMAIN it.scenes |-> new[i]]
      BY <3>2
    <3>. QED
      BY <3>1, <3>3 DEF Fields
  <2>. HIDE DEF new
  <2>3. CASE Written(it, new, it.next)
    BY <2>1, <2>2, <2>3, AfterRewrite
  <2>. QED
    BY <1>1, <2>1, <2>3 DEF new
<1>5. ASSUME NEW k \in Keys, Delete(k) PROVE StoreInv' /\ NewIds
  <2>0. PICK it \in Items : \E n \in DOMAIN it.scenes :
          /\ unread' = (unread \/ it.bad = 1)
          /\ Loaded(it) \/ Written(it, RemoveAt(it.scenes, n), it.next)
    BY <1>5 DEF Delete
  <2>1. PICK n \in DOMAIN it.scenes :
          /\ unread' = (unread \/ it.bad = 1)
          /\ Loaded(it) \/ Written(it, RemoveAt(it.scenes, n), it.next)
    BY <2>0
  <2>2. CASE Written(it, RemoveAt(it.scenes, n), it.next)
    <3>1. Listed(it.scenes, it.next)
      BY ItemIs
    <3>2. /\ Listed(RemoveAt(it.scenes, n), it.next)
          /\ IdsOf(RemoveAt(it.scenes, n)) \subseteq IdsOf(it.scenes)
      BY <3>1, ListedRemoved
    <3>3. it.next <= it.next
      BY <3>1 DEF Listed
    <3>. QED
      BY <2>1, <2>2, <3>2, <3>3, AfterWrite
  <2>. QED
    BY <1>1, <2>1, <2>2
<1>6. ASSUME NEW d \in 1..Cardinality(UserGroups), DeleteGroup(d)
      PROVE  StoreInv' /\ NewIds
  <2>1. PICK it \in Items : unread' = (unread \/ it.bad = 1) /\ Renumber(it, d)
    BY <1>6 DEF DeleteGroup
  <2>. DEFINE shifted(s) == RenumberActions(s.acts, d)
              moved == {n \in DOMAIN it.scenes :
                          shifted(it.scenes[n]) # it.scenes[n].acts}
              new == [n \in DOMAIN it.scenes |->
                        IF n \notin moved THEN it.scenes[n]
                        ELSE [it.scenes[n] EXCEPT
                                !.acts = CanonActions(shifted(it.scenes[n]))]]
  <2>2. Loaded(it) \/ Written(it, new, it.next)
    BY <2>1 DEF Renumber
  <2>3. /\ new = [i \in DOMAIN it.scenes |-> new[i]]
        /\ \A i \in DOMAIN it.scenes :
             /\ DOMAIN new[i] = DOMAIN it.scenes[i]
             /\ new[i].id = it.scenes[i].id /\ new[i].key = it.scenes[i].key
    <3>. HIDE DEF moved, shifted
    <3>1. \A i \in DOMAIN it.scenes : DOMAIN it.scenes[i] = Fields
      BY ItemIs DEF Listed
    <3>. QED
      BY <3>1 DEF Fields
  <2>. HIDE DEF new
  <2>4. CASE Written(it, new, it.next)
    BY <2>1, <2>3, <2>4, AfterRewrite
  <2>. QED
    BY <1>1, <2>1, <2>2, <2>4
<1>7. CASE Restart
  <2>1. /\ UNCHANGED <<file, everIds, unread>> /\ cache' = NoCache
    BY <1>7 DEF Restart
  <2>. QED
    BY <2>1
       DEF StoreInv, ListsInv, IdsInv, CleanCache, NoCache, NewIds
<1>8. CASE \/ Compose \/ Refuse \/ \E g \in UserGroups : CreateGroup(g)
           \/ UNCHANGED vars
  <2>1. UNCHANGED <<file, cache, nextId, everIds, unread, tainted>>
    BY <1>8 DEF Compose, Refuse, CreateGroup, vars, serviceVars, history
  <2>. QED
    BY <2>1 DEF StoreInv, ListsInv, IdsInv, CleanCache, NewIds, IdsOf,
               LoadScenes, LoadNext
<1>. QED
  BY <1>2, <1>3, <1>4, <1>5, <1>6, <1>7, <1>8 DEF Next

LEMMA StoreInvAlways == Spec => []StoreInv
<1>1. Init => StoreInv
  BY ListedNone
     DEF Init, StoreInv, ListsInv, IdsInv, CleanCache, NoFile, NoCache
<1>. QED
  BY <1>1, StoreStep, PTL DEF Spec

-----------------------------------------------------------------------------
(* The stable sort (Arranged): the order in which it takes positions.      *)

(* Where i comes in the order of the keys: after these.                    *)
Ahead(i, S, key) ==
  {j \in S : \/ key[j] < key[i]
             \/ (key[j] = key[i] /\ j < i)}

LEMMA Interval ==
  ASSUME NEW m \in Nat
  PROVE  IsFiniteSet(1..m) /\ Cardinality(1..m) = m
<1>1. m \in Int /\ 1 \in Int /\ (1 > m => m = 0) /\ m - 1 + 1 = m
  OBVIOUS
<1>2. /\ IsFiniteSet(1..m)
      /\ Cardinality(1..m) = IF 1 > m THEN 0 ELSE m - 1 + 1
  BY <1>1, FS_Interval
<1>. QED
  BY <1>1, <1>2

LEMMA IntervalFromZero ==
  ASSUME NEW n \in Nat
  PROVE  IsFiniteSet(0..(n - 1)) /\ Cardinality(0..(n - 1)) = n
<1>1. /\ n - 1 \in Int /\ 0 \in Int /\ (0 > n - 1 => n = 0)
      /\ (n - 1) - 0 + 1 = n
  OBVIOUS
<1>2. /\ IsFiniteSet(0..(n - 1))
      /\ Cardinality(0..(n - 1)) = IF 0 > n - 1 THEN 0 ELSE (n - 1) - 0 + 1
  BY <1>1, FS_Interval
<1>. QED
  BY <1>1, <1>2

LEMMA AheadIs ==
  ASSUME NEW S, NEW key, NEW i, NEW j
  PROVE  j \in Ahead(i, S, key) <=>
           j \in S /\ (key[j] < key[i] \/ (key[j] = key[i] /\ j < i))
BY DEF Ahead

(* The positions of a set are told apart by how many come before them.     *)
LEMMA Ranks ==
  ASSUME NEW m \in Nat, NEW S \in SUBSET (1..m), NEW key,
         \A i \in S : key[i] \in Int
  PROVE  /\ IsFiniteSet(S) /\ Cardinality(S) \in Nat
         /\ \A i \in S : Cardinality(Ahead(i, S, key)) \in 0..(Cardinality(S) - 1)
         /\ \A i, j \in S :
              i \in Ahead(j, S, key) =>
                Cardinality(Ahead(i, S, key)) < Cardinality(Ahead(j, S, key))
         /\ \A i, j \in S :
              i = j \/ i \in Ahead(j, S, key) \/ j \in Ahead(i, S, key)
<1>. DEFINE A(i) == Ahead(i, S, key)  n == Cardinality(S)
<1>1. IsFiniteSet(S) /\ n \in Nat
  <2>1. IsFiniteSet(1..m)
    BY Interval
  <2>. QED
    BY <2>1, FS_Subset, FS_CardinalityType
<1>2. ASSUME NEW i \in S
      PROVE  IsFiniteSet(A(i)) /\ Cardinality(A(i)) \in Nat
  BY <1>1, FS_Subset, FS_CardinalityType DEF Ahead
<1>3. \A i \in S : i \notin A(i)
  BY DEF Ahead
<1>4. ASSUME NEW i \in S PROVE Cardinality(A(i)) \in 0..(n - 1)
  <2>1. A(i) \in SUBSET S /\ A(i) # S
    BY <1>3 DEF Ahead
  <2>2. Cardinality(A(i)) <= n /\ Cardinality(A(i)) # n
    BY <1>1, <2>1, FS_Subset
  <2>. QED
    BY <1>1, <1>2, <2>2
<1>5. ASSUME NEW i \in S, NEW j \in S, i \in A(j)
      PROVE  Cardinality(A(i)) < Cardinality(A(j))
  <2>1. i \in Int /\ j \in Int /\ \A k \in S : k \in Int
    OBVIOUS
  <2>2. A(i) \subseteq A(j)
    <3>0. ASSUME NEW k, k \in A(i) PROVE k \in A(j)
      <4>2. k \in S /\ (key[k] < key[i] \/ (key[k] = key[i] /\ k < i))
        BY <3>0, AheadIs
      <4>3. key[i] < key[j] \/ (key[i] = key[j] /\ i < j)
        BY <1>5, AheadIs
      <4>4. key[i] \in Int /\ key[j] \in Int /\ key[k] \in Int
            /\ i \in Int /\ j \in Int /\ k \in Int
        BY <2>1, <4>2
      <4>5. key[k] < key[j] \/ (key[k] = key[j] /\ k < j)
        BY <4>2, <4>3, <4>4
      <4>. QED
        BY <4>2, <4>5, AheadIs
    <3>. QED
      BY <3>0
  <2>3. A(i) # A(j)
    BY <1>3, <1>5
  <2>4. Cardinality(A(i)) <= Cardinality(A(j))
        /\ Cardinality(A(i)) # Cardinality(A(j))
    BY <1>2, <2>2, <2>3, FS_Subset
  <2>. QED
    BY <1>2, <2>4
<1>6. ASSUME NEW i \in S, NEW j \in S PROVE i = j \/ i \in A(j) \/ j \in A(i)
  <2>1. i \in Int /\ j \in Int
    OBVIOUS
  <2>. QED
    BY <2>1 DEF Ahead
<1>. QED
  BY <1>1, <1>4, <1>5, <1>6

(* The order At in which Arranged takes the positions in S.                *)
At(n, S, key) == CHOOSE i \in S : Cardinality(Ahead(i, S, key)) = n - 1

(* So it goes through S in the order of the keys.                          *)
Through(f, n, S, key) ==
  /\ n \in Nat /\ f \in [1..n -> S]
  /\ \A i \in S : \E k \in 1..n : f[k] = i
  /\ \A k, l \in 1..n : f[k] = f[l] => k = l
  /\ \A k, l \in 1..n : k < l => key[f[k]] <= key[f[l]]
  /\ \A k, l \in 1..n : k < l /\ key[f[k]] = key[f[l]] => f[k] < f[l]

Picks(s, f, n) == [k \in 1..n |-> s[f[k]]]

(* Arranged goes through the positions in S, each once, by key and then by *)
(* position.                                                               *)
LEMMA ArrangedThrough ==
  ASSUME NEW m \in Nat, NEW S \in SUBSET (1..m), NEW key,
         \A i \in S : key[i] \in Int, NEW s
  PROVE  \E f : /\ Through(f, Cardinality(S), S, key)
                /\ Arranged(s, S, key) = Picks(s, f, Cardinality(S))
<1>0. PICK n : n = Cardinality(S)
  OBVIOUS
<1>. DEFINE A(i) == Ahead(i, S, key)
            rank(i) == Cardinality(A(i))
<1>1. IsFiniteSet(S) /\ n \in Nat
  BY <1>0, Ranks
<1>2. \A i \in S : rank(i) \in 0..(n - 1)
  BY <1>0, Ranks
<1>3. \A i, j \in S : i \in A(j) => rank(i) < rank(j)
  BY Ranks
<1>4. \A i, j \in S : i = j \/ i \in A(j) \/ j \in A(i)
  BY Ranks
<1>5. Arranged(s, S, key) = [k \in 1..n |-> s[At(k, S, key)]]
  BY <1>0 DEF Arranged, At, Ahead
<1>. HIDE DEF A, rank
<1>6. ASSUME NEW i \in S, NEW j \in S, rank(i) = rank(j) PROVE i = j
  BY <1>2, <1>3, <1>4, <1>6
<1>7. ASSUME NEW k \in 1..n PROVE \E i \in S : rank(i) = k - 1
  <2>1. SUFFICES ASSUME \A i \in S : rank(i) # k - 1 PROVE FALSE
    OBVIOUS
  <2>. DEFINE T == 0..(n - 1)  U == T \ {k - 1}  f == [i \in S |-> rank(i)]
  <2>2. IsFiniteSet(T) /\ Cardinality(T) = n /\ k - 1 \in T
    <3>1. k - 1 \in T
      BY <1>1
    <3>2. IsFiniteSet(T) /\ Cardinality(T) = n
      BY <1>1, IntervalFromZero
    <3>. QED
      BY <3>1, <3>2
  <2>3. IsFiniteSet(U) /\ Cardinality(U) = n - 1
    <3>. HIDE DEF T
    <3>1. IsFiniteSet(T \ {k - 1})
          /\ Cardinality(T \ {k - 1}) = Cardinality(T) - 1
      BY <2>2, FS_RemoveElement
    <3>. QED
      BY <2>2, <3>1
  <2>4. f \in [S -> U]
    BY <1>2, <2>1
  <2>5. Cardinality(U) < Cardinality(S)
    BY <1>0, <1>1, <2>3
  <2>6. \E x, y \in S : x # y /\ f[x] = f[y]
    <3>. HIDE DEF U, f
    <3>. QED
      BY <1>1, <2>3, <2>4, <2>5, FS_PigeonHole
  <2>. QED
    BY <1>6, <2>6
<1>8. ASSUME NEW k \in 1..n
      PROVE  At(k, S, key) \in S /\ rank(At(k, S, key)) = k - 1
  BY <1>7 DEF At, rank, A
<1>9. ASSUME NEW i \in S PROVE \E k \in 1..n : At(k, S, key) = i
  <2>1. rank(i) + 1 \in 1..n /\ (rank(i) + 1) - 1 = rank(i)
    BY <1>1, <1>2
  <2>2. At(rank(i) + 1, S, key) \in S /\ rank(At(rank(i) + 1, S, key)) = rank(i)
    BY <1>8, <2>1
  <2>. QED
    BY <1>6, <2>1, <2>2
<1>10. ASSUME NEW k \in 1..n, NEW l \in 1..n, k < l
       PROVE  At(k, S, key) \in A(At(l, S, key))
  <2>. DEFINE i == At(k, S, key)  j == At(l, S, key)
  <2>1. i \in S /\ j \in S /\ rank(i) = k - 1 /\ rank(j) = l - 1
    BY <1>8
  <2>2. i # j
    BY <1>10, <2>1
  <2>3. j \notin A(i)
    <3>1. j \in A(i) => k - 1 > l - 1
      BY <1>3, <2>1
    <3>. QED
      BY <1>10, <3>1
  <2>. HIDE DEF i, j
  <2>4. i \in A(j)
    BY <1>4, <2>1, <2>2, <2>3
  <2>. QED
    BY <2>4 DEF i, j
<1>11. ASSUME NEW k \in 1..n, NEW l \in 1..n, At(k, S, key) = At(l, S, key)
       PROVE  k = l
  BY <1>8, <1>11
<1>. DEFINE g == [k \in 1..n |-> At(k, S, key)]
<1>12. \A k \in 1..n : g[k] = At(k, S, key)
  OBVIOUS
<1>13. g \in [1..n -> S]
  BY <1>8
<1>. HIDE DEF g
<1>14. ASSUME NEW k \in 1..n, NEW l \in 1..n, k < l
       PROVE  key[g[k]] <= key[g[l]] /\ (key[g[k]] = key[g[l]] => g[k] < g[l])
  <2>1. g[k] \in Ahead(g[l], S, key)
    BY <1>10, <1>12, <1>14 DEF A
  <2>2. key[g[k]] < key[g[l]] \/ (key[g[k]] = key[g[l]] /\ g[k] < g[l])
    BY <2>1, AheadIs
  <2>3. key[g[k]] \in Int /\ key[g[l]] \in Int
    BY <1>13
  <2>. QED
    BY <2>2, <2>3
<1>15. Arranged(s, S, key) = Picks(s, g, n)
  BY <1>5, <1>12 DEF Picks
<1>16. Through(g, n, S, key)
  BY <1>1, <1>9, <1>11, <1>12, <1>13, <1>14 DEF Through
<1>. QED
  BY <1>0, <1>15, <1>16

(* What is in order already stays as it is.                                *)
LEMMA ArrangedStays ==
  ASSUME NEW m \in Nat, NEW key, \A i \in 1..m : key[i] \in Int,
         \A i, j \in 1..m : i < j => key[i] <= key[j],
         NEW T, NEW s \in [1..m -> T]
  PROVE  Arranged(s, 1..m, key) = s
<1>. DEFINE S == 1..m
<1>1. Cardinality(S) = m
  BY Interval
<1>2. ASSUME NEW i \in S PROVE Cardinality(Ahead(i, S, key)) = i - 1
  <2>1. Ahead(i, S, key) \subseteq 1..(i - 1)
    <3>1. SUFFICES ASSUME NEW j \in Ahead(i, S, key) PROVE j < i
      BY DEF Ahead
    <3>2. j \in S /\ (key[j] < key[i] \/ (key[j] = key[i] /\ j < i))
      BY DEF Ahead
    <3>3. key[i] \in Int /\ key[j] \in Int /\ ~(key[j] < key[i] /\ key[i] <= key[j])
      BY <3>2
    <3>. QED
      BY <3>2, <3>3
  <2>2. 1..(i - 1) \subseteq Ahead(i, S, key)
    BY DEF Ahead
  <2>3. i - 1 \in Nat
    OBVIOUS
  <2>. QED
    BY <2>1, <2>2, <2>3, Interval
<1>4. ASSUME NEW i \in S PROVE At(i, S, key) = i
  <2>1. ASSUME NEW j \in S, Cardinality(Ahead(j, S, key)) = i - 1 PROVE j = i
    <3>1. j - 1 = i - 1
      BY <1>2, <2>1
    <3>. QED
      BY <3>1
  <2>2. i \in S /\ Cardinality(Ahead(i, S, key)) = i - 1
    BY <1>2
  <2>3. At(i, S, key) \in S /\ Cardinality(Ahead(At(i, S, key), S, key)) = i - 1
    BY <2>2 DEF At
  <2>. HIDE DEF S
  <2>. QED
    BY <2>1, <2>3
<1>5. Arranged(s, S, key) = [k \in 1..m |-> s[At(k, S, key)]]
  BY <1>1 DEF Arranged, At, Ahead
<1>. QED
  BY <1>4, <1>5

(* What a use of it for all of a sequence gives.                           *)
LEMMA ArrangedAll ==
  ASSUME NEW T, NEW s \in Seq(T), NEW key, \A i \in DOMAIN s : key[i] \in Int
  PROVE  LET r == Arranged(s, DOMAIN s, key) IN
         /\ r \in Seq(T) /\ Len(r) = Len(s) /\ ToSet(r) = ToSet(s)
         /\ \E f : /\ Through(f, Len(s), 1..Len(s), key)
                   /\ \A k \in 1..Len(s) : r[k] = s[f[k]]
<1>. DEFINE r == Arranged(s, DOMAIN s, key)
<1>1. PICK m \in Nat : m = Len(s)
  BY LenProperties
<1>2. DOMAIN s = 1..m /\ s \in [1..m -> T]
  BY <1>1, LenProperties
<1>3. PICK S \in SUBSET (1..m) : S = 1..m
  OBVIOUS
<1>4. \A i \in S : key[i] \in Int
  BY <1>2, <1>3
<1>5. PICK f : /\ Through(f, Cardinality(S), S, key)
               /\ Arranged(s, S, key) = Picks(s, f, Cardinality(S))
  BY <1>4, ArrangedThrough
<1>6. Cardinality(S) = m
  BY <1>3, Interval
<1>7. Through(f, m, 1..m, key) /\ r = [k \in 1..m |-> s[f[k]]]
  BY <1>2, <1>3, <1>5, <1>6 DEF Picks
<1>. HIDE DEF r
<1>8. f \in [1..m -> 1..m] /\ \A i \in 1..m : \E k \in 1..m : f[k] = i
  BY <1>7 DEF Through
<1>9. r \in [1..m -> T]
  BY <1>2, <1>7, <1>8
<1>10. r \in Seq(T) /\ Len(r) = m
  BY <1>9
<1>11. ToSet(r) = ToSet(s)
  <2>1. DOMAIN r = 1..m
    BY <1>9
  <2>2. \A x : x \in ToSet(r) <=> \E k \in 1..m : x = s[f[k]]
    BY <1>7, <2>1 DEF ToSet
  <2>3. \A x : x \in ToSet(s) <=> \E k \in 1..m : x = s[k]
    BY <1>2 DEF ToSet
  <2>4. \A x : x \in ToSet(r) => x \in ToSet(s)
    BY <1>8, <2>2, <2>3
  <2>5. ASSUME NEW x \in ToSet(s) PROVE x \in ToSet(r)
    <3>1. PICK i \in 1..m : x = s[i]
      BY <2>3
    <3>2. PICK k \in 1..m : f[k] = i
      BY <1>8
    <3>. QED
      BY <2>2, <3>1, <3>2
  <2>. QED
    BY <2>4, <2>5
<1>. QED
  BY <1>1, <1>7, <1>10, <1>11 DEF r

(* The ids of a target in canonical form; sorting them again does nothing. *)
LEMMA SortedIs ==
  ASSUME NEW ids \in Seq(Int)
  PROVE  LET r == Sorted(ids) IN
         /\ r \in Seq(Int) /\ Len(r) = Len(ids) /\ ToSet(r) = ToSet(ids)
         /\ \A k, l \in 1..Len(ids) : k < l => r[k] <= r[l]
         /\ IsInjective(ids) => IsInjective(r)
<1>. DEFINE r == Sorted(ids)
<1>1. DOMAIN ids = 1..Len(ids) /\ Len(ids) \in Nat
      /\ \A i \in DOMAIN ids : ids[i] \in Int
  BY LenProperties
<1>2. r = Arranged(ids, DOMAIN ids, ids)
  BY DEF Sorted
<1>. HIDE DEF r
<1>3. /\ r \in Seq(Int) /\ Len(r) = Len(ids) /\ ToSet(r) = ToSet(ids)
      /\ \E f : /\ Through(f, Len(ids), 1..Len(ids), ids)
                /\ \A k \in 1..Len(ids) : r[k] = ids[f[k]]
  BY <1>1, <1>2, ArrangedAll
<1>4. PICK f : /\ Through(f, Len(ids), 1..Len(ids), ids)
               /\ \A k \in 1..Len(ids) : r[k] = ids[f[k]]
  BY <1>3
<1>5. DOMAIN r = 1..Len(ids)
  BY <1>3, LenProperties
<1>6. \A k, l \in 1..Len(ids) : k < l => r[k] <= r[l]
  BY <1>4 DEF Through
<1>7. ASSUME IsInjective(ids) PROVE IsInjective(r)
  <2>1. ASSUME NEW k \in DOMAIN r, NEW l \in DOMAIN r, r[k] = r[l]
        PROVE  k = l
    <3>1. f[k] \in DOMAIN ids /\ f[l] \in DOMAIN ids /\ ids[f[k]] = ids[f[l]]
      BY <1>1, <1>4, <1>5, <2>1 DEF Through
    <3>2. f[k] = f[l]
      BY <1>7, <3>1 DEF IsInjective
    <3>. QED
      BY <1>4, <1>5, <2>1, <3>2 DEF Through
  <2>. QED
    BY <2>1 DEF IsInjective
<1>. QED
  BY <1>3, <1>6, <1>7 DEF r

LEMMA SortedStays ==
  ASSUME NEW ids \in Seq(Int),
         \A k, l \in 1..Len(ids) : k < l => ids[k] <= ids[l]
  PROVE  Sorted(ids) = ids
<1>1. PICK m \in Nat : m = Len(ids)
  BY LenProperties
<1>2. DOMAIN ids = 1..m /\ ids \in [1..m -> Int]
      /\ \A i \in 1..m : ids[i] \in Int
  BY <1>1, LenProperties
<1>3. Arranged(ids, 1..m, ids) = ids
  BY <1>1, <1>2, ArrangedStays
<1>. QED
  BY <1>2, <1>3 DEF Sorted

(* No two of the values are for one group.                                 *)
Single(values) ==
  \A j, k \in DOMAIN values : values[j].id = values[k].id => j = k

Rising(values) ==
  \A j, k \in DOMAIN values : j < k => values[j].id <= values[k].id

(* The values of an explicit offset in canonical form.                     *)
LEMMA ValuesAre ==
  ASSUME NEW values \in Seq(Value)
  PROVE  LET r == CanonValues("explicit", values) IN
         /\ r \in Seq(Value) /\ Len(r) = Len(values)
         /\ ToSet(r) = ToSet(values) /\ Rising(r)
         /\ Single(values) => Single(r)
<1>. DEFINE r == CanonValues("explicit", values)
            key == [i \in DOMAIN values |-> values[i].id]
<1>1. DOMAIN values = 1..Len(values) /\ Len(values) \in Nat
      /\ \A i \in DOMAIN values : values[i] \in Value
  BY LenProperties
<1>2. r = Arranged(values, DOMAIN values, key)
  BY DEF CanonValues
<1>3. \A i \in DOMAIN values : key[i] = values[i].id /\ key[i] \in Int
  BY <1>1 DEF Value
<1>. HIDE DEF r, key
<1>4. /\ r \in Seq(Value) /\ Len(r) = Len(values) /\ ToSet(r) = ToSet(values)
      /\ \E f : /\ Through(f, Len(values), 1..Len(values), key)
                /\ \A k \in 1..Len(values) : r[k] = values[f[k]]
  BY <1>2, <1>3, ArrangedAll
<1>5. PICK f : /\ Through(f, Len(values), 1..Len(values), key)
               /\ \A k \in 1..Len(values) : r[k] = values[f[k]]
  BY <1>4
<1>6. DOMAIN r = 1..Len(values)
  BY <1>4, LenProperties
<1>7. \A k \in DOMAIN r : f[k] \in DOMAIN values /\ r[k].id = key[f[k]]
  <2>1. \A k \in DOMAIN r : f[k] \in DOMAIN values
    BY <1>1, <1>5, <1>6 DEF Through
  <2>. QED
    BY <1>3, <1>5, <1>6, <2>1
<1>8. Rising(r)
  <2>1. \A k, l \in 1..Len(values) : k < l => key[f[k]] <= key[f[l]]
    BY <1>5 DEF Through
  <2>. QED
    BY <1>6, <1>7, <2>1 DEF Rising
<1>9. Single(values) => Single(r)
  BY <1>3, <1>5, <1>6, <1>7 DEF Through, Single
<1>. QED
  BY <1>4, <1>8, <1>9 DEF r

LEMMA ValuesStay ==
  ASSUME NEW values \in Seq(Value), Rising(values)
  PROVE  CanonValues("explicit", values) = values
<1>. DEFINE key == [i \in DOMAIN values |-> values[i].id]
<1>1. PICK m \in Nat : m = Len(values)
  BY LenProperties
<1>2. DOMAIN values = 1..m /\ values \in [1..m -> Value]
      /\ \A i \in 1..m : values[i] \in Value
  BY <1>1, LenProperties
<1>3. /\ \A i \in 1..m : key[i] \in Int
      /\ \A i, j \in 1..m : i < j => key[i] <= key[j]
  BY <1>2 DEF Value, Rising
<1>. HIDE DEF key
<1>4. Arranged(values, 1..m, key) = values
  BY <1>2, <1>3, ArrangedStays
<1>. QED
  BY <1>2, <1>4 DEF CanonValues, key

(* What is left of a sequence when each key is taken at its first          *)
(* occurrence.                                                             *)
IsNew(i, keys) == \A j \in 1..(i - 1) : keys[j] # keys[i]

LEMMA FirstIs ==
  ASSUME NEW T, NEW s \in Seq(T), NEW keys
  PROVE  LET r == FirstOf(s, keys) IN
         /\ r \in Seq(T)
         /\ ToSet(r) = {s[i] : i \in {j \in DOMAIN s : IsNew(j, keys)}}
         /\ \E f : /\ f \in [DOMAIN r -> DOMAIN s]
                   /\ \A k \in DOMAIN r : r[k] = s[f[k]]
                   /\ \A k, l \in DOMAIN r : keys[f[k]] = keys[f[l]] => k = l
<1>. DEFINE r == FirstOf(s, keys)  key == [i \in DOMAIN s |-> i]
<1>1. PICK m \in Nat : m = Len(s)
  BY LenProperties
<1>2. DOMAIN s = 1..m /\ s \in [1..m -> T]
  BY <1>1, LenProperties
<1>3. PICK S \in SUBSET (1..m) : S = {j \in DOMAIN s : IsNew(j, keys)}
  BY <1>2
<1>4. \A i \in S : key[i] \in Int
  BY <1>2
<1>5. r = Arranged(s, S, key)
  BY <1>3 DEF FirstOf, IsNew
<1>. HIDE DEF r, key
<1>6. PICK f : /\ Through(f, Cardinality(S), S, key)
               /\ Arranged(s, S, key) = Picks(s, f, Cardinality(S))
  BY <1>4, ArrangedThrough
<1>7. PICK n \in Nat : n = Cardinality(S)
  BY <1>6 DEF Through
<1>8. r = [k \in 1..n |-> s[f[k]]] /\ DOMAIN r = 1..n
  BY <1>5, <1>6, <1>7 DEF Picks
<1>9. /\ f \in [1..n -> S] /\ \A i \in S : \E k \in 1..n : f[k] = i
      /\ \A k, l \in 1..n : f[k] = f[l] => k = l
  BY <1>6, <1>7 DEF Through
<1>10. r \in Seq(T)
  <2>1. r \in [1..n -> T]
    BY <1>2, <1>8, <1>9
  <2>. QED
    BY <2>1
<1>11. ToSet(r) = {s[i] : i \in S}
  <2>1. \A x : x \in ToSet(r) <=> \E k \in 1..n : x = s[f[k]]
    BY <1>8 DEF ToSet
  <2>2. \A x : (\E k \in 1..n : x = s[f[k]]) => \E i \in S : x = s[i]
    BY <1>9
  <2>3. \A x : (\E i \in S : x = s[i]) => \E k \in 1..n : x = s[f[k]]
    BY <1>9
  <2>4. \A x : x \in {s[i] : i \in S} <=> \E i \in S : x = s[i]
    OBVIOUS
  <2>. QED
    BY <2>1, <2>2, <2>3, <2>4
<1>12. ASSUME NEW k \in 1..n, NEW l \in 1..n, keys[f[k]] = keys[f[l]]
       PROVE  k = l
  <2>1. /\ f[k] \in 1..m /\ f[l] \in 1..m
        /\ IsNew(f[k], keys) /\ IsNew(f[l], keys)
    BY <1>2, <1>3, <1>9
  <2>2. ~(f[k] < f[l]) /\ ~(f[l] < f[k])
    BY <1>12, <2>1 DEF IsNew
  <2>. QED
    BY <1>9, <2>1, <2>2
<1>13. f \in [DOMAIN r -> DOMAIN s]
  BY <1>2, <1>8, <1>9
<1>14. ToSet(r) = {s[i] : i \in {j \in DOMAIN s : IsNew(j, keys)}}
  BY <1>3, <1>11
<1>15. /\ f \in [DOMAIN r -> DOMAIN s]
       /\ \A k \in DOMAIN r : r[k] = s[f[k]]
       /\ \A k, l \in DOMAIN r : keys[f[k]] = keys[f[l]] => k = l
  BY <1>8, <1>12, <1>13
<1>. QED
  BY <1>10, <1>14, <1>15 DEF r

(* Each key has a first occurrence.                                        *)
LEMMA NewOf ==
  ASSUME NEW T, NEW s \in Seq(T), NEW keys, NEW i \in DOMAIN s
  PROVE  \E j \in DOMAIN s : IsNew(j, keys) /\ keys[j] = keys[i] /\ j <= i
<1>1. DOMAIN s = 1..Len(s) /\ Len(s) \in Nat
  BY LenProperties
<1>. DEFINE S == {j \in DOMAIN s : keys[j] = keys[i]}
<1>2. S \subseteq Nat /\ S # {}
  BY <1>1
<1>3. PICK j \in S : \A k \in S : j <= k
  BY <1>2, Least
<1>4. ASSUME NEW k \in 1..(j - 1) PROVE keys[k] # keys[j]
  BY <1>1, <1>3
<1>. QED
  BY <1>3, <1>4 DEF IsNew

-----------------------------------------------------------------------------
(* What the validator returns: ids in strict order, values by group, and   *)
(* none of the fields a kind does not have.                                *)
Climbing(ids) == \A k, l \in DOMAIN ids : k < l => ids[k] < ids[l]

IsTarget(t) ==
  \/ t = Broadcast
  \/ t = Target("device", <<>>, t.mac) /\ t.mac \in Macs
  \/ t = Groups(t.ids) /\ t.ids \in Seq(Int) /\ t.ids # <<>>
     /\ Climbing(t.ids) /\ ToSet(t.ids) \subseteq 0..GroupIdMax

IsChild(c, container) ==
  /\ c \in RawChild /\ c.kind \in EffectKinds /\ IsTarget(c.target)
  /\ c.target.kind = "groups" /\ container.kind = "groups"
       => ToSet(c.target.ids) \subseteq ToSet(container.ids)

IsValues(mode, values, target) ==
  \/ mode \in {"none", "formula"} /\ values = <<>>
  \/ /\ mode = "explicit" /\ target.kind # "broadcast"
     /\ values \in Seq(Value) /\ Rising(values)
     /\ Len(values) = Len(target.ids)
     /\ \A i \in DOMAIN values : values[i].id \in ToSet(target.ids)

IsAction(a) ==
  \/ a \in {Plain("sync"), Plain("delay")}
  \/ /\ a = Effect(a.kind, a.target)
     /\ a.kind \in EffectKinds \cup {"startblock"} /\ IsTarget(a.target)
  \/ /\ a = OffsetGroup(a.target, a.mode, a.values, a.actions)
     /\ IsTarget(a.target) /\ a.target.kind # "device"
     /\ Len(a.target.ids) <= MaxEntries
     /\ IsValues(a.mode, a.values, a.target)
     /\ a.actions \in Seq(RawChild) /\ Len(a.actions) <= MaxChildren
     /\ \A i \in DOMAIN a.actions : IsChild(a.actions[i], a.target)

LEMMA NoneIs ==
  /\ <<>> \in Seq(Int) /\ <<>> \in Seq(Value) /\ <<>> \in Seq(RawChild)
  /\ DOMAIN <<>> = {} /\ Len(<<>>) = 0
BY EmptySeq

LEMMA RawTargetIs ==
  ASSUME NEW kind \in TargetKinds, NEW ids \in Seq(Int), NEW mac \in Macs \cup {NoMac}
  PROVE  Target(kind, ids, mac) \in RawTarget
BY DEF Target, RawTarget

LEMMA BroadcastIs == Broadcast \in RawTarget /\ Broadcast.kind = "broadcast"
                     /\ Broadcast.ids = <<>>
<1>1. "broadcast" \in TargetKinds /\ NoMac \in Macs \cup {NoMac}
  BY DEF TargetKinds
<1>2. Broadcast \in RawTarget
  BY <1>1, NoneIs, RawTargetIs DEF Broadcast
<1>. QED
  BY <1>2 DEF Broadcast, Target

LEMMA GroupsAre ==
  ASSUME NEW ids \in Seq(Int)
  PROVE  /\ Groups(ids) \in RawTarget
         /\ Groups(ids).kind = "groups" /\ Groups(ids).ids = ids
<1>1. Groups(ids) \in RawTarget
  <2>1. "groups" \in TargetKinds /\ NoMac \in Macs \cup {NoMac}
    BY DEF TargetKinds
  <2>. QED
    BY <2>1, RawTargetIs DEF Groups
<1>. QED
  BY <1>1 DEF Groups, Target

LEMMA ClimbingIs ==
  ASSUME NEW ids \in Seq(Int)
  PROVE  /\ IsInjective(ids) => Climbing(Sorted(ids))
         /\ Climbing(ids) => Sorted(ids) = ids /\ IsInjective(ids)
<1>1. DOMAIN ids = 1..Len(ids) /\ Len(ids) \in Nat
      /\ \A i \in 1..Len(ids) : ids[i] \in Int
  BY LenProperties
<1>2. ASSUME IsInjective(ids) PROVE Climbing(Sorted(ids))
  <2>. DEFINE r == Sorted(ids)
  <2>1. /\ r \in Seq(Int) /\ Len(r) = Len(ids)
        /\ \A k, l \in 1..Len(ids) : k < l => r[k] <= r[l]
        /\ IsInjective(r)
    BY <1>2, SortedIs
  <2>. HIDE DEF r
  <2>2. DOMAIN r = 1..Len(ids) /\ \A k \in 1..Len(ids) : r[k] \in Int
    BY <2>1, LenProperties
  <2>3. ASSUME NEW k \in DOMAIN r, NEW l \in DOMAIN r, k < l
        PROVE  r[k] < r[l]
    <3>1. r[k] # r[l]
      BY <1>1, <2>1, <2>2, <2>3 DEF IsInjective
    <3>. QED
      BY <2>1, <2>2, <2>3, <3>1
  <2>. QED
    BY <2>3 DEF Climbing, r
<1>3. ASSUME Climbing(ids) PROVE Sorted(ids) = ids /\ IsInjective(ids)
  <2>1. \A k, l \in 1..Len(ids) : k < l => ids[k] < ids[l]
    BY <1>1, <1>3 DEF Climbing
  <2>2. Sorted(ids) = ids
    BY <1>1, <2>1, SortedStays
  <2>3. IsInjective(ids)
    BY <1>1, <2>1 DEF IsInjective
  <2>. QED
    BY <2>2, <2>3
<1>. QED
  BY <1>2, <1>3

(* What the validator makes of a target it takes, and that it leaves that  *)
(* as it is.                                                               *)
LEMMA CanonTargetIs ==
  ASSUME NEW raw \in RawTarget, ValidTarget(raw)
  PROVE  IsTarget(CanonTarget(raw))
<1>. DEFINE t == MigrateTarget(raw)
<1>1. t \in RawTarget
  <2>1. raw.ids \in Seq(Int)
    BY DEF RawTarget
  <2>2. t \in {Broadcast, Groups(raw.ids), raw}
    BY DEF MigrateTarget
  <2>. QED
    BY <2>1, <2>2, BroadcastIs, GroupsAre
<1>2. \/ t.kind = "broadcast"
      \/ t.kind = "groups" /\ t.ids # <<>> /\ IsInjective(t.ids)
                           /\ ToSet(t.ids) \subseteq 0..GroupIdMax
      \/ t.kind = "device" /\ t.mac \in Macs
  BY DEF ValidTarget
<1>3. CanonTarget(raw) = CASE t.kind = "broadcast" -> Broadcast
                           [] t.kind = "groups"    -> Groups(Sorted(t.ids))
                           [] OTHER                -> Target(t.kind, <<>>, t.mac)
  BY DEF CanonTarget
<1>. HIDE DEF t
<1>4. CASE t.kind = "broadcast"
  BY <1>3, <1>4 DEF IsTarget
<1>5. CASE t.kind = "groups"
  <2>1. CanonTarget(raw) = Groups(Sorted(t.ids))
    BY <1>3, <1>5
  <2>2. t.ids \in Seq(Int) /\ IsInjective(t.ids) /\ t.ids # <<>>
        /\ ToSet(t.ids) \subseteq 0..GroupIdMax
    BY <1>1, <1>2, <1>5 DEF RawTarget
  <2>3. /\ Sorted(t.ids) \in Seq(Int) /\ Len(Sorted(t.ids)) = Len(t.ids)
        /\ ToSet(Sorted(t.ids)) = ToSet(t.ids) /\ Climbing(Sorted(t.ids))
    BY <2>2, SortedIs, ClimbingIs
  <2>4. Sorted(t.ids) # <<>>
    BY <2>2, <2>3, EmptySeq
  <2>5. Groups(Sorted(t.ids)).ids = Sorted(t.ids)
    BY DEF Groups, Target
  <2>. QED
    BY <2>1, <2>2, <2>3, <2>4, <2>5 DEF IsTarget
<1>6. CASE t.kind = "device"
  <2>1. CanonTarget(raw) = Target("device", <<>>, t.mac) /\ t.mac \in Macs
    BY <1>2, <1>3, <1>6
  <2>. QED
    BY <2>1 DEF IsTarget, Target
<1>. QED
  BY <1>2, <1>4, <1>5, <1>6

LEMMA TargetIs ==
  ASSUME NEW t, IsTarget(t)
  PROVE  /\ t \in RawTarget /\ t.kind \in {"broadcast", "device", "groups"}
         /\ t.kind # "groups" => t.ids = <<>>
         /\ t.kind = "groups" =>
              t = Groups(t.ids) /\ t.ids # <<>> /\ Climbing(t.ids)
              /\ ToSet(t.ids) \subseteq 0..GroupIdMax
<1>1. CASE t = Broadcast
  BY <1>1, BroadcastIs
<1>2. CASE t = Target("device", <<>>, t.mac) /\ t.mac \in Macs
  <2>1. t \in RawTarget
    <3>1. "device" \in TargetKinds /\ t.mac \in Macs \cup {NoMac}
      BY <1>2 DEF TargetKinds
    <3>2. Target("device", <<>>, t.mac) \in RawTarget
      BY <3>1, NoneIs, RawTargetIs
    <3>. QED
      BY <1>2, <3>2
  <2>2. t.kind = "device" /\ t.ids = <<>>
    BY <1>2 DEF Target
  <2>. QED
    BY <2>1, <2>2
<1>3. CASE t = Groups(t.ids) /\ t.ids \in Seq(Int) /\ t.ids # <<>>
           /\ Climbing(t.ids) /\ ToSet(t.ids) \subseteq 0..GroupIdMax
  BY <1>3, GroupsAre
<1>. QED
  BY <1>1, <1>2, <1>3 DEF IsTarget

LEMMA TargetStays ==
  ASSUME NEW t, IsTarget(t)
  PROVE  ValidTarget(t) /\ CanonTarget(t) = t
<1>1. MigrateTarget(t) = t
  BY TargetIs DEF MigrateTarget
<1>2. CASE t = Broadcast
  BY <1>1, <1>2 DEF ValidTarget, CanonTarget, Broadcast, Target
<1>3. CASE t = Target("device", <<>>, t.mac) /\ t.mac \in Macs
  BY <1>1, <1>3 DEF ValidTarget, CanonTarget, Target
<1>4. CASE t = Groups(t.ids) /\ t.ids \in Seq(Int) /\ t.ids # <<>>
           /\ Climbing(t.ids) /\ ToSet(t.ids) \subseteq 0..GroupIdMax
  <2>1. t.kind = "groups"
    BY <1>4 DEF Groups, Target
  <2>. QED
    BY <1>1, <1>4, <2>1, ClimbingIs DEF ValidTarget, CanonTarget
<1>. QED
  BY <1>2, <1>3, <1>4 DEF IsTarget

(* The same of a child and of the values.                                  *)
LEMMA ChildIs ==
  ASSUME NEW c \in RawChild, NEW container, ValidChild(c, container)
  PROVE  IsChild(CanonChild(c), container)
<1>1. /\ c.kind \in EffectKinds /\ ValidTarget(c.target)
      /\ (CanonTarget(c.target).kind = "groups" /\ container.kind = "groups"
            => ToSet(CanonTarget(c.target).ids) \subseteq ToSet(container.ids))
  BY DEF ValidChild
<1>2. IsTarget(CanonTarget(c.target))
  BY <1>1, CanonTargetIs DEF RawChild
<1>3. CanonTarget(c.target) \in RawTarget
  BY <1>2, TargetIs
<1>4. CanonChild(c) = [c EXCEPT !.target = CanonTarget(c.target)]
  BY DEF CanonChild
<1>5. CanonChild(c) \in RawChild /\ CanonChild(c).kind = c.kind
      /\ CanonChild(c).target = CanonTarget(c.target)
  BY <1>3, <1>4 DEF RawChild
<1>. QED
  BY <1>1, <1>2, <1>5 DEF IsChild

LEMMA ChildStays ==
  ASSUME NEW c, NEW container, IsChild(c, container)
  PROVE  ValidChild(c, container) /\ CanonChild(c) = c
<1>1. CanonTarget(c.target) = c.target /\ ValidTarget(c.target) /\ c \in RawChild
  BY TargetStays DEF IsChild
<1>2. CanonChild(c) = c
  BY <1>1 DEF CanonChild, RawChild
<1>. QED
  BY <1>1, <1>2 DEF ValidChild, IsChild

LEMMA ValuesCanon ==
  ASSUME NEW mode \in Modes, NEW values \in Seq(Value), NEW target,
         ValidOffset(mode, values, target)
  PROVE  IsValues(mode, CanonValues(mode, values), target)
<1>1. CASE mode \in {"none", "formula"}
  BY <1>1 DEF IsValues, CanonValues
<1>2. CASE mode = "explicit"
  <2>. DEFINE r == CanonValues("explicit", values)
  <2>1. /\ target.kind # "broadcast" /\ Len(values) = Len(target.ids)
        /\ \A i \in DOMAIN values : values[i].id \in ToSet(target.ids)
    BY <1>2 DEF ValidOffset
  <2>2. /\ r \in Seq(Value) /\ Len(r) = Len(values)
        /\ ToSet(r) = ToSet(values) /\ Rising(r)
    BY ValuesAre
  <2>. HIDE DEF r
  <2>3. ASSUME NEW i \in DOMAIN r PROVE r[i].id \in ToSet(target.ids)
    <3>1. r[i] \in ToSet(values)
      BY <2>2 DEF ToSet
    <3>2. PICK j \in DOMAIN values : r[i] = values[j]
      BY <3>1 DEF ToSet
    <3>. QED
      BY <2>1, <3>2
  <2>4. IsValues("explicit", r, target)
    BY <2>1, <2>2, <2>3 DEF IsValues
  <2>. QED
    BY <1>2, <2>4 DEF r
<1>. QED
  BY <1>1, <1>2 DEF ValidOffset

LEMMA ValuesStayCanon ==
  ASSUME NEW mode, NEW values, NEW target, IsValues(mode, values, target)
  PROVE  /\ ValidOffset(mode, values, target)
         /\ CanonValues(mode, values) = values
         /\ mode \in Modes /\ values \in Seq(Value)
<1>1. CASE mode \in {"none", "formula"} /\ values = <<>>
  BY <1>1, NoneIs DEF ValidOffset, CanonValues, Modes
<1>2. CASE mode = "explicit"
  BY <1>2, ValuesStay DEF IsValues, ValidOffset, Modes
<1>. QED
  BY <1>1, <1>2 DEF IsValues

(* The fields of the three forms.                                          *)
LEMMA PlainIs ==
  ASSUME NEW kind
  PROVE  /\ Plain(kind).kind = kind /\ Plain(kind).target = NoTarget
         /\ Plain(kind).mode = "" /\ Plain(kind).values = <<>>
         /\ Plain(kind).actions = <<>>
BY DEF Plain, Action

LEMMA EffectIs ==
  ASSUME NEW kind, NEW target
  PROVE  /\ Effect(kind, target).kind = kind
         /\ Effect(kind, target).target = target
         /\ Effect(kind, target).mode = "" /\ Effect(kind, target).values = <<>>
         /\ Effect(kind, target).actions = <<>>
BY DEF Effect, Action

LEMMA OffsetGroupIs ==
  ASSUME NEW target, NEW mode, NEW values, NEW children
  PROVE  LET a == OffsetGroup(target, mode, values, children) IN
         /\ a.kind = "offset_group" /\ a.target = target /\ a.mode = mode
         /\ a.values = values /\ a.actions = children
BY DEF OffsetGroup, Action

LEMMA ActionIsRaw ==
  ASSUME NEW kind \in ActionKinds, NEW target \in RawTarget, NEW mode \in Modes,
         NEW values \in Seq(Value), NEW children \in Seq(RawChild)
  PROVE  Action(kind, target, mode, values, children) \in RawAction
BY DEF Action, RawAction

LEMMA EffectIsRaw ==
  ASSUME NEW kind \in ActionKinds, NEW target \in RawTarget
  PROVE  Effect(kind, target) \in RawAction
<1>1. "" \in Modes /\ <<>> \in Seq(Value) /\ <<>> \in Seq(RawChild)
  BY NoneIs DEF Modes
<1>. QED
  BY <1>1, ActionIsRaw DEF Effect

LEMMA NoTargetIsRaw == NoTarget \in RawTarget
<1>1. "none" \in TargetKinds /\ NoMac \in Macs \cup {NoMac}
  BY DEF TargetKinds
<1>. QED
  BY <1>1, NoneIs, RawTargetIs DEF NoTarget

(* The legacy form is read as what a request may hold.                     *)
LEMMA MigrateLegacyIs ==
  ASSUME NEW raw \in RawAction
  PROVE  MigrateLegacy(raw) \in RawAction
<1>1. CASE raw.target.kind # "groups_offset"
  BY <1>1 DEF MigrateLegacy
<1>2. CASE raw.target.kind = "groups_offset"
  <2>. DEFINE t == IF raw.target.ids = <<>> THEN Broadcast ELSE Groups(raw.target.ids)
  <2>1. raw.target.ids \in Seq(Int) /\ raw.mode \in Modes
        /\ raw.values \in Seq(Value) /\ raw.kind \in ActionKinds
    BY DEF RawAction, RawTarget
  <2>2. t \in RawTarget
    BY <2>1, BroadcastIs, GroupsAre
  <2>3. Child(raw.kind, Broadcast) \in RawChild
    BY <2>1, BroadcastIs DEF Child, RawChild
  <2>4. <<Child(raw.kind, Broadcast)>> \in Seq(RawChild)
    BY <2>3
  <2>5. "offset_group" \in ActionKinds
    BY DEF ActionKinds
  <2>6. MigrateLegacy(raw) =
          Action("offset_group", t, raw.mode, raw.values,
                 <<Child(raw.kind, Broadcast)>>)
    BY <1>2 DEF MigrateLegacy, OffsetGroup
  <2>. HIDE DEF t
  <2>. QED
    BY <2>1, <2>2, <2>4, <2>5, <2>6, ActionIsRaw
<1>. QED
  BY <1>1, <1>2

With(a, t, v, c) == [a EXCEPT !.target = t, !.values = v, !.actions = c]

LEMMA ActionReplaced ==
  ASSUME NEW kind, NEW mode, NEW t1, NEW v1, NEW c1, NEW t2, NEW v2, NEW c2
  PROVE  With(Action(kind, t1, mode, v1, c1), t2, v2, c2) =
         Action(kind, t2, mode, v2, c2)
<1>. DEFINE a == Action(kind, t1, mode, v1, c1)
<1>. HIDE DEF a
<1>1. [a EXCEPT !.target = t2, !.values = v2, !.actions = c2] =
      [[[a EXCEPT !.target = t2] EXCEPT !.values = v2] EXCEPT !.actions = c2]
  OBVIOUS
<1>2. [a EXCEPT !.target = t2] = Action(kind, t2, mode, v1, c1)
  BY DEF a, Action
<1>3. [Action(kind, t2, mode, v1, c1) EXCEPT !.values = v2] =
      Action(kind, t2, mode, v2, c1)
  BY DEF Action
<1>4. [Action(kind, t2, mode, v2, c1) EXCEPT !.actions = c2] =
      Action(kind, t2, mode, v2, c2)
  BY DEF Action
<1>. QED
  BY <1>1, <1>2, <1>3, <1>4 DEF a, With

(* What the validator makes of an action it takes is of canonical form...  *)
LEMMA CanonIs ==
  ASSUME NEW raw \in RawAction, ValidAction(raw)
  PROVE  IsAction(CanonAction(raw))
<1>. DEFINE a == MigrateLegacy(raw)
<1>1. a \in RawAction
  BY MigrateLegacyIs
<1>2. \/ a.kind = "offset_group" /\ ValidOffsetGroup(a)
      \/ a.kind \in {"sync", "delay"} /\ a.target = NoTarget
      \/ a.kind \in EffectKinds \cup {"startblock"} /\ ValidTarget(a.target)
  BY DEF ValidAction
<1>3. CanonAction(raw) =
        CASE a.kind = "offset_group"      -> CanonOffsetGroup(a)
          [] a.kind \in {"sync", "delay"} -> Plain(a.kind)
          [] OTHER -> Effect(a.kind, CanonTarget(a.target))
  BY DEF CanonAction
<1>. HIDE DEF a
<1>4. /\ a.target \in RawTarget /\ a.mode \in Modes /\ a.values \in Seq(Value)
      /\ a.actions \in Seq(RawChild)
      /\ DOMAIN a = {"kind", "target", "mode", "values", "actions"}
  BY <1>1 DEF RawAction
<1>5. CASE a.kind = "offset_group"
  <2>. DEFINE t == CanonTarget(a.target)  v == CanonValues(a.mode, a.values)
              c == [i \in DOMAIN a.actions |-> CanonChild(a.actions[i])]
              new == OffsetGroup(t, a.mode, v, c)
  <2>1. CanonAction(raw) = CanonOffsetGroup(a) /\ ValidOffsetGroup(a)
    BY <1>2, <1>3, <1>5 DEF EffectKinds
  <2>2. CanonOffsetGroup(a) = new
    <3>1. a = Action("offset_group", a.target, a.mode, a.values, a.actions)
      BY <1>1, <1>5 DEF Action, RawAction
    <3>2. CanonOffsetGroup(a) = With(a, t, v, c)
      BY DEF CanonOffsetGroup, With
    <3>. HIDE DEF t, v, c
    <3>3. PICK t1, v1, c1, m : m = a.mode /\ a = Action("offset_group", t1, m, v1, c1)
      BY <3>1
    <3>4. With(Action("offset_group", t1, m, v1, c1), t, v, c) =
          Action("offset_group", t, m, v, c)
      BY ActionReplaced
    <3>. QED
      BY <3>2, <3>3, <3>4 DEF OffsetGroup
  <2>3. /\ ValidTarget(a.target) /\ t.kind # "device" /\ Len(t.ids) <= MaxEntries
        /\ ValidOffset(a.mode, a.values, t) /\ Len(a.actions) <= MaxChildren
        /\ \A i \in DOMAIN a.actions : ValidChild(a.actions[i], t)
    BY <2>1 DEF ValidOffsetGroup
  <2>4. IsTarget(t) /\ IsValues(a.mode, v, t)
    BY <1>4, <2>3, CanonTargetIs, ValuesCanon
  <2>. HIDE DEF t, v
  <2>5. DOMAIN a.actions = 1..Len(a.actions) /\ Len(a.actions) \in Nat
        /\ \A i \in DOMAIN a.actions : a.actions[i] \in RawChild
    BY <1>4, LenProperties
  <2>6. \A i \in DOMAIN a.actions : IsChild(CanonChild(a.actions[i]), t)
    BY <2>3, <2>5, ChildIs
  <2>7. c \in [1..Len(a.actions) -> RawChild]
    BY <2>5, <2>6 DEF IsChild
  <2>8. c \in Seq(RawChild) /\ Len(c) = Len(a.actions)
    BY <2>5, <2>7
  <2>9. \A i \in DOMAIN c : IsChild(c[i], t)
    BY <2>6
  <2>. HIDE DEF c
  <2>10. new.target = t /\ new.mode = a.mode /\ new.values = v /\ new.actions = c
    BY OffsetGroupIs
  <2>11. new = OffsetGroup(new.target, new.mode, new.values, new.actions)
    BY <2>10
  <2>. HIDE DEF new
  <2>12. IsAction(new)
    BY <2>3, <2>4, <2>8, <2>9, <2>10, <2>11 DEF IsAction
  <2>. QED
    BY <2>1, <2>2, <2>12
<1>6. CASE a.kind \in {"sync", "delay"}
  BY <1>3, <1>6 DEF IsAction
<1>7. CASE a.kind \in EffectKinds \cup {"startblock"}
  <2>1. CanonAction(raw) = Effect(a.kind, CanonTarget(a.target))
    BY <1>3, <1>7 DEF EffectKinds
  <2>2. ValidTarget(a.target)
    BY <1>2, <1>7 DEF EffectKinds
  <2>3. IsTarget(CanonTarget(a.target))
    BY <1>4, <2>2, CanonTargetIs
  <2>. QED
    <3>. DEFINE new == Effect(a.kind, CanonTarget(a.target))
    <3>1. new.kind = a.kind /\ new.target = CanonTarget(a.target)
      BY EffectIs
    <3>2. new = Effect(new.kind, new.target)
      BY <3>1
    <3>. HIDE DEF new
    <3>3. IsAction(new)
      BY <1>7, <2>3, <3>1, <3>2 DEF IsAction
    <3>. QED
      BY <2>1, <3>3 DEF new
<1>. QED
  BY <1>2, <1>5, <1>6, <1>7

(* ...and that is taken again and left as it is.                           *)
LEMMA ActionStays ==
  ASSUME NEW a, IsAction(a)
  PROVE  a \in RawAction /\ ValidAction(a) /\ CanonAction(a) = a
<1>1. CASE a \in {Plain("sync"), Plain("delay")}
  <2>1. PICK k \in {"sync", "delay"} : a = Plain(k)
    BY <1>1
  <2>2. a.kind = k /\ a.target = NoTarget
    BY <2>1, PlainIs
  <2>3. MigrateLegacy(a) = a
    BY <2>2 DEF MigrateLegacy, NoTarget, Target
  <2>4. ValidAction(a)
    BY <2>2, <2>3 DEF ValidAction
  <2>5. CanonAction(a) = a
    BY <2>1, <2>2, <2>3 DEF CanonAction
  <2>6. k \in ActionKinds /\ "" \in Modes
    BY DEF ActionKinds, Modes
  <2>7. a \in RawAction
    BY <2>1, <2>6, NoneIs, NoTargetIsRaw, ActionIsRaw DEF Plain
  <2>. QED
    BY <2>4, <2>5, <2>7
<1>2. CASE /\ a = Effect(a.kind, a.target)
           /\ a.kind \in EffectKinds \cup {"startblock"} /\ IsTarget(a.target)
  <2>1. /\ a.target \in RawTarget /\ a.target.kind # "groups_offset"
        /\ ValidTarget(a.target) /\ CanonTarget(a.target) = a.target
    BY <1>2, TargetIs, TargetStays
  <2>2. MigrateLegacy(a) = a
    BY <2>1 DEF MigrateLegacy
  <2>3. ValidAction(a)
    BY <1>2, <2>1, <2>2 DEF ValidAction
  <2>4. a.kind \notin {"offset_group", "sync", "delay"}
    BY <1>2 DEF EffectKinds
  <2>5. CanonAction(a) = a
    BY <1>2, <2>1, <2>2, <2>4 DEF CanonAction
  <2>6. a.kind \in ActionKinds
    BY <1>2 DEF ActionKinds
  <2>7. a \in RawAction
    <3>1. Effect(a.kind, a.target) \in RawAction
      BY <2>1, <2>6, EffectIsRaw
    <3>. QED
      BY <1>2, <3>1
  <2>. QED
    BY <2>3, <2>5, <2>7
<1>3. CASE /\ a = OffsetGroup(a.target, a.mode, a.values, a.actions)
           /\ IsTarget(a.target) /\ a.target.kind # "device"
           /\ Len(a.target.ids) <= MaxEntries
           /\ IsValues(a.mode, a.values, a.target)
           /\ a.actions \in Seq(RawChild) /\ Len(a.actions) <= MaxChildren
           /\ \A i \in DOMAIN a.actions : IsChild(a.actions[i], a.target)
  <2>1. /\ a.target \in RawTarget /\ a.target.kind # "groups_offset"
        /\ ValidTarget(a.target) /\ CanonTarget(a.target) = a.target
    BY <1>3, TargetIs, TargetStays
  <2>2. MigrateLegacy(a) = a
    BY <2>1 DEF MigrateLegacy
  <2>3. /\ ValidOffset(a.mode, a.values, a.target)
        /\ CanonValues(a.mode, a.values) = a.values
        /\ a.mode \in Modes /\ a.values \in Seq(Value)
    BY <1>3, ValuesStayCanon
  <2>4. \A i \in DOMAIN a.actions : /\ ValidChild(a.actions[i], a.target)
                                    /\ CanonChild(a.actions[i]) = a.actions[i]
    BY <1>3, ChildStays
  <2>5. a.kind = "offset_group"
    BY <1>3, OffsetGroupIs
  <2>6. ValidAction(a)
    BY <1>3, <2>1, <2>2, <2>3, <2>4, <2>5 DEF ValidAction, ValidOffsetGroup
  <2>7. "offset_group" \in ActionKinds
    BY DEF ActionKinds
  <2>8. a \in RawAction
    BY <1>3, <2>1, <2>3, <2>7, ActionIsRaw DEF OffsetGroup
  <2>9. [i \in DOMAIN a.actions |-> CanonChild(a.actions[i])] = a.actions
    BY <1>3, <2>4, LenProperties
  <2>10. CanonOffsetGroup(a) = a
    BY <2>1, <2>3, <2>8, <2>9 DEF CanonOffsetGroup, RawAction
  <2>. QED
    BY <2>2, <2>5, <2>6, <2>8, <2>10 DEF CanonAction
<1>. QED
  BY <1>1, <1>2, <1>3 DEF IsAction

-----------------------------------------------------------------------------
(* The shift of group ids, told by the groups themselves.                  *)

(* The groups before the deletion of the one at index d.                   *)
GroupsAt(gs, n, d) ==
  /\ gs \in Seq(UserGroups \cup {Home}) /\ n = Len(gs)
  /\ IsInjective(gs) /\ gs[1] = Home
  /\ d \in 1..(n - 1)

(* The shifted id stands, among the groups left, for the group it stood    *)
(* for, or for Home in place of the deleted one.                           *)
LEMMA ShiftName ==
  ASSUME NEW gs, NEW n, NEW d, GroupsAt(gs, n, d), NEW x \in Nat, x < n
  PROVE  /\ ShiftGroup(x, d) \in Nat /\ ShiftGroup(x, d) < n - 1
         /\ NameOf(ShiftGroup(x, d), RemoveAt(gs, d + 1)) =
              IF x = d THEN Home ELSE NameOf(x, gs)
         /\ NameOf(x, gs) = gs[d + 1] <=> x = d
         /\ NameOf(x, gs) = Home <=> x = 0
<1>. DEFINE new == RemoveAt(gs, d + 1)
<1>1. /\ n \in Nat /\ DOMAIN gs = 1..n /\ d \in Nat /\ 1 <= d /\ d <= n - 1
      /\ d + 1 \in 1..Len(gs) /\ gs \in Seq(UserGroups \cup {Home})
  BY LenProperties DEF GroupsAt
<1>2. /\ Len(new) = n - 1
      /\ \A i \in 1..(n - 1) : i < d + 1 => new[i] = gs[i]
      /\ \A i \in 1..(n - 1) : ~(i < d + 1) => new[i] = gs[i + 1]
  BY <1>1, RemovedIs DEF GroupsAt
<1>. HIDE DEF new
<1>3. NameOf(x, gs) = gs[x + 1]
  BY <1>1 DEF NameOf, GroupsAt
<1>4. ShiftGroup(x, d) \in Nat /\ ShiftGroup(x, d) < n - 1
  BY <1>1 DEF ShiftGroup
<1>5. NameOf(ShiftGroup(x, d), new) = new[ShiftGroup(x, d) + 1]
  BY <1>2, <1>4 DEF NameOf
<1>6. ASSUME x = d PROVE NameOf(ShiftGroup(x, d), new) = Home
  <2>1. ShiftGroup(x, d) + 1 = 1
    BY <1>6 DEF ShiftGroup
  <2>2. 1 \in 1..(n - 1) /\ 1 < d + 1
    BY <1>1
  <2>3. new[1] = gs[1]
    BY <1>1, <1>2, <2>2
  <2>. QED
    BY <1>1, <1>5, <1>6, <2>1, <2>3 DEF GroupsAt
<1>7. ASSUME x < d PROVE NameOf(ShiftGroup(x, d), new) = NameOf(x, gs)
  <2>1. ShiftGroup(x, d) + 1 = x + 1
    BY <1>1, <1>7 DEF ShiftGroup
  <2>2. x + 1 \in 1..(n - 1) /\ x + 1 < d + 1 /\ x # d
    BY <1>1, <1>7
  <2>3. new[x + 1] = gs[x + 1]
    BY <1>1, <1>2, <2>2
  <2>. QED
    BY <1>1, <1>3, <1>5, <2>1, <2>2, <2>3
<1>8. ASSUME x > d PROVE NameOf(ShiftGroup(x, d), new) = NameOf(x, gs)
  <2>1. ShiftGroup(x, d) = x - 1
    BY <1>1, <1>8 DEF ShiftGroup
  <2>2. (x - 1) + 1 = x /\ x \in 1..(n - 1) /\ ~(x < d + 1) /\ x # d
    BY <1>1, <1>8
  <2>3. new[x] = gs[x + 1]
    BY <1>1, <1>2, <2>2
  <2>. QED
    BY <1>1, <1>3, <1>5, <2>1, <2>2, <2>3
<1>9. NameOf(ShiftGroup(x, d), new) = IF x = d THEN Home ELSE NameOf(x, gs)
  BY <1>1, <1>6, <1>7, <1>8
<1>10. x + 1 \in 1..n /\ d + 1 \in 1..n /\ 1 \in 1..n
  BY <1>1
<1>11. /\ gs[x + 1] = gs[d + 1] => x + 1 = d + 1
       /\ gs[x + 1] = gs[1] => x + 1 = 1
  BY <1>1, <1>10 DEF GroupsAt, IsInjective
<1>12. NameOf(x, gs) = gs[d + 1] <=> x = d
  BY <1>1, <1>3, <1>11
<1>13. NameOf(x, gs) = Home <=> x = 0
  BY <1>3, <1>11 DEF GroupsAt
<1>. QED
  BY <1>4, <1>9, <1>12, <1>13 DEF new

(* Two groups that the shift brings together are 0 and d.                  *)
LEMMA ShiftMeets ==
  ASSUME NEW d \in Nat, 1 <= d, NEW x \in Nat, NEW y \in Nat, x < y,
         ShiftGroup(x, d) = ShiftGroup(y, d)
  PROVE  x = 0 /\ y = d
BY DEF ShiftGroup

(* The names a target stands for, told from the set of its ids.            *)
LEMMA NamesAre ==
  ASSUME NEW t, NEW gs
  PROVE  Names(t, gs) = [kind |-> t.kind, mac |-> t.mac,
                         to |-> {NameOf(x, gs) : x \in ToSet(t.ids)}]
BY DEF Names, ToSet

(* A shifted target is one the validator takes, of the groups left, and    *)
(* means what was meant before the deletion.                               *)
LEMMA ShiftedTarget ==
  ASSUME NEW gs, NEW n, NEW d, GroupsAt(gs, n, d),
         NEW t, IsTarget(t), \A x \in ToSet(t.ids) : x < n
  PROVE  LET new == CanonTarget(ShiftTarget(t, d)) IN
         /\ ShiftTarget(t, d) \in RawTarget /\ ShiftTarget(t, d).kind = t.kind
         /\ new.kind = t.kind
         /\ Names(new, RemoveAt(gs, d + 1)) = Rehome(Names(t, gs), gs[d + 1])
         /\ \A x \in ToSet(new.ids) : x < n - 1
<1>. DEFINE st == ShiftTarget(t, d)  new == CanonTarget(st)
            after == RemoveAt(gs, d + 1)  g == gs[d + 1]
<1>1. t \in RawTarget /\ CanonTarget(t) = t
  BY TargetIs, TargetStays
<1>2. CASE t.kind # "groups"
  <2>1. st = t /\ new = t /\ t.ids = <<>>
    BY <1>1, <1>2, TargetIs DEF ShiftTarget
  <2>2. ToSet(t.ids) = {}
    BY <2>1, NoneIs DEF ToSet
  <2>3. Names(t, after) = [kind |-> t.kind, mac |-> t.mac, to |-> {}]
        /\ Names(t, gs) = [kind |-> t.kind, mac |-> t.mac, to |-> {}]
    BY <2>2, NamesAre
  <2>4. Rehome(Names(t, gs), g) = Names(t, gs)
    BY <2>3 DEF Rehome
  <2>. QED
    BY <1>1, <2>1, <2>2, <2>3, <2>4
<1>3. CASE t.kind = "groups"
  <2>. DEFINE sh == [i \in DOMAIN t.ids |-> ShiftGroup(t.ids[i], d)]
              first == FirstOf(sh, sh)
  <2>1. /\ t = Groups(t.ids) /\ ToSet(t.ids) \subseteq 0..GroupIdMax
        /\ t.ids \in Seq(Int)
    BY <1>1, <1>3, TargetIs DEF RawTarget
  <2>2. DOMAIN t.ids = 1..Len(t.ids) /\ Len(t.ids) \in Nat
    BY <2>1, LenProperties
  <2>3. \A x \in ToSet(t.ids) : x \in Nat /\ x < n
    BY <2>1
  <2>4. \A i \in DOMAIN t.ids : t.ids[i] \in ToSet(t.ids)
    BY DEF ToSet
  <2>5. \A i \in DOMAIN t.ids : ShiftGroup(t.ids[i], d) \in Int
    BY <2>3, <2>4, ShiftName
  <2>6. sh \in Seq(Int) /\ DOMAIN sh = DOMAIN t.ids
    BY <2>2, <2>5
  <2>7. ToSet(sh) = {ShiftGroup(x, d) : x \in ToSet(t.ids)}
    BY DEF ToSet
  <2>8. st = [t EXCEPT !.ids = first]
    BY <1>3 DEF ShiftTarget
  <2>. HIDE DEF sh
  <2>9. /\ first \in Seq(Int)
        /\ ToSet(first) = {sh[i] : i \in {j \in DOMAIN sh : IsNew(j, sh)}}
    BY <2>6, FirstIs
  <2>10. ToSet(first) = ToSet(sh)
    <3>1. ASSUME NEW i \in DOMAIN sh PROVE sh[i] \in ToSet(first)
      <4>1. \E j \in DOMAIN sh : IsNew(j, sh) /\ sh[j] = sh[i] /\ j <= i
        BY <2>6, NewOf
      <4>. QED
        BY <2>9, <4>1
    <3>2. ToSet(first) \subseteq ToSet(sh)
      BY <2>9 DEF ToSet
    <3>3. ToSet(sh) \subseteq ToSet(first)
      BY <3>1 DEF ToSet
    <3>. QED
      BY <3>2, <3>3
  <2>. HIDE DEF first
  <2>11. st = Groups(first)
    BY <2>1, <2>8 DEF Groups, Target
  <2>12. st \in RawTarget /\ st.kind = "groups" /\ st.ids = first
    BY <2>9, <2>11, GroupsAre
  <2>13. new = Groups(Sorted(first))
    BY <2>12 DEF CanonTarget, MigrateTarget
  <2>14. Sorted(first) \in Seq(Int) /\ ToSet(Sorted(first)) = ToSet(first)
    BY <2>9, SortedIs
  <2>15. new.kind = "groups" /\ new.ids = Sorted(first) /\ new.mac = t.mac
    BY <2>1, <2>13 DEF Groups, Target
  <2>16. ToSet(new.ids) = {ShiftGroup(x, d) : x \in ToSet(t.ids)}
    BY <2>7, <2>10, <2>14, <2>15
  <2>. HIDE DEF new, st
  <2>17. \A y \in ToSet(new.ids) : y < n - 1
    BY <2>3, <2>16, ShiftName
  <2>18. \A x \in ToSet(t.ids) :
           /\ NameOf(ShiftGroup(x, d), after) = IF x = d THEN Home ELSE NameOf(x, gs)
           /\ NameOf(x, gs) = g <=> x = d
    BY <2>3, ShiftName
  <2>. DEFINE T1 == {NameOf(x, gs) : x \in ToSet(t.ids)}
              T2 == {NameOf(y, after) : y \in ToSet(new.ids)}
  <2>. HIDE DEF after, g
  <2>19. T2 = {IF x = d THEN Home ELSE NameOf(x, gs) : x \in ToSet(t.ids)}
    BY <2>16, <2>18
  <2>20. Names(new, after) = [kind |-> t.kind, mac |-> t.mac, to |-> T2]
         /\ Names(t, gs) = [kind |-> t.kind, mac |-> t.mac, to |-> T1]
    BY <1>3, <2>15, NamesAre
  <2>21. T2 = IF g \notin T1 THEN T1 ELSE (T1 \ {g}) \cup {Home}
    <3>1. g \in T1 <=> d \in ToSet(t.ids)
      BY <2>18
    <3>2. CASE d \notin ToSet(t.ids)
      BY <2>19, <3>1, <3>2
    <3>3. CASE d \in ToSet(t.ids)
      <4>1. ASSUME NEW y \in T2 PROVE y \in (T1 \ {g}) \cup {Home}
        BY <2>18, <2>19
      <4>2. ASSUME NEW y \in (T1 \ {g}) \cup {Home} PROVE y \in T2
        BY <2>18, <2>19, <3>3
      <4>. QED
        BY <3>1, <3>3, <4>1, <4>2
    <3>. QED
      BY <3>2, <3>3
  <2>. HIDE DEF T1, T2
  <2>22. Rehome(Names(t, gs), g) =
         [kind |-> t.kind, mac |-> t.mac,
          to |-> IF g \notin T1 THEN T1 ELSE (T1 \ {g}) \cup {Home}]
    BY <2>20 DEF Rehome
  <2>. QED
    BY <1>3, <2>12, <2>15, <2>17, <2>20, <2>21, <2>22 DEF st, new, after, g
<1>. QED
  BY <1>2, <1>3

MsOf(values, gs) == {<<NameOf(v.id, gs), v.ms>> : v \in ToSet(values)}

LEMMA ShiftedNone ==
  ASSUME NEW d
  PROVE  ShiftValues(<<>>, d) = <<>>
<1>. DEFINE sh == [i \in DOMAIN <<>> |-> [<<>>[i] EXCEPT !.id = ShiftGroup(@, d)]]
            keys == [i \in DOMAIN <<>> |-> sh[i].id]
            r == FirstOf(sh, keys)
<1>1. sh = <<>>
  BY NoneIs
<1>2. ShiftValues(<<>>, d) = r
  BY DEF ShiftValues
<1>. HIDE DEF sh, keys
<1>3. r \in Seq(Int) /\ ToSet(r) = {sh[i] : i \in {j \in DOMAIN sh : IsNew(j, keys)}}
  <2>1. sh \in Seq(Int)
    BY <1>1, NoneIs
  <2>. QED
    BY <2>1, FirstIs
<1>. HIDE DEF r
<1>4. ToSet(r) = {}
  BY <1>1, <1>3, NoneIs
<1>5. DOMAIN r = 1..Len(r) /\ Len(r) \in Nat /\ ~ \E i \in DOMAIN r : TRUE
  BY <1>3, <1>4, LenProperties DEF ToSet
<1>6. Len(r) = 0
  BY <1>5
<1>. QED
  BY <1>2, <1>3, <1>6, EmptySeq

(* The values keep to their groups, and where both Home and the deleted    *)
(* group have one Home's stays.                                            *)
LEMMA ShiftedValues ==
  ASSUME NEW gs, NEW n, NEW d, GroupsAt(gs, n, d),
         NEW values \in Seq(Value), Rising(values), Single(values),
         \A i \in DOMAIN values : values[i].id \in Nat /\ values[i].id < n
  PROVE  LET new == CanonValues("explicit", ShiftValues(values, d)) IN
         /\ ShiftValues(values, d) \in Seq(Value) /\ Single(new)
         /\ MsOf(new, RemoveAt(gs, d + 1)) = RehomeMs(MsOf(values, gs), gs[d + 1])
<1>. DEFINE sh == [i \in DOMAIN values |->
                     [values[i] EXCEPT !.id = ShiftGroup(@, d)]]
            keys == [i \in DOMAIN values |-> sh[i].id]
            first == ShiftValues(values, d)
            new == CanonValues("explicit", first)
            after == RemoveAt(gs, d + 1)  g == gs[d + 1]
            I == DOMAIN values
<1>1. DOMAIN values = 1..Len(values) /\ Len(values) \in Nat
      /\ \A i \in I : values[i] \in Value
  BY LenProperties
<1>2. d \in Nat /\ 1 <= d
  BY LenProperties DEF GroupsAt
<1>3. \A i \in I : ShiftGroup(values[i].id, d) \in Nat
  BY ShiftName
<1>4. \A i \in I : sh[i] = [id |-> ShiftGroup(values[i].id, d), ms |-> values[i].ms]
  BY <1>1 DEF Value
<1>5. \A i \in I : sh[i] \in Value /\ sh[i].id = ShiftGroup(values[i].id, d)
                   /\ sh[i].ms = values[i].ms
  BY <1>1, <1>3, <1>4 DEF Value
<1>6. \A i \in I : keys[i] = ShiftGroup(values[i].id, d)
  BY <1>5
<1>7. sh \in [1..Len(values) -> Value]
  BY <1>1, <1>5
<1>8. sh \in Seq(Value) /\ DOMAIN sh = I
  BY <1>1, <1>7
<1>9. first = FirstOf(sh, keys)
  BY DEF ShiftValues
<1>. HIDE DEF sh, keys, first, I
<1>10. /\ first \in Seq(Value)
       /\ ToSet(first) = {sh[i] : i \in {j \in I : IsNew(j, keys)}}
       /\ \E f : /\ f \in [DOMAIN first -> I]
                 /\ \A k \in DOMAIN first : first[k] = sh[f[k]]
                 /\ \A k, l \in DOMAIN first : keys[f[k]] = keys[f[l]] => k = l
  BY <1>8, <1>9, FirstIs
<1>11. Single(first)
  <2>1. PICK f : /\ f \in [DOMAIN first -> I]
                 /\ \A k \in DOMAIN first : first[k] = sh[f[k]]
                 /\ \A k, l \in DOMAIN first : keys[f[k]] = keys[f[l]] => k = l
    BY <1>10
  <2>2. \A k \in DOMAIN first : first[k].id = keys[f[k]]
    BY <1>5, <1>6, <2>1
  <2>. QED
    BY <2>1, <2>2 DEF Single
<1>12. Single(new) /\ ToSet(new) = ToSet(first)
  BY <1>10, <1>11, ValuesAre
<1>. HIDE DEF new
<1>13. ASSUME NEW i \in I
       PROVE  IsNew(i, keys) <=> ~(values[i].id = d /\ \E j \in I : values[j].id = 0)
  <2>1. ASSUME NEW j \in I, values[i].id = d, values[j].id = 0
        PROVE  ~IsNew(i, keys)
    <3>1. i \in Nat /\ j \in Nat /\ 1 <= j /\ i # j
      BY <1>1, <1>2, <2>1 DEF I
    <3>2. ~(i < j)
      <4>1. i < j => values[i].id <= values[j].id
        BY DEF Rising, I
      <4>. QED
        BY <1>2, <2>1, <4>1
    <3>3. j \in 1..(i - 1)
      BY <3>1, <3>2
    <3>4. keys[i] = 0 /\ keys[j] = 0
      BY <1>2, <1>6, <2>1 DEF ShiftGroup
    <3>. QED
      BY <3>3, <3>4 DEF IsNew
  <2>2. ASSUME NEW j \in 1..(i - 1), keys[j] = keys[i]
        PROVE  values[i].id = d /\ \E k \in I : values[k].id = 0
    <3>1. j \in I /\ j < i
      BY <1>1 DEF I
    <3>2. values[j].id <= values[i].id /\ values[j].id # values[i].id
      BY <3>1 DEF Rising, Single, I
    <3>3. values[j].id \in Nat /\ values[i].id \in Nat
      BY <3>1 DEF I
    <3>4. values[j].id < values[i].id
      BY <3>2, <3>3
    <3>5. ShiftGroup(values[j].id, d) = ShiftGroup(values[i].id, d)
      BY <1>6, <2>2, <3>1
    <3>6. values[j].id = 0 /\ values[i].id = d
      BY <1>2, <3>3, <3>4, <3>5, ShiftMeets
    <3>. QED
      BY <3>1, <3>6
  <2>. QED
    BY <2>1, <2>2 DEF IsNew
<1>. DEFINE pair(i) == <<IF values[i].id = d THEN Home ELSE NameOf(values[i].id, gs),
                         values[i].ms>>
            old(i) == <<NameOf(values[i].id, gs), values[i].ms>>
<1>14. \A i \in I :
         /\ NameOf(ShiftGroup(values[i].id, d), after) =
              IF values[i].id = d THEN Home ELSE NameOf(values[i].id, gs)
         /\ NameOf(values[i].id, gs) = g <=> values[i].id = d
         /\ NameOf(values[i].id, gs) = Home <=> values[i].id = 0
  BY ShiftName DEF I
<1>. HIDE DEF after, g
<1>15. MsOf(new, after) = {pair(i) : i \in {j \in I : IsNew(j, keys)}}
  <2>1. MsOf(new, after) =
        {<<NameOf(sh[i].id, after), sh[i].ms>> : i \in {j \in I : IsNew(j, keys)}}
    BY <1>10, <1>12 DEF MsOf
  <2>2. \A i \in I : <<NameOf(sh[i].id, after), sh[i].ms>> = pair(i)
    BY <1>5, <1>14
  <2>. HIDE DEF pair
  <2>. QED
    BY <2>1, <2>2
<1>16. MsOf(values, gs) = {old(i) : i \in I}
  BY DEF MsOf, ToSet, I
<1>. DEFINE ms == MsOf(values, gs)  kept == {p \in ms : p[1] # g}
<1>17. \A i \in I : /\ old(i)[1] = g <=> values[i].id = d
                    /\ old(i)[1] = Home <=> values[i].id = 0
                    /\ old(i)[2] = values[i].ms
  BY <1>14
<1>18. kept = {old(i) : i \in {j \in I : values[j].id # d}}
  <2>. HIDE DEF ms, old
  <2>. QED
    BY <1>16, <1>17 DEF ms
<1>19. (\E p \in kept : p[1] = Home) <=> \E i \in I : values[i].id = 0
  <2>. HIDE DEF kept, old
  <2>. QED
    BY <1>2, <1>18, <1>17
<1>20. {<<Home, p[2]>> : p \in ms \ kept} =
       {<<Home, values[i].ms>> : i \in {j \in I : values[j].id = d}}
  <2>. HIDE DEF old
  <2>1. ms \ kept = {old(i) : i \in {j \in I : values[j].id = d}}
    BY <1>16, <1>17
  <2>. HIDE DEF ms, kept
  <2>. QED
    BY <1>17, <2>1
<1>21. RehomeMs(ms, g) = IF \E p \in kept : p[1] = Home THEN kept
                         ELSE kept \cup {<<Home, p[2]>> : p \in ms \ kept}
  BY DEF RehomeMs
<1>. HIDE DEF ms, kept
<1>22. CASE \E i \in I : values[i].id = 0
  <2>1. RehomeMs(ms, g) = {old(i) : i \in {j \in I : values[j].id # d}}
    BY <1>18, <1>19, <1>21, <1>22
  <2>2. {j \in I : IsNew(j, keys)} = {j \in I : values[j].id # d}
    BY <1>13, <1>22
  <2>3. MsOf(new, after) = {pair(i) : i \in {j \in I : values[j].id # d}}
    BY <1>15, <2>2
  <2>4. \A i \in I : values[i].id # d => pair(i) = old(i)
    OBVIOUS
  <2>. HIDE DEF pair, old
  <2>5. MsOf(new, after) = RehomeMs(ms, g)
    BY <2>1, <2>3, <2>4
  <2>. QED
    BY <1>10, <1>12, <2>5 DEF first, new, after, g, ms
<1>23. CASE ~ \E i \in I : values[i].id = 0
  <2>1. RehomeMs(ms, g) = {old(i) : i \in {j \in I : values[j].id # d}}
          \cup {<<Home, values[i].ms>> : i \in {j \in I : values[j].id = d}}
    BY <1>18, <1>19, <1>20, <1>21, <1>23
  <2>2. {j \in I : IsNew(j, keys)} = I
    BY <1>13, <1>23
  <2>3. MsOf(new, after) = {pair(i) : i \in I}
    BY <1>15, <2>2
  <2>4. \A i \in I : pair(i) = IF values[i].id = d THEN <<Home, values[i].ms>>
                               ELSE old(i)
    OBVIOUS
  <2>. HIDE DEF pair, old
  <2>5. MsOf(new, after) = RehomeMs(ms, g)
    BY <2>1, <2>3, <2>4
  <2>. QED
    BY <1>10, <1>12, <2>5 DEF first, new, after, g, ms
<1>. QED
  BY <1>22, <1>23

(* The groups an action of canonical form refers to are below n, and no    *)
(* group has two values.                                                   *)
Below(a, n) ==
  /\ \A x \in ToSet(a.target.ids) : x < n
  /\ \A j \in DOMAIN a.actions : \A x \in ToSet(a.actions[j].target.ids) : x < n

Clean(a, n) == Single(a.values) /\ Below(a, n)

MeaningOf(a, gs) ==
  [kind |-> a.kind, on |-> Names(a.target, gs), mode |-> a.mode,
   ms   |-> MsOf(a.values, gs),
   each |-> [j \in DOMAIN a.actions |->
               [kind |-> a.actions[j].kind,
                on   |-> Names(a.actions[j].target, gs)]]]

Rehomed(m, g) ==
  [m EXCEPT !.on = Rehome(@, g), !.ms = RehomeMs(@, g),
            !.each = [j \in DOMAIN @ |-> RehomeChild(@[j], g)]]

LEMMA RehomedIs ==
  ASSUME NEW a, NEW gs, NEW g
  PROVE  Rehomed(MeaningOf(a, gs), g) =
         [kind |-> a.kind, on |-> Rehome(Names(a.target, gs), g), mode |-> a.mode,
          ms   |-> RehomeMs(MsOf(a.values, gs), g),
          each |-> [j \in DOMAIN a.actions |->
                      [kind |-> a.actions[j].kind,
                       on   |-> Rehome(Names(a.actions[j].target, gs), g)]]]
<1>. DEFINE each(j) == [kind |-> a.actions[j].kind,
                        on   |-> Names(a.actions[j].target, gs)]
            m == MeaningOf(a, gs)
            r1 == Rehome(m.on, g)  r2 == RehomeMs(m.ms, g)
            r3 == [j \in DOMAIN m.each |-> RehomeChild(m.each[j], g)]
            M(on, ms, e) == [kind |-> a.kind, on |-> on, mode |-> a.mode,
                             ms |-> ms, each |-> e]
<1>1. /\ m.on = Names(a.target, gs) /\ m.ms = MsOf(a.values, gs)
      /\ m.each = [j \in DOMAIN a.actions |-> each(j)]
      /\ m = M(m.on, m.ms, m.each)
  BY DEF MeaningOf
<1>2. Rehomed(m, g) = [[[m EXCEPT !.on = r1] EXCEPT !.ms = r2] EXCEPT !.each = r3]
  <2>1. Rehomed(m, g) = [m EXCEPT !.on = r1, !.ms = r2, !.each = r3]
    <3>. HIDE DEF m
    <3>. QED
      BY DEF Rehomed
  <2>. HIDE DEF m, r1, r2, r3
  <2>. QED
    BY <2>1
<1>3. r3 = [j \in DOMAIN a.actions |->
              [kind |-> a.actions[j].kind,
               on   |-> Rehome(Names(a.actions[j].target, gs), g)]]
  <2>1. DOMAIN m.each = DOMAIN a.actions
        /\ \A j \in DOMAIN a.actions : m.each[j] = each(j)
    BY <1>1
  <2>2. \A j : RehomeChild(each(j), g) =
               [kind |-> a.actions[j].kind,
                on   |-> Rehome(Names(a.actions[j].target, gs), g)]
    BY DEF RehomeChild
  <2>. HIDE DEF m, each
  <2>. QED
    BY <2>1, <2>2
<1>. HIDE DEF m, r3
<1>4. [m EXCEPT !.on = r1] = M(r1, m.ms, m.each)
  BY <1>1
<1>5. [M(r1, m.ms, m.each) EXCEPT !.ms = r2] = M(r1, r2, m.each)
  OBVIOUS
<1>6. [M(r1, r2, m.each) EXCEPT !.each = r3] = M(r1, r2, r3)
  OBVIOUS
<1>7. Rehomed(m, g) = M(r1, r2, r3)
  BY <1>2, <1>4, <1>5, <1>6
<1>. QED
  BY <1>1, <1>3, <1>7 DEF m

(* What an action says is what its parts say.                              *)
LEMMA MeaningIs ==
  ASSUME NEW a, NEW gs, NEW b, NEW g, NEW after,
         b.kind = a.kind, b.mode = a.mode,
         Names(b.target, after) = Rehome(Names(a.target, gs), g),
         MsOf(b.values, after) = RehomeMs(MsOf(a.values, gs), g),
         DOMAIN b.actions = DOMAIN a.actions,
         \A j \in DOMAIN a.actions :
           /\ b.actions[j].kind = a.actions[j].kind
           /\ Names(b.actions[j].target, after) =
                Rehome(Names(a.actions[j].target, gs), g)
  PROVE  MeaningOf(b, after) = Rehomed(MeaningOf(a, gs), g)
<1>1. [j \in DOMAIN b.actions |->
         [kind |-> b.actions[j].kind, on |-> Names(b.actions[j].target, after)]]
      = [j \in DOMAIN a.actions |->
           [kind |-> a.actions[j].kind,
            on   |-> Rehome(Names(a.actions[j].target, gs), g)]]
  OBVIOUS
<1>2. MeaningOf(b, after) =
      [kind |-> a.kind, on |-> Rehome(Names(a.target, gs), g), mode |-> a.mode,
       ms   |-> RehomeMs(MsOf(a.values, gs), g),
       each |-> [j \in DOMAIN a.actions |->
                   [kind |-> a.actions[j].kind,
                    on   |-> Rehome(Names(a.actions[j].target, gs), g)]]]
  BY <1>1, Zenon DEF MeaningOf
<1>3. Rehomed(MeaningOf(a, gs), g) =
      [kind |-> a.kind, on |-> Rehome(Names(a.target, gs), g), mode |-> a.mode,
       ms   |-> RehomeMs(MsOf(a.values, gs), g),
       each |-> [j \in DOMAIN a.actions |->
                   [kind |-> a.actions[j].kind,
                    on   |-> Rehome(Names(a.actions[j].target, gs), g)]]]
  BY RehomedIs
<1>. QED
  BY <1>2, <1>3, Zenon

LEMMA NoMs ==
  ASSUME NEW gs, NEW after, NEW g
  PROVE  MsOf(<<>>, after) = RehomeMs(MsOf(<<>>, gs), g) /\ Single(<<>>)
<1>1. MsOf(<<>>, gs) = {} /\ MsOf(<<>>, after) = {}
  BY NoneIs DEF MsOf, ToSet
<1>2. RehomeMs({}, g) = {}
  BY DEF RehomeMs
<1>. QED
  BY <1>1, <1>2, NoneIs DEF Single

(* The parts of a shifted action.                                          *)
ShiftChildren(children, d) ==
  [i \in DOMAIN children |-> ShiftChild(children[i], d)]

LEMMA RenumberedIs ==
  ASSUME NEW kind, NEW t, NEW mode, NEW values, NEW children, NEW d
  PROVE  RenumberAction(Action(kind, t, mode, values, children), d) =
         Action(kind, ShiftTarget(t, d), mode, ShiftValues(values, d),
                ShiftChildren(children, d))
<1>. DEFINE a == Action(kind, t, mode, values, children)
            c == [i \in DOMAIN a.actions |-> ShiftChild(a.actions[i], d)]
            e == ShiftChildren(children, d)
<1>1. RenumberAction(a, d) =
        With(a, ShiftTarget(a.target, d), ShiftValues(a.values, d), c)
  <2>. HIDE DEF a
  <2>. QED
    BY DEF RenumberAction, With
<1>2. a.target = t /\ a.values = values /\ a.actions = children
  BY DEF Action
<1>3. c = e
  BY <1>2 DEF ShiftChildren
<1>. HIDE DEF e
<1>4. With(Action(kind, t, mode, values, children), ShiftTarget(t, d),
           ShiftValues(values, d), e)
      = Action(kind, ShiftTarget(t, d), mode, ShiftValues(values, d), e)
  BY ActionReplaced
<1>. HIDE DEF c
<1>. QED
  BY <1>1, <1>2, <1>3, <1>4 DEF e

LEMMA RenumberedWithout ==
  ASSUME NEW kind, NEW t, NEW mode, NEW d
  PROVE  RenumberAction(Action(kind, t, mode, <<>>, <<>>), d) =
         Action(kind, ShiftTarget(t, d), mode, <<>>, <<>>)
<1>1. ShiftChildren(<<>>, d) = <<>>
  BY NoneIs DEF ShiftChildren
<1>2. ShiftValues(<<>>, d) = <<>>
  BY ShiftedNone
<1>3. RenumberAction(Action(kind, t, mode, <<>>, <<>>), d) =
      Action(kind, ShiftTarget(t, d), mode, ShiftValues(<<>>, d),
             ShiftChildren(<<>>, d))
  BY RenumberedIs
<1>. QED
  BY <1>1, <1>2, <1>3

LEMMA PlainStays ==
  ASSUME NEW kind, NEW d
  PROVE  RenumberAction(Plain(kind), d) = Plain(kind)
<1>1. ShiftTarget(NoTarget, d) = NoTarget
  BY DEF ShiftTarget, NoTarget, Target
<1>2. RenumberAction(Action(kind, NoTarget, "", <<>>, <<>>), d) =
      Action(kind, ShiftTarget(NoTarget, d), "", <<>>, <<>>)
  BY RenumberedWithout
<1>. QED
  BY <1>1, <1>2 DEF Plain

(* A shifted effect of a container.                                        *)
LEMMA ShiftedChild ==
  ASSUME NEW gs, NEW n, NEW d, GroupsAt(gs, n, d),
         NEW c, NEW container, IsChild(c, container),
         \A x \in ToSet(c.target.ids) : x < n
  PROVE  LET new == CanonChild(ShiftChild(c, d)) IN
         /\ ShiftChild(c, d) \in RawChild /\ new.kind = c.kind
         /\ Names(new.target, RemoveAt(gs, d + 1)) =
              Rehome(Names(c.target, gs), gs[d + 1])
         /\ \A x \in ToSet(new.target.ids) : x < n - 1
<1>. DEFINE st == ShiftTarget(c.target, d)
            sc == ShiftChild(c, d)  new == CanonChild(sc)
<1>1. c \in RawChild /\ IsTarget(c.target)
  BY DEF IsChild
<1>2. /\ st \in RawTarget
      /\ Names(CanonTarget(st), RemoveAt(gs, d + 1)) =
           Rehome(Names(c.target, gs), gs[d + 1])
      /\ \A x \in ToSet(CanonTarget(st).ids) : x < n - 1
  BY <1>1, ShiftedTarget
<1>3. sc = [c EXCEPT !.target = st]
  BY DEF ShiftChild
<1>. HIDE DEF st, sc
<1>4. sc \in RawChild /\ sc.kind = c.kind /\ sc.target = st
  BY <1>1, <1>2, <1>3 DEF RawChild
<1>5. new = [sc EXCEPT !.target = CanonTarget(st)]
  BY <1>4 DEF CanonChild
<1>6. new.kind = c.kind /\ new.target = CanonTarget(st)
  BY <1>4, <1>5 DEF RawChild
<1>. QED
  BY <1>2, <1>4, <1>6 DEF sc

(* A shifted action is of canonical form again and means what was meant    *)
(* before the deletion.                                                    *)
LEMMA ShiftedAction ==
  ASSUME NEW gs, NEW n, NEW d, GroupsAt(gs, n, d),
         NEW a, IsAction(a), Clean(a, n)
  PROVE  LET new == CanonAction(RenumberAction(a, d)) IN
         /\ RenumberAction(a, d) \in RawAction
         /\ MeaningOf(new, RemoveAt(gs, d + 1)) = Rehomed(MeaningOf(a, gs), gs[d + 1])
         /\ Clean(new, n - 1)
<1>. DEFINE r == RenumberAction(a, d)  new == CanonAction(r)
            after == RemoveAt(gs, d + 1)  g == gs[d + 1]
<1>1. CASE a \in {Plain("sync"), Plain("delay")}
  <2>1. PICK k \in {"sync", "delay"} : a = Plain(k)
    BY <1>1
  <2>4. r = a
    BY <2>1, PlainStays
  <2>5. new = a /\ a \in RawAction
    BY <1>1, <2>4, ActionStays DEF IsAction
  <2>6. a.target = NoTarget /\ a.values = <<>> /\ a.actions = <<>>
    BY <2>1, PlainIs
  <2>7. NoTarget.ids = <<>> /\ ToSet(<<>>) = {}
    BY NoneIs DEF NoTarget, Target, ToSet
  <2>8. Names(NoTarget, after) = Rehome(Names(NoTarget, gs), g)
    BY <2>7, NamesAre DEF Rehome
  <2>9. MsOf(<<>>, after) = RehomeMs(MsOf(<<>>, gs), g) /\ Single(<<>>)
    BY NoMs
  <2>10. MeaningOf(a, after) = Rehomed(MeaningOf(a, gs), g)
    BY <2>6, <2>8, <2>9, NoneIs, MeaningIs
  <2>11. Clean(a, n - 1)
    BY <2>6, <2>7, <2>9, NoneIs DEF Clean, Below
  <2>. QED
    BY <2>4, <2>5, <2>10, <2>11
<1>2. CASE /\ a = Effect(a.kind, a.target)
           /\ a.kind \in EffectKinds \cup {"startblock"} /\ IsTarget(a.target)
  <2>. DEFINE st == ShiftTarget(a.target, d)
  <2>1. /\ st \in RawTarget /\ st.kind = a.target.kind
        /\ Names(CanonTarget(st), after) = Rehome(Names(a.target, gs), g)
        /\ \A x \in ToSet(CanonTarget(st).ids) : x < n - 1
    BY <1>2, ShiftedTarget DEF Clean, Below
  <2>3. r = Effect(a.kind, st)
    <3>1. RenumberAction(Effect(a.kind, a.target), d) = Effect(a.kind, st)
      BY RenumberedWithout DEF Effect
    <3>. QED
      BY <1>2, <3>1
  <2>4. a.target.kind # "groups_offset"
    BY <1>2, TargetIs
  <2>. HIDE DEF st, r
  <2>5. r.kind = a.kind /\ r.target = st
    BY <2>3, EffectIs
  <2>6. MigrateLegacy(r) = r
    BY <2>1, <2>4, <2>5 DEF MigrateLegacy
  <2>7. a.kind \notin {"offset_group", "sync", "delay"} /\ a.kind \in ActionKinds
    BY <1>2 DEF EffectKinds, ActionKinds
  <2>8. new = Effect(a.kind, CanonTarget(st))
    BY <2>5, <2>6, <2>7 DEF CanonAction
  <2>9. r \in RawAction
    <3>1. Effect(a.kind, st) \in RawAction
      BY <2>1, <2>7, EffectIsRaw
    <3>. QED
      BY <2>3, <3>1
  <2>. HIDE DEF new, after, g
  <2>10. /\ new.kind = a.kind /\ new.target = CanonTarget(st) /\ new.mode = ""
         /\ new.values = <<>> /\ new.actions = <<>>
    BY <2>8 DEF Effect, Action
  <2>11. a.mode = "" /\ a.values = <<>> /\ a.actions = <<>>
    <3>1. PICK k, t : a = Effect(k, t)
      BY <1>2
    <3>. QED
      BY <3>1 DEF Effect, Action
  <2>12. MsOf(<<>>, after) = RehomeMs(MsOf(<<>>, gs), g) /\ Single(<<>>)
    BY NoMs
  <2>13. MeaningOf(new, after) = Rehomed(MeaningOf(a, gs), g)
    <3>1. /\ Names(new.target, after) = Rehome(Names(a.target, gs), g)
          /\ MsOf(new.values, after) = RehomeMs(MsOf(a.values, gs), g)
          /\ new.kind = a.kind /\ new.mode = a.mode
      BY <2>1, <2>10, <2>11, <2>12
    <3>2. DOMAIN new.actions = {} /\ DOMAIN a.actions = {}
      BY <2>10, <2>11, NoneIs
    <3>. QED
      BY <3>1, <3>2, MeaningIs
  <2>14. Clean(new, n - 1)
    BY <2>1, <2>10, <2>12, NoneIs DEF Clean, Below
  <2>. QED
    BY <2>9, <2>13, <2>14 DEF r, new, after, g
<1>3. CASE /\ a = OffsetGroup(a.target, a.mode, a.values, a.actions)
           /\ IsTarget(a.target) /\ a.target.kind # "device"
           /\ Len(a.target.ids) <= MaxEntries
           /\ IsValues(a.mode, a.values, a.target)
           /\ a.actions \in Seq(RawChild) /\ Len(a.actions) <= MaxChildren
           /\ \A i \in DOMAIN a.actions : IsChild(a.actions[i], a.target)
  <2>. DEFINE st == ShiftTarget(a.target, d)  sv == ShiftValues(a.values, d)
              sc == ShiftChildren(a.actions, d)
              v == CanonValues(a.mode, sv)
              c == [i \in DOMAIN sc |-> CanonChild(sc[i])]
  <2>1. /\ st \in RawTarget /\ st.kind = a.target.kind
        /\ Names(CanonTarget(st), after) = Rehome(Names(a.target, gs), g)
        /\ \A x \in ToSet(CanonTarget(st).ids) : x < n - 1
    BY <1>3, ShiftedTarget DEF Clean, Below
  <2>2. /\ sv \in Seq(Value) /\ Single(v)
        /\ MsOf(v, after) = RehomeMs(MsOf(a.values, gs), g)
    <3>1. CASE a.mode # "explicit"
      <4>1. a.values = <<>> /\ v = <<>>
        BY <1>3, <3>1 DEF IsValues, CanonValues
      <4>. HIDE DEF v, after, g
      <4>. QED
        BY <4>1, NoneIs, NoMs, ShiftedNone
    <3>2. CASE a.mode = "explicit"
      <4>1. /\ a.values \in Seq(Value) /\ Rising(a.values) /\ a.target.kind = "groups"
            /\ \A i \in DOMAIN a.values : a.values[i].id \in ToSet(a.target.ids)
        BY <1>3, <3>2, TargetIs DEF IsValues
      <4>2. ToSet(a.target.ids) \subseteq 0..GroupIdMax
        BY <1>3, <4>1, TargetIs
      <4>3. \A i \in DOMAIN a.values : a.values[i].id \in Nat /\ a.values[i].id < n
        BY <4>1, <4>2 DEF Clean, Below
      <4>4. Single(a.values)
        BY DEF Clean
      <4>. QED
        BY <3>2, <4>1, <4>3, <4>4, ShiftedValues
    <3>. QED
      BY <3>1, <3>2
  <2>3. DOMAIN a.actions = 1..Len(a.actions) /\ Len(a.actions) \in Nat
    BY <1>3, LenProperties
  <2>4. ASSUME NEW i \in DOMAIN a.actions
        PROVE  /\ sc[i] \in RawChild /\ c[i].kind = a.actions[i].kind
               /\ Names(c[i].target, after) =
                    Rehome(Names(a.actions[i].target, gs), g)
               /\ \A x \in ToSet(c[i].target.ids) : x < n - 1
    <3>1. sc[i] = ShiftChild(a.actions[i], d) /\ c[i] = CanonChild(sc[i])
      BY DEF ShiftChildren
    <3>. HIDE DEF sc, c
    <3>2. IsChild(a.actions[i], a.target)
          /\ \A x \in ToSet(a.actions[i].target.ids) : x < n
      BY <1>3 DEF Clean, Below
    <3>. QED
      BY <3>1, <3>2, ShiftedChild
  <2>5. sc \in Seq(RawChild)
    <3>1. sc \in [1..Len(a.actions) -> RawChild]
      BY <2>3, <2>4 DEF ShiftChildren
    <3>. QED
      BY <2>3, <3>1
  <2>6. r = OffsetGroup(st, a.mode, sv, sc)
    <3>1. RenumberAction(OffsetGroup(a.target, a.mode, a.values, a.actions), d)
          = OffsetGroup(st, a.mode, sv, sc)
      BY RenumberedIs DEF OffsetGroup
    <3>. QED
      BY <1>3, <3>1
  <2>7. a.target.kind # "groups_offset"
    BY <1>3, TargetIs
  <2>8. DOMAIN c = DOMAIN a.actions
    BY DEF ShiftChildren
  <2>. HIDE DEF st, sv, sc
  <2>9. /\ r.kind = "offset_group" /\ r.target = st /\ r.mode = a.mode
        /\ r.values = sv /\ r.actions = sc
    BY <2>6, OffsetGroupIs
  <2>10. "offset_group" \in ActionKinds /\ a.mode \in Modes
    BY <1>3 DEF ActionKinds, Modes, IsValues
  <2>11. r \in RawAction
    BY <2>1, <2>2, <2>5, <2>6, <2>10, ActionIsRaw DEF OffsetGroup
  <2>. HIDE DEF r
  <2>12. MigrateLegacy(r) = r
    BY <2>1, <2>7, <2>9 DEF MigrateLegacy
  <2>13. new = CanonOffsetGroup(r)
    BY <2>9, <2>12 DEF CanonAction
  <2>14. CanonOffsetGroup(r) = With(r, CanonTarget(st), v, c)
    BY <2>9 DEF CanonOffsetGroup, With
  <2>. HIDE DEF v, c
  <2>15. With(Action("offset_group", st, a.mode, sv, sc), CanonTarget(st), v, c)
         = Action("offset_group", CanonTarget(st), a.mode, v, c)
    BY ActionReplaced
  <2>16. new = OffsetGroup(CanonTarget(st), a.mode, v, c)
    BY <2>6, <2>13, <2>14, <2>15 DEF OffsetGroup
  <2>. HIDE DEF new, after, g
  <2>17. /\ new.kind = "offset_group" /\ new.target = CanonTarget(st)
         /\ new.mode = a.mode /\ new.values = v /\ new.actions = c
    BY <2>16, OffsetGroupIs
  <2>18. a.kind = "offset_group"
    BY <1>3, OffsetGroupIs
  <2>19. MeaningOf(new, after) = Rehomed(MeaningOf(a, gs), g)
    BY <2>1, <2>2, <2>4, <2>8, <2>17, <2>18, MeaningIs
  <2>20. Clean(new, n - 1)
    BY <2>1, <2>2, <2>4, <2>8, <2>17 DEF Clean, Below
  <2>. QED
    BY <2>11, <2>19, <2>20 DEF r, new, after, g
<1>. QED
  BY <1>1, <1>2, <1>3 DEF IsAction

(* A list of actions as the store keeps it.                                *)
IsActions(acts) ==
  /\ acts \in Seq(RawAction) /\ Len(acts) <= MaxActions
  /\ \A i \in DOMAIN acts : IsAction(acts[i])

(* No group has two values and every group referred to is below n.         *)
CleanActs(acts, n) == \A i \in DOMAIN acts : Clean(acts[i], n)

(* What the validator stores is of canonical form, and refers to what the  *)
(* draft referred to.                                                      *)
LEMMA ActionsCanon ==
  ASSUME NEW acts \in Seq(RawAction), ValidActions(acts)
  PROVE  IsActions(CanonActions(acts)) /\ Refers(CanonActions(acts)) = Refers(acts)
<1>. DEFINE c == CanonActions(acts)
<1>1. DOMAIN acts = 1..Len(acts) /\ Len(acts) \in Nat /\ Len(acts) <= MaxActions
      /\ \A i \in DOMAIN acts : acts[i] \in RawAction /\ ValidAction(acts[i])
  BY LenProperties DEF ValidActions
<1>2. DOMAIN c = DOMAIN acts /\ \A i \in DOMAIN acts : c[i] = CanonAction(acts[i])
  BY DEF CanonActions
<1>3. c \in [DOMAIN acts -> RawAction] <=> \A i \in DOMAIN acts : c[i] \in RawAction
  BY DEF CanonActions
<1>. HIDE DEF c
<1>4. \A i \in DOMAIN acts : IsAction(c[i])
  BY <1>1, <1>2, CanonIs
<1>5. \A i \in DOMAIN acts : c[i] \in RawAction /\ CanonAction(c[i]) = CanonAction(acts[i])
  BY <1>2, <1>4, ActionStays
<1>6. c \in Seq(RawAction) /\ Len(c) = Len(acts)
  <2>1. c \in [1..Len(acts) -> RawAction]
    BY <1>1, <1>3, <1>5
  <2>. QED
    BY <1>1, <2>1
<1>7. Refers(c) = Refers(acts)
  <2>. DEFINE R(a) == UNION {ToSet(t.ids) : t \in {a.target} \cup
                        {a.actions[j].target : j \in DOMAIN a.actions}}
  <2>1. /\ Refers(c) = UNION {R(CanonAction(c[i])) : i \in DOMAIN c}
        /\ Refers(acts) = UNION {R(CanonAction(acts[i])) : i \in DOMAIN acts}
    BY DEF Refers
  <2>. HIDE DEF R
  <2>. QED
    BY <1>2, <1>5, <2>1
<1>. QED
  BY <1>1, <1>2, <1>4, <1>6, <1>7 DEF IsActions, c

(* What is stored is valid and reads as it is.                             *)
LEMMA ActionsStay ==
  ASSUME NEW acts, IsActions(acts)
  PROVE  ValidActions(acts) /\ CanonActions(acts) = acts
<1>1. \A i \in DOMAIN acts : ValidAction(acts[i]) /\ CanonAction(acts[i]) = acts[i]
  BY ActionStays DEF IsActions
<1>2. acts = [i \in DOMAIN acts |-> acts[i]]
  BY LenProperties DEF IsActions
<1>. QED
  BY <1>1, <1>2 DEF IsActions, ValidActions, CanonActions

LEMMA MeaningOfActs ==
  ASSUME NEW acts, NEW gs
  PROVE  /\ DOMAIN Meaning(acts, gs) = DOMAIN acts
         /\ \A i \in DOMAIN acts : Meaning(acts, gs)[i] = MeaningOf(acts[i], gs)
         /\ Meaning(acts, gs) = [i \in DOMAIN acts |-> Meaning(acts, gs)[i]]
BY DEF Meaning, MeaningOf, MsOf

LEMMA AfterDeletionIs ==
  ASSUME NEW meant, NEW g
  PROVE  /\ DOMAIN AfterDeletion(meant, g) = DOMAIN meant
         /\ \A i \in DOMAIN meant : AfterDeletion(meant, g)[i] = Rehomed(meant[i], g)
         /\ AfterDeletion(meant, g) =
              [i \in DOMAIN meant |-> AfterDeletion(meant, g)[i]]
BY DEF AfterDeletion, Rehomed

(* What the shift of a stored list gives is meant by what was meant before *)
(* the deletion.                                                           *)
LEMMA ActionsRenumbered ==
  ASSUME NEW gs, NEW n, NEW d, GroupsAt(gs, n, d),
         NEW acts, IsActions(acts), CleanActs(acts, n)
  PROVE  LET new == CanonActions(RenumberActions(acts, d)) IN
         /\ Meaning(new, RemoveAt(gs, d + 1)) =
              AfterDeletion(Meaning(acts, gs), gs[d + 1])
         /\ CleanActs(new, n - 1)
<1>. DEFINE sh == RenumberActions(acts, d)  new == CanonActions(sh)
            after == RemoveAt(gs, d + 1)  g == gs[d + 1]
            m == Meaning(acts, gs)
<1>1. DOMAIN sh = DOMAIN acts
      /\ \A i \in DOMAIN acts : sh[i] = RenumberAction(acts[i], d)
  BY DEF RenumberActions
<1>. HIDE DEF sh
<1>2. DOMAIN new = DOMAIN acts /\ \A i \in DOMAIN acts : new[i] = CanonAction(sh[i])
  BY <1>1 DEF CanonActions
<1>. HIDE DEF new
<1>3. \A i \in DOMAIN acts :
        /\ MeaningOf(CanonAction(RenumberAction(acts[i], d)), after) =
             Rehomed(MeaningOf(acts[i], gs), g)
        /\ Clean(CanonAction(RenumberAction(acts[i], d)), n - 1)
  BY ShiftedAction DEF IsActions, CleanActs
<1>4. CleanActs(new, n - 1)
  BY <1>1, <1>2, <1>3 DEF CleanActs
<1>. HIDE DEF after, g, m
<1>5. DOMAIN m = DOMAIN acts /\ \A i \in DOMAIN acts : m[i] = MeaningOf(acts[i], gs)
  BY MeaningOfActs DEF m
<1>6. /\ DOMAIN Meaning(new, after) = DOMAIN acts
      /\ DOMAIN AfterDeletion(m, g) = DOMAIN acts
  BY <1>2, <1>5, MeaningOfActs, AfterDeletionIs
<1>7. ASSUME NEW i \in DOMAIN acts
      PROVE  Meaning(new, after)[i] = AfterDeletion(m, g)[i]
  <2>1. Meaning(new, after)[i] = MeaningOf(new[i], after)
    BY <1>2, MeaningOfActs
  <2>2. AfterDeletion(m, g)[i] = Rehomed(m[i], g)
    BY <1>5, AfterDeletionIs
  <2>. QED
    BY <1>1, <1>2, <1>3, <1>5, <2>1, <2>2
<1>8. Meaning(new, after) = AfterDeletion(m, g)
  <2>1. Meaning(new, after) = [i \in DOMAIN acts |-> Meaning(new, after)[i]]
    BY <1>2, MeaningOfActs
  <2>2. AfterDeletion(m, g) = [i \in DOMAIN acts |-> AfterDeletion(m, g)[i]]
    BY <1>5, AfterDeletionIs
  <2>. QED
    BY <1>7, <2>1, <2>2
<1>. QED
  BY <1>4, <1>8 DEF sh, new, after, g, m

LEMMA RefersIs ==
  ASSUME NEW acts, IsActions(acts), NEW n
  PROVE  (\A x \in Refers(acts) : x < n) <=> \A i \in DOMAIN acts : Below(acts[i], n)
<1>1. \A i \in DOMAIN acts : CanonAction(acts[i]) = acts[i]
  BY ActionStays DEF IsActions
<1>2. \A x : x \in Refers(acts) <=>
        \E i \in DOMAIN acts :
          \/ x \in ToSet(acts[i].target.ids)
          \/ \E j \in DOMAIN acts[i].actions :
               x \in ToSet(acts[i].actions[j].target.ids)
  BY <1>1 DEF Refers
<1>. QED
  BY <1>2 DEF Below

LEMMA DoubledIs ==
  ASSUME NEW acts
  PROVE  ~Doubled(acts) <=> \A i \in DOMAIN acts : Single(acts[i].values)
BY DEF Doubled, Single

LEMMA CleanIs ==
  ASSUME NEW acts, IsActions(acts), NEW n
  PROVE  CleanActs(acts, n) <=> ~Doubled(acts) /\ \A x \in Refers(acts) : x < n
BY RefersIs, DoubledIs DEF CleanActs, Clean

(* A new group changes the meaning of no list that refers to the others.   *)
LEMMA NameStays ==
  ASSUME NEW gs \in Seq(UserGroups \cup {Home}), NEW g, NEW x \in Nat, x < Len(gs)
  PROVE  NameOf(x, Append(gs, g)) = NameOf(x, gs)
<1>. DEFINE T == UserGroups \cup {Home, g}
<1>1. gs \in Seq(T) /\ g \in T
  BY SeqMonotonic
<1>2. /\ Len(Append(gs, g)) = Len(gs) + 1 /\ Len(gs) \in Nat
      /\ \A i \in 1..Len(gs) : Append(gs, g)[i] = gs[i]
  BY <1>1, AppendProperties, LenProperties
<1>3. x + 1 \in 1..Len(gs) /\ x < Len(gs) + 1
  BY <1>2
<1>. QED
  BY <1>2, <1>3 DEF NameOf

LEMMA IdsAreNat ==
  ASSUME NEW t, IsTarget(t)
  PROVE  ToSet(t.ids) \subseteq Nat
<1>1. CASE t.kind = "groups"
  BY <1>1, TargetIs
<1>2. CASE t.kind # "groups"
  BY <1>2, TargetIs, NoneIs DEF ToSet
<1>. QED
  BY <1>1, <1>2

LEMMA MeaningStays ==
  ASSUME NEW gs \in Seq(UserGroups \cup {Home}), NEW g,
         NEW acts, IsActions(acts), CleanActs(acts, Len(gs))
  PROVE  Meaning(acts, Append(gs, g)) = Meaning(acts, gs)
<1>. DEFINE after == Append(gs, g)
            Known(t) == \A x \in ToSet(t.ids) : x \in Nat /\ x < Len(gs)
<1>1. ASSUME NEW t, Known(t) PROVE Names(t, after) = Names(t, gs)
  <2>1. \A x \in ToSet(t.ids) : NameOf(x, after) = NameOf(x, gs)
    BY <1>1, NameStays
  <2>. HIDE DEF after
  <2>. QED
    BY <2>1, NamesAre
<1>2. ASSUME NEW a, IsAction(a), Clean(a, Len(gs))
      PROVE  /\ Known(a.target)
             /\ \A j \in DOMAIN a.actions : Known(a.actions[j].target)
             /\ \A v \in ToSet(a.values) : v.id \in ToSet(a.target.ids)
  <2>1. CASE a \in {Plain("sync"), Plain("delay")}
    <3>1. a.target = NoTarget /\ a.values = <<>> /\ a.actions = <<>>
      BY <2>1, PlainIs
    <3>2. ToSet(<<>>) = {} /\ NoTarget.ids = <<>>
      BY NoneIs DEF ToSet, NoTarget, Target
    <3>. QED
      BY <3>1, <3>2, NoneIs
  <2>2. CASE /\ a = Effect(a.kind, a.target)
             /\ a.kind \in EffectKinds \cup {"startblock"} /\ IsTarget(a.target)
    <3>1. PICK k, t : a = Effect(k, t)
      BY <2>2
    <3>2. a.values = <<>> /\ a.actions = <<>>
      BY <3>1 DEF Effect, Action
    <3>3. Known(a.target)
      BY <1>2, <2>2, IdsAreNat DEF Clean, Below
    <3>. QED
      BY <3>2, <3>3, NoneIs DEF ToSet
  <2>3. CASE /\ a = OffsetGroup(a.target, a.mode, a.values, a.actions)
             /\ IsTarget(a.target) /\ a.target.kind # "device"
             /\ Len(a.target.ids) <= MaxEntries
             /\ IsValues(a.mode, a.values, a.target)
             /\ a.actions \in Seq(RawChild) /\ Len(a.actions) <= MaxChildren
             /\ \A i \in DOMAIN a.actions : IsChild(a.actions[i], a.target)
    <3>1. Known(a.target)
      BY <1>2, <2>3, IdsAreNat DEF Clean, Below
    <3>2. \A j \in DOMAIN a.actions : Known(a.actions[j].target)
      BY <1>2, <2>3, IdsAreNat DEF Clean, Below, IsChild
    <3>3. \A v \in ToSet(a.values) : v.id \in ToSet(a.target.ids)
      BY <2>3, NoneIs DEF IsValues, ToSet
    <3>. QED
      BY <3>1, <3>2, <3>3
  <2>. QED
    BY <1>2, <2>1, <2>2, <2>3 DEF IsAction
<1>3. ASSUME NEW i \in DOMAIN acts
      PROVE  MeaningOf(acts[i], after) = MeaningOf(acts[i], gs)
  <2>. DEFINE a == acts[i]
  <2>1. IsAction(a) /\ Clean(a, Len(gs))
    BY DEF IsActions, CleanActs
  <2>. HIDE DEF a
  <2>2. /\ Known(a.target)
        /\ \A j \in DOMAIN a.actions : Known(a.actions[j].target)
        /\ \A v \in ToSet(a.values) : v.id \in ToSet(a.target.ids)
    BY <1>2, <2>1
  <2>3. Names(a.target, after) = Names(a.target, gs)
    BY <1>1, <2>2
  <2>4. \A j \in DOMAIN a.actions :
          Names(a.actions[j].target, after) = Names(a.actions[j].target, gs)
    BY <1>1, <2>2
  <2>5. \A v \in ToSet(a.values) : NameOf(v.id, after) = NameOf(v.id, gs)
    BY <2>2, NameStays
  <2>. HIDE DEF after
  <2>6. MsOf(a.values, after) = MsOf(a.values, gs)
    BY <2>5 DEF MsOf
  <2>7. MeaningOf(a, after) = MeaningOf(a, gs)
    BY <2>3, <2>4, <2>6 DEF MeaningOf
  <2>. QED
    BY <2>7 DEF a
<1>. HIDE DEF after
<1>4. \A i \in DOMAIN acts : Meaning(acts, after)[i] = Meaning(acts, gs)[i]
  BY <1>3, MeaningOfActs
<1>5. /\ Meaning(acts, after) = [i \in DOMAIN acts |-> Meaning(acts, after)[i]]
      /\ Meaning(acts, gs) = [i \in DOMAIN acts |-> Meaning(acts, gs)[i]]
  BY MeaningOfActs
<1>6. Meaning(acts, after) = Meaning(acts, gs)
  BY <1>4, <1>5
<1>. QED
  BY <1>6 DEF after

(* The shift makes of any request what a request may hold.                 *)
LEMMA RawShiftedTarget ==
  ASSUME NEW t \in RawTarget, NEW d \in Nat
  PROVE  ShiftTarget(t, d) \in RawTarget
<1>1. CASE t.kind # "groups"
  BY <1>1 DEF ShiftTarget
<1>2. CASE t.kind = "groups"
  <2>. DEFINE sh == [i \in DOMAIN t.ids |-> ShiftGroup(t.ids[i], d)]
              first == FirstOf(sh, sh)
  <2>1. t.ids \in Seq(Int)
    BY DEF RawTarget
  <2>2. DOMAIN t.ids = 1..Len(t.ids) /\ Len(t.ids) \in Nat
        /\ \A i \in DOMAIN t.ids : t.ids[i] \in Int
    BY <2>1, LenProperties
  <2>3. \A i \in DOMAIN t.ids : ShiftGroup(t.ids[i], d) \in Int
    BY <2>2 DEF ShiftGroup
  <2>4. sh \in [1..Len(t.ids) -> Int]
    BY <2>2, <2>3
  <2>5. sh \in Seq(Int)
    BY <2>2, <2>4
  <2>6. ShiftTarget(t, d) = [t EXCEPT !.ids = first]
    BY <1>2 DEF ShiftTarget
  <2>. HIDE DEF sh
  <2>7. first \in Seq(Int)
    BY <2>5, FirstIs
  <2>. HIDE DEF first
  <2>. QED
    BY <2>6, <2>7 DEF RawTarget
<1>. QED
  BY <1>1, <1>2

LEMMA RawShiftedValues ==
  ASSUME NEW values \in Seq(Value), NEW d \in Nat
  PROVE  ShiftValues(values, d) \in Seq(Value)
<1>. DEFINE sh == [i \in DOMAIN values |->
                     [values[i] EXCEPT !.id = ShiftGroup(@, d)]]
            keys == [i \in DOMAIN values |-> sh[i].id]
<1>1. DOMAIN values = 1..Len(values) /\ Len(values) \in Nat
      /\ \A i \in DOMAIN values : values[i] \in Value
  BY LenProperties
<1>2. \A i \in DOMAIN values : ShiftGroup(values[i].id, d) \in Int
  BY <1>1 DEF ShiftGroup, Value
<1>3. \A i \in DOMAIN values : sh[i] \in Value
  BY <1>1, <1>2 DEF Value
<1>4. sh \in [1..Len(values) -> Value]
  BY <1>1, <1>3
<1>5. sh \in Seq(Value)
  BY <1>1, <1>4
<1>6. ShiftValues(values, d) = FirstOf(sh, keys)
  BY DEF ShiftValues
<1>. HIDE DEF sh, keys
<1>. QED
  BY <1>5, <1>6, FirstIs

LEMMA RawRenumbered ==
  ASSUME NEW acts, IsActions(acts), NEW d \in Nat
  PROVE  RenumberActions(acts, d) \in Seq(RawAction)
<1>1. DOMAIN acts = 1..Len(acts) /\ Len(acts) \in Nat
      /\ \A i \in DOMAIN acts : acts[i] \in RawAction
  BY LenProperties DEF IsActions
<1>2. ASSUME NEW a \in RawAction PROVE RenumberAction(a, d) \in RawAction
  <2>. DEFINE sc == ShiftChildren(a.actions, d)
  <2>1. /\ a.kind \in ActionKinds /\ a.target \in RawTarget /\ a.mode \in Modes
        /\ a.values \in Seq(Value) /\ a.actions \in Seq(RawChild)
    BY DEF RawAction
  <2>2. DOMAIN a.actions = 1..Len(a.actions) /\ Len(a.actions) \in Nat
        /\ \A i \in DOMAIN a.actions : a.actions[i] \in RawChild
    BY <2>1, LenProperties
  <2>3. ASSUME NEW c \in RawChild PROVE ShiftChild(c, d) \in RawChild
    <3>1. ShiftTarget(c.target, d) \in RawTarget
      BY RawShiftedTarget DEF RawChild
    <3>. QED
      BY <3>1 DEF ShiftChild, RawChild
  <2>4. sc \in [1..Len(a.actions) -> RawChild]
    BY <2>2, <2>3 DEF ShiftChildren
  <2>5. sc \in Seq(RawChild)
    BY <2>2, <2>4
  <2>6. a = Action(a.kind, a.target, a.mode, a.values, a.actions)
    BY DEF Action, RawAction
  <2>7. RenumberAction(Action(a.kind, a.target, a.mode, a.values, a.actions), d)
        = Action(a.kind, ShiftTarget(a.target, d), a.mode,
                 ShiftValues(a.values, d), sc)
    BY RenumberedIs
  <2>. HIDE DEF sc
  <2>8. Action(a.kind, ShiftTarget(a.target, d), a.mode,
               ShiftValues(a.values, d), sc) \in RawAction
    BY <2>1, <2>5, RawShiftedTarget, RawShiftedValues, ActionIsRaw
  <2>. QED
    BY <2>6, <2>7, <2>8
<1>3. PICK m \in Nat : m = Len(acts) /\ DOMAIN acts = 1..m
  BY <1>1
<1>4. RenumberActions(acts, d) = [i \in 1..m |-> RenumberAction(acts[i], d)]
  BY <1>3 DEF RenumberActions
<1>5. \A i \in 1..m : RenumberAction(acts[i], d) \in RawAction
  BY <1>1, <1>2, <1>3
<1>6. RenumberActions(acts, d) \in [1..m -> RawAction]
  BY <1>4, <1>5
<1>. QED
  BY <1>3, <1>6

-----------------------------------------------------------------------------
(* As many keys are enough as there are ids left.                          *)
LEMMA KeyIsBound ==
  ASSUME NEW scenes, NEW next, Listed(scenes, next), next < MaxIds,
         NEW label \in Labels
  PROVE  UniqueKey(label, KeysOf(scenes)) \in Keys
<1>. DEFINE taken == KeysOf(scenes)
<1>1. PICK m \in Nat : m = Len(scenes) /\ DOMAIN scenes = 1..m
  BY ListedIs
<1>2. /\ next \in Nat /\ MaxIds \in Nat
      /\ \A i \in 1..m : scenes[i].id \in Nat /\ scenes[i].id < next
      /\ \A i, j \in 1..m : scenes[i].id = scenes[j].id => i = j
  BY <1>1, StoreAssumption DEF Listed, Distinct
<1>3. m <= next
  <2>. DEFINE f == [i \in 1..m |-> scenes[i].id]  T == 0..(next - 1)
  <2>1. IsFiniteSet(1..m) /\ Cardinality(1..m) = m
        /\ IsFiniteSet(T) /\ Cardinality(T) = next
    BY <1>2, Interval, IntervalFromZero
  <2>2. f \in [1..m -> T]
    BY <1>2
  <2>3. \A i, j \in 1..m : f[i] = f[j] => i = j
    BY <1>2
  <2>. HIDE DEF f, T
  <2>4. ~(Cardinality(T) < Cardinality(1..m))
    BY <2>1, <2>2, <2>3, FS_PigeonHole
  <2>. QED
    BY <1>2, <2>1, <2>4
<1>4. IsFiniteSet(taken) /\ Cardinality(taken) \in Nat /\ Cardinality(taken) <= m
  <2>. DEFINE f == [i \in 1..m |-> scenes[i].key]
  <2>1. f \in Surjection(1..m, taken)
    BY <1>1 DEF KeysOf, Surjection
  <2>. HIDE DEF f, taken
  <2>2. IsFiniteSet(1..m) /\ Cardinality(1..m) = m
    BY Interval
  <2>. QED
    BY <2>1, <2>2, FS_Surjection, FS_CardinalityType
<1>. HIDE DEF taken
<1>5. PICK n \in 1..(Cardinality(taken) + 1) : UniqueKey(label, taken) = <<label, n>>
  BY <1>4, KeyIsFree
<1>6. n \in 1..MaxIds
  BY <1>2, <1>3, <1>4
<1>. QED
  BY <1>5, <1>6 DEF Keys, taken

-----------------------------------------------------------------------------
(* The invariant of the references.                                        *)

LEMMA RefersAreNat ==
  ASSUME NEW acts, IsActions(acts)
  PROVE  Refers(acts) \subseteq Nat
<1>1. \A i \in DOMAIN acts : CanonAction(acts[i]) = acts[i]
  BY ActionStays DEF IsActions
<1>2. \A x : x \in Refers(acts) <=>
        \E i \in DOMAIN acts :
          \/ x \in ToSet(acts[i].target.ids)
          \/ \E j \in DOMAIN acts[i].actions :
               x \in ToSet(acts[i].actions[j].target.ids)
  BY <1>1 DEF Refers
<1>3. ASSUME NEW a, IsAction(a)
      PROVE  /\ ToSet(a.target.ids) \subseteq Nat
             /\ \A j \in DOMAIN a.actions :
                  ToSet(a.actions[j].target.ids) \subseteq Nat
  <2>1. CASE a \in {Plain("sync"), Plain("delay")}
    <3>1. a.target = NoTarget /\ a.actions = <<>>
      BY <2>1, PlainIs
    <3>2. ToSet(<<>>) = {} /\ NoTarget.ids = <<>>
      BY NoneIs DEF ToSet, NoTarget, Target
    <3>. QED
      BY <3>1, <3>2, NoneIs
  <2>2. CASE /\ a = Effect(a.kind, a.target)
             /\ a.kind \in EffectKinds \cup {"startblock"} /\ IsTarget(a.target)
    <3>1. PICK k, t : a = Effect(k, t)
      BY <2>2
    <3>2. a.actions = <<>>
      BY <3>1, EffectIs
    <3>. QED
      BY <2>2, <3>2, NoneIs, IdsAreNat
  <2>3. CASE /\ a = OffsetGroup(a.target, a.mode, a.values, a.actions)
             /\ IsTarget(a.target) /\ a.target.kind # "device"
             /\ Len(a.target.ids) <= MaxEntries
             /\ IsValues(a.mode, a.values, a.target)
             /\ a.actions \in Seq(RawChild) /\ Len(a.actions) <= MaxChildren
             /\ \A i \in DOMAIN a.actions : IsChild(a.actions[i], a.target)
    BY <2>3, IdsAreNat DEF IsChild
  <2>. QED
    BY <1>3, <2>1, <2>2, <2>3 DEF IsAction
<1>. QED
  BY <1>2, <1>3 DEF IsActions

(* What a draft refers to, once it is valid.                               *)
LEMMA DraftRefersNat ==
  ASSUME NEW acts \in Seq(RawAction), ValidActions(acts)
  PROVE  Refers(acts) \subseteq Nat
BY ActionsCanon, RefersAreNat

LEMMA CleanGrows ==
  ASSUME NEW acts, IsActions(acts), NEW n \in Nat, CleanActs(acts, n)
  PROVE  CleanActs(acts, n + 1)
<1>1. \A x \in Refers(acts) : x \in Nat /\ x < n
  BY RefersAreNat, CleanIs
<1>. QED
  BY <1>1, CleanIs

-----------------------------------------------------------------------------
(* A scene as the file and the cache keep it.                              *)
KeptScene(s) ==
  /\ s = Scene(s.id, s.key, s.acts, s.stop)
  /\ s.id \in 0..(MaxIds - 1) /\ s.key \in Keys
  /\ s.stop \in {"on", "off"} /\ IsActions(s.acts)

(* A scene that does what it was meant to do, and refers to groups there   *)
(* are, with one offset each at most; unless it is adrift.                 *)
MeantScene(s, gs, meant, lost) ==
  s.id \notin lost =>
    /\ Meaning(s.acts, gs) = meant[s.id].acts
    /\ s.stop = meant[s.id].stop
    /\ CleanActs(s.acts, Len(gs))

Intents(meant) ==
  \A i \in DOMAIN meant :
    meant[i] = [acts |-> meant[i].acts, stop |-> meant[i].stop]

AllScenes == ToSet(file.scenes) \cup ToSet(cache.scenes)

GroupsInv ==
  /\ groups \in Seq(UserGroups \cup {Home}) /\ Len(groups) >= 1
  /\ groups[1] = Home /\ IsInjective(groups)

CountsInv ==
  /\ file.there \in BOOLEAN /\ file.next \in 0..MaxIds
  /\ nextId \in -1..MaxIds /\ faults \in 0..MaxFaults
  /\ everIds \subseteq 0..(MaxIds - 1)

ScenesInv ==
  /\ \A s \in AllScenes : KeptScene(s) /\ s.id \in DOMAIN intent
  /\ adrift \subseteq DOMAIN intent /\ Intents(intent)

MeantInv ==
  ~unread =>
    /\ \A s \in AllScenes : MeantScene(s, groups, intent, adrift)
    /\ cache.held => ToSet(file.scenes) \subseteq ToSet(cache.scenes)

DraftInv ==
  /\ draft = [acts |-> draft.acts, stop |-> draft.stop, old |-> draft.old]
  /\ draft.acts \in Seq(RawAction) /\ draft.stop \in {"on", "off"}
  /\ draft.old \in BOOLEAN
  /\ ~unread /\ ~draft.old /\ ValidActions(draft.acts) =>
       \A x \in Refers(draft.acts) : x < Len(groups)

RefsInv == GroupsInv /\ CountsInv /\ ScenesInv /\ MeantInv /\ DraftInv

-----------------------------------------------------------------------------
LEMMA LoadedSceneIs ==
  ASSUME NEW s, KeptScene(s)
  PROVE  LoadScene(s) = s
<1>1. ValidActions(s.acts) /\ CanonActions(s.acts) = s.acts
  BY ActionsStay DEF KeptScene
<1>2. s.stop # "absent"
  BY DEF KeptScene
<1>3. LoadScene(s) = [s EXCEPT !.acts = s.acts, !.stop = s.stop]
  BY <1>1, <1>2 DEF LoadScene
<1>4. PICK i, k, a, p : s = [id |-> i, key |-> k, acts |-> a, stop |-> p]
  BY DEF KeptScene, Scene
<1>. QED
  BY <1>3, <1>4

(* The file reads as what it holds.                                        *)
LEMMA FileReads ==
  ASSUME StoreInv, ScenesInv
  PROVE  LoadScenes(file) = file.scenes /\ LoadNext(file) = file.next
<1>1. Listed(file.scenes, file.next)
  BY DEF StoreInv, ListsInv
<1>2. \A i \in DOMAIN file.scenes : LoadScene(file.scenes[i]) = file.scenes[i]
  BY LoadedSceneIs DEF ScenesInv, AllScenes, ToSet
<1>3. file.scenes = [i \in DOMAIN file.scenes |-> file.scenes[i]]
  BY <1>1, ListedIs DEF Listed
<1>4. LoadScenes(file) = file.scenes
  BY <1>2, <1>3 DEF LoadScenes
<1>. QED
  BY <1>1, <1>4, ListedLoaded

(* What an operation works on.                                             *)
LEMMA ItemsAre ==
  ASSUME StoreInv, RefsInv, NEW it \in Items
  PROVE  /\ ToSet(it.scenes) \subseteq AllScenes
         /\ it.next \in 0..MaxIds
         /\ ~(unread \/ it.bad = 1) =>
              ToSet(file.scenes) \subseteq ToSet(it.scenes)
<1>1. MaxIds \in Nat /\ file.next \in 0..MaxIds /\ nextId \in -1..MaxIds
  BY StoreAssumption DEF RefsInv, CountsInv
<1>2. it.next \in Nat
  BY ItemIs DEF Listed
<1>3. CASE cache.held
  <2>1. it = [scenes |-> cache.scenes, next |-> nextId, bad |-> 0]
    BY <1>3 DEF Items
  <2>. QED
    BY <1>1, <1>2, <1>3, <2>1 DEF RefsInv, MeantInv, AllScenes
<1>4. CASE ~cache.held
  <2>1. \/ it = [scenes |-> LoadScenes(file), next |-> LoadNext(file), bad |-> 0]
        \/ it = [scenes |-> <<>>, next |-> 0, bad |-> 1]
    BY <1>4 DEF Items
  <2>2. LoadScenes(file) = file.scenes /\ LoadNext(file) = file.next
    BY FileReads DEF RefsInv
  <2>3. ToSet(<<>>) = {}
    BY NoneIs DEF ToSet
  <2>. QED
    BY <1>1, <2>1, <2>2, <2>3 DEF AllScenes
<1>. QED
  BY <1>3, <1>4

(* After a read.                                                           *)
LEMMA ScenesLoaded ==
  ASSUME StoreInv, RefsInv, NEW it \in Items, Loaded(it),
         unread' = (unread \/ it.bad = 1)
  PROVE  /\ AllScenes' \subseteq AllScenes
         /\ AllScenes' = ToSet(file.scenes) \cup ToSet(it.scenes)
         /\ ~unread' => AllScenes' = ToSet(it.scenes)
         /\ ~unread' => (cache'.held =>
              ToSet(file'.scenes) \subseteq ToSet(cache'.scenes))
         /\ UNCHANGED <<file, everIds>> /\ nextId' \in -1..MaxIds
<1>1. /\ UNCHANGED <<file, everIds>> /\ cache' = Holding(it.scenes)
      /\ nextId' = it.next
  BY DEF Loaded
<1>2. cache'.scenes = it.scenes
  BY <1>1 DEF Holding
<1>3. AllScenes' = ToSet(file.scenes) \cup ToSet(it.scenes)
  BY <1>1, <1>2 DEF AllScenes
<1>4. MaxIds \in Nat /\ nextId' \in 0..MaxIds
  BY <1>1, StoreAssumption, ItemsAre
<1>5. /\ ToSet(it.scenes) \subseteq AllScenes
      /\ ToSet(file.scenes) \subseteq AllScenes
      /\ ~unread' => ToSet(file.scenes) \subseteq ToSet(it.scenes)
  BY ItemsAre DEF AllScenes
<1>6. file'.scenes = file.scenes
  BY <1>1
<1>. QED
  BY <1>1, <1>2, <1>3, <1>4, <1>5, <1>6

LEMMA SameRefs ==
  ASSUME StoreInv, RefsInv, NEW it \in Items, Loaded(it),
         unread' = (unread \/ it.bad = 1),
         faults' \in 0..MaxFaults, UNCHANGED <<groups, intent, adrift>>
  PROVE  GroupsInv' /\ CountsInv' /\ ScenesInv' /\ MeantInv'
<1>1. GroupsInv'
  BY DEF RefsInv, GroupsInv
<1>2. CountsInv'
  BY ScenesLoaded DEF RefsInv, CountsInv
<1>3. ScenesInv'
  BY ScenesLoaded DEF RefsInv, ScenesInv
<1>4. MeantInv'
  BY ScenesLoaded DEF RefsInv, MeantInv
<1>. QED
  BY <1>1, <1>2, <1>3, <1>4

(* After a write.                                                          *)
LEMMA ScenesWritten ==
  ASSUME NEW it, NEW scenes, NEW next, Written(it, scenes, next)
  PROVE  /\ AllScenes' = ToSet(scenes) /\ ~cache'.held
         /\ file'.there \in BOOLEAN /\ file'.next = next /\ nextId' = next
         /\ everIds' = everIds \cup IdsOf(scenes)
<1>1. /\ file' = [there |-> TRUE, next |-> next, scenes |-> scenes]
      /\ cache' = NoCache /\ nextId' = next
      /\ everIds' = everIds \cup IdsOf(scenes)
  BY DEF Written
<1>2. /\ ~cache'.held /\ cache'.scenes = <<>> /\ file'.scenes = scenes
      /\ file'.next = next /\ file'.there = TRUE
  BY <1>1 DEF NoCache
<1>3. ToSet(<<>>) = {}
  BY NoneIs DEF ToSet
<1>. QED
  BY <1>1, <1>2, <1>3 DEF AllScenes

LEMMA CountsWritten ==
  ASSUME RefsInv, NEW it, NEW scenes, NEW next \in 0..MaxIds,
         Written(it, scenes, next), \A s \in ToSet(scenes) : KeptScene(s),
         faults' \in 0..MaxFaults
  PROVE  CountsInv'
<1>1. IdsOf(scenes) \subseteq 0..(MaxIds - 1)
  BY DEF IdsOf, ToSet, KeptScene
<1>2. MaxIds \in Nat /\ everIds \subseteq 0..(MaxIds - 1)
  BY StoreAssumption DEF RefsInv, CountsInv
<1>3. /\ file'.there \in BOOLEAN /\ file'.next = next /\ nextId' = next
      /\ everIds' = everIds \cup IdsOf(scenes)
  BY ScenesWritten
<1>4. everIds' \subseteq 0..(MaxIds - 1)
  BY <1>1, <1>2, <1>3
<1>5. nextId' \in -1..MaxIds
  BY <1>2, <1>3
<1>6. file'.next \in 0..MaxIds
  BY <1>3
<1>. QED
  BY Zenon, <1>3, <1>4, <1>5, <1>6 DEF CountsInv

LEMMA Spent ==
  ASSUME CountsInv, NEW n \in Nat, Spend(n)
  PROVE  faults' \in 0..MaxFaults
BY StoreAssumption DEF CountsInv, Spend

LEMMA NoDraftLeft ==
  ASSUME draft' = NoDraft
  PROVE  DraftInv'
<1>1. <<>> \in Seq(RawAction)
  BY EmptySeq
<1>2. /\ draft'.acts = <<>> /\ draft'.stop = "on" /\ draft'.old = TRUE
      /\ draft' = [acts |-> draft'.acts, stop |-> draft'.stop, old |-> draft'.old]
  BY DEF NoDraft
<1>. QED
  BY Zenon, <1>1, <1>2 DEF DraftInv

LEMMA AppendedAre ==
  ASSUME NEW scenes, NEW next, Listed(scenes, next), NEW scene
  PROVE  ToSet(Append(scenes, scene)) = ToSet(scenes) \cup {scene}
<1>. DEFINE n == Len(scenes)  new == Append(scenes, scene)
            T == ToSet(scenes) \cup {scene}
<1>1. n \in Nat /\ DOMAIN scenes = 1..n /\ scenes \in Seq(T)
  BY ListedIs, SeqMonotonic DEF Listed
<1>2. /\ new \in Seq(T) /\ DOMAIN new = 1..(n + 1) /\ new[n + 1] = scene
      /\ \A i \in 1..n : new[i] = scenes[i]
  BY <1>1, AppendProperties, LenProperties
<1>. HIDE DEF new, n
<1>. QED
  BY <1>1, <1>2 DEF ToSet, new

(* The ids of a list tell its scenes apart.                                *)
LEMMA IdIsOne ==
  ASSUME NEW scenes, NEW next, Listed(scenes, next),
         NEW s \in ToSet(scenes), NEW t \in ToSet(scenes), s.id = t.id
  PROVE  s = t
BY DEF Listed, Distinct, ToSet

(* A save, whether it is to the file or to the cached list.                *)
LEMMA Saving ==
  ASSUME RefsInv, UNCHANGED groups,
         NEW scene, IsActions(scene.acts),
         ~unread /\ ~draft.old => \A x \in Refers(scene.acts) : x < Len(groups),
         Saved(scene.id, scene.acts, scene.stop),
         NEW S, \A s \in S : s = scene \/ s \in AllScenes
  PROVE  /\ \A s \in S : s.id \in DOMAIN intent'
         /\ adrift' \subseteq DOMAIN intent' /\ Intents(intent')
         /\ ~unread /\ (\A s \in S : s = scene \/ s.id # scene.id) =>
              \A s \in S : MeantScene(s, groups', intent', adrift')
<1>. DEFINE id == scene.id
            new == [acts |-> Meaning(scene.acts, groups), stop |-> scene.stop]
<1>1. /\ intent' = [i \in DOMAIN intent \cup {id} |-> IF i = id THEN new ELSE intent[i]]
      /\ adrift' = IF draft.old \/ Doubled(scene.acts) THEN adrift \cup {id}
                   ELSE adrift \ {id}
  BY DEF Saved
<1>2. /\ \A s \in AllScenes : s.id \in DOMAIN intent
      /\ adrift \subseteq DOMAIN intent /\ Intents(intent)
  BY DEF RefsInv, ScenesInv
<1>3. Intents(intent')
  <2>1. new = [acts |-> new.acts, stop |-> new.stop]
    OBVIOUS
  <2>. HIDE DEF new
  <2>. QED
    BY <1>1, <1>2, <2>1 DEF Intents
<1>4. /\ new.acts = Meaning(scene.acts, groups) /\ new.stop = scene.stop
  OBVIOUS
<1>. HIDE DEF new
<1>5. /\ DOMAIN intent' = DOMAIN intent \cup {id} /\ intent'[id] = new
      /\ \A i \in DOMAIN intent : i # id => intent'[i] = intent[i]
  BY <1>1
<1>6. adrift' \subseteq DOMAIN intent'
  BY <1>1, <1>2, <1>5
<1>7. ASSUME ~unread PROVE MeantScene(scene, groups, intent', adrift')
  <2>1. SUFFICES ASSUME id \notin adrift'
                 PROVE  CleanActs(scene.acts, Len(groups))
    BY <1>4, <1>5 DEF MeantScene
  <2>2. ~draft.old /\ ~Doubled(scene.acts)
    BY <1>1, <2>1
  <2>. QED
    BY <1>7, <2>2, CleanIs
<1>8. ASSUME ~unread, NEW s \in AllScenes, s.id # id
      PROVE  MeantScene(s, groups, intent', adrift')
  <2>1. s.id \in DOMAIN intent /\ intent'[s.id] = intent[s.id]
    BY <1>2, <1>5, <1>8
  <2>2. s.id \in adrift' <=> s.id \in adrift
    BY <1>1, <1>8
  <2>3. MeantScene(s, groups, intent, adrift)
    BY <1>8 DEF RefsInv, MeantInv
  <2>. QED
    BY <2>1, <2>2, <2>3 DEF MeantScene
<1>. QED
  BY <1>2, <1>3, <1>5, <1>6, <1>7, <1>8

LEMMA CreateStep ==
  ASSUME StoreInv, RefsInv, NEW l \in Labels, Create(l)
  PROVE  RefsInv'
<1>. DEFINE acts == CanonActions(draft.acts)
<1>1. /\ ValidActions(draft.acts) /\ draft' = NoDraft /\ UNCHANGED groups
  BY DEF Create
<1>2. /\ IsActions(acts) /\ draft.stop \in {"on", "off"}
      /\ ~unread /\ ~draft.old => \A x \in Refers(acts) : x < Len(groups)
  BY <1>1, ActionsCanon DEF RefsInv, DraftInv
<1>3. PICK it \in Items : Insert(it, l, acts, draft.stop)
  BY DEF Create
<1>. HIDE DEF acts
<1>. DEFINE scene == Scene(it.next, UniqueKey(l, KeysOf(it.scenes)), acts, draft.stop)
            scenes == Append(it.scenes, scene)
<1>4. it.next < MaxIds /\ unread' = (unread \/ it.bad = 1)
  BY <1>3 DEF Insert
<1>5. /\ Saved(scene.id, acts, draft.stop)
      /\ \/ Spend(it.bad) /\ Written(it, scenes, it.next + 1)
         \/ /\ Spend(it.bad + 1)
            /\ cache' = Holding(scenes) /\ nextId' = it.next + 1
            /\ UNCHANGED <<file, everIds>>
  BY <1>3 DEF Insert
<1>6. /\ Listed(it.scenes, it.next) /\ it.bad \in {0, 1}
      /\ ToSet(it.scenes) \subseteq AllScenes /\ it.next \in 0..MaxIds
      /\ ~unread' => ToSet(file.scenes) \subseteq ToSet(it.scenes)
  BY <1>4, ItemIs, ItemsAre
<1>7. /\ scene.id = it.next /\ scene.acts = acts /\ scene.stop = draft.stop
      /\ scene.key = UniqueKey(l, KeysOf(it.scenes))
      /\ scene = Scene(scene.id, scene.key, scene.acts, scene.stop)
  BY DEF Scene
<1>8. scene.key \in Keys
  BY <1>4, <1>6, <1>7, KeyIsBound
<1>. HIDE DEF scene
<1>9. MaxIds \in Nat /\ it.next + 1 \in 0..MaxIds /\ it.next \in 0..(MaxIds - 1)
  BY <1>4, <1>6, StoreAssumption
<1>10. KeptScene(scene)
  BY <1>2, <1>7, <1>8, <1>9 DEF KeptScene
<1>11. ToSet(scenes) = ToSet(it.scenes) \cup {scene}
  BY <1>6, AppendedAre
<1>12. \A s \in ToSet(it.scenes) : s.id # scene.id
  BY <1>6, <1>7 DEF Listed, ToSet
<1>. HIDE DEF scenes
<1>13. /\ \A s \in ToSet(scenes) \cup ToSet(file.scenes) :
            s = scene \/ s \in AllScenes
       /\ ~unread' => \A s \in ToSet(scenes) \cup ToSet(file.scenes) :
                         s = scene \/ s.id # scene.id
  BY <1>6, <1>11, <1>12 DEF AllScenes
<1>14. /\ \A s \in ToSet(scenes) \cup ToSet(file.scenes) : s.id \in DOMAIN intent'
       /\ adrift' \subseteq DOMAIN intent' /\ Intents(intent')
       /\ ~unread' => \A s \in ToSet(scenes) \cup ToSet(file.scenes) :
                        MeantScene(s, groups', intent', adrift')
  BY <1>1, <1>2, <1>4, <1>5, <1>7, <1>13, Saving
<1>15. \A s \in ToSet(scenes) \cup ToSet(file.scenes) : KeptScene(s)
  BY <1>10, <1>13 DEF RefsInv, ScenesInv
<1>16. faults' \in 0..MaxFaults
  BY <1>5, <1>6, Spent DEF RefsInv
<1>17. GroupsInv' /\ DraftInv'
  BY <1>1, NoDraftLeft DEF RefsInv, GroupsInv
<1>18. CASE Written(it, scenes, it.next + 1)
  <2>1. AllScenes' = ToSet(scenes) /\ ~cache'.held
    BY <1>18, ScenesWritten
  <2>2. CountsInv'
    BY <1>9, <1>15, <1>16, <1>18, CountsWritten
  <2>. QED
    BY <1>14, <1>15, <1>17, <2>1, <2>2 DEF RefsInv, ScenesInv, MeantInv
<1>19. CASE /\ cache' = Holding(scenes) /\ nextId' = it.next + 1
            /\ UNCHANGED <<file, everIds>>
  <2>1. cache'.scenes = scenes /\ file'.scenes = file.scenes
    BY <1>19 DEF Holding
  <2>2. AllScenes' = ToSet(scenes) \cup ToSet(file.scenes)
    BY <2>1 DEF AllScenes
  <2>3. nextId' \in -1..MaxIds
    BY <1>9, <1>19
  <2>4. CountsInv'
    BY <1>16, <1>19, <2>3 DEF RefsInv, CountsInv
  <2>5. ~unread' => ToSet(file'.scenes) \subseteq ToSet(cache'.scenes)
    BY <1>6, <1>11, <2>1
  <2>6. ScenesInv' /\ MeantInv'
    BY <1>14, <1>15, <2>2, <2>5 DEF ScenesInv, MeantInv
  <2>. QED
    BY <1>17, <2>4, <2>6 DEF RefsInv
<1>. QED
  BY <1>5, <1>18, <1>19

-----------------------------------------------------------------------------
(* The steps.                                                              *)

LEMMA ReadStep ==
  ASSUME StoreInv, RefsInv, Read
  PROVE  RefsInv'
<1>1. PICK it \in Items : /\ Spend(it.bad) /\ unread' = (unread \/ it.bad = 1)
                          /\ Loaded(it) /\ UNCHANGED <<groups, draft, intent, adrift>>
  BY DEF Read
<1>2. it.bad \in Nat
  BY ItemIs
<1>3. faults' \in 0..MaxFaults
  BY <1>1, <1>2, Spent DEF RefsInv
<1>4. GroupsInv' /\ CountsInv' /\ ScenesInv' /\ MeantInv'
  BY <1>1, <1>3, SameRefs
<1>5. DraftInv'
  BY <1>1 DEF RefsInv, DraftInv
<1>. QED
  BY <1>4, <1>5 DEF RefsInv

LEMMA OpenStep ==
  ASSUME StoreInv, RefsInv, NEW k \in Keys, Open(k)
  PROVE  RefsInv'
<1>1. PICK it \in Items :
        /\ Spend(it.bad) /\ unread' = (unread \/ it.bad = 1)
        /\ Loaded(it)
        /\ \E n \in DOMAIN it.scenes :
             draft' = [acts |-> it.scenes[n].acts, stop |-> it.scenes[n].stop,
                       old  |-> it.scenes[n].id \in adrift]
  BY DEF Open
<1>2. UNCHANGED <<groups, intent, adrift>>
  BY DEF Open
<1>3. it.bad \in Nat /\ ToSet(it.scenes) \subseteq AllScenes
  BY ItemIs, ItemsAre
<1>4. faults' \in 0..MaxFaults
  BY <1>1, <1>3, Spent DEF RefsInv
<1>5. GroupsInv' /\ CountsInv' /\ ScenesInv' /\ MeantInv'
  BY <1>1, <1>2, <1>4, SameRefs
<1>6. PICK s \in AllScenes :
        draft' = [acts |-> s.acts, stop |-> s.stop, old |-> s.id \in adrift]
  BY <1>1, <1>3 DEF ToSet
<1>7. /\ draft'.acts = s.acts /\ draft'.stop = s.stop
      /\ draft'.old = (s.id \in adrift)
      /\ draft' = [acts |-> draft'.acts, stop |-> draft'.stop, old |-> draft'.old]
  BY <1>6
<1>8. KeptScene(s) /\ IsActions(s.acts) /\ s.acts \in Seq(RawAction)
      /\ s.stop \in {"on", "off"}
  BY DEF RefsInv, ScenesInv, KeptScene, IsActions
<1>9. ~unread' /\ ~draft'.old => \A x \in Refers(s.acts) : x < Len(groups)
  <2>1. SUFFICES ASSUME ~unread', ~draft'.old
                 PROVE  \A x \in Refers(s.acts) : x < Len(groups)
    OBVIOUS
  <2>2. CleanActs(s.acts, Len(groups))
    BY <1>1, <1>7, <2>1 DEF RefsInv, MeantInv, MeantScene
  <2>. QED
    BY <1>8, <2>2, CleanIs
<1>10. draft'.old \in BOOLEAN
  BY <1>7
<1>11. DraftInv'
  BY Zenon, <1>2, <1>7, <1>8, <1>9, <1>10 DEF DraftInv
<1>. QED
  BY <1>5, <1>11 DEF RefsInv

LEMMA UpdateStep ==
  ASSUME StoreInv, RefsInv, NEW k \in Keys, Update(k)
  PROVE  RefsInv'
<1>. DEFINE acts == CanonActions(draft.acts)
            New(it, n) == [it.scenes EXCEPT ![n].acts = acts, ![n].stop = draft.stop]
<1>1. /\ ValidActions(draft.acts) /\ draft' = NoDraft /\ UNCHANGED groups
  BY DEF Update
<1>2. /\ IsActions(acts) /\ draft.stop \in {"on", "off"}
      /\ ~unread /\ ~draft.old => \A x \in Refers(acts) : x < Len(groups)
  BY <1>1, ActionsCanon DEF RefsInv, DraftInv
<1>3. PICK it \in Items : \E n \in DOMAIN it.scenes :
        /\ unread' = (unread \/ it.bad = 1)
        /\ \/ /\ Spend(it.bad)
              /\ Written(it, New(it, n), it.next)
              /\ Saved(it.scenes[n].id, acts, draft.stop)
           \/ /\ Spend(it.bad + 1)
              /\ Loaded(it) /\ UNCHANGED <<intent, adrift>>
  BY DEF Update
<1>4. PICK n \in DOMAIN it.scenes :
        /\ unread' = (unread \/ it.bad = 1)
        /\ \/ /\ Spend(it.bad)
              /\ Written(it, New(it, n), it.next)
              /\ Saved(it.scenes[n].id, acts, draft.stop)
           \/ /\ Spend(it.bad + 1)
              /\ Loaded(it) /\ UNCHANGED <<intent, adrift>>
  BY <1>3
<1>. HIDE DEF acts
<1>5. /\ Listed(it.scenes, it.next) /\ it.bad \in {0, 1}
      /\ ToSet(it.scenes) \subseteq AllScenes /\ it.next \in 0..MaxIds
  BY ItemIs, ItemsAre
<1>6. faults' \in 0..MaxFaults
  BY <1>4, <1>5, Spent DEF RefsInv
<1>7. GroupsInv' /\ DraftInv'
  BY <1>1, NoDraftLeft DEF RefsInv, GroupsInv
<1>8. CASE Loaded(it) /\ UNCHANGED <<intent, adrift>>
  BY <1>1, <1>4, <1>6, <1>7, <1>8, SameRefs DEF RefsInv
<1>9. CASE /\ Written(it, New(it, n), it.next)
           /\ Saved(it.scenes[n].id, acts, draft.stop)
  <2>. DEFINE old == it.scenes[n]
              scene == Scene(old.id, old.key, acts, draft.stop)
              new == New(it, n)
  <2>1. KeptScene(old) /\ old \in ToSet(it.scenes)
    BY <1>5 DEF RefsInv, ScenesInv, ToSet
  <2>2. /\ scene.id = old.id /\ scene.acts = acts /\ scene.stop = draft.stop
        /\ KeptScene(scene)
    BY <1>2, <2>1 DEF KeptScene, Scene
  <2>3. /\ DOMAIN new = DOMAIN it.scenes /\ new[n] = scene
        /\ \A i \in DOMAIN it.scenes : i # n => new[i] = it.scenes[i]
    <3>1. DOMAIN new = DOMAIN it.scenes
          /\ \A i \in DOMAIN it.scenes : i # n => new[i] = it.scenes[i]
      OBVIOUS
    <3>2. new[n] = [old EXCEPT !.acts = acts, !.stop = draft.stop]
      OBVIOUS
    <3>3. PICK i, ky, a, p : old = [id |-> i, key |-> ky, acts |-> a, stop |-> p]
      BY <2>1 DEF KeptScene, Scene
    <3>4. new[n] = scene
      BY <3>2, <3>3 DEF Scene
    <3>. QED
      BY <3>1, <3>4
  <2>. HIDE DEF new, scene
  <2>4. ToSet(new) \subseteq (ToSet(it.scenes) \cup {scene})
        /\ \A s \in ToSet(new) : s = scene \/ s.id # scene.id
    <3>1. \A i \in DOMAIN it.scenes : i # n => it.scenes[i].id # old.id
      BY <1>5 DEF Listed, Distinct
    <3>. QED
      BY <2>2, <2>3, <3>1 DEF ToSet
  <2>5. \A s \in ToSet(new) : s = scene \/ s \in AllScenes
    BY <1>5, <2>4
  <2>. HIDE DEF old
  <2>6. Saved(scene.id, scene.acts, scene.stop)
    BY <1>9, <2>2 DEF old
  <2>7. /\ \A s \in ToSet(new) : s.id \in DOMAIN intent'
        /\ adrift' \subseteq DOMAIN intent' /\ Intents(intent')
        /\ ~unread => \A s \in ToSet(new) :
                        MeantScene(s, groups', intent', adrift')
    BY <1>1, <1>2, <2>2, <2>4, <2>5, <2>6, Saving
  <2>8. \A s \in ToSet(new) : KeptScene(s)
    BY <2>2, <2>5 DEF RefsInv, ScenesInv
  <2>9. Written(it, new, it.next)
    BY <1>9 DEF new
  <2>10. AllScenes' = ToSet(new) /\ ~cache'.held
    BY <2>9, ScenesWritten
  <2>11. CountsInv'
    BY <1>5, <1>6, <2>8, <2>9, CountsWritten
  <2>12. ScenesInv' /\ MeantInv'
    BY <1>4, <2>7, <2>8, <2>10 DEF ScenesInv, MeantInv
  <2>. QED
    BY <1>7, <2>11, <2>12 DEF RefsInv
<1>. QED
  BY <1>4, <1>8, <1>9

LEMMA DeleteStep ==
  ASSUME StoreInv, RefsInv, NEW k \in Keys, Delete(k)
  PROVE  RefsInv'
<1>. DEFINE Gone(it, n) ==
              LET left == RemoveAt(it.scenes, n) IN
              /\ Spend(it.bad)
              /\ Written(it, left, it.next)
              /\ intent' = [i \in DOMAIN intent \cap IdsOf(left) |-> intent[i]]
              /\ adrift' = adrift \cap IdsOf(left)
<1>1. UNCHANGED <<groups, draft>>
  BY DEF Delete
<1>2. PICK it \in Items : \E n \in DOMAIN it.scenes :
        /\ unread' = (unread \/ it.bad = 1)
        /\ \/ Gone(it, n)
           \/ /\ Spend(it.bad + 1)
              /\ Loaded(it) /\ UNCHANGED <<intent, adrift>>
  BY DEF Delete
<1>3. PICK n \in DOMAIN it.scenes :
        /\ unread' = (unread \/ it.bad = 1)
        /\ \/ Gone(it, n)
           \/ /\ Spend(it.bad + 1)
              /\ Loaded(it) /\ UNCHANGED <<intent, adrift>>
  BY <1>2
<1>4. /\ Listed(it.scenes, it.next) /\ it.bad \in {0, 1}
      /\ ToSet(it.scenes) \subseteq AllScenes /\ it.next \in 0..MaxIds
  BY ItemIs, ItemsAre
<1>5. faults' \in 0..MaxFaults
  BY <1>3, <1>4, Spent DEF RefsInv
<1>6. GroupsInv' /\ DraftInv'
  BY <1>1, <1>3 DEF RefsInv, GroupsInv, DraftInv
<1>7. CASE Loaded(it) /\ UNCHANGED <<intent, adrift>>
  BY <1>1, <1>3, <1>5, <1>6, <1>7, SameRefs DEF RefsInv
<1>8. CASE Gone(it, n)
  <2>. DEFINE left == RemoveAt(it.scenes, n)
  <2>1. /\ Written(it, left, it.next)
        /\ intent' = [i \in DOMAIN intent \cap IdsOf(left) |-> intent[i]]
        /\ adrift' = adrift \cap IdsOf(left)
    BY <1>8
  <2>2. left \in Seq(ToSet(it.scenes))
    BY <1>4, ListedIs, RemovedIs DEF Listed
  <2>. HIDE DEF left
  <2>3. ToSet(left) \subseteq ToSet(it.scenes)
    BY <2>2, LenProperties DEF ToSet
  <2>4. \A s \in ToSet(left) : /\ s \in AllScenes /\ KeptScene(s)
                               /\ s.id \in DOMAIN intent /\ s.id \in IdsOf(left)
    BY <1>4, <2>3 DEF RefsInv, ScenesInv, ToSet, IdsOf
  <2>5. DOMAIN intent' = DOMAIN intent \cap IdsOf(left)
        /\ \A i \in DOMAIN intent' : intent'[i] = intent[i]
    BY <2>1
  <2>6. adrift' \subseteq DOMAIN intent' /\ Intents(intent')
    BY <2>1, <2>5 DEF RefsInv, ScenesInv, Intents
  <2>7. ASSUME ~unread, NEW s \in ToSet(left)
        PROVE  MeantScene(s, groups', intent', adrift')
    <3>1. MeantScene(s, groups, intent, adrift)
      BY <2>4, <2>7 DEF RefsInv, MeantInv
    <3>2. intent'[s.id] = intent[s.id] /\ (s.id \in adrift' <=> s.id \in adrift)
      BY <2>1, <2>4, <2>5
    <3>. QED
      BY <1>1, <3>1, <3>2 DEF MeantScene
  <2>8. AllScenes' = ToSet(left) /\ ~cache'.held
    BY <2>1, ScenesWritten
  <2>9. CountsInv'
    BY <1>4, <1>5, <2>1, <2>4, CountsWritten
  <2>10. ScenesInv' /\ MeantInv'
    BY <1>3, <2>4, <2>5, <2>6, <2>7, <2>8 DEF ScenesInv, MeantInv
  <2>. QED
    BY <1>6, <2>9, <2>10 DEF RefsInv
<1>. QED
  BY <1>3, <1>7, <1>8

(* What the renumbering makes of a scene.                                  *)
Shifted(s, d) ==
  Scene(s.id, s.key, CanonActions(RenumberActions(s.acts, d)), s.stop)

LEMMA ShiftedIs ==
  ASSUME NEW s, KeptScene(s), NEW d \in Nat
  PROVE  /\ Shifted(s, d).id = s.id /\ Shifted(s, d).stop = s.stop
         /\ Shifted(s, d).acts = CanonActions(RenumberActions(s.acts, d))
         /\ Shifted(s, d) =
              [s EXCEPT !.acts = CanonActions(RenumberActions(s.acts, d))]
         /\ ValidActions(RenumberActions(s.acts, d)) => KeptScene(Shifted(s, d))
         /\ RenumberActions(s.acts, d) = s.acts => Shifted(s, d) = s
<1>. DEFINE sh == RenumberActions(s.acts, d)  new == CanonActions(sh)
<1>1. IsActions(s.acts)
  BY DEF KeptScene
<1>2. sh \in Seq(RawAction)
  BY <1>1, RawRenumbered
<1>3. ValidActions(sh) => IsActions(new)
  BY <1>2, ActionsCanon
<1>4. sh = s.acts => new = s.acts
  BY <1>1, ActionsStay
<1>. HIDE DEF new
<1>5. PICK i, k, a, p : s = [id |-> i, key |-> k, acts |-> a, stop |-> p]
  BY DEF KeptScene, Scene
<1>6. Shifted(s, d) = [id |-> s.id, key |-> s.key, acts |-> new, stop |-> s.stop]
  BY DEF Shifted, Scene, new
<1>7. [s EXCEPT !.acts = new] =
        [id |-> s.id, key |-> s.key, acts |-> new, stop |-> s.stop]
  BY <1>5
<1>8. Shifted(s, d).id = s.id /\ Shifted(s, d).stop = s.stop
      /\ Shifted(s, d).acts = new /\ Shifted(s, d).key = s.key
  BY <1>6
<1>9. IsActions(new) => KeptScene(Shifted(s, d))
  BY <1>6, <1>8 DEF KeptScene, Scene
<1>10. new = s.acts => Shifted(s, d) = s
  BY <1>5, <1>6
<1>. HIDE DEF sh
<1>. QED
  BY <1>3, <1>4, <1>6, <1>7, <1>8, <1>9, <1>10 DEF new, sh

(* The renumbering turns what a scene means into what is meant after the   *)
(* deletion.                                                               *)
LEMMA ShiftedMeant ==
  ASSUME NEW gs, NEW d, GroupsAt(gs, Len(gs), d), Len(gs) \in Nat,
         NEW s, KeptScene(s), NEW meant, NEW after, NEW lost,
         s.id \in DOMAIN meant, Intents(meant), MeantScene(s, gs, meant, lost),
         after = [i \in DOMAIN meant |->
                    [meant[i] EXCEPT !.acts = AfterDeletion(@, gs[d + 1])]]
  PROVE  MeantScene(Shifted(s, d), RemoveAt(gs, d + 1), after, lost)
<1>. DEFINE t == Shifted(s, d)  left == RemoveAt(gs, d + 1)  g == gs[d + 1]
<1>1. d \in Nat /\ gs \in Seq(UserGroups \cup {Home}) /\ d + 1 \in 1..Len(gs)
  BY DEF GroupsAt
<1>2. Len(left) = Len(gs) - 1
  BY <1>1, RemovedIs
<1>3. t.id = s.id /\ t.stop = s.stop
      /\ t.acts = CanonActions(RenumberActions(s.acts, d))
  BY <1>1, ShiftedIs
<1>. HIDE DEF t
<1>4. after[s.id].acts = AfterDeletion(meant[s.id].acts, g)
      /\ after[s.id].stop = meant[s.id].stop
  <2>1. meant[s.id] = [acts |-> meant[s.id].acts, stop |-> meant[s.id].stop]
    BY DEF Intents
  <2>2. after[s.id] = [meant[s.id] EXCEPT !.acts = AfterDeletion(@, g)]
    OBVIOUS
  <2>3. PICK a, p : meant[s.id] = [acts |-> a, stop |-> p]
    BY <2>1
  <2>. QED
    BY <2>2, <2>3
<1>5. ASSUME s.id \notin lost
      PROVE  /\ Meaning(t.acts, left) = after[s.id].acts
             /\ t.stop = after[s.id].stop
             /\ CleanActs(t.acts, Len(left))
  <2>1. /\ IsActions(s.acts) /\ CleanActs(s.acts, Len(gs))
        /\ Meaning(s.acts, gs) = meant[s.id].acts
        /\ s.stop = meant[s.id].stop
    BY <1>5 DEF KeptScene, MeantScene
  <2>2. /\ Meaning(t.acts, left) = AfterDeletion(Meaning(s.acts, gs), g)
        /\ CleanActs(t.acts, Len(gs) - 1)
    BY <1>3, <2>1, ActionsRenumbered
  <2>. QED
    BY <1>2, <1>3, <1>4, <2>1, <2>2
<1>. QED
  BY <1>3, <1>5 DEF MeantScene, t

LEMMA DeleteGroupStep ==
  ASSUME StoreInv, RefsInv, NEW d, DeleteGroup(d)
  PROVE  RefsInv'
<1>. DEFINE n == Len(groups)  g == groups[d + 1]
<1>1. /\ d \in 1..(n - 1) /\ groups' = RemoveAt(groups, d + 1)
      /\ intent' = [i \in DOMAIN intent |->
                      [intent[i] EXCEPT !.acts = AfterDeletion(@, g)]]
      /\ draft' = IF draft = NoDraft THEN draft ELSE [draft EXCEPT !.old = TRUE]
  BY DEF DeleteGroup
<1>2. PICK it \in Items : unread' = (unread \/ it.bad = 1) /\ Renumber(it, d)
  BY DEF DeleteGroup
<1>3. /\ Listed(it.scenes, it.next) /\ it.bad \in {0, 1}
      /\ ToSet(it.scenes) \subseteq AllScenes /\ it.next \in 0..MaxIds
      /\ \A s \in AllScenes : KeptScene(s) /\ s.id \in DOMAIN intent
      /\ adrift \subseteq DOMAIN intent /\ Intents(intent)
  BY ItemIs, ItemsAre DEF RefsInv, ScenesInv
<1>4. /\ GroupsAt(groups, n, d) /\ n \in Nat
      /\ groups \in Seq(UserGroups \cup {Home})
  BY <1>1, LenProperties DEF RefsInv, GroupsInv, GroupsAt
<1>5. GroupsInv'
  <2>1. d + 1 \in 1..n /\ d \in Nat /\ d >= 1 /\ groups[1] = Home
        /\ DOMAIN groups = 1..n
    BY <1>1, <1>4, LenProperties DEF GroupsAt
  <2>2. /\ groups' \in Seq(UserGroups \cup {Home}) /\ Len(groups') = n - 1
        /\ \A i \in 1..(n - 1) :
             groups'[i] = IF i < d + 1 THEN groups[i] ELSE groups[i + 1]
    BY <1>1, <1>4, <2>1, RemovedIs
  <2>3. DOMAIN groups' = 1..(n - 1) /\ n - 1 >= 1
    BY <1>1, <1>4, <2>2, LenProperties
  <2>. HIDE DEF n
  <2>4. groups'[1] = Home
    BY <2>1, <2>2, <2>3, <1>4
  <2>5. IsInjective(groups')
    <3>1. \A i, j \in 1..n : groups[i] = groups[j] => i = j
      BY <1>4, <2>1 DEF GroupsAt, IsInjective
    <3>2. SUFFICES ASSUME NEW i \in 1..(n - 1), NEW j \in 1..(n - 1),
                          groups'[i] = groups'[j]
                   PROVE  i = j
      BY <2>3 DEF IsInjective
    <3>3. PICK a \in 1..n : groups'[i] = groups[a] /\ a = IF i < d + 1 THEN i ELSE i + 1
      BY <1>4, <2>1, <2>2
    <3>4. PICK b \in 1..n : groups'[j] = groups[b] /\ b = IF j < d + 1 THEN j ELSE j + 1
      BY <1>4, <2>1, <2>2
    <3>5. a = b
      BY <3>1, <3>2, <3>3, <3>4
    <3>. QED
      BY <1>4, <2>1, <3>3, <3>4, <3>5
  <2>. QED
    BY <2>2, <2>3, <2>4, <2>5 DEF GroupsInv
<1>6. DraftInv'
  <2>1. PICK a, p, o : draft = [acts |-> a, stop |-> p, old |-> o]
    BY DEF RefsInv, DraftInv
  <2>2. /\ draft'.acts = draft.acts /\ draft'.stop = draft.stop /\ draft'.old = TRUE
        /\ draft' = [acts |-> draft'.acts, stop |-> draft'.stop, old |-> draft'.old]
    BY <1>1, <2>1 DEF NoDraft
  <2>. QED
    BY Zenon, <2>2 DEF RefsInv, DraftInv
<1>7. /\ DOMAIN intent' = DOMAIN intent /\ Intents(intent')
  <2>1. ASSUME NEW i \in DOMAIN intent
        PROVE  intent'[i] = [acts |-> intent'[i].acts, stop |-> intent'[i].stop]
    <3>1. PICK a, p : intent[i] = [acts |-> a, stop |-> p]
      BY <1>3 DEF Intents
    <3>. QED
      BY <1>1, <3>1
  <2>. QED
    BY <1>1, <2>1 DEF Intents
<1>8. ASSUME ~unread', NEW s \in ToSet(it.scenes)
      PROVE  MeantScene(Shifted(s, d), groups', intent', adrift)
  <2>1. MeantScene(s, groups, intent, adrift) /\ KeptScene(s) /\ s.id \in DOMAIN intent
    BY <1>2, <1>3, <1>8 DEF RefsInv, MeantInv
  <2>. QED
    BY <1>1, <1>3, <1>4, <2>1, ShiftedMeant
<1>. DEFINE shifted(s) == RenumberActions(s.acts, d)
            moved == {k \in DOMAIN it.scenes :
                        shifted(it.scenes[k]) # it.scenes[k].acts}
            valid == \A k \in moved : ValidActions(shifted(it.scenes[k]))
            new == [k \in DOMAIN it.scenes |->
                      IF k \notin moved THEN it.scenes[k]
                      ELSE [it.scenes[k] EXCEPT
                              !.acts = CanonActions(shifted(it.scenes[k]))]]
<1>9. \/ /\ valid /\ Spend(it.bad) /\ UNCHANGED adrift
         /\ IF moved = {} THEN Loaded(it) ELSE Written(it, new, it.next)
      \/ /\ Spend(it.bad + (IF valid THEN 1 ELSE 0))
         /\ Loaded(it)
         /\ adrift' = adrift \cup IdsOf(file.scenes) \cup IdsOf(it.scenes)
  BY <1>2 DEF Renumber
<1>10. faults' \in 0..MaxFaults
  BY <1>3, <1>9, Spent DEF RefsInv
<1>11. ASSUME Loaded(it), adrift' \subseteq DOMAIN intent',
              ~unread' => \A s \in ToSet(it.scenes) :
                            MeantScene(s, groups', intent', adrift')
       PROVE  RefsInv'
  <2>1. /\ AllScenes' \subseteq AllScenes
        /\ ~unread' => AllScenes' = ToSet(it.scenes)
        /\ ~unread' => (cache'.held =>
             ToSet(file'.scenes) \subseteq ToSet(cache'.scenes))
        /\ UNCHANGED <<file, everIds>> /\ nextId' \in -1..MaxIds
    BY <1>2, <1>11, ScenesLoaded
  <2>2. CountsInv'
    BY <1>10, <2>1 DEF RefsInv, CountsInv
  <2>3. ScenesInv' /\ MeantInv'
    BY <1>3, <1>7, <1>11, <2>1 DEF ScenesInv, MeantInv
  <2>. QED
    BY <1>5, <1>6, <2>2, <2>3 DEF RefsInv
<1>12. d \in Nat
  BY <1>1, <1>4
<1>13. CASE valid /\ UNCHANGED adrift /\ moved = {} /\ Loaded(it)
  <2>1. ASSUME NEW s \in ToSet(it.scenes) PROVE Shifted(s, d) = s
    BY <1>3, <1>12, <1>13, ShiftedIs DEF ToSet
  <2>2. ~unread' => \A s \in ToSet(it.scenes) :
                      MeantScene(s, groups', intent', adrift')
    BY <1>8, <1>13, <2>1
  <2>3. adrift' \subseteq DOMAIN intent'
    BY <1>3, <1>7, <1>13
  <2>. QED
    BY <1>11, <1>13, <2>2, <2>3
<1>14. CASE valid /\ UNCHANGED adrift /\ Written(it, new, it.next)
  <2>1. ASSUME NEW k \in DOMAIN it.scenes
        PROVE  new[k] = Shifted(it.scenes[k], d) /\ KeptScene(new[k])
    <3>. DEFINE s == it.scenes[k]
    <3>1. KeptScene(s)
      BY <1>3 DEF ToSet
    <3>2. CASE k \in moved
      <4>1. new[k] = [s EXCEPT !.acts = CanonActions(RenumberActions(s.acts, d))]
        BY <3>2
      <4>2. ValidActions(RenumberActions(s.acts, d))
        BY <1>14, <3>2
      <4>. QED
        BY <1>12, <3>1, <4>1, <4>2, ShiftedIs
    <3>3. CASE k \notin moved
      <4>1. new[k] = s /\ RenumberActions(s.acts, d) = s.acts
        BY <3>3
      <4>. QED
        BY <1>12, <3>1, <4>1, ShiftedIs
    <3>. QED
      BY <3>2, <3>3
  <2>2. DOMAIN new = DOMAIN it.scenes
    OBVIOUS
  <2>3. Written(it, new, it.next)
    BY <1>14
  <2>. HIDE DEF new
  <2>4. \A t \in ToSet(new) : /\ KeptScene(t)
                              /\ \E s \in ToSet(it.scenes) : t = Shifted(s, d)
    BY <2>1, <2>2 DEF ToSet
  <2>5. \A t \in ToSet(new) : t.id \in DOMAIN intent'
    BY <1>3, <1>7, <1>12, <2>4, ShiftedIs
  <2>6. ~unread' => \A t \in ToSet(new) : MeantScene(t, groups', intent', adrift')
    BY <1>8, <1>14, <2>4
  <2>7. AllScenes' = ToSet(new) /\ ~cache'.held
    BY <2>3, ScenesWritten
  <2>8. CountsInv'
    BY <1>3, <1>10, <2>3, <2>4, CountsWritten
  <2>9. ScenesInv' /\ MeantInv'
    BY <1>3, <1>7, <1>14, <2>4, <2>5, <2>6, <2>7 DEF ScenesInv, MeantInv
  <2>. QED
    BY <1>5, <1>6, <2>8, <2>9 DEF RefsInv
<1>15. CASE /\ Loaded(it)
            /\ adrift' = adrift \cup IdsOf(file.scenes) \cup IdsOf(it.scenes)
  <2>1. /\ IdsOf(file.scenes) = {s.id : s \in ToSet(file.scenes)}
        /\ IdsOf(it.scenes) = {s.id : s \in ToSet(it.scenes)}
    BY DEF IdsOf, ToSet
  <2>2. adrift' \subseteq DOMAIN intent'
    BY <1>3, <1>7, <1>15, <2>1 DEF AllScenes
  <2>3. \A s \in ToSet(it.scenes) : MeantScene(s, groups', intent', adrift')
    BY <1>15, <2>1 DEF MeantScene
  <2>. QED
    BY <1>11, <1>15, <2>2, <2>3
<1>. QED
  BY <1>9, <1>13, <1>14, <1>15

LEMMA CreateGroupStep ==
  ASSUME RefsInv, NEW g \in UserGroups, CreateGroup(g)
  PROVE  RefsInv'
<1>. DEFINE n == Len(groups)
<1>1. /\ g \notin ToSet(groups) /\ groups' = Append(groups, g)
      /\ UNCHANGED <<file, cache, nextId, draft, faults, everIds, intent,
                     adrift, unread>>
  BY DEF CreateGroup, serviceVars, history
<1>2. groups \in Seq(UserGroups \cup {Home}) /\ n \in Nat /\ DOMAIN groups = 1..n
      /\ n >= 1 /\ groups[1] = Home /\ IsInjective(groups)
  BY LenProperties DEF RefsInv, GroupsInv
<1>3. /\ groups' \in Seq(UserGroups \cup {Home}) /\ Len(groups') = n + 1
      /\ DOMAIN groups' = 1..(n + 1) /\ groups'[n + 1] = g
      /\ \A i \in 1..n : groups'[i] = groups[i]
  BY <1>1, <1>2, AppendProperties, LenProperties
<1>. HIDE DEF n
<1>4. GroupsInv'
  <2>1. IsInjective(groups')
    <3>1. \A i \in 1..n : groups[i] # g
      BY <1>1, <1>2 DEF ToSet
    <3>2. \A i, j \in 1..n : groups[i] = groups[j] => i = j
      BY <1>2 DEF IsInjective
    <3>. QED
      BY <1>2, <1>3, <3>1, <3>2 DEF IsInjective
  <2>2. groups'[1] = Home /\ n + 1 >= 1
    BY <1>2, <1>3
  <2>. QED
    BY <1>3, <2>1, <2>2 DEF GroupsInv
<1>5. CountsInv' /\ ScenesInv' /\ AllScenes' = AllScenes
  BY <1>1 DEF RefsInv, CountsInv, ScenesInv, AllScenes
<1>6. MeantInv'
  <2>1. ASSUME ~unread, NEW s \in AllScenes
        PROVE  MeantScene(s, groups', intent, adrift)
    <3>1. SUFFICES ASSUME s.id \notin adrift
                   PROVE  /\ Meaning(s.acts, groups') = intent[s.id].acts
                          /\ s.stop = intent[s.id].stop
                          /\ CleanActs(s.acts, Len(groups'))
      BY DEF MeantScene
    <3>2. /\ Meaning(s.acts, groups) = intent[s.id].acts
          /\ s.stop = intent[s.id].stop
          /\ CleanActs(s.acts, Len(groups)) /\ IsActions(s.acts)
      BY <2>1, <3>1 DEF RefsInv, MeantInv, MeantScene, ScenesInv, KeptScene
    <3>3. Meaning(s.acts, groups') = Meaning(s.acts, groups)
      BY <1>1, <1>2, <3>2, MeaningStays
    <3>4. CleanActs(s.acts, n + 1)
      BY <1>2, <3>2, CleanGrows DEF n
    <3>. QED
      BY <1>3, <3>2, <3>3, <3>4
  <2>. QED
    BY <1>1, <1>5, <2>1 DEF RefsInv, MeantInv
<1>7. DraftInv'
  <2>1. ASSUME ~unread, ~draft.old, ValidActions(draft.acts),
               NEW x \in Refers(draft.acts)
        PROVE  x < n + 1
    <3>1. x \in Nat /\ x < n
      BY <2>1, DraftRefersNat DEF RefsInv, DraftInv, n
    <3>. QED
      BY <1>2, <3>1
  <2>. QED
    BY <1>1, <1>3, <2>1 DEF RefsInv, DraftInv
<1>. QED
  BY <1>4, <1>5, <1>6, <1>7 DEF RefsInv

LEMMA RefsStep ==
  ASSUME StoreInv, RefsInv, [Next]_vars
  PROVE  RefsInv'
<1>1. CASE Compose
  <2>1. PICK d \in Drafts :
          /\ ValidActions(d.acts) => \A i \in Refers(d.acts) : i < Len(groups)
          /\ draft' = [acts |-> d.acts, stop |-> d.stop, old |-> FALSE]
    BY <1>1 DEF Compose
  <2>2. UNCHANGED <<file, cache, nextId, groups, faults, everIds, intent, adrift,
                    unread>>
    BY <1>1 DEF Compose, serviceVars, history
  <2>3. /\ draft'.acts = d.acts /\ draft'.stop = d.stop /\ draft'.old = FALSE
        /\ draft' = [acts |-> draft'.acts, stop |-> draft'.stop, old |-> draft'.old]
    BY <2>1
  <2>4. d.acts \in Seq(RawAction) /\ d.stop \in {"on", "off"}
    BY StoreAssumption
  <2>5. DraftInv'
    BY Zenon, <2>1, <2>2, <2>3, <2>4 DEF DraftInv
  <2>. QED
    BY <2>2, <2>5
       DEF RefsInv, GroupsInv, CountsInv, ScenesInv, MeantInv, AllScenes
<1>2. CASE Refuse
  <2>1. UNCHANGED <<file, cache, nextId, groups, faults, everIds, intent, adrift,
                    unread>>
    BY <1>2 DEF Refuse, serviceVars, history
  <2>2. DraftInv'
    BY <1>2, NoDraftLeft DEF Refuse
  <2>. QED
    BY <2>1, <2>2
       DEF RefsInv, GroupsInv, CountsInv, ScenesInv, MeantInv, AllScenes
<1>3. CASE Restart
  <2>1. /\ cache' = NoCache /\ nextId' = -1 /\ Spend(1)
        /\ UNCHANGED <<file, groups, draft, everIds, intent, adrift, unread>>
    BY <1>3 DEF Restart
  <2>2. cache'.scenes = <<>> /\ ~cache'.held /\ ToSet(<<>>) = {}
    BY <2>1, NoneIs DEF NoCache, ToSet
  <2>3. AllScenes' \subseteq AllScenes
    BY <2>1, <2>2 DEF AllScenes
  <2>4. CountsInv'
    <3>1. faults' \in 0..MaxFaults
      BY <2>1, Spent DEF RefsInv
    <3>2. nextId' \in -1..MaxIds
      BY <2>1, StoreAssumption
    <3>. QED
      BY <2>1, <3>1, <3>2 DEF RefsInv, CountsInv
  <2>5. GroupsInv' /\ DraftInv'
    BY <2>1 DEF RefsInv, GroupsInv, DraftInv
  <2>6. ScenesInv' /\ MeantInv'
    BY <2>1, <2>2, <2>3 DEF RefsInv, ScenesInv, MeantInv
  <2>. QED
    BY <2>4, <2>5, <2>6 DEF RefsInv
<1>4. CASE UNCHANGED vars
  <2>1. UNCHANGED <<file, cache, nextId, groups, draft, faults, everIds, intent,
                    adrift, unread>>
    BY <1>4 DEF vars, serviceVars, history
  <2>. QED
    BY <2>1
       DEF RefsInv, GroupsInv, CountsInv, ScenesInv, MeantInv, DraftInv, AllScenes
<1>. QED
  BY <1>1, <1>2, <1>3, <1>4, ReadStep, CreateStep, OpenStep, UpdateStep,
     DeleteStep, DeleteGroupStep, CreateGroupStep DEF Next

LEMMA RefsInvAlways == Spec => []RefsInv
<1>1. Init => RefsInv
  <2>1. SUFFICES ASSUME Init PROVE RefsInv
    OBVIOUS
  <2>2. /\ file.scenes = <<>> /\ file.there = FALSE /\ file.next = 0
        /\ cache.scenes = <<>> /\ ~cache.held /\ nextId = -1
        /\ groups = <<Home>> /\ faults = 0 /\ everIds = {} /\ adrift = {}
        /\ DOMAIN intent = {} /\ ToSet(<<>>) = {}
    BY <2>1, NoneIs DEF Init, NoFile, NoCache, ToSet
  <2>3. AllScenes = {}
    BY <2>2 DEF AllScenes
  <2>4. GroupsInv
    BY <2>2 DEF GroupsInv, IsInjective
  <2>5. CountsInv
    <3>1. file.there \in BOOLEAN
      BY Zenon, <2>2
    <3>2. /\ file.next \in 0..MaxIds /\ nextId \in -1..MaxIds
          /\ faults \in 0..MaxFaults /\ everIds \subseteq 0..(MaxIds - 1)
      BY <2>2, StoreAssumption
    <3>. QED
      BY <3>1, <3>2 DEF CountsInv
  <2>6. ScenesInv /\ MeantInv
    BY <2>2, <2>3 DEF ScenesInv, MeantInv, Intents
  <2>7. DraftInv
    <3>1. draft.acts = <<>> /\ draft.stop = "on" /\ draft.old = TRUE
          /\ draft = [acts |-> draft.acts, stop |-> draft.stop, old |-> draft.old]
      BY <2>1 DEF Init, NoDraft
    <3>2. <<>> \in Seq(RawAction)
      BY EmptySeq
    <3>. QED
      BY Zenon, <3>1, <3>2 DEF DraftInv
  <2>. QED
    BY <2>4, <2>5, <2>6, <2>7 DEF RefsInv
<1>. QED
  BY <1>1, RefsStep, StoreInvAlways, PTL DEF Spec

-----------------------------------------------------------------------------
(* What the service lists is what a restarted process would list, unless a *)
(* creation failed or the file could not be read since the cache was       *)
(* filled (_invalidate after every write).                                 *)
THEOREM CacheIsFile == Spec => []CleanCache
<1>1. StoreInv => CleanCache
  BY DEF StoreInv
<1>. QED
  BY <1>1, StoreInvAlways, PTL

(* No two scenes share an id or a key, in the file or in the cache, so     *)
(* that a route addresses one (_unique_key, next_id).                      *)
THEOREM ScenesAreAddressable == Spec => []Addressable
<1>1. StoreInv => Addressable
  BY ListedNone DEF StoreInv, ListsInv, Listed, Addressable, NoCache
<1>. QED
  BY <1>1, StoreInvAlways, PTL

(* A scene that comes into the file has an id no scene in it ever had,     *)
(* over deletions, failed writes and restarts, as long as no read of the   *)
(* file has failed (next_id in the file).                                  *)
THEOREM IdsAreNotReused == Spec => NoIdReused
<1>1. StoreInv /\ [Next]_vars =>
        [\A i \in IdsOf(file'.scenes) \ IdsOf(file.scenes) :
           i \notin everIds \/ unread']_vars
  BY StoreStep DEF NewIds
<1>. QED
  BY <1>1, StoreInvAlways, PTL DEF Spec, NoIdReused

(* What the service stores is what its validator takes (_canonical_action, *)
(* _load), under ids and keys a route can carry, for every draft, over the *)
(* shift of group references, failed reads and writes and restarts.        *)
THEOREM TypeCorrect == Spec => []TypeOK
<1>1. StoreInv /\ RefsInv => TypeOK
  <2>1. SUFFICES ASSUME StoreInv, RefsInv PROVE TypeOK
    OBVIOUS
  <2>2. ASSUME NEW scenes, \A s \in ToSet(scenes) : KeptScene(s)
        PROVE  ScenesOK(scenes)
    <3>1. ASSUME NEW s, KeptScene(s)
          PROVE  /\ [id |-> s.id, key |-> s.key, stop |-> s.stop] \in SceneType
                 /\ ValidActions(s.acts)
      BY <3>1, ActionsStay DEF KeptScene, SceneType
    <3>. QED
      BY <2>2, <3>1 DEF ScenesOK, ToSet
  <2>3. ScenesOK(file.scenes) /\ ScenesOK(cache.scenes)
    BY <2>1, <2>2 DEF RefsInv, ScenesInv, AllScenes
  <2>4. cache \in {NoCache, Holding(cache.scenes)}
    BY <2>1 DEF StoreInv, ListsInv
  <2>5. ToSet(groups) \subseteq UserGroups \cup {Home} /\ groups[1] = Home
    BY <2>1, LenProperties DEF RefsInv, GroupsInv, ToSet
  <2>. QED
    BY <2>1, <2>3, <2>4, <2>5 DEF TypeOK, RefsInv, CountsInv, ScenesInv
<1>. QED
  BY <1>1, StoreInvAlways, RefsInvAlways, PTL

(* A scene addresses the groups it was meant for, by the offsets it was    *)
(* given, or Home in place of a deleted one, and stops on errors as it was *)
(* told to, after any sequence of saves, creations and deletions of        *)
(* groups, failed writes and restarts (renumber_group_references), unless  *)
(* it is one of those CleanReferences excepts.                             *)
THEOREM ReferencesHold == Spec => []CleanReferences
<1>1. StoreInv /\ RefsInv => CleanReferences
  <2>1. SUFFICES ASSUME StoreInv, RefsInv, NEW s \in ToSet(LoadScenes(file)),
                        s.id \notin adrift, ~unread
                 PROVE  /\ Meaning(s.acts, groups) = intent[s.id].acts
                        /\ s.stop = intent[s.id].stop
    BY DEF CleanReferences
  <2>2. s \in AllScenes
    BY <2>1, FileReads DEF RefsInv, AllScenes
  <2>. QED
    BY <2>1, <2>2 DEF RefsInv, MeantInv, MeantScene
<1>. QED
  BY <1>1, StoreInvAlways, RefsInvAlways, PTL
=============================================================================
