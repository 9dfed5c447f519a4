-------------------------- MODULE SceneRunner_proofs --------------------------
(***************************************************************************)
(* The report of a scene's run is true to what was handed to the           *)
(* transport, however the gateway fails it; the offsets of a container     *)
(* reach the nodes they are for, whichever packets carry them; its         *)
(* children reach those nodes and no other.  For any scenes, devices and   *)
(* requests.                                                               *)
(***************************************************************************)
EXTENDS SceneRunner, SequenceTheorems, FiniteSetTheorems,
        WellFoundedInduction, TLAPS

-----------------------------------------------------------------------------
(* Recursive functions over a range of indices.                            *)
LEMMA Least ==
  ASSUME NEW T, T \subseteq Nat, T # {}
  PROVE  \E x \in T : \A y \in T : x <= y
<1>. DEFINE less == {p \in Nat \X Nat : p[1] < p[2]}
<1>1. IsWellFoundedOn(less, Nat)
  BY NatLessThanWellFounded DEF OpToRel
<1>2. PICK x \in T : \A y \in T : <<y, x>> \notin less
  BY <1>1, WFMin
<1>3. ASSUME NEW y \in T PROVE x <= y
  <2>1. <<y, x>> \in Nat \X Nat
    OBVIOUS
  <2>. QED
    BY <1>2, <2>1
<1>. QED
  BY <1>3

LEMMA Climb ==
  ASSUME NEW m \in Nat, NEW n \in Nat, NEW T, m \in T,
         \A i \in (m + 1)..n : i - 1 \in T => i \in T
  PROVE  m..n \subseteq T
<1>. SUFFICES ASSUME (m..n) \ T # {} PROVE FALSE
  OBVIOUS
<1>1. PICK x \in (m..n) \ T : \A y \in (m..n) \ T : x <= y
  <2>1. (m..n) \ T \subseteq Nat
    OBVIOUS
  <2>. QED
    BY <2>1, Least
<1>2. x \in (m + 1)..n /\ x - 1 \in m..n
  BY <1>1
<1>3. x - 1 \in T
  BY <1>1, <1>2
<1>. QED
  BY <1>1, <1>2, <1>3

Unrolls(f, S, base, m, n, step) ==
  /\ f \in [m..n -> S] /\ f[m] = base
  /\ \A i \in m..n : i # m => f[i] = step[<<f[i - 1], i>>]

LEMMA Recursion ==
  ASSUME NEW S, NEW base \in S, NEW m \in Nat, NEW n \in Nat, m <= n,
         NEW step \in [S \X Nat -> S]
  PROVE  \E f : Unrolls(f, S, base, m, n, step)
<1>. DEFINE Is(f, k) == /\ f \in [m..k -> S] /\ f[m] = base
                        /\ \A i \in (m + 1)..k : f[i] = step[<<f[i - 1], i>>]
            P == {k \in Nat : \E f : Is(f, k)}
<1>1. m \in P
  <2>. DEFINE f == [i \in m..m |-> base]
  <2>1. Is(f, m)
    OBVIOUS
  <2>. QED
    <3>. HIDE DEF f, Is
    <3>. QED
      BY <2>1
<1>2. ASSUME NEW k \in (m + 1)..n, k - 1 \in P PROVE k \in P
  <2>1. PICK f : Is(f, k - 1)
    BY <1>2
  <2>. DEFINE v == step[<<f[k - 1], k>>]
              g == [i \in m..k |-> IF i = k THEN v ELSE f[i]]
  <2>2. f[k - 1] \in S /\ v \in S
    BY <2>1
  <2>3. g \in [m..k -> S] /\ g[m] = base
    <3>. HIDE DEF v
    <3>. QED
      BY <2>1, <2>2
  <2>4. ASSUME NEW i \in (m + 1)..k PROVE g[i] = step[<<g[i - 1], i>>]
    <3>1. g[i - 1] = f[i - 1]
      <4>. HIDE DEF v
      <4>. QED
        OBVIOUS
    <3>2. CASE i = k
      <4>1. g[k] = v
        <5>. HIDE DEF v
        <5>. QED
          OBVIOUS
      <4>. QED
        BY <3>1, <3>2, <4>1
    <3>3. CASE i # k
      <4>1. i \in (m + 1)..(k - 1) /\ g[i] = f[i]
        BY <3>3
      <4>. HIDE DEF g
      <4>. QED
        BY <2>1, <3>1, <4>1
    <3>. QED
      BY <3>2, <3>3
  <2>5. Is(g, k)
    <3>. HIDE DEF g
    <3>. QED
      BY <2>3, <2>4
  <2>. HIDE DEF g, Is
  <2>. QED
    BY <2>5
<1>3. n \in P
  <2>1. m..n \subseteq P
    <3>. HIDE DEF P
    <3>. QED
      BY <1>1, <1>2, Climb
  <2>. QED
    BY <2>1
<1>4. PICK f : Is(f, n)
  BY <1>3
<1>5. \A i \in m..n : i # m => i \in (m + 1)..n
  OBVIOUS
<1>. QED
  BY <1>4, <1>5 DEF Unrolls

-----------------------------------------------------------------------------
(* Lists.                                                                  *)
LEMMA ListIs ==
  ASSUME NEW s, IsList(s)
  PROVE  /\ Len(s) \in Nat /\ DOMAIN s = 1..Len(s)
         /\ s = <<>> <=> Len(s) = 0
BY LenProperties, EmptySeq DEF IsList

LEMMA ListMade ==
  ASSUME NEW n \in Nat, NEW s, s = [i \in 1..n |-> s[i]]
  PROVE  IsList(s) /\ Len(s) = n
<1>1. s \in [1..n -> ToSet(s)]
  BY DEF ToSet
<1>2. s \in Seq(ToSet(s))
  BY <1>1, SeqDef
<1>. QED
  BY <1>1, <1>2, LenProperties DEF IsList

LEMMA ListOf ==
  ASSUME NEW T, NEW s \in Seq(T)
  PROVE  IsList(s)
<1>1. Len(s) \in Nat /\ s \in [1..Len(s) -> T]
  BY LenProperties
<1>2. s = [i \in 1..Len(s) |-> s[i]]
  BY <1>1
<1>. QED
  BY <1>1, <1>2, ListMade

LEMMA ToSetAppend ==
  ASSUME NEW T, NEW s \in Seq(T), NEW e \in T
  PROVE  /\ Append(s, e) \in Seq(T)
         /\ ToSet(Append(s, e)) = ToSet(s) \cup {e}
<1>1. /\ Append(s, e) \in Seq(T) /\ Len(s) \in Nat
      /\ Len(Append(s, e)) = Len(s) + 1
      /\ \A i \in 1..Len(s) : Append(s, e)[i] = s[i]
      /\ Append(s, e)[Len(s) + 1] = e
  BY AppendProperties, LenProperties
<1>2. /\ DOMAIN s = 1..Len(s) /\ DOMAIN Append(s, e) = 1..(Len(s) + 1)
  BY <1>1, LenProperties
<1>3. 1..(Len(s) + 1) = (1..Len(s)) \cup {Len(s) + 1}
  BY <1>1
<1>. QED
  BY <1>1, <1>2, <1>3 DEF ToSet

(* The definition of a recursive function names the one there is.          *)
LEMMA WithoutIs ==
  ASSUME NEW s, IsList(s), NEW S
  PROVE  IsList(Without(s, S)) /\ ToSet(Without(s, S)) = ToSet(s) \ S
<1>. DEFINE T == ToSet(s)  n == Len(s)
            Kept(f, i) == IF i = 0 THEN <<>>
                          ELSE IF s[i] \in S THEN f[i - 1]
                          ELSE Append(f[i - 1], s[i])
            step == [p \in Seq(T) \X Nat |->
                       IF p[2] \notin 1..n \/ s[p[2]] \in S THEN p[1]
                       ELSE Append(p[1], s[p[2]])]
<1>1. n \in Nat /\ s \in Seq(T) /\ \A i \in 1..n : s[i] \in T
  BY ListIs DEF IsList, ToSet
<1>2. step \in [Seq(T) \X Nat -> Seq(T)]
  BY <1>1, AppendProperties
<1>3. <<>> \in Seq(T)
  BY EmptySeq
<1>4. PICK f : Unrolls(f, Seq(T), <<>>, 0, n, step)
  <2>1. n \in Nat /\ 0 \in Nat /\ 0 <= n
    BY <1>1
  <2>. HIDE DEF step, n, T
  <2>. QED
    BY <2>1, <1>2, <1>3, Recursion
<1>5. \E g : g = [i \in 0..n |-> Kept(g, i)]
  <2>1. \A i \in 0..n : f[i] = Kept(f, i)
    <3>. SUFFICES ASSUME NEW i \in 0..n PROVE f[i] = Kept(f, i)
      OBVIOUS
    <3>1. CASE i = 0
      BY <1>4, <3>1 DEF Unrolls
    <3>2. CASE i # 0
      <4>1. i - 1 \in 0..n /\ i \in 1..n /\ i \in Nat
        BY <1>1, <3>2
      <4>2. f[i - 1] \in Seq(T)
        BY <1>4, <4>1 DEF Unrolls
      <4>3. f[i] = step[<<f[i - 1], i>>]
        <5>. HIDE DEF step
        <5>. QED
          BY <1>4, <3>2 DEF Unrolls
      <4>4. step[<<f[i - 1], i>>] = IF s[i] \in S THEN f[i - 1]
                                    ELSE Append(f[i - 1], s[i])
        <5>1. <<f[i - 1], i>> \in Seq(T) \X Nat
          BY <4>1, <4>2
        <5>. QED
          BY <4>1, <5>1
      <4>. QED
        BY <3>2, <4>3, <4>4
    <3>. QED
      BY <3>1, <3>2
  <2>2. f = [i \in 0..n |-> Kept(f, i)]
    <3>. HIDE DEF Kept, step
    <3>. QED
      BY <1>4, <2>1 DEF Unrolls
  <2>. QED
    BY <2>2
<1>6. PICK g : g = [i \in 0..n |-> Kept(g, i)] /\ Without(s, S) = g[n]
  BY <1>5 DEF Without
<1>. DEFINE Upto(i) == {s[j] : j \in 1..i} \ S
            P == {i \in 0..n : g[i] \in Seq(T) /\ ToSet(g[i]) = Upto(i)}
<1>7. 0 \in P
  <2>1. g[0] = <<>>
    BY <1>1, <1>6
  <2>2. Upto(0) = {} /\ ToSet(<<>>) = {}
    <3>1. 1..0 = {} /\ DOMAIN <<>> = {}
      OBVIOUS
    <3>. QED
      BY <3>1 DEF ToSet
  <2>3. 0 \in 0..n /\ g[0] \in Seq(T) /\ ToSet(g[0]) = Upto(0)
    <3>1. 0 \in 0..n
      BY <1>1
    <3>2. g[0] \in Seq(T)
      BY <1>3, <2>1
    <3>3. ToSet(g[0]) = Upto(0)
      <4>. HIDE DEF Upto
      <4>. QED
        BY <2>1, <2>2
    <3>. QED
      BY <3>1, <3>2, <3>3
  <2>. HIDE DEF Upto, T
  <2>. QED
    BY <2>3
<1>8. ASSUME NEW i \in (0 + 1)..n, i - 1 \in P PROVE i \in P
  <2>1. i \in 1..n /\ i \in 0..n /\ i # 0 /\ s[i] \in T
    BY <1>1
  <2>2. g[i] = Kept(g, i)
    <3>. HIDE DEF Kept
    <3>. QED
      BY <1>6, <2>1
  <2>3. g[i - 1] \in Seq(T) /\ ToSet(g[i - 1]) = Upto(i - 1)
    BY <1>8
  <2>4. Upto(i) = Upto(i - 1) \cup ({s[i]} \ S)
    <3>1. 1..i = (1..(i - 1)) \cup {i}
      BY <2>1
    <3>. QED
      BY <3>1
  <2>5. /\ Append(g[i - 1], s[i]) \in Seq(T)
        /\ ToSet(Append(g[i - 1], s[i])) = ToSet(g[i - 1]) \cup {s[i]}
    <3>. HIDE DEF T, Upto
    <3>. QED
      BY <2>1, <2>3, ToSetAppend
  <2>6. g[i] \in Seq(T) /\ ToSet(g[i]) = Upto(i)
    <3>. HIDE DEF T, Upto
    <3>. QED
      BY <2>1, <2>2, <2>3, <2>4, <2>5
  <2>. HIDE DEF Upto, Kept
  <2>. QED
    BY <2>1, <2>6
<1>9. 0..n \subseteq P
  <2>1. n \in Nat /\ 0 \in Nat
    BY <1>1
  <2>2. \A i \in (0 + 1)..n : i - 1 \in P => i \in P
    BY <1>8
  <2>. HIDE DEF P, n
  <2>. QED
    BY <2>1, <1>7, <2>2, Climb
<1>10. Without(s, S) \in Seq(T) /\ ToSet(Without(s, S)) = Upto(n)
  <2>1. n \in P
    <3>1. n \in 0..n
      BY <1>1
    <3>. HIDE DEF P
    <3>. QED
      BY <1>9, <3>1
  <2>. QED
    BY <1>6, <2>1
<1>11. Upto(n) = ToSet(s) \ S
  BY ListIs DEF ToSet
<1>. QED
  BY <1>10, <1>11, ListOf


LEMMA FlattenIs ==
  ASSUME NEW T, NEW seqs, IsList(seqs), \A i \in DOMAIN seqs : seqs[i] \in Seq(T)
  PROVE  FlattenSeq(seqs) \in Seq(T)
<1>. DEFINE n == Len(seqs)
            Flat(f, i) == IF i = 1 THEN seqs[i] ELSE f[i - 1] \o seqs[i]
            step == [p \in Seq(T) \X Nat |->
                       IF p[2] \in 1..n THEN p[1] \o seqs[p[2]] ELSE p[1]]
<1>1. n \in Nat /\ DOMAIN seqs = 1..n /\ (n = 0 => seqs = <<>>)
  BY ListIs
<1>2. CASE n = 0
  <2>1. FlattenSeq(seqs) = <<>>
    BY <1>1, <1>2 DEF FlattenSeq
  <2>. QED
    BY <2>1, EmptySeq
<1>3. CASE n # 0
  <2>1. step \in [Seq(T) \X Nat -> Seq(T)]
    BY <1>1, ConcatProperties
  <2>2. PICK f : Unrolls(f, Seq(T), seqs[1], 1, n, step)
    <3>1. n \in Nat /\ 1 \in Nat /\ 1 <= n /\ seqs[1] \in Seq(T)
      BY <1>1, <1>3
    <3>. HIDE DEF step, n
    <3>. QED
      BY <2>1, <3>1, Recursion
  <2>3. ASSUME NEW i \in 1..n PROVE f[i] = Flat(f, i)
    <3>1. CASE i = 1
      BY <2>2, <3>1 DEF Unrolls
    <3>2. CASE i # 1
      <4>1. i - 1 \in 1..n /\ i \in Nat
        BY <1>1, <3>2
      <4>2. f[i - 1] \in Seq(T)
        BY <2>2, <4>1 DEF Unrolls
      <4>3. f[i] = step[<<f[i - 1], i>>]
        <5>. HIDE DEF step
        <5>. QED
          BY <2>2, <3>2 DEF Unrolls
      <4>4. step[<<f[i - 1], i>>] = f[i - 1] \o seqs[i]
        <5>1. <<f[i - 1], i>> \in Seq(T) \X Nat
          BY <4>1, <4>2
        <5>. QED
          BY <4>1, <5>1
      <4>. QED
        BY <3>2, <4>3, <4>4
    <3>. QED
      BY <3>1, <3>2
  <2>4. \E h : h = [i \in 1..n |-> Flat(h, i)]
    <3>1. f = [i \in 1..n |-> Flat(f, i)]
      <4>. HIDE DEF Flat, step
      <4>. QED
        BY <2>2, <2>3 DEF Unrolls
    <3>. QED
      BY <3>1
  <2>5. PICK g : g = [i \in 1..n |-> Flat(g, i)] /\ FlattenSeq(seqs) = g[n]
    BY <1>3, <2>4 DEF FlattenSeq
  <2>. DEFINE P == {i \in 1..n : g[i] \in Seq(T)}
  <2>6. 1 \in P
    BY <1>1, <1>3, <2>5
  <2>7. \A i \in (1 + 1)..n : i - 1 \in P => i \in P
    <3>. SUFFICES ASSUME NEW i \in (1 + 1)..n, i - 1 \in P PROVE i \in P
      OBVIOUS
    <3>1. i \in 1..n /\ i # 1
      BY <1>1
    <3>2. g[i] = Flat(g, i)
      <4>. HIDE DEF Flat
      <4>. QED
        BY <2>5, <3>1
    <3>3. g[i - 1] \in Seq(T) /\ seqs[i] \in Seq(T)
      BY <1>1, <3>1
    <3>. QED
      BY <3>1, <3>2, <3>3, ConcatProperties
  <2>8. 1..n \subseteq P
    <3>1. n \in Nat /\ 1 \in Nat
      BY <1>1
    <3>. HIDE DEF P, n
    <3>. QED
      BY <3>1, <2>6, <2>7, Climb
  <2>9. n \in P
    BY <1>1, <1>3, <2>8
  <2>. QED
    BY <2>5, <2>9
<1>. QED
  BY <1>2, <1>3

LEMMA BytesIs ==
  ASSUME NEW o
  PROVE  Bytes(o) \in Nat
BY DEF Bytes

LEMMA TotalBytesIs ==
  ASSUME NEW ops, IsList(ops)
  PROVE  /\ TotalBytes(ops) \in Nat
         /\ Len(ops) = 1 => TotalBytes(ops) = Bytes(ops[1].cfg)
<1>. DEFINE n == Len(ops)
            Sum_(f, i) == IF i = 0 THEN 0 ELSE f[i - 1] + Bytes(ops[i].cfg)
            step == [p \in Nat \X Nat |-> p[1] + Bytes(ops[p[2]].cfg)]
<1>1. n \in Nat
  BY ListIs
<1>2. step \in [Nat \X Nat -> Nat]
  BY BytesIs
<1>3. PICK f : Unrolls(f, Nat, 0, 0, n, step)
  <2>1. 0 \in Nat /\ 0 <= n
    BY <1>1
  <2>. HIDE DEF step, n
  <2>. QED
    BY <1>1, <1>2, <2>1, Recursion
<1>4. ASSUME NEW i \in 0..n PROVE f[i] = Sum_(f, i)
  <2>1. CASE i = 0
    BY <1>3, <2>1 DEF Unrolls
  <2>2. CASE i # 0
    <3>1. <<f[i - 1], i>> \in Nat \X Nat
      <4>. HIDE DEF step
      <4>. QED
        BY <1>1, <1>3, <2>2 DEF Unrolls
    <3>2. f[i] = step[<<f[i - 1], i>>]
      <4>. HIDE DEF step
      <4>. QED
        BY <1>3, <2>2 DEF Unrolls
    <3>. QED
      BY <2>2, <3>1, <3>2
  <2>. QED
    BY <2>1, <2>2
<1>5. \E h : h = [i \in 0..n |-> Sum_(h, i)]
  <2>1. f = [i \in 0..n |-> Sum_(f, i)]
    <3>. HIDE DEF Sum_, step
    <3>. QED
      BY <1>3, <1>4 DEF Unrolls
  <2>. QED
    BY <2>1
<1>6. PICK g : g = [i \in 0..n |-> Sum_(g, i)] /\ TotalBytes(ops) = g[n]
  BY <1>5 DEF TotalBytes
<1>. DEFINE P == {i \in 0..n : g[i] \in Nat}
<1>7. 0 \in P
  BY <1>1, <1>6
<1>8. \A i \in (0 + 1)..n : i - 1 \in P => i \in P
  <2>. SUFFICES ASSUME NEW i \in (0 + 1)..n, i - 1 \in P PROVE i \in P
    OBVIOUS
  <2>1. i \in 0..n /\ i # 0
    BY <1>1
  <2>2. g[i] = Sum_(g, i)
    <3>. HIDE DEF Sum_
    <3>. QED
      BY <1>6, <2>1
  <2>. QED
    BY <2>1, <2>2, BytesIs
<1>9. n \in P
  <2>1. 0..n \subseteq P
    <3>1. 0 \in Nat
      OBVIOUS
    <3>. HIDE DEF P, n
    <3>. QED
      BY <1>1, <1>7, <1>8, <3>1, Climb
  <2>. QED
    BY <1>1, <2>1
<1>10. ASSUME n = 1 PROVE g[n] = Bytes(ops[1].cfg)
  <2>1. 0 \in 0..n /\ 1 \in 0..n
    BY <1>10
  <2>2. g[0] = Sum_(g, 0) /\ g[1] = Sum_(g, 1)
    <3>. HIDE DEF Sum_
    <3>. QED
      BY <1>6, <2>1
  <2>. QED
    BY <1>10, <2>2, BytesIs
<1>. QED
  BY <1>6, <1>9, <1>10


-----------------------------------------------------------------------------
(* Plans: the operations of an action are a list, and only a sync's sends  *)
(* a sync.                                                                 *)
NoSync(ops) == IsList(ops) /\ \A i \in DOMAIN ops : ops[i].sender # "send_sync"

LEMMA CheapestExists ==
  ASSUME NEW ways, ways # {}, \A p \in ways : IsList(p.ops)
  PROVE  \E p \in ways : \A q \in ways : Cheaper(p, q)
<1>1. \A p \in ways : Len(p.ops) \in Nat /\ TotalBytes(p.ops) \in Nat
  BY ListIs, TotalBytesIs
<1>2. PICK l \in {Len(p.ops) : p \in ways} :
        \A k \in {Len(p.ops) : p \in ways} : l <= k
  <2>1. {Len(p.ops) : p \in ways} \subseteq Nat
        /\ {Len(p.ops) : p \in ways} # {}
    BY <1>1
  <2>. QED
    BY <2>1, Least
<1>. DEFINE short == {p \in ways : Len(p.ops) = l}
<1>3. PICK b \in {TotalBytes(p.ops) : p \in short} :
        \A k \in {TotalBytes(p.ops) : p \in short} : b <= k
  <2>1. {TotalBytes(p.ops) : p \in short} \subseteq Nat
        /\ {TotalBytes(p.ops) : p \in short} # {}
    BY <1>1, <1>2
  <2>. QED
    BY <2>1, Least
<1>. DEFINE light == {p \in short : TotalBytes(p.ops) = b}
<1>4. PICK k \in {Rank(p) : p \in light} :
        \A j \in {Rank(p) : p \in light} : k <= j
  <2>1. {Rank(p) : p \in light} \subseteq Nat /\ {Rank(p) : p \in light} # {}
    <3>1. \A p \in light : Rank(p) \in Nat
      BY DEF Rank
    <3>. QED
      BY <1>3, <3>1
  <2>. QED
    BY <2>1, Least
<1>5. PICK p \in light : Rank(p) = k
  BY <1>4
<1>6. ASSUME NEW q \in ways PROVE Cheaper(p, q)
  <2>1. l <= Len(q.ops) /\ l \in Nat /\ Len(q.ops) \in Nat /\ Len(p.ops) = l
    BY <1>1, <1>2, <1>5
  <2>2. Len(q.ops) = l =>
          b <= TotalBytes(q.ops) /\ b \in Nat /\ TotalBytes(q.ops) \in Nat
    BY <1>1, <1>3
  <2>3. Len(q.ops) = l /\ TotalBytes(q.ops) = b => Rank(p) <= Rank(q)
    BY <1>4, <1>5
  <2>4. TotalBytes(p.ops) = b
    BY <1>5
  <2>. QED
    BY <2>1, <2>2, <2>3, <2>4 DEF Cheaper
<1>. QED
  BY <1>5, <1>6

LEMMA NoSyncNone == NoSync(<<>>)
<1>1. <<>> \in Seq({}) /\ DOMAIN <<>> = {}
  BY EmptySeq
<1>. QED
  BY <1>1, ListOf DEF NoSync

Offsets(ops) ==
  IsList(ops) /\ \A i \in DOMAIN ops : ops[i].sender = "send_offset"

LEMMA OffsetsNone == Offsets(<<>>)
<1>1. <<>> \in Seq({}) /\ DOMAIN <<>> = {}
  BY EmptySeq
<1>. QED
  BY <1>1, ListOf DEF Offsets

LEMMA ListOne ==
  ASSUME NEW op
  PROVE  /\ IsList(<<op>>)
         /\ op.sender # "send_sync" => NoSync(<<op>>)
         /\ op.sender = "send_offset" => Offsets(<<op>>)
<1>1. <<op>> \in Seq({op}) /\ DOMAIN <<op>> = 1..1 /\ <<op>>[1] = op
  OBVIOUS
<1>2. \A i \in 1..1 : i = 1
  OBVIOUS
<1>3. IsList(<<op>>)
  BY <1>1, ListOf
<1>. QED
  BY <1>1, <1>2, <1>3 DEF NoSync, Offsets

Ways(t, o, known) ==
  BroadcastFormula(t, o) \cup GroupByGroup(t, o, known)
  \cup FormulaWithResets(t, o, known)

LEMMA WaysAre ==
  ASSUME NEW t, NEW o, NEW known, IsList(t.ids), IsList(known),
         NEW p \in Ways(t, o, known)
  PROVE  Offsets(p.ops)
<1>. DEFINE a == BroadcastFormula(t, o)  b == GroupByGroup(t, o, known)
            c == FormulaWithResets(t, o, known)
            Reset(g) == OffsetOp(g, NoOffset)
<1>0. \A g, w : OffsetOp(g, w).sender = "send_offset"
  BY DEF OffsetOp, Op
<1>1. \A q \in a : Offsets(q.ops)
  <2>1. Offsets(<<OffsetOp(All, o)>>)
    <3>1. OffsetOp(All, o).sender = "send_offset"
      BY <1>0
    <3>. QED
      BY <3>1, ListOne
  <2>. QED
    BY <2>1 DEF BroadcastFormula, Plan
<1>2. \A q \in b : Offsets(q.ops)
  <2>. DEFINE to == IF t.kind = "broadcast" THEN known ELSE t.ids
              ops == [i \in DOMAIN to |-> OffsetOp(to[i], OneGroup(t, o, to[i]))]
  <2>1. IsList(to)
    OBVIOUS
  <2>2. Offsets(ops)
    <3>1. DOMAIN to = 1..Len(to) /\ Len(to) \in Nat
      BY <2>1, ListIs
    <3>2. ops = [i \in 1..Len(to) |-> ops[i]]
      BY <3>1
    <3>3. IsList(ops)
      <4>. HIDE DEF ops, to
      <4>. QED
        BY <3>1, <3>2, ListMade
    <3>4. \A i \in DOMAIN ops : ops[i].sender = "send_offset"
      BY <1>0
    <3>. HIDE DEF ops
    <3>. QED
      BY <3>3, <3>4 DEF Offsets
  <2>3. \A q \in b : q = Plan("B", ops)
    BY DEF GroupByGroup
  <2>. HIDE DEF ops
  <2>. QED
    BY <2>2, <2>3 DEF Plan
<1>3. \A q \in c : Offsets(q.ops)
  <2>. DEFINE others == Without(known, ToSet(t.ids))
              resets == [i \in DOMAIN others |-> Reset(others[i])]
              first == <<OffsetOp(All, o)>>
              whole == first \o resets
  <2>1. IsList(others) /\ Len(others) \in Nat /\ DOMAIN others = 1..Len(others)
    BY WithoutIs, ListIs
  <2>2. IsList(resets)
    <3>1. resets = [i \in 1..Len(others) |-> resets[i]]
      <4>. HIDE DEF others
      <4>. QED
        BY <2>1
    <3>. HIDE DEF resets, others
    <3>. QED
      BY <2>1, <3>1, ListMade
  <2>. DEFINE T == ToSet(resets) \cup {OffsetOp(All, o)}
  <2>3. \A op \in T : op.sender = "send_offset"
    <3>1. \A i \in DOMAIN resets : resets[i].sender = "send_offset"
      BY <1>0
    <3>. HIDE DEF resets
    <3>. QED
      BY <1>0, <3>1 DEF ToSet
  <2>4. first \in Seq(T) /\ resets \in Seq(T)
    <3>1. resets \in Seq(T)
      <4>. HIDE DEF resets
      <4>. QED
        BY <2>2, SeqMonotonic DEF IsList
    <3>2. OffsetOp(All, o) \in T
      OBVIOUS
    <3>. HIDE DEF T
    <3>. QED
      BY <3>1, <3>2
  <2>5. Offsets(whole)
    <3>. HIDE DEF T, first, resets
    <3>1. first \o resets \in Seq(T)
      BY <2>4, ConcatProperties
    <3>2. \A i \in DOMAIN (first \o resets) : (first \o resets)[i] \in T
      BY <3>1, LenProperties, ElementOfSeq
    <3>. QED
      BY <2>3, <3>1, <3>2, ListOf DEF Offsets
  <2>6. \A q \in c : q = Plan("C", whole)
    BY DEF FormulaWithResets
  <2>. HIDE DEF whole
  <2>. QED
    BY <2>5, <2>6 DEF Plan
<1>. QED
  BY <1>1, <1>2, <1>3 DEF Ways

(* The cheapest way is one of them.                                        *)
LEMMA SetupPicks ==
  ASSUME NEW t, NEW o, NEW known, IsList(t.ids), IsList(known)
  PROVE  LET p == PlanSetup(t, o, known)  ways == Ways(t, o, known) IN
         IF ways = {} THEN p = Plan("A", <<>>)
         ELSE p \in ways /\ \A q \in ways : Cheaper(p, q)
<1>. DEFINE p == PlanSetup(t, o, known)  ways == Ways(t, o, known)
<1>1. p = IF ways = {} THEN Plan("A", <<>>)
          ELSE CHOOSE q \in ways : \A u \in ways : Cheaper(q, u)
  BY DEF PlanSetup, Ways
<1>2. \A q \in ways : IsList(q.ops)
  BY WaysAre DEF Offsets
<1>3. ASSUME ways # {} PROVE p \in ways /\ \A q \in ways : Cheaper(p, q)
  <2>1. \E q \in ways : \A u \in ways : Cheaper(q, u)
    <3>. HIDE DEF ways
    <3>. QED
      BY <1>2, <1>3, CheapestExists
  <2>2. p = CHOOSE q \in ways : \A u \in ways : Cheaper(q, u)
    BY <1>1, <1>3
  <2>. HIDE DEF ways, p
  <2>. QED
    BY <2>1, <2>2
<1>4. ways = {} => p = Plan("A", <<>>)
  BY <1>1
<1>. HIDE DEF ways, p
<1>5. IF ways = {} THEN p = Plan("A", <<>>)
      ELSE p \in ways /\ \A q \in ways : Cheaper(p, q)
  BY <1>3, <1>4
<1>. QED
  BY <1>5 DEF ways, p

LEMMA SetupIs ==
  ASSUME NEW t, NEW o, NEW known, IsList(t.ids), IsList(known)
  PROVE  Offsets(PlanSetup(t, o, known).ops)
<1>1. CASE Ways(t, o, known) = {}
  <2>1. PlanSetup(t, o, known).ops = <<>>
    BY <1>1, SetupPicks DEF Plan
  <2>. QED
    BY <2>1, OffsetsNone
<1>2. CASE Ways(t, o, known) # {}
  BY <1>2, SetupPicks, WaysAre
<1>. QED
  BY <1>1, <1>2

(* A target of the store's.                                                *)
Listing(t) == IsList(t.ids)

Quiet(plan) ==
  /\ NoSync(plan.ops) /\ plan.raises \in BOOLEAN /\ plan.degraded \in BOOLEAN

LEMMA EffectIs ==
  ASSUME NEW a, Listing(a.target), NEW force, NEW groupOf, NEW known_presets
  PROVE  Quiet(PlanEffect(a, force, groupOf, known_presets))
<1>. DEFINE to == Resolve(a.target, groupOf)
            what == IF a.kind = "rl_preset" THEN known_presets[a.ref].what
                    ELSE a.what
            kept == IF a.kind = "rl_preset" THEN known_presets[a.ref].flags
                    ELSE {}
            flags == MergeFlags(kept, Override(a, force))
            ops == [i \in DOMAIN to |-> Op(Sender(a.kind), to[i].group,
                                           to[i].dev, NoOffset, what, flags)]
            plan == PlanEffect(a, force, groupOf, known_presets)
<1>1. IsList(to)
  <2>1. CASE a.target.kind = "broadcast"
    BY <2>1, ListOne DEF Resolve
  <2>2. CASE a.target.kind = "groups"
    <3>. DEFINE ids == a.target.ids
                all == [i \in DOMAIN ids |-> [group |-> ids[i], dev |-> NoDevice]]
    <3>1. Len(ids) \in Nat /\ DOMAIN ids = 1..Len(ids)
      BY ListIs DEF Listing
    <3>2. all = [i \in 1..Len(ids) |-> all[i]]
      BY <3>1
    <3>3. IsList(all)
      <4>. HIDE DEF all, ids
      <4>. QED
        BY <3>1, <3>2, ListMade
    <3>. QED
      BY <2>2, <3>3 DEF Resolve
  <2>3. CASE a.target.kind \notin {"broadcast", "groups"}
    <3>1. to = IF a.target.mac \in DOMAIN groupOf
               THEN <<[group |-> groupOf[a.target.mac], dev |-> a.target.mac]>>
               ELSE <<>>
      BY <2>3 DEF Resolve
    <3>2. IsList(<<>>)
      BY NoSyncNone DEF NoSync
    <3>. HIDE DEF to
    <3>. QED
      BY <3>1, <3>2, ListOne
  <2>. QED
    BY <2>1, <2>2, <2>3
<1>2. NoSync(ops)
  <2>1. Len(to) \in Nat /\ DOMAIN to = 1..Len(to)
    BY <1>1, ListIs
  <2>2. ops = [i \in 1..Len(to) |-> ops[i]]
    <3>. HIDE DEF to
    <3>. QED
      BY <2>1
  <2>3. IsList(ops)
    <3>. HIDE DEF ops, to
    <3>. QED
      BY <2>1, <2>2, ListMade
  <2>4. \A i \in DOMAIN ops : ops[i].sender = Sender(a.kind)
    <3>. HIDE DEF to, what, flags
    <3>. QED
      BY DEF Op
  <2>5. Sender(a.kind) # "send_sync"
    BY DEF Sender
  <2>. HIDE DEF ops
  <2>. QED
    BY <2>3, <2>4, <2>5 DEF NoSync
<1>3. \/ plan = Degraded \/ plan = Raising \/ plan = Actions(ops)
  BY DEF PlanEffect
<1>. HIDE DEF ops, plan
<1>4. Quiet(Degraded) /\ Quiet(Raising)
  BY NoSyncNone DEF Degraded, Raising, Quiet
<1>5. Quiet(Actions(ops))
  BY <1>2 DEF Actions, Quiet
<1>6. Quiet(plan)
  BY <1>3, <1>4, <1>5
<1>. QED
  BY <1>6 DEF plan

LEMMA ContainerIs ==
  ASSUME NEW a, Listing(a.target), IsList(a.actions),
         \A c \in ToSet(a.actions) : Listing(c.target),
         NEW known, IsList(known), NEW groupOf, NEW known_presets
  PROVE  Quiet(PlanOffsetGroup(a, known, groupOf, known_presets))
<1>. DEFINE Kid(c) == PlanEffect(c, Forced(a.offset.mode # "none"), groupOf,
                                 known_presets)
            kids == [i \in DOMAIN a.actions |-> Kid(a.actions[i])]
            lists == [i \in DOMAIN kids |-> kids[i].ops]
            setup == PlanSetup(a.target, a.offset, known)
            T == ToSet(setup.ops) \cup UNION {ToSet(lists[i]) : i \in DOMAIN lists}
            plan == PlanOffsetGroup(a, known, groupOf, known_presets)
<1>1. Len(a.actions) \in Nat /\ DOMAIN a.actions = 1..Len(a.actions)
  BY ListIs
<1>2. \A i \in DOMAIN lists : NoSync(lists[i])
  <2>. SUFFICES ASSUME NEW i \in DOMAIN a.actions PROVE NoSync(Kid(a.actions[i]).ops)
    OBVIOUS
  <2>1. Listing(a.actions[i].target)
    BY DEF ToSet
  <2>. QED
    BY <2>1, EffectIs DEF Quiet
<1>3. NoSync(setup.ops)
  BY SetupIs DEF Listing, Offsets, NoSync
<1>4. IsList(lists)
  <2>1. lists = [i \in 1..Len(a.actions) |-> lists[i]]
    <3>. HIDE DEF Kid
    <3>. QED
      BY <1>1
  <2>. HIDE DEF lists
  <2>. QED
    BY <1>1, <2>1, ListMade
<1>5. \A op \in T : op.sender # "send_sync"
  <2>. HIDE DEF lists, setup
  <2>. QED
    BY <1>2, <1>3 DEF NoSync, ToSet
<1>6. setup.ops \in Seq(T) /\ \A i \in DOMAIN lists : lists[i] \in Seq(T)
  <2>. HIDE DEF lists, setup
  <2>1. ToSet(setup.ops) \subseteq T
    OBVIOUS
  <2>2. \A i \in DOMAIN lists : ToSet(lists[i]) \subseteq T
    OBVIOUS
  <2>. HIDE DEF T
  <2>. QED
    BY <1>2, <1>3, <2>1, <2>2, SeqMonotonic DEF NoSync, IsList
<1>. DEFINE whole == setup.ops \o FlattenSeq(lists)
<1>7. NoSync(whole)
  <2>. HIDE DEF lists, setup, T
  <2>1. FlattenSeq(lists) \in Seq(T)
    BY <1>4, <1>6, FlattenIs
  <2>2. whole \in Seq(T)
    BY <1>6, <2>1, ConcatProperties
  <2>. HIDE DEF whole
  <2>3. \A i \in DOMAIN whole : whole[i] \in T
    BY <2>2, LenProperties, ElementOfSeq
  <2>. QED
    BY <1>5, <2>2, <2>3, ListOf DEF NoSync
<1>. DEFINE some == \E i \in DOMAIN kids : kids[i].degraded
<1>8. \/ plan = Raising
      \/ plan = [ops |-> whole, degraded |-> some, raises |-> FALSE]
  BY DEF PlanOffsetGroup
<1>9. some \in BOOLEAN
  OBVIOUS
<1>. HIDE DEF whole, plan, some
<1>10. Quiet(Raising)
  BY NoSyncNone DEF Raising, Quiet
<1>11. Quiet([ops |-> whole, degraded |-> some, raises |-> FALSE])
  BY <1>7, <1>9 DEF Quiet
<1>12. Quiet(plan)
  BY <1>8, <1>10, <1>11, Zenon
<1>. QED
  BY <1>12 DEF plan

(* An action as the store keeps it.                                        *)
Canonical(a) ==
  /\ Listing(a.target) /\ IsList(a.actions)
  /\ \A c \in ToSet(a.actions) : Listing(c.target)

Fit(a, plan) ==
  /\ IsList(plan.ops) /\ (a.kind # "sync" => NoSync(plan.ops))
  /\ plan.raises \in BOOLEAN /\ plan.degraded \in BOOLEAN

LEMMA PlanIs ==
  ASSUME NEW a, Canonical(a), NEW known, IsList(known), NEW groupOf,
         NEW known_presets
  PROVE  Fit(a, PlanAction(a, known, groupOf, known_presets))
<1>. DEFINE plan == PlanAction(a, known, groupOf, known_presets)
<1>. SUFFICES Fit(a, plan)
  OBVIOUS
<1>1. CASE a.kind = "delay"
  <2>1. plan = Actions(<<>>)
    BY <1>1 DEF PlanAction
  <2>. HIDE DEF plan
  <2>. QED
    BY <1>1, <2>1, NoSyncNone DEF Actions, Fit, NoSync
<1>2. CASE a.kind = "sync"
  <2>. DEFINE op == Op("send_sync", All, NoDevice, NoOffset, NoRef, {})
  <2>1. plan = Actions(<<op>>)
    BY <1>2 DEF PlanAction
  <2>. HIDE DEF plan, op
  <2>. QED
    BY <1>2, <2>1, ListOne DEF Actions, Fit
<1>3. CASE a.kind = "offset_group"
  <2>1. plan = PlanOffsetGroup(a, known, groupOf, known_presets)
    BY <1>3 DEF PlanAction
  <2>. HIDE DEF plan
  <2>. QED
    BY <1>3, <2>1, ContainerIs DEF Canonical, Fit, Quiet, NoSync
<1>4. CASE a.kind \notin {"delay", "sync", "offset_group"}
  <2>1. plan = PlanEffect(a, NoForce, groupOf, known_presets)
    BY <1>4 DEF PlanAction
  <2>. HIDE DEF plan
  <2>. QED
    BY <1>4, <2>1, EffectIs DEF Canonical, Fit, Quiet, NoSync
<1>. QED
  BY <1>1, <1>2, <1>3, <1>4


-----------------------------------------------------------------------------
(***************************************************************************)
(* What a run and its history have to do with each other.  The report      *)
(* alone is not inductive: that an action was handed whole is known of its *)
(* last operation only if it is known of those before, so the invariant    *)
(* says of an action under way that what was handed and what is left make  *)
(* up its plan unless some operation failed.                               *)
(***************************************************************************)
RunFields  == {"scene", "on", "ops", "ok", "results"}
ToldFields == {"sent", "planned", "badge", "refused", "quiet", "before"}

(* Some action is still to be run.                                         *)
Left(q) == Len(q.results) < Len(q.scene.actions)

(* What the report says so far is true.                                    *)
ResultIs(results, scene, h, i) ==
  /\ results[i] # "skipped" => i <= Len(h.sent)
  /\ results[i] = "ok" /\ scene.actions[i].kind # "sync"
       => h.sent[i] = h.planned[i]
  /\ results[i] = "degraded" => h.sent[i] = 0
  /\ (results[i] = "skipped") <=>
       scene.stop /\ \E j \in 1..(i - 1) : results[j] = "error"

Reported(q, h) ==
  \A i \in DOMAIN q.results : ResultIs(q.results, q.scene, h, i)

Base(q, h) ==
  /\ DOMAIN q = RunFields /\ DOMAIN h = ToldFields
  /\ q.on \in BOOLEAN /\ q.scene \in Scenes \cup {NoScene}
  /\ q.results \in Seq(Verdicts) /\ Len(q.results) <= Len(q.scene.actions)
  /\ h.sent \in Seq(Nat) /\ h.planned \in Seq(Nat)
  /\ Len(h.sent) = Len(h.planned)
  /\ ~q.on => q.results = <<>> /\ h.sent = <<>>
  /\ Left(q) => \A i \in DOMAIN q.results :
                  /\ q.results[i] # "skipped"
                  /\ q.scene.stop => q.results[i] # "error"
  /\ Reported(q, h)

(* What the current action has left to send.                               *)
Sending(q, h) ==
  /\ IsList(q.ops) /\ q.ok \in BOOLEAN
  /\ IF q.ops = <<>>
     THEN q.ok /\ (Left(q) => Len(h.sent) = Len(q.results))
     ELSE /\ q.on /\ Left(q) /\ Len(h.sent) = Len(q.results) + 1
          /\ q.scene.actions[Len(h.sent)].kind # "sync" =>
               /\ \A i \in DOMAIN q.ops : q.ops[i].sender # "send_sync"
               /\ q.ok => h.sent[Len(h.sent)] + Len(q.ops)
                            = h.planned[Len(h.sent)]

RunsInv ==
  /\ DOMAIN run = Runs /\ DOMAIN told = Runs
  /\ \A r \in Runs : Base(run[r], told[r]) /\ Sending(run[r], told[r])

(* The results of a run when its current action has this one.              *)
Done(q, result) ==
  LET done == Append(q.results, result)
      left == Len(q.scene.actions) - Len(done)
  IN IF q.scene.stop /\ result = "error"
     THEN done \o [i \in 1..left |-> "skipped"] ELSE done

LEMMA SceneIs ==
  ASSUME NEW q, q.scene \in Scenes \cup {NoScene}
  PROVE  /\ Len(q.scene.actions) \in Nat /\ q.scene.stop \in BOOLEAN
         /\ \A i \in 1..Len(q.scene.actions) : Canonical(q.scene.actions[i])
<1>1. CASE q.scene = NoScene
  <2>1. Len(<<>>) = 0 /\ \A i \in 1..0 : FALSE
    BY EmptySeq
  <2>. QED
    BY <1>1, <2>1 DEF NoScene
<1>2. CASE q.scene \in Scenes
  <2>1. IsList(q.scene.actions) /\ q.scene.stop \in BOOLEAN
    BY <1>2, RunnerAssumption
  <2>2. ASSUME NEW i \in 1..Len(q.scene.actions)
        PROVE  Canonical(q.scene.actions[i])
    <3>1. q.scene.actions[i] \in ToSet(q.scene.actions)
      BY <2>1, ListIs DEF ToSet
    <3>. QED
      BY <1>2, <3>1, RunnerAssumption, ListOf DEF Canonical, Listing
  <2>. QED
    BY <2>1, <2>2, ListIs
<1>. QED
  BY <1>1, <1>2

LEMMA SkippedIs ==
  ASSUME NEW n \in Nat, NEW rest, rest = [i \in 1..n |-> "skipped"]
  PROVE  rest \in Seq(Verdicts) /\ Len(rest) = n
<1>1. "skipped" \in Verdicts
  BY DEF Verdicts
<1>2. rest \in [1..n -> Verdicts]
  BY <1>1
<1>3. rest \in Seq(Verdicts)
  BY <1>2, SeqDef
<1>. QED
  BY <1>2, <1>3, LenProperties

LEMMA DoneIs ==
  ASSUME NEW q, NEW result \in Verdicts, q.results \in Seq(Verdicts),
         q.scene \in Scenes \cup {NoScene}, Left(q)
  PROVE  LET n == Len(q.results) + 1  new == Done(q, result) IN
         /\ new \in Seq(Verdicts)
         /\ \A i \in 1..(n - 1) : new[i] = q.results[i]
         /\ new[n] = result
         /\ IF q.scene.stop /\ result = "error"
            THEN /\ Len(new) = Len(q.scene.actions)
                 /\ \A i \in (n + 1)..Len(new) : new[i] = "skipped"
            ELSE Len(new) = n
<1>. DEFINE n == Len(q.results) + 1  done == Append(q.results, result)
            left == Len(q.scene.actions) - n
            rest == [i \in 1..left |-> "skipped"]
<1>1. /\ Len(q.results) \in Nat /\ Len(q.scene.actions) \in Nat
      /\ n <= Len(q.scene.actions) /\ q.scene.stop \in BOOLEAN
  BY LenProperties, SceneIs DEF Left
<1>2. /\ done \in Seq(Verdicts) /\ Len(done) = n /\ done[n] = result
      /\ \A i \in 1..(n - 1) : done[i] = q.results[i]
  BY <1>1, AppendProperties
<1>3. /\ rest \in Seq(Verdicts) /\ Len(rest) = left /\ left \in Nat
      /\ \A i \in 1..left : rest[i] = "skipped"
  <2>1. left \in Nat
    BY <1>1
  <2>. HIDE DEF left
  <2>. QED
    BY <2>1, SkippedIs
<1>. DEFINE whole == done \o rest
<1>4. /\ q.scene.stop /\ result = "error" => Done(q, result) = whole
      /\ ~(q.scene.stop /\ result = "error") => Done(q, result) = done
  BY <1>2 DEF Done
<1>5. /\ whole \in Seq(Verdicts) /\ Len(whole) = n + left
      /\ \A i \in 1..n : whole[i] = done[i]
      /\ \A i \in (n + 1)..(n + left) : whole[i] = rest[i - n]
  <2>1. n \in Nat
    BY <1>1
  <2>. HIDE DEF done, rest, n, left
  <2>2. /\ whole \in Seq(Verdicts) /\ Len(whole) = n + left
        /\ \A i \in 1..(n + left) :
             whole[i] = IF i <= n THEN done[i] ELSE rest[i - n]
    <3>1. /\ whole \in Seq(Verdicts) /\ Len(whole) = Len(done) + Len(rest)
          /\ \A i \in 1..(Len(done) + Len(rest)) :
               whole[i] = IF i <= Len(done) THEN done[i] ELSE rest[i - Len(done)]
      BY <1>2, <1>3, ConcatProperties
    <3>2. Len(done) = n /\ Len(rest) = left
      BY <1>2, <1>3
    <3>. HIDE DEF whole
    <3>. QED
      BY <3>1, <3>2
  <2>. HIDE DEF whole
  <2>. QED
    BY <1>3, <2>1, <2>2
<1>. HIDE DEF done, rest, whole
<1>6. CASE q.scene.stop /\ result = "error"
  <2>1. Done(q, result) = whole /\ n + left = Len(q.scene.actions)
    <3>1. Done(q, result) = whole
      BY <1>4, <1>6
    <3>2. \A x, y \in Int : x + (y - x) = y
      OBVIOUS
    <3>3. n + left = Len(q.scene.actions)
      <4>1. n \in Int /\ Len(q.scene.actions) \in Int
        BY <1>1
      <4>. HIDE DEF n
      <4>. QED
        BY <3>2, <4>1
    <3>. QED
      BY <3>1, <3>3
  <2>2. \A i \in (n + 1)..(n + left) : i - n \in 1..left
    <3>1. n \in Nat /\ left \in Nat
      BY <1>1, <1>3
    <3>. HIDE DEF n, left
    <3>. QED
      BY <3>1
  <2>3. \A i \in (n + 1)..(n + left) : whole[i] = "skipped"
    BY <1>3, <1>5, <2>2
  <2>4. \A i \in 1..(n - 1) : i \in 1..n
    BY <1>1
  <2>5. n \in 1..n
    BY <1>1
  <2>. QED
    BY <1>2, <1>5, <1>6, <2>1, <2>3, <2>4, <2>5
<1>7. CASE ~(q.scene.stop /\ result = "error")
  BY <1>1, <1>2, <1>4, <1>7
<1>. QED
  BY <1>6, <1>7

(* An action is over: the run has its result, and what was handed of it is *)
(* what the history says.                                                  *)
LEMMA ConcludeOK ==
  ASSUME NEW q, NEW h, NEW h2, NEW result \in {"ok", "error", "degraded"},
         Base(q, h), q.on, Left(q), DOMAIN h2 = ToldFields,
         h2.sent \in Seq(Nat), h2.planned \in Seq(Nat),
         Len(h2.sent) = Len(h2.planned), Len(h2.sent) = Len(q.results) + 1,
         \A i \in 1..Len(q.results) : /\ h2.sent[i] = h.sent[i]
                                      /\ h2.planned[i] = h.planned[i],
         LET n == Len(q.results) + 1 IN
         /\ result = "ok" /\ q.scene.actions[n].kind # "sync"
              => h2.sent[n] = h2.planned[n]
         /\ result = "degraded" => h2.sent[n] = 0
  PROVE  LET q2 == [q EXCEPT !.results = Done(q, result),
                             !.ops = <<>>, !.ok = TRUE]
         IN Base(q2, h2) /\ Sending(q2, h2)
<1>. DEFINE n == Len(q.results) + 1  new == Done(q, result)
            q2 == [q EXCEPT !.results = new, !.ops = <<>>, !.ok = TRUE]
<1>1. /\ DOMAIN q2 = RunFields /\ q2.scene = q.scene /\ q2.on = q.on
      /\ q2.results = new /\ q2.ops = <<>> /\ q2.ok = TRUE
  BY DEF Base, RunFields
<1>2. /\ new \in Seq(Verdicts)
      /\ \A i \in 1..(n - 1) : new[i] = q.results[i]
      /\ new[n] = result
      /\ IF q.scene.stop /\ result = "error"
         THEN /\ Len(new) = Len(q.scene.actions)
              /\ \A i \in (n + 1)..Len(new) : new[i] = "skipped"
         ELSE Len(new) = n
  <2>1. result \in Verdicts
    BY DEF Verdicts
  <2>. QED
    BY <2>1, DoneIs DEF Base
<1>3. /\ Len(q.results) \in Nat /\ DOMAIN q.results = 1..(n - 1)
      /\ Len(q.scene.actions) \in Nat /\ n <= Len(q.scene.actions)
      /\ q.scene.stop \in BOOLEAN
  BY LenProperties, SceneIs DEF Base, Left
<1>4. Len(new) \in Nat /\ DOMAIN new = 1..Len(new) /\ n <= Len(new)
      /\ Len(new) <= Len(q.scene.actions)
  BY <1>2, <1>3, LenProperties
<1>5. \A i \in 1..(n - 1) : /\ new[i] # "skipped"
                            /\ q.scene.stop => new[i] # "error"
  BY <1>2, <1>3 DEF Base
<1>. HIDE DEF new, q2
<1>6. Reported(q2, h2)
  <2>. SUFFICES ASSUME NEW i \in 1..Len(new)
                PROVE  ResultIs(new, q.scene, h2, i)
    <3>1. DOMAIN q2.results = 1..Len(new)
      BY <1>1, <1>4
    <3>. QED
      BY Zenon, <1>1, <3>1 DEF Reported
  <2>1. CASE i \in 1..(n - 1)
    <3>1. ~(q.scene.stop /\ \E j \in 1..(i - 1) : new[j] = "error")
      BY <1>3, <1>5, <2>1
    <3>2. /\ new[i] = "ok" /\ q.scene.actions[i].kind # "sync"
               => h.sent[i] = h.planned[i]
          /\ new[i] = "degraded" => h.sent[i] = 0
      <4>1. i \in DOMAIN q.results /\ new[i] = q.results[i]
        BY <1>2, <1>3, <2>1
      <4>. QED
        <5>1. ResultIs(q.results, q.scene, h, i)
          BY Zenon, <4>1 DEF Base, Reported
        <5>. QED
          BY Zenon, <4>1, <5>1 DEF ResultIs
    <3>3. /\ new[i] = "ok" /\ q.scene.actions[i].kind # "sync"
               => h2.sent[i] = h2.planned[i]
          /\ new[i] = "degraded" => h2.sent[i] = 0
      <4>1. i \in 1..Len(q.results)
        BY <1>3, <2>1
      <4>. QED
        BY Zenon, <3>2, <4>1
    <3>4. i <= Len(h2.sent) /\ new[i] # "skipped"
      BY <1>3, <1>5, <2>1
    <3>. QED
      BY Zenon, <3>1, <3>3, <3>4 DEF ResultIs
  <2>2. CASE i = n
    <3>1. ~(q.scene.stop /\ \E j \in 1..(i - 1) : new[j] = "error")
      BY <1>3, <1>5, <2>2
    <3>. QED
      BY <1>2, <1>3, <2>2, <3>1 DEF ResultIs
  <2>3. CASE i \in (n + 1)..Len(new)
    <3>1. q.scene.stop /\ result = "error" /\ new[i] = "skipped"
      BY <1>2, <1>3, <2>3
    <3>2. n \in 1..(i - 1) /\ new[n] = "error"
      BY <1>2, <1>3, <2>3, <3>1
    <3>. QED
      BY <3>1, <3>2 DEF ResultIs
  <2>. QED
    BY <1>3, <1>4, <2>1, <2>2, <2>3
<1>7. Left(q2) => Len(new) = n /\ \A i \in 1..n :
                    new[i] # "skipped" /\ (q.scene.stop => new[i] # "error")
  <2>1. Left(q2) => Len(new) < Len(q.scene.actions)
    BY <1>1 DEF Left
  <2>2. Left(q2) => Len(new) = n /\ ~(q.scene.stop /\ result = "error")
    <3>1. CASE q.scene.stop /\ result = "error"
      <4>1. Len(new) = Len(q.scene.actions)
        BY <1>2, <3>1
      <4>. QED
        BY <1>3, <2>1, <4>1
    <3>2. CASE ~(q.scene.stop /\ result = "error")
      BY <1>2, <3>2
    <3>. QED
      BY <3>1, <3>2
  <2>. QED
    BY <1>2, <1>3, <1>5, <2>2
<1>8. Base(q2, h2)
  BY <1>1, <1>2, <1>4, <1>6, <1>7 DEF Base
<1>9. Sending(q2, h2)
  <2>1. IsList(<<>>)
    BY NoSyncNone DEF NoSync
  <2>. QED
    BY <1>1, <1>7, <2>1 DEF Sending
<1>. QED
  BY <1>8, <1>9 DEF q2, new


(* An operation was dealt with: it was handed, or it was not and says so   *)
(* (or was a sync's, which does not).                                      *)
LEMMA DeliverOK ==
  ASSUME NEW q, NEW h, NEW h2, NEW ok \in BOOLEAN,
         Base(q, h), Sending(q, h), q.ops # <<>>, DOMAIN h2 = ToldFields,
         h2.planned = h.planned,
         \/ h2.sent = h.sent /\ (Head(q.ops).sender = "send_sync" \/ ~ok)
         \/ h2.sent = [h.sent EXCEPT ![Len(h.sent)] = @ + 1]
  PROVE  LET all_ok == FoldOk(q.ok, ok)
             q2 == IF Len(q.ops) = 1
                   THEN [q EXCEPT !.results = Done(q, IF all_ok THEN "ok"
                                                      ELSE "error"),
                                  !.ops = <<>>, !.ok = TRUE]
                   ELSE [q EXCEPT !.ops = Tail(@), !.ok = all_ok]
         IN Base(q2, h2) /\ Sending(q2, h2)
<1>. DEFINE n == Len(h.sent)  all_ok == FoldOk(q.ok, ok)  m == Len(q.ops)
            result == IF all_ok THEN "ok" ELSE "error"
            last == [q EXCEPT !.results = Done(q, result), !.ops = <<>>,
                              !.ok = TRUE]
            next == [q EXCEPT !.ops = Tail(@), !.ok = all_ok]
<1>1. /\ n \in Nat /\ Len(q.results) \in Nat /\ n = Len(q.results) + 1
      /\ n = Len(h.planned) /\ q.on /\ Left(q)
      /\ h.sent \in Seq(Nat) /\ h.planned \in Seq(Nat)
      /\ DOMAIN q = RunFields
  BY LenProperties DEF Base, Sending
<1>2. /\ m \in Nat /\ m # 0 /\ IsList(q.ops) /\ DOMAIN q.ops = 1..m
      /\ q.ok \in BOOLEAN /\ Head(q.ops) = q.ops[1]
  <2>1. IsList(q.ops) /\ q.ok \in BOOLEAN
    BY DEF Sending
  <2>. QED
    BY <2>1, ListIs, HeadTailProperties DEF IsList
<1>3. all_ok \in BOOLEAN /\ (all_ok <=> q.ok /\ ok)
  BY <1>2 DEF FoldOk
<1>4. /\ h2.sent \in Seq(Nat) /\ Len(h2.sent) = n
      /\ \A i \in 1..(n - 1) : h2.sent[i] = h.sent[i]
      /\ h2.sent = [h.sent EXCEPT ![n] = @ + 1] => h2.sent[n] = h.sent[n] + 1
      /\ h.sent[n] \in Nat /\ h.planned[n] \in Nat
  <2>1. DOMAIN h.sent = 1..n /\ n \in 1..n /\ h.sent \in [1..n -> Nat]
    BY SMTT(60), <1>1, LenProperties
  <2>2. h.sent[n] \in Nat /\ h.planned[n] \in Nat
    BY <1>1, <2>1, ElementOfSeq
  <2>3. CASE h2.sent = h.sent
    <3>1. h2.sent # [h.sent EXCEPT ![n] = @ + 1]
      <4>1. [h.sent EXCEPT ![n] = @ + 1][n] = h.sent[n] + 1
        BY <2>1
      <4>. QED
        BY <2>2, <2>3, <4>1
    <3>. QED
      BY <1>1, <2>1, <2>2, <2>3, <3>1
  <2>4. CASE h2.sent = [h.sent EXCEPT ![n] = @ + 1]
    <3>1. h2.sent \in [1..n -> Nat] /\ h2.sent[n] = h.sent[n] + 1
      BY <2>1, <2>2, <2>4
    <3>2. h2.sent \in Seq(Nat)
      BY ZenonT(60), <1>1, <3>1, SeqDef
    <3>3. Len(h2.sent) = n
      <4>1. h2.sent = [i \in 1..n |-> h2.sent[i]]
        BY <3>1
      <4>. HIDE DEF n
      <4>. QED
        BY <1>1, <4>1, ListMade
    <3>4. \A i \in 1..(n - 1) : h2.sent[i] = h.sent[i]
      <4>1. \A i \in 1..(n - 1) : i \in 1..n /\ i # n
        BY SMTT(60), <1>1
      <4>. HIDE DEF n
      <4>. QED
        BY <2>1, <2>4, <4>1
    <3>. QED
      BY <2>2, <3>1, <3>2, <3>3, <3>4
  <2>. QED
    BY <2>3, <2>4
<1>5. q.scene.actions[n].kind # "sync" =>
        /\ \A i \in 1..m : q.ops[i].sender # "send_sync"
        /\ q.ok => h.sent[n] + m = h.planned[n]
        /\ ok => h2.sent[n] = h.sent[n] + 1
  <2>1. q.scene.actions[n].kind # "sync" =>
          /\ \A i \in 1..m : q.ops[i].sender # "send_sync"
          /\ q.ok => h.sent[n] + m = h.planned[n]
    BY <1>2 DEF Sending
  <2>2. 1 \in 1..m
    BY <1>2
  <2>. QED
    BY <1>2, <1>4, <2>1, <2>2
<1>6. CASE m = 1
  <2>1. result \in {"ok", "error", "degraded"}
    OBVIOUS
  <2>2. result = "ok" /\ q.scene.actions[n].kind # "sync"
          => h2.sent[n] = h2.planned[n]
    BY <1>3, <1>4, <1>5, <1>6
  <2>3. result # "degraded"
    OBVIOUS
  <2>4. Base(last, h2) /\ Sending(last, h2)
    <3>1. /\ Len(h2.sent) = Len(h2.planned) /\ Len(h2.sent) = Len(q.results) + 1
          /\ h2.sent \in Seq(Nat) /\ h2.planned \in Seq(Nat)
      BY <1>1, <1>4
    <3>2. \A i \in 1..Len(q.results) : /\ h2.sent[i] = h.sent[i]
                                       /\ h2.planned[i] = h.planned[i]
      BY <1>1, <1>4
    <3>3. /\ result = "ok" /\ q.scene.actions[Len(q.results) + 1].kind # "sync"
               => h2.sent[Len(q.results) + 1] = h2.planned[Len(q.results) + 1]
          /\ result = "degraded" => h2.sent[Len(q.results) + 1] = 0
      BY <1>1, <2>2, <2>3
    <3>. HIDE DEF result
    <3>. QED
      BY <1>1, <2>1, <3>1, <3>2, <3>3, ConcludeOK
  <2>. QED
    BY <1>6, <2>4
<1>7. CASE m # 1
  <2>. DEFINE tl == Tail(q.ops)
  <2>1. /\ IsList(tl) /\ Len(tl) = m - 1
        /\ \A i \in 1..(m - 1) : tl[i] = q.ops[i + 1]
    <3>1. q.ops \in Seq(ToSet(q.ops)) /\ q.ops # <<>>
      BY <1>2 DEF IsList
    <3>2. tl \in Seq(ToSet(q.ops)) /\ Len(tl) = m - 1
      BY <1>2, <3>1, HeadTailProperties
    <3>3. \A i \in 1..(m - 1) : tl[i] = q.ops[i + 1]
      BY <1>2, <3>1
    <3>. QED
      BY <3>2, <3>3, ListOf
  <2>. HIDE DEF tl
  <2>2. tl # <<>> /\ DOMAIN tl = 1..(m - 1)
    <3>1. m - 1 # 0
      BY <1>2, <1>7
    <3>2. Len(tl) # 0
      BY <2>1, <3>1
    <3>3. DOMAIN tl = 1..Len(tl) /\ (tl = <<>> <=> Len(tl) = 0)
      BY <2>1, ListIs
    <3>. QED
      BY <2>1, <3>2, <3>3
  <2>3. /\ DOMAIN next = RunFields /\ next.scene = q.scene /\ next.on = q.on
        /\ next.results = q.results /\ next.ops = tl
        /\ next.ok = all_ok
    BY <1>1 DEF RunFields, tl
  <2>. HIDE DEF next, all_ok, n, m
  <2>4. Left(next)
    BY <1>1, <2>3 DEF Left
  <2>5. Base(next, h2)
    <3>1. DOMAIN q.results = 1..(n - 1)
      BY <1>1, LenProperties DEF Base
    <3>2. \A i \in DOMAIN q.results : h2.sent[i] = h.sent[i]
      BY <1>4, <3>1
    <3>3. Reported(next, h2)
      <4>1. Reported(q, h) /\ Len(h2.sent) = Len(h.sent)
        BY <1>4 DEF Base, n
      <4>. QED
        BY <2>3, <3>2, <4>1 DEF Reported, ResultIs
    <3>. QED
      BY <1>1, <1>4, <2>3, <2>4, <3>3 DEF Base
  <2>6. Sending(next, h2)
    <3>1. q.scene.actions[n].kind # "sync" =>
            \A i \in 1..(m - 1) : tl[i].sender # "send_sync"
      <4>1. \A i \in 1..(m - 1) : i + 1 \in 1..m
        BY <1>2
      <4>. QED
        BY <1>5, <2>1, <4>1
    <3>2. q.scene.actions[n].kind # "sync" /\ all_ok
            => h2.sent[n] + (m - 1) = h2.planned[n]
      <4>1. q.scene.actions[n].kind # "sync" /\ all_ok
              => /\ h.sent[n] + m = h.planned[n]
                 /\ h2.sent[n] = h.sent[n] + 1
        BY <1>3, <1>5
      <4>. QED
        BY <1>2, <1>4, <4>1
    <3>. QED
      BY <1>1, <1>3, <1>4, <2>1, <2>2, <2>3, <2>4, <3>1, <3>2 DEF Sending
  <2>. QED
    BY <1>7, <2>5, <2>6 DEF next, all_ok, m
<1>. QED
  BY <1>6, <1>7


-----------------------------------------------------------------------------
(* The steps.  A step of one request leaves to the others what they have,  *)
(* but for their being undisturbed.                                        *)
LEMMA DisturbedOK ==
  ASSUME NEW q, NEW h, Base(q, h), Sending(q, h),
         NEW h2 \in {h, [h EXCEPT !.quiet = FALSE]}
  PROVE  Base(q, h2) /\ Sending(q, h2)
<1>1. DOMAIN h2 = ToldFields /\ h2.sent = h.sent /\ h2.planned = h.planned
  BY DEF Base, ToldFields
<1>2. Reported(q, h2)
  BY <1>1 DEF Base, Reported, ResultIs
<1>. QED
  BY <1>1, <1>2 DEF Base, Sending

StepAt(r) ==
  /\ DOMAIN run' = Runs /\ DOMAIN told' = Runs
  /\ \A s \in Runs \ {r} :
       /\ run'[s] = run[s]
       /\ told'[s] \in {told[s], [told[s] EXCEPT !.quiet = FALSE]}
  /\ Base(run'[r], told'[r]) /\ Sending(run'[r], told'[r])

LEMMA StepOK ==
  ASSUME RunsInv, NEW r \in Runs, StepAt(r)
  PROVE  RunsInv'
<1>1. ASSUME NEW s \in Runs
      PROVE  Base(run'[s], told'[s]) /\ Sending(run'[s], told'[s])
  <2>1. CASE s = r
    BY <2>1 DEF StepAt
  <2>2. CASE s # r
    <3>1. /\ run'[s] = run[s]
          /\ told'[s] \in {told[s], [told[s] EXCEPT !.quiet = FALSE]}
          /\ Base(run[s], told[s]) /\ Sending(run[s], told[s])
      BY <2>2 DEF StepAt, RunsInv
    <3>. QED
      BY <3>1, DisturbedOK
  <2>. QED
    BY <2>1, <2>2
<1>. QED
  BY <1>1 DEF RunsInv, StepAt

LEMMA RunIs ==
  ASSUME RunsInv, NEW r \in Runs
  PROVE  /\ DOMAIN run = Runs /\ DOMAIN told = Runs
         /\ Base(run[r], told[r]) /\ Sending(run[r], told[r])
         /\ DOMAIN run[r] = RunFields /\ DOMAIN told[r] = ToldFields
BY DEF RunsInv, Base

LEMMA StartStep ==
  ASSUME RunsInv, NEW r \in Runs, Start(r)
  PROVE  RunsInv'
<1>1. PICK s \in Scenes : run' = [run EXCEPT ![r].scene = s, ![r].on = TRUE]
  BY DEF Start
<1>. DEFINE q == run'[r]  h == told[r]
<1>2. /\ q = [Idle EXCEPT !.scene = s, !.on = TRUE] /\ told' = told
      /\ DOMAIN run' = Runs /\ \A t \in Runs \ {r} : run'[t] = run[t]
  BY <1>1, RunIs DEF Start
<1>3. /\ DOMAIN q = RunFields /\ q.scene = s /\ q.on = TRUE /\ q.ops = <<>>
      /\ q.ok = TRUE /\ q.results = <<>>
  BY <1>2 DEF Idle, RunFields
<1>4. /\ h.sent = <<>> /\ h.planned \in Seq(Nat) /\ Len(h.sent) = Len(h.planned)
      /\ DOMAIN h = ToldFields
  BY RunIs DEF Start, Idle, Base
<1>5. /\ Len(<<>>) = 0 /\ DOMAIN <<>> = {} /\ <<>> \in Seq(Nat)
      /\ <<>> \in Seq(Verdicts) /\ IsList(<<>>) /\ Len(s.actions) \in Nat
  <2>1. IsList(<<>>)
    BY NoSyncNone DEF NoSync
  <2>2. Len(s.actions) \in Nat
    BY <1>3, SceneIs
  <2>. QED
    BY <2>1, <2>2, EmptySeq
<1>. HIDE DEF q, h
<1>6. Reported(q, h)
  <2>1. DOMAIN q.results = {}
    BY <1>3, <1>5
  <2>. QED
    BY <2>1 DEF Reported, ResultIs
<1>7. Base(q, h)
  <2>1. /\ DOMAIN q.results = {} /\ q.results \in Seq(Verdicts)
        /\ Len(q.results) <= Len(q.scene.actions) /\ h.sent \in Seq(Nat)
    BY <1>3, <1>4, <1>5
  <2>2. q.on \in BOOLEAN /\ q.scene \in Scenes \cup {NoScene} /\ q.on
    BY <1>3
  <2>. QED
    BY <1>3, <1>4, <1>6, <2>1, <2>2 DEF Base
<1>8. Sending(q, h)
  BY <1>3, <1>4, <1>5 DEF Sending
<1>9. StepAt(r)
  BY <1>2, <1>7, <1>8, RunIs DEF StepAt, q, h
<1>. QED
  BY <1>9, StepOK

(* The known groups, each once: those of the devices.                      *)
LEMMA GroupsAre == GroupOf \in [Devices -> 0..254]
BY RunnerAssumption

LEMMA KnownIs ==
  IsList(Known) /\ ToSet(Known) = {GroupOf[d] : d \in Devices}
<1>. DEFINE all == [i \in 1..255 |-> i - 1]
            mine == {GroupOf[d] : d \in Devices}
<1>1. IsList(all)
  <2>1. all = [i \in 1..255 |-> all[i]] /\ 255 \in Nat
    OBVIOUS
  <2>. HIDE DEF all
  <2>. QED
    BY <2>1, ListMade
<1>2. ToSet(all) = 0..254
  <2>1. \A g \in 0..254 : g + 1 \in 1..255 /\ all[g + 1] = g
    OBVIOUS
  <2>2. \A i \in 1..255 : all[i] \in 0..254
    OBVIOUS
  <2>3. DOMAIN all = 1..255
    OBVIOUS
  <2>. HIDE DEF all
  <2>4. ToSet(all) = {all[i] : i \in 1..255}
    BY <2>3 DEF ToSet
  <2>5. ASSUME NEW g \in 0..254 PROVE g \in ToSet(all)
    <3>1. g + 1 \in 1..255 /\ all[g + 1] = g
      BY <2>1
    <3>. QED
      BY <2>4, <3>1
  <2>6. ASSUME NEW g \in ToSet(all) PROVE g \in 0..254
    <3>1. PICK i \in 1..255 : g = all[i]
      BY <2>4
    <3>. QED
      BY <2>2, <3>1
  <2>7. 0..254 \subseteq ToSet(all)
    BY <2>5
  <2>. QED
    BY <2>6, <2>7, Zenon
<1>3. mine \subseteq 0..254
  BY GroupsAre
<1>4. /\ IsList(Without(all, 0..254 \ mine))
      /\ ToSet(Without(all, 0..254 \ mine)) = ToSet(all) \ (0..254 \ mine)
  <2>. HIDE DEF all, mine
  <2>. QED
    BY <1>1, WithoutIs
<1>5. Known = Without(all, 0..254 \ mine)
  BY DEF Known
<1>. HIDE DEF all, mine
<1>6. ToSet(Known) = mine
  <2>. DEFINE groups == 0..254
  <2>1. ToSet(Known) = groups \ (groups \ mine) /\ mine \subseteq groups
    BY <1>2, <1>3, <1>4, <1>5
  <2>. HIDE DEF groups
  <2>. QED
    BY <2>1
<1>. QED
  BY <1>4, <1>5, <1>6 DEF mine

LEMMA BeginStep ==
  ASSUME RunsInv, NEW r \in Runs, Begin(r)
  PROVE  RunsInv'
<1>. DEFINE q == run[r]  h == told[r]  q2 == run'[r]  h2 == told'[r]
            n == Len(q.results) + 1
            a == Current(r)  plan == PlanAction(a, Known, GroupOf, presets)
            planned == IF plan.degraded \/ plan.raises THEN 0 ELSE Len(plan.ops)
            Over(result) == [q EXCEPT !.results = Done(q, result),
                                      !.ops = <<>>, !.ok = TRUE]
<1>1. /\ Base(q, h) /\ Sending(q, h) /\ q.on /\ Left(q) /\ q.ops = <<>>
      /\ DOMAIN q = RunFields /\ DOMAIN h = ToldFields
  BY RunIs DEF Begin, Running, Left
<1>2. /\ Len(q.results) \in Nat /\ n \in Nat /\ Len(h.sent) = n - 1
      /\ Len(h.planned) = n - 1 /\ n <= Len(q.scene.actions) /\ q.ok = TRUE
      /\ h.sent \in Seq(Nat) /\ h.planned \in Seq(Nat)
      /\ Len(q.scene.actions) \in Nat /\ q.scene \in Scenes \cup {NoScene}
  BY SMTT(60), <1>1, LenProperties, SceneIs DEF Base, Sending, Left
<1>3. /\ a = q.scene.actions[n] /\ Fit(a, plan)
  <2>1. a = q.scene.actions[n]
    BY DEF Current
  <2>. HIDE DEF a, q, n
  <2>2. \A i \in 1..Len(q.scene.actions) : Canonical(q.scene.actions[i])
    BY <1>2, SceneIs
  <2>3. n \in 1..Len(q.scene.actions)
    BY <1>2 DEF n
  <2>4. Canonical(a)
    BY <2>1, <2>2, <2>3
  <2>. QED
    BY <2>1, <2>4, KnownIs, PlanIs
<1>4. /\ DOMAIN told' = Runs /\ \A s \in Runs \ {r} : told'[s] = told[s]
      /\ DOMAIN h2 = ToldFields /\ h2.sent = Append(h.sent, 0)
      /\ h2.planned = Append(h.planned, planned)
  BY <1>1, RunIs DEF Begin, ToldFields
<1>5. IF plan.raises THEN Conclude(r, "error")
      ELSE IF plan.degraded THEN Conclude(r, "degraded")
      ELSE IF plan.ops = <<>> THEN
        Conclude(r, IF a.kind = "offset_group" THEN "error" ELSE "ok")
      ELSE run' = [run EXCEPT ![r].ops = plan.ops]
  BY DEF Begin
<1>6. /\ DOMAIN run' = Runs /\ \A s \in Runs \ {r} : run'[s] = run[s]
      /\ IF plan.raises THEN q2 = Over("error")
         ELSE IF plan.degraded THEN q2 = Over("degraded")
         ELSE IF plan.ops = <<>> THEN
           q2 = Over(IF a.kind = "offset_group" THEN "error" ELSE "ok")
         ELSE q2 = [q EXCEPT !.ops = plan.ops]
  <2>1. DOMAIN run = Runs
    BY RunIs
  <2>2. ASSUME NEW result, Conclude(r, result)
        PROVE  /\ DOMAIN run' = Runs /\ \A s \in Runs \ {r} : run'[s] = run[s]
               /\ q2 = Over(result)
    BY <2>1, <2>2 DEF Conclude, Results, Done
  <2>3. ASSUME run' = [run EXCEPT ![r].ops = plan.ops]
        PROVE  /\ DOMAIN run' = Runs /\ \A s \in Runs \ {r} : run'[s] = run[s]
               /\ q2 = [q EXCEPT !.ops = plan.ops]
    <3>. HIDE DEF plan
    <3>. QED
      BY <2>1, <2>3
  <2>. HIDE DEF plan, a, q2, Over
  <2>. QED
    BY <1>5, <2>2, <2>3
<1>. HIDE DEF plan, a, q, h, q2, h2, planned
<1>7. plan.raises \in BOOLEAN /\ plan.degraded \in BOOLEAN /\ planned \in Nat
  BY <1>3, ListIs DEF Fit, planned
<1>8. /\ h2.sent \in Seq(Nat) /\ h2.planned \in Seq(Nat)
      /\ Len(h2.sent) = n /\ Len(h2.planned) = n
      /\ \A i \in 1..(n - 1) : /\ h2.sent[i] = h.sent[i]
                               /\ h2.planned[i] = h.planned[i]
      /\ h2.sent[n] = 0 /\ h2.planned[n] = planned
  <2>1. 0 \in Nat /\ n = Len(h.sent) + 1 /\ n = Len(h.planned) + 1
    BY <1>2
  <2>2. /\ h2.sent \in Seq(Nat) /\ Len(h2.sent) = n /\ h2.sent[n] = 0
        /\ \A i \in 1..Len(h.sent) : h2.sent[i] = h.sent[i]
    BY <1>2, <1>4, <2>1, AppendProperties
  <2>3. /\ h2.planned \in Seq(Nat) /\ Len(h2.planned) = n
        /\ h2.planned[n] = planned
        /\ \A i \in 1..Len(h.planned) : h2.planned[i] = h.planned[i]
    BY <1>2, <1>4, <1>7, <2>1, AppendProperties
  <2>. QED
    BY <1>2, <2>2, <2>3
<1>9. ASSUME NEW result \in {"ok", "error", "degraded"},
             result = "ok" => planned = 0
      PROVE  Base(Over(result), h2) /\ Sending(Over(result), h2)
  <2>1. /\ Len(h2.sent) = Len(h2.planned) /\ Len(h2.sent) = Len(q.results) + 1
        /\ \A i \in 1..Len(q.results) : /\ h2.sent[i] = h.sent[i]
                                       /\ h2.planned[i] = h.planned[i]
    BY <1>2, <1>8
  <2>2. /\ h2.sent[Len(q.results) + 1] = 0
        /\ result = "ok" => h2.planned[Len(q.results) + 1] = 0
    BY <1>8, <1>9
  <2>. QED
    BY ZenonT(60), <1>1, <1>4, <1>8, <2>1, <2>2, ConcludeOK
<1>10. ASSUME plan.ops # <<>>, q2 = [q EXCEPT !.ops = plan.ops],
              planned = Len(plan.ops)
       PROVE  Base(q2, h2) /\ Sending(q2, h2)
  <2>1. /\ DOMAIN q2 = RunFields /\ q2.scene = q.scene /\ q2.on = q.on
        /\ q2.results = q.results /\ q2.ops = plan.ops /\ q2.ok = q.ok
    BY <1>1, <1>10 DEF RunFields
  <2>2. Left(q2)
    BY <1>1, <2>1 DEF Left
  <2>3. Reported(q2, h2)
    <3>1. /\ DOMAIN q.results = 1..(n - 1) /\ Reported(q, h)
          /\ Len(h2.sent) >= Len(h.sent) /\ Len(h.sent) \in Nat
      BY <1>1, <1>2, <1>8, LenProperties DEF Base
    <3>2. \A i \in DOMAIN q.results :
            h2.sent[i] = h.sent[i] /\ h2.planned[i] = h.planned[i]
      BY <1>8, <3>1
    <3>3. \A i \in DOMAIN q.results : i <= Len(h2.sent)
      BY <1>2, <1>8, <3>1
    <3>. QED
      BY <2>1, <3>1, <3>2, <3>3 DEF Reported, ResultIs
  <2>4. Base(q2, h2)
    BY <1>1, <1>4, <1>8, <2>1, <2>2, <2>3 DEF Base
  <2>5. Sending(q2, h2)
    <3>1. IsList(plan.ops) /\ (a.kind # "sync" => NoSync(plan.ops))
          /\ Len(plan.ops) \in Nat
      BY <1>3, ListIs DEF Fit
    <3>2. a.kind # "sync" =>
            /\ \A i \in DOMAIN plan.ops : plan.ops[i].sender # "send_sync"
            /\ h2.sent[n] + Len(plan.ops) = h2.planned[n]
      BY <1>8, <1>10, <3>1 DEF NoSync
    <3>. QED
      BY <1>1, <1>2, <1>3, <1>8, <1>10, <2>1, <2>2, <3>1, <3>2 DEF Sending
  <2>. QED
    BY <2>4, <2>5
<1>11. Base(q2, h2) /\ Sending(q2, h2)
  <2>1. CASE plan.raises
    BY <1>6, <1>9, <2>1
  <2>2. CASE ~plan.raises /\ plan.degraded
    BY <1>6, <1>9, <2>2
  <2>3. CASE ~plan.raises /\ ~plan.degraded /\ plan.ops = <<>>
    <3>1. planned = 0
      BY <2>3, EmptySeq DEF planned
    <3>. QED
      BY <1>6, <1>9, <2>3, <3>1
  <2>4. CASE ~plan.raises /\ ~plan.degraded /\ plan.ops # <<>>
    <3>1. planned = Len(plan.ops)
      BY <2>4 DEF planned
    <3>. QED
      BY <1>6, <1>10, <2>4, <3>1
  <2>. QED
    BY <2>1, <2>2, <2>3, <2>4
<1>12. StepAt(r)
  BY <1>4, <1>6, <1>11 DEF StepAt, q2, h2
<1>. QED
  BY <1>12, StepOK


(* What run' is after Sent(r, ok).                                         *)
LEMMA SentIs ==
  ASSUME RunsInv, NEW r \in Runs, NEW ok, Sent(r, ok)
  PROVE  LET q == run[r]
             all_ok == FoldOk(q.ok, ok)
         IN /\ DOMAIN run' = Runs /\ \A s \in Runs \ {r} : run'[s] = run[s]
            /\ run'[r] = IF Len(q.ops) = 1
                         THEN [q EXCEPT !.results = Done(q, IF all_ok THEN "ok"
                                                            ELSE "error"),
                                        !.ops = <<>>, !.ok = TRUE]
                         ELSE [q EXCEPT !.ops = Tail(@), !.ok = all_ok]
<1>1. DOMAIN run = Runs
  BY RunIs
<1>. QED
  BY <1>1 DEF Sent, Conclude, Results, Done

LEMMA SentStep ==
  ASSUME RunsInv, NEW r \in Runs, NEW ok \in BOOLEAN, run[r].ops # <<>>,
         Sent(r, ok), DOMAIN told' = Runs,
         \A s \in Runs \ {r} :
           told'[s] \in {told[s], [told[s] EXCEPT !.quiet = FALSE]},
         DOMAIN told'[r] = ToldFields, told'[r].planned = told[r].planned,
         \/ /\ told'[r].sent = told[r].sent
            /\ Head(run[r].ops).sender = "send_sync" \/ ~ok
         \/ told'[r].sent = [told[r].sent EXCEPT ![Len(told[r].sent)] = @ + 1]
  PROVE  RunsInv'
<1>1. Base(run[r], told[r]) /\ Sending(run[r], told[r])
  BY RunIs
<1>2. Base(run'[r], told'[r]) /\ Sending(run'[r], told'[r])
  <2>. DEFINE q == run[r]  h == told[r]  q2 == run'[r]  h2 == told'[r]
              all_ok == FoldOk(q.ok, ok)
              over == [q EXCEPT !.results = Done(q, IF all_ok THEN "ok"
                                                    ELSE "error"),
                                !.ops = <<>>, !.ok = TRUE]
              next == [q EXCEPT !.ops = Tail(@), !.ok = all_ok]
  <2>1. q2 = IF Len(q.ops) = 1 THEN over ELSE next
    BY SentIs
  <2>2. /\ Base(q, h) /\ Sending(q, h) /\ q.ops # <<>>
        /\ DOMAIN h2 = ToldFields /\ h2.planned = h.planned
        /\ \/ h2.sent = h.sent /\ (Head(q.ops).sender = "send_sync" \/ ~ok)
           \/ h2.sent = [h.sent EXCEPT ![Len(h.sent)] = @ + 1]
    BY <1>1
  <2>. HIDE DEF q, h, q2, h2
  <2>3. LET q3 == IF Len(q.ops) = 1 THEN over ELSE next
        IN  Base(q3, h2) /\ Sending(q3, h2)
    BY <2>2, DeliverOK
  <2>4. Base(q2, h2) /\ Sending(q2, h2)
    BY <2>1, <2>3, Zenon
  <2>. QED
    BY <2>4 DEF q2, h2
<1>3. DOMAIN run' = Runs /\ \A s \in Runs \ {r} : run'[s] = run[s]
  BY SentIs
<1>4. StepAt(r)
  BY <1>2, <1>3 DEF StepAt
<1>. QED
  BY <1>4, StepOK

LEMMA HandedIs ==
  ASSUME RunsInv, NEW r \in Runs, NEW refused \in BOOLEAN, NEW disturbed,
         Handed(r, refused, disturbed)
  PROVE  /\ DOMAIN told' = Runs
         /\ \A s \in Runs \ {r} :
              told'[s] \in {told[s], [told[s] EXCEPT !.quiet = FALSE]}
         /\ DOMAIN told'[r] = ToldFields /\ told'[r].planned = told[r].planned
         /\ told'[r].sent = [told[r].sent EXCEPT ![Len(told[r].sent)] = @ + 1]
<1>. DEFINE now == Disturbed((Runs \ {r}) \cup disturbed)
<1>1. DOMAIN told[r] = ToldFields
  BY RunIs
<1>2. /\ DOMAIN now = Runs
      /\ \A s \in Runs : now[s] \in {told[s], [told[s] EXCEPT !.quiet = FALSE]}
  BY DEF Disturbed
<1>3. /\ DOMAIN now[r] = ToldFields /\ now[r].planned = told[r].planned
      /\ now[r].sent = told[r].sent
  BY <1>1, <1>2 DEF ToldFields
<1>. DEFINE n == Len(told[r].sent)
            sent == [told[r].sent EXCEPT ![n] = @ + 1]
<1>4. PICK kept : told' = [now EXCEPT ![r].sent = sent, ![r].refused = kept]
  BY DEF Handed
<1>. HIDE DEF now, n, sent
<1>5. DOMAIN told' = Runs /\ \A s \in Runs \ {r} : told'[s] = now[s]
  BY <1>2, <1>4
<1>6. told'[r] = [now[r] EXCEPT !.sent = sent, !.refused = kept]
  BY <1>2, <1>4
<1>7. /\ DOMAIN told'[r] = ToldFields /\ told'[r].planned = told[r].planned
      /\ told'[r].sent = sent
  BY <1>3, <1>6 DEF ToldFields
<1>8. \A s \in Runs \ {r} :
        told'[s] \in {told[s], [told[s] EXCEPT !.quiet = FALSE]}
  BY <1>2, <1>5
<1>. QED
  BY <1>5, <1>7, <1>8 DEF n, sent

LEMMA SendStep ==
  ASSUME RunsInv, NEW r \in Runs,
         SendNowhere(r) \/ SendOut(r) \/ SendRefused(r)
  PROVE  RunsInv'
<1>1. CASE SendNowhere(r)
  <2>. DEFINE ok == Head(run[r].ops).sender = "send_sync"
  <2>1. /\ ok \in BOOLEAN /\ run[r].ops # <<>> /\ Sent(r, ok)
        /\ told' = [told EXCEPT ![r].quiet = FALSE]
    BY <1>1 DEF SendNowhere
  <2>2. /\ DOMAIN told' = Runs /\ \A s \in Runs \ {r} : told'[s] = told[s]
        /\ DOMAIN told'[r] = ToldFields /\ told'[r].planned = told[r].planned
        /\ told'[r].sent = told[r].sent
    BY <2>1, RunIs DEF ToldFields
  <2>3. Head(run[r].ops).sender = "send_sync" \/ ~ok
    OBVIOUS
  <2>. HIDE DEF ok
  <2>. QED
    BY <2>1, <2>2, <2>3, SentStep
<1>2. CASE SendOut(r)
  <2>1. run[r].ops # <<>> /\ Sent(r, TRUE) /\ \E ds : Handed(r, FALSE, ds)
    BY <1>2 DEF SendOut
  <2>. QED
    BY <2>1, HandedIs, SentStep
<1>3. CASE SendRefused(r)
  <2>1. run[r].ops # <<>> /\ Sent(r, TRUE) /\ Handed(r, TRUE, {r})
    BY <1>3 DEF SendRefused
  <2>. QED
    BY <2>1, HandedIs, SentStep
<1>. QED
  BY <1>1, <1>2, <1>3

LEMMA RaiseStep ==
  ASSUME RunsInv, NEW r \in Runs, SendRaises(r)
  PROVE  RunsInv'
<1>. DEFINE q == run[r]  h == told[r]
<1>1. /\ q.ops # <<>> /\ Conclude(r, "error") /\ told' = told
      /\ DOMAIN run = Runs /\ DOMAIN told = Runs
      /\ Base(q, h) /\ Sending(q, h)
  BY RunIs DEF SendRaises
<1>2. /\ DOMAIN run' = Runs /\ \A s \in Runs \ {r} : run'[s] = run[s]
      /\ run'[r] = [q EXCEPT !.results = Done(q, "error"), !.ops = <<>>,
                             !.ok = TRUE]
  BY <1>1 DEF Conclude, Results, Done
<1>3. Base(run'[r], h) /\ Sending(run'[r], h)
  <2>1. /\ q.on /\ Left(q) /\ DOMAIN h = ToldFields /\ h.sent \in Seq(Nat)
        /\ h.planned \in Seq(Nat) /\ Len(h.sent) = Len(h.planned)
        /\ Len(h.sent) = Len(q.results) + 1
    BY <1>1 DEF Base, Sending
  <2>. QED
    BY <1>1, <1>2, <2>1, ConcludeOK
<1>4. StepAt(r)
  BY <1>1, <1>2, <1>3 DEF StepAt
<1>. QED
  BY <1>4, StepOK

-----------------------------------------------------------------------------
LEMMA RunsInvInit == Init => RunsInv
<1>. SUFFICES ASSUME Init, NEW r \in Runs
              PROVE  Base(run[r], told[r]) /\ Sending(run[r], told[r])
  BY DEF Init, RunsInv
<1>1. run[r] = Idle /\ told[r].sent = <<>> /\ told[r].planned = <<>>
      /\ DOMAIN told[r] = ToldFields
  BY DEF Init, ToldFields
<1>2. /\ Len(<<>>) = 0 /\ DOMAIN <<>> = {} /\ <<>> \in Seq(Nat)
      /\ <<>> \in Seq(Verdicts) /\ IsList(<<>>)
  <2>1. IsList(<<>>)
    BY NoSyncNone DEF NoSync
  <2>. QED
    BY <2>1, EmptySeq
<1>3. /\ DOMAIN run[r] = RunFields /\ run[r].results = <<>>
      /\ run[r].ops = <<>> /\ run[r].ok = TRUE /\ run[r].on = FALSE
      /\ run[r].scene = NoScene /\ NoScene.actions = <<>>
  BY <1>1 DEF Idle, RunFields, NoScene
<1>4. DOMAIN run[r].results = {}
  BY <1>2, <1>3
<1>5. Reported(run[r], told[r]) /\ ~Left(run[r])
  BY <1>2, <1>3, <1>4 DEF Reported, ResultIs, Left
<1>6. Len(run[r].results) <= Len(run[r].scene.actions)
  BY <1>2, <1>3
<1>7. Base(run[r], told[r])
  BY <1>1, <1>2, <1>3, <1>5, <1>6 DEF Base
<1>8. Sending(run[r], told[r])
  BY <1>2, <1>3, <1>5 DEF Sending
<1>. QED
  BY <1>7, <1>8

LEMMA RunsStep ==
  ASSUME RunsInv, [Next]_vars
  PROVE  RunsInv'
<1>1. CASE UNCHANGED <<run, told>>
  BY <1>1 DEF RunsInv
<1>2. ASSUME NEW r \in Runs, Start(r) PROVE RunsInv'
  BY <1>2, StartStep
<1>3. ASSUME NEW r \in Runs, Begin(r) PROVE RunsInv'
  BY <1>3, BeginStep
<1>4. ASSUME NEW r \in Runs, SendNowhere(r) \/ SendOut(r) \/ SendRefused(r)
      PROVE  RunsInv'
  BY <1>4, SendStep
<1>5. ASSUME NEW r \in Runs, SendRaises(r) PROVE RunsInv'
  BY <1>5, RaiseStep
<1>. QED
  BY <1>1, <1>2, <1>3, <1>4, <1>5
     DEF Next, vars, LoseTransport, ClearTransport, FindTransport, DeletePreset

(* The report of a run is true to what it handed to the transport: every   *)
(* operation of an action reported ok was handed (a sync's need not be),   *)
(* none of a degraded or skipped one, and after an error exactly a scene   *)
(* that stops on errors skips the rest, whatever else runs, however often  *)
(* the gateway refuses, and whenever the transport goes                    *)
(* (SceneRunnerService.run).                                               *)
THEOREM ReportIsTrue == Spec => []ReportMatchesWire
<1>1. RunsInv => ReportMatchesWire
  <2>. SUFFICES ASSUME RunsInv, NEW r \in Runs, NEW i \in DOMAIN run[r].results
                PROVE
                LET v == run[r].results[i]
                    failed == \E j \in 1..(i - 1) : run[r].results[j] = "error"
                IN
                /\ v = "ok" /\ run[r].scene.actions[i].kind # "sync"
                     => told[r].sent[i] = told[r].planned[i]
                /\ v = "degraded" => told[r].sent[i] = 0
                /\ (v = "skipped") = (failed /\ run[r].scene.stop)
    BY DEF ReportMatchesWire
  <2>1. run[r].scene.stop \in BOOLEAN
    BY RunIs, SceneIs DEF Base
  <2>. QED
    BY <2>1, RunIs DEF Base, Reported, ResultIs
<1>2. RunsInv /\ [Next]_vars => RunsInv'
  BY RunsStep
<1>. QED
  BY <1>1, <1>2, RunsInvInit, PTL DEF Spec

-----------------------------------------------------------------------------
(* Offset blocks.                                                          *)
LEMMA ClampIs ==
  ASSUME NEW v \in Int
  PROVE  /\ Clamp(v) \in Nat /\ Clamp(v) <= OffsetMax
         /\ Clamp(Clamp(v)) = Clamp(v)
BY DEF Clamp, Within, OffsetMax

LEMMA ClampKeeps ==
  ASSUME NEW v \in Nat, v <= OffsetMax
  PROVE  Clamp(v) = v
BY DEF Clamp, Within, OffsetMax

Formulas == {"linear", "vshape", "modulo"}

LEMMA BlockIs ==
  ASSUME NEW o \in OffsetBlocks
  PROVE  /\ o.mode \in {"none", "explicit"} \cup Formulas
         /\ Within(o.base, -32768, 32767) = o.base
         /\ Within(o.step, -32768, 32767) = o.step
         /\ o.mode = "vshape" => o.par \in 0..254
         /\ o.mode = "modulo" => o.par \in 1..255
BY DEF OffsetBlocks, Formulas

LEMMA BlockHolds ==
  ASSUME NEW o \in OffsetBlocks
  PROVE  o.base \in Int /\ o.step \in Int /\ o.par \in Int
BY DEF OffsetBlocks

LEMMA ValuesAre ==
  ASSUME NEW o \in OffsetBlocks
  PROVE  /\ o.values \in Seq([id : 0..254, ms : Nat])
         /\ \A v \in ToSet(o.values) : v.ms <= OffsetMax
BY DEF OffsetBlocks

LEMMA PackedFormula ==
  ASSUME NEW o \in OffsetBlocks, o.mode # "explicit", NEW g
  PROVE  /\ NodeFormula(Packed(o), g) = NodeFormula(o, g)
         /\ Packed(o).mode = o.mode
<1>1. Within(o.base, -32768, 32767) = o.base
      /\ Within(o.step, -32768, 32767) = o.step
  BY BlockIs
<1>2. CASE o.mode = "none"
  BY <1>2 DEF Packed, NoOffset, Offset, NodeFormula
<1>3. CASE o.mode = "linear"
  <2>1. Packed(o) = Offset("linear", o.base, o.step, 0, <<>>, 0)
    BY <1>1, <1>3 DEF Packed
  <2>. QED
    BY <1>3, <2>1 DEF Offset, NodeFormula
<1>4. CASE o.mode = "vshape"
  <2>1. Within(o.par, 0, 254) = o.par
    BY <1>4, BlockIs DEF Within
  <2>2. Packed(o) = Offset("vshape", o.base, o.step, o.par, <<>>, 0)
    BY <1>1, <1>4, <2>1 DEF Packed
  <2>. QED
    BY <1>4, <2>2 DEF Offset, NodeFormula
<1>5. CASE o.mode = "modulo"
  <2>1. Within(o.par, 1, 255) = o.par
    BY <1>5, BlockIs DEF Within
  <2>2. Packed(o) = Offset("modulo", o.base, o.step, o.par, <<>>, 0)
    BY <1>1, <1>5, <2>1 DEF Packed
  <2>. QED
    BY <1>5, <2>2 DEF Offset, NodeFormula
<1>. QED
  BY <1>2, <1>3, <1>4, <1>5, BlockIs DEF Formulas

LEMMA PackedExplicit ==
  ASSUME NEW v, NEW g
  PROVE  /\ NodeFormula(Packed(Explicit(v)), g) = Clamp(v)
         /\ Packed(Explicit(v)).mode = "explicit"
<1>1. Packed(Explicit(v)) = Explicit(Clamp(v))
  BY DEF Packed, Explicit, Offset
<1>. QED
  BY <1>1 DEF Explicit, Offset, NodeFormula

LEMMA PackedNone == Packed(NoOffset) = NoOffset /\ NoOffset.mode = "none"
BY DEF Packed, NoOffset, Offset

(* Host and node compute the same, a value that a packet holds.            *)
LEMMA EvaluateIs ==
  ASSUME NEW o \in OffsetBlocks, o.mode # "explicit", NEW g \in 0..254
  PROVE  Evaluate(o, g) = NodeFormula(o, g) /\ Evaluate(o, g) \in Nat
         /\ Evaluate(o, g) <= OffsetMax
<1>0. g \in Int
  OBVIOUS
<1>1. o.base \in Int /\ o.step \in Int /\ o.par \in Int
  BY BlockHolds
<1>2. CASE o.mode = "none"
  BY <1>2 DEF Evaluate, NodeFormula, OffsetMax
<1>3. CASE o.mode = "linear"
  <2>1. o.base + g * o.step \in Int
    BY <1>0, <1>1
  <2>. QED
    BY <1>3, <2>1, ClampIs DEF Evaluate, NodeFormula
<1>4. CASE o.mode = "vshape"
  <2>1. Abs(g - o.par) \in Int
    BY <1>0, <1>1 DEF Abs
  <2>2. o.base + Abs(g - o.par) * o.step \in Int
    BY <1>1, <2>1
  <2>. QED
    BY <1>4, <2>2, ClampIs DEF Evaluate, NodeFormula
<1>5. CASE o.mode = "modulo"
  <2>1. o.par > 0
    BY <1>5, BlockIs
  <2>2. g % o.par \in Int
    BY <1>0, <1>1, <2>1
  <2>3. o.base + (g % o.par) * o.step \in Int
    BY <1>1, <2>2
  <2>. QED
    BY <1>5, <2>1, <2>3, ClampIs DEF Evaluate, NodeFormula
<1>. QED
  BY <1>2, <1>3, <1>4, <1>5, BlockIs DEF Formulas

LEMMA Greatest ==
  ASSUME NEW n \in Nat, NEW T, T \subseteq 1..n, T # {}
  PROVE  \E x \in T : \A y \in T : y <= x
<1>. DEFINE M == {n - y : y \in T}
<1>1. PICK m \in M : \A k \in M : m <= k
  <2>1. \A y \in T : n - y \in Nat
    OBVIOUS
  <2>2. M \subseteq Nat
    BY <2>1
  <2>3. M # {}
    OBVIOUS
  <2>. HIDE DEF M
  <2>. QED
    BY <2>2, <2>3, Least
<1>2. PICK x \in T : m = n - x
  BY <1>1
<1>3. ASSUME NEW y \in T PROVE y <= x
  <2>1. n - x <= n - y
    BY <1>1, <1>2
  <2>2. x \in Nat /\ y \in Nat
    OBVIOUS
  <2>. QED
    BY <2>1, <2>2
<1>. QED
  BY <1>3

LEMMA ValueIs ==
  ASSUME NEW values \in Seq([id : 0..254, ms : Nat]),
         \A v \in ToSet(values) : v.ms <= OffsetMax, NEW g
  PROVE  ValueOf(values, g) \in Nat /\ ValueOf(values, g) <= OffsetMax
<1>. DEFINE for == {i \in DOMAIN values : values[i].id = g}
            IsLast(i) == \A j \in for : j <= i
<1>1. /\ Len(values) \in Nat /\ DOMAIN values = 1..Len(values)
      /\ \A i \in DOMAIN values : /\ values[i].ms \in Nat
                                  /\ values[i].ms <= OffsetMax
  <2>1. /\ Len(values) \in Nat /\ DOMAIN values = 1..Len(values)
        /\ \A i \in 1..Len(values) : values[i] \in [id : 0..254, ms : Nat]
    BY LenProperties, ElementOfSeq
  <2>2. \A i \in DOMAIN values : values[i] \in ToSet(values)
    BY DEF ToSet
  <2>. QED
    BY <2>1, <2>2
<1>2. CASE for = {}
  <2>1. ValueOf(values, g) = 0
    BY <1>2 DEF ValueOf
  <2>. QED
    BY <2>1 DEF OffsetMax
<1>3. CASE for # {}
  <2>1. \E i \in for : IsLast(i)
    <3>1. for \subseteq 1..Len(values)
      BY <1>1
    <3>. HIDE DEF for
    <3>. QED
      BY <1>1, <1>3, <3>1, Greatest
  <2>2. ValueOf(values, g) = values[CHOOSE i \in for : IsLast(i)].ms
    BY <1>3 DEF ValueOf
  <2>3. (CHOOSE i \in for : IsLast(i)) \in for
    <3>. HIDE DEF for, IsLast
    <3>. QED
      BY <2>1
  <2>. QED
    BY <1>1, <2>2, <2>3
<1>. QED
  BY <1>2, <1>3

-----------------------------------------------------------------------------
(* What a node is left with by the offsets that are still to be sent.      *)
Sets(op, d) == op.sender = "send_offset" /\ IsFor(op, d)

Ends(ops, v, d, w) ==
  \/ w = v /\ \A i \in DOMAIN ops : ~Sets(ops[i], d)
  \/ \E i \in DOMAIN ops :
       /\ Sets(ops[i], d) /\ w = ops[i].cfg
       /\ \A j \in DOMAIN ops : j > i => ~Sets(ops[j], d)

(* What it should be left with by the container a.                         *)
Asked(o, g, w) ==
  NodeFormula(w, g) = Wanted(o, g) /\ (w.mode = "none") = (o.mode = "none")

Fits(a, d, before, w) ==
  IF Participates(a, d) THEN Asked(a.offset, GroupOf[d], w)
  ELSE w \in {NoOffset, before}

LEMMA FormulaAsked ==
  ASSUME NEW o \in OffsetBlocks, o.mode # "explicit", NEW g
  PROVE  Asked(o, g, Packed(o))
BY PackedFormula DEF Asked, Wanted

LEMMA OneGroupAsked ==
  ASSUME NEW o \in OffsetBlocks, NEW g \in 0..254, NEW t,
         t.kind = "broadcast" => o.mode # "none"
  PROVE  Asked(o, g, Packed(OneGroup(t, o, g)))
<1>. DEFINE w == Packed(OneGroup(t, o, g))
<1>1. CASE o.mode = "explicit"
  <2>1. w = Packed(Explicit(ValueOf(o.values, g)))
    BY <1>1 DEF OneGroup
  <2>2. Clamp(ValueOf(o.values, g)) = ValueOf(o.values, g)
    BY ValuesAre, ValueIs, ClampKeeps
  <2>3. NodeFormula(w, g) = ValueOf(o.values, g) /\ w.mode = "explicit"
    BY <2>1, <2>2, PackedExplicit
  <2>. QED
    BY <1>1, <2>3 DEF Asked, Wanted
<1>2. CASE o.mode = "none"
  <2>1. w = NoOffset /\ w.mode = "none"
    BY <1>2, PackedNone DEF OneGroup
  <2>2. NodeFormula(w, g) = 0 /\ NodeFormula(o, g) = 0
    BY <1>2, <2>1 DEF NodeFormula
  <2>. QED
    BY <1>2, <2>1, <2>2 DEF Asked, Wanted
<1>3. CASE o.mode \notin {"none", "explicit"}
  <2>1. w = Packed(Explicit(Evaluate(o, g)))
    BY <1>3 DEF OneGroup
  <2>2. Clamp(Evaluate(o, g)) = NodeFormula(o, g)
    BY <1>3, EvaluateIs, ClampKeeps
  <2>3. NodeFormula(w, g) = NodeFormula(o, g) /\ w.mode = "explicit"
    BY <2>1, <2>2, PackedExplicit
  <2>. QED
    BY <1>3, <2>3 DEF Asked, Wanted
<1>. QED
  BY <1>1, <1>2, <1>3

LEMMA OffsetOpIs ==
  ASSUME NEW group, NEW o, NEW d \in Devices
  PROVE  /\ OffsetOp(group, o).cfg = Packed(o)
         /\ Sets(OffsetOp(group, o), d) <=> group \in {All, GroupOf[d]}
BY DEF OffsetOp, Op, Sets, IsFor

LEMMA EndsNone ==
  ASSUME NEW v, NEW d, NEW w, Ends(<<>>, v, d, w)
  PROVE  w = v
<1>1. DOMAIN <<>> = {}
  OBVIOUS
<1>. QED
  BY <1>1 DEF Ends

LEMMA EndsOne ==
  ASSUME NEW op, NEW v, NEW d, NEW w, Ends(<<op>>, v, d, w), Sets(op, d)
  PROVE  w = op.cfg
<1>1. DOMAIN <<op>> = {1} /\ <<op>>[1] = op
  OBVIOUS
<1>. QED
  BY <1>1 DEF Ends

(* Group by group.                                                         *)
EachOne(ops, to, t, o) ==
  /\ DOMAIN ops = DOMAIN to
  /\ \A i \in DOMAIN to : ops[i] = OffsetOp(to[i], OneGroup(t, o, to[i]))

LEMMA EndsGroups ==
  ASSUME NEW to, All \notin ToSet(to), NEW t, NEW o,
         NEW ops, EachOne(ops, to, t, o),
         NEW v, NEW d \in Devices, NEW w, Ends(ops, v, d, w)
  PROVE  /\ GroupOf[d] \in ToSet(to) => w = Packed(OneGroup(t, o, GroupOf[d]))
         /\ GroupOf[d] \notin ToSet(to) => w = v
<1>1. ASSUME NEW i \in DOMAIN to
      PROVE  /\ Sets(ops[i], d) <=> to[i] = GroupOf[d]
             /\ ops[i].cfg = Packed(OneGroup(t, o, to[i]))
  <2>1. to[i] # All
    BY DEF ToSet
  <2>. QED
    BY <2>1, OffsetOpIs DEF EachOne
<1>2. GroupOf[d] \in ToSet(to) <=> \E i \in DOMAIN to : Sets(ops[i], d)
  BY <1>1 DEF ToSet
<1>. QED
  BY <1>1, <1>2 DEF Ends, EachOne

(* A formula for all, and the others reset.                                *)
LEMMA EndsFormula ==
  ASSUME NEW others, IsList(others), All \notin ToSet(others), NEW o, NEW ops,
         ops = <<OffsetOp(All, o)>>
               \o [i \in DOMAIN others |-> OffsetOp(others[i], NoOffset)],
         NEW v, NEW d \in Devices, NEW w, Ends(ops, v, d, w)
  PROVE  w = IF GroupOf[d] \in ToSet(others) THEN NoOffset ELSE Packed(o)
<1>. DEFINE first == OffsetOp(All, o)
            resets == [i \in DOMAIN others |-> OffsetOp(others[i], NoOffset)]
            hd == <<first>>
            n == Len(others)
            T == ToSet(resets) \cup {first}
<1>1. n \in Nat /\ DOMAIN others = 1..n
  BY ListIs
<1>2. IsList(resets) /\ Len(resets) = n
  <2>1. resets = [i \in 1..n |-> resets[i]]
    BY <1>1
  <2>. HIDE DEF resets
  <2>. QED
    BY <1>1, <2>1, ListMade
<1>3. \A i \in 1..n : resets[i] = OffsetOp(others[i], NoOffset)
  BY <1>1
<1>4. /\ DOMAIN ops = 1..(n + 1) /\ ops[1] = first
      /\ \A i \in 2..(n + 1) : ops[i] = resets[i - 1]
  <2>. HIDE DEF resets, first, n
  <2>1. first \in T /\ ToSet(resets) \subseteq T
    OBVIOUS
  <2>2. hd \in Seq(T) /\ Len(hd) = 1 /\ hd[1] = first
    <3>. HIDE DEF T
    <3>. QED
      BY <2>1
  <2>3. resets \in Seq(T)
    <3>. HIDE DEF T
    <3>. QED
      BY <1>2, <2>1, SeqMonotonic DEF IsList
  <2>4. ops = hd \o resets
    BY DEF resets, first
  <2>. HIDE DEF T, hd
  <2>5. /\ ops \in Seq(T) /\ Len(ops) = 1 + n
        /\ \A i \in 1..(1 + n) :
             ops[i] = IF i <= 1 THEN hd[i] ELSE resets[i - 1]
    <3>1. /\ hd \o resets \in Seq(T)
          /\ Len(hd \o resets) = Len(hd) + Len(resets)
          /\ \A i \in 1..(Len(hd) + Len(resets)) :
               (hd \o resets)[i] = IF i <= Len(hd) THEN hd[i]
                                   ELSE resets[i - Len(hd)]
      BY <2>2, <2>3, ConcatProperties
    <3>. HIDE DEF n
    <3>. QED
      BY <1>2, <2>2, <2>4, <3>1
  <2>6. DOMAIN ops = 1..(1 + n)
    BY <2>5, LenProperties
  <2>. QED
    BY <1>1, <2>2, <2>5, <2>6
<1>5. Sets(ops[1], d) /\ ops[1].cfg = Packed(o)
  BY <1>4, OffsetOpIs
<1>6. ASSUME NEW i \in 2..(n + 1)
      PROVE  /\ ops[i].cfg = NoOffset
             /\ Sets(ops[i], d) <=> others[i - 1] = GroupOf[d]
  <2>1. i - 1 \in 1..n
    BY <1>1
  <2>2. ops[i] = OffsetOp(others[i - 1], NoOffset)
    BY <1>3, <1>4, <2>1
  <2>3. others[i - 1] # All
    BY <1>1, <2>1 DEF ToSet
  <2>4. /\ ops[i].cfg = Packed(NoOffset)
        /\ Sets(ops[i], d) <=> others[i - 1] \in {All, GroupOf[d]}
    BY <2>2, OffsetOpIs
  <2>. QED
    BY <2>3, <2>4, PackedNone
<1>7. CASE GroupOf[d] \in ToSet(others)
  <2>1. PICK k \in 1..n : others[k] = GroupOf[d]
    BY <1>1, <1>7 DEF ToSet
  <2>2. k + 1 \in 2..(n + 1) /\ (k + 1) - 1 = k /\ k + 1 > 1
    BY <1>1
  <2>3. Sets(ops[k + 1], d)
    BY <1>6, <2>1, <2>2
  <2>. DEFINE IsLast(i) == /\ Sets(ops[i], d) /\ w = ops[i].cfg
                          /\ \A j \in DOMAIN ops : j > i => ~Sets(ops[j], d)
  <2>5. k + 1 \in DOMAIN ops
    BY <1>1, <1>4
  <2>6. \E i \in DOMAIN ops : IsLast(i)
    <3>. HIDE DEF n
    <3>. QED
      BY <2>3, <2>5 DEF Ends
  <2>4. PICK i \in 1..(n + 1) :
          /\ Sets(ops[i], d) /\ w = ops[i].cfg
          /\ \A j \in 1..(n + 1) : j > i => ~Sets(ops[j], d)
    BY <1>4, <2>6
  <2>7. i # 1
    BY <1>1, <2>2, <2>3, <2>4
  <2>8. i \in 2..(n + 1)
    BY <1>1, <2>7
  <2>. QED
    BY <1>6, <1>7, <2>4, <2>8
<1>8. CASE GroupOf[d] \notin ToSet(others)
  <2>1. ASSUME NEW i \in 2..(n + 1) PROVE ~Sets(ops[i], d)
    <3>1. i - 1 \in 1..n
      BY <1>1
    <3>2. others[i - 1] \in ToSet(others)
      BY <1>1, <3>1 DEF ToSet
    <3>3. others[i - 1] # GroupOf[d]
      BY <1>8, <3>2
    <3>. QED
      BY <1>6, <3>3
  <2>2. PICK i \in 1..(n + 1) : Sets(ops[i], d) /\ w = ops[i].cfg
    <3>1. 1 \in DOMAIN ops
      BY <1>1, <1>4
    <3>2. \E i \in DOMAIN ops : Sets(ops[i], d) /\ w = ops[i].cfg
      <4>. HIDE DEF n
      <4>. QED
        BY <1>5, <3>1 DEF Ends
    <3>. QED
      BY <1>4, <3>2
  <2>3. i = 1
    <3>1. i \in 2..(n + 1) \/ i = 1
      BY <1>1
    <3>. QED
      BY <2>1, <2>2, <3>1
  <2>. QED
    BY <1>5, <1>8, <2>2, <2>3
<1>. QED
  BY <1>7, <1>8

(* To clear the offsets of all, one frame is the cheapest.                 *)
LEMMA ClearingIsOne ==
  ASSUME NEW t, NEW o, NEW known, IsList(t.ids), IsList(known),
         t.kind = "broadcast", o.mode = "none"
  PROVE  PlanSetup(t, o, known) \in BroadcastFormula(t, o)
<1>. DEFINE p == PlanSetup(t, o, known)
            all == Plan("A", <<OffsetOp(All, o)>>)
            ops == [i \in DOMAIN known |->
                      OffsetOp(known[i], OneGroup(t, o, known[i]))]
<1>1. BroadcastFormula(t, o) = {all}
  BY DEF BroadcastFormula
<1>2. FormulaWithResets(t, o, known) = {}
  BY DEF FormulaWithResets
<1>3. GroupByGroup(t, o, known) = IF known = <<>> THEN {} ELSE {Plan("B", ops)}
  BY DEF GroupByGroup
<1>. HIDE DEF all, ops
<1>4. all \in Ways(t, o, known)
  BY <1>1 DEF Ways
<1>5. p \in Ways(t, o, known) /\ Cheaper(p, all)
  BY <1>4, SetupPicks
<1>6. SUFFICES ASSUME known # <<>>, p = Plan("B", ops) PROVE FALSE
  BY <1>1, <1>2, <1>3, <1>5 DEF Ways
<1>7. /\ all.ops = <<OffsetOp(All, o)>> /\ all.strategy = "A"
      /\ p.ops = ops /\ p.strategy = "B"
  BY <1>6 DEF Plan, all
<1>8. /\ Len(all.ops) = 1 /\ TotalBytes(all.ops) = 2
  <2>. DEFINE one == <<OffsetOp(All, o)>>
  <2>1. IsList(one) /\ Len(one) = 1 /\ one[1].cfg = Packed(o)
    <3>1. OffsetOp(All, o).cfg = Packed(o)
      BY DEF OffsetOp, Op
    <3>. QED
      BY <3>1, ListOne
  <2>2. Packed(o) = NoOffset
    BY DEF Packed
  <2>3. Bytes(NoOffset) = 2
    BY DEF Bytes, NoOffset, Offset
  <2>. HIDE DEF one
  <2>4. TotalBytes(one) = 2
    BY <2>1, <2>2, <2>3, TotalBytesIs
  <2>. QED
    BY <1>7, <2>1, <2>4 DEF one
<1>9. /\ IsList(ops) /\ Len(ops) = Len(known) /\ Len(known) \in Nat
      /\ Len(known) # 0
      /\ \A i \in 1..Len(known) :
           ops[i] = OffsetOp(known[i], OneGroup(t, o, known[i]))
  <2>1. /\ Len(known) \in Nat /\ DOMAIN known = 1..Len(known)
        /\ Len(known) # 0
    BY <1>6, ListIs
  <2>2. ops = [i \in 1..Len(known) |->
                 OffsetOp(known[i], OneGroup(t, o, known[i]))]
    BY <2>1 DEF ops
  <2>3. ops = [i \in 1..Len(known) |-> ops[i]]
    BY <2>2
  <2>. QED
    BY <2>1, <2>2, <2>3, ListMade
<1>10. ASSUME Len(ops) = 1 PROVE TotalBytes(ops) = 4
  <2>1. TotalBytes(ops) = Bytes(ops[1].cfg)
    BY <1>9, <1>10, TotalBytesIs
  <2>2. ops[1].cfg = Packed(Explicit(Evaluate(o, known[1])))
    <3>1. ops[1] = OffsetOp(known[1], OneGroup(t, o, known[1]))
      BY <1>9, <1>10
    <3>2. OneGroup(t, o, known[1]) = Explicit(Evaluate(o, known[1]))
      BY DEF OneGroup
    <3>. QED
      BY <3>1, <3>2 DEF OffsetOp, Op
  <2>3. ops[1].cfg.mode = "explicit"
    BY <2>2, PackedExplicit
  <2>. QED
    BY <2>1, <2>3 DEF Bytes
<1>11. Rank(p) = 2 /\ Rank(all) = 1
  BY <1>7 DEF Rank
<1>. HIDE DEF p
<1>. QED
  BY <1>5, <1>7, <1>8, <1>9, <1>10 DEF Cheaper

(* A list of groups, none of them the address of all.                      *)
GroupsOnly(s) == IsList(s) /\ All \notin ToSet(s)

LEMMA GroupIs ==
  ASSUME NEW d \in Devices
  PROVE  GroupOf[d] \in 0..254 /\ GroupOf[d] \in ToSet(Known)
<1>1. GroupOf[d] \in 0..254
  BY GroupsAre
<1>. QED
  BY <1>1, KnownIs

LEMMA OnlyGroups ==
  ASSUME NEW ids \in Seq(0..254)
  PROVE  GroupsOnly(ids) /\ GroupsOnly(Known)
         /\ GroupsOnly(Without(Known, ToSet(ids)))
<1>1. All \notin 0..254
  BY DEF All
<1>2. GroupsOnly(ids)
  <2>. DEFINE groups == 0..254
  <2>1. ids \in Seq(groups) /\ All \notin groups
    BY <1>1
  <2>. HIDE DEF groups
  <2>2. \A i \in DOMAIN ids : ids[i] \in groups
    BY <2>1, LenProperties, ElementOfSeq
  <2>3. IsList(ids)
    BY <2>1, ListOf
  <2>. QED
    BY <2>1, <2>2, <2>3 DEF GroupsOnly, ToSet
<1>3. GroupsOnly(Known)
  <2>1. \A g \in ToSet(Known) : g \in 0..254
    BY KnownIs, GroupIs
  <2>. QED
    BY <1>1, <2>1, KnownIs DEF GroupsOnly
<1>4. GroupsOnly(Without(Known, ToSet(ids)))
  BY <1>3, WithoutIs DEF GroupsOnly
<1>. QED
  BY <1>2, <1>3, <1>4

(* Whichever way is the cheapest.                                          *)
LEMMA SetupEnds ==
  ASSUME NEW a, a.target.ids \in Seq(0..254), a.offset \in OffsetBlocks,
         NEW d \in Devices, NEW v, NEW w,
         Ends(PlanSetup(a.target, a.offset, Known).ops, v, d, w)
  PROVE  Fits(a, d, v, w)
<1>. DEFINE t == a.target  o == a.offset  g == GroupOf[d]
            p == PlanSetup(t, o, Known)
            to == IF t.kind = "broadcast" THEN Known ELSE t.ids
            others == Without(Known, ToSet(t.ids))
<1>1. /\ g \in 0..254 /\ g \in ToSet(Known)
      /\ GroupsOnly(t.ids) /\ GroupsOnly(Known) /\ GroupsOnly(others)
      /\ g \in ToSet(others) <=> g \notin ToSet(t.ids)
  BY GroupIs, OnlyGroups, WithoutIs DEF GroupsOnly
<1>2. Participates(a, d) <=> g \in ToSet(to)
  BY <1>1 DEF Participates
<1>3. o \in OffsetBlocks /\ Ends(p.ops, v, d, w)
  OBVIOUS
<1>4. IF Ways(t, o, Known) = {} THEN p = Plan("A", <<>>)
      ELSE p \in Ways(t, o, Known)
  BY <1>1, SetupPicks DEF GroupsOnly
<1>5. CASE Ways(t, o, Known) = {}
  <2>1. to = <<>>
    BY <1>5 DEF Ways, GroupByGroup
  <2>2. ToSet(to) = {}
    <3>1. DOMAIN <<>> = {}
      OBVIOUS
    <3>. QED
      BY <2>1, <3>1 DEF ToSet
  <2>3. w = v
    BY <1>3, <1>4, <1>5, EndsNone DEF Plan
  <2>. QED
    BY <1>2, <2>2, <2>3 DEF Fits
<1>6. CASE p \in BroadcastFormula(t, o)
  <2>1. /\ t.kind = "broadcast" /\ o.mode # "explicit"
        /\ p.ops = <<OffsetOp(All, o)>>
    BY <1>6 DEF BroadcastFormula, Plan
  <2>2. w = Packed(o)
    <3>1. Sets(OffsetOp(All, o), d) /\ OffsetOp(All, o).cfg = Packed(o)
      BY OffsetOpIs
    <3>. HIDE DEF p
    <3>. QED
      BY <1>3, <2>1, <3>1, EndsOne
  <2>3. Asked(o, g, w)
    BY <1>3, <2>1, <2>2, FormulaAsked
  <2>4. Participates(a, d)
    BY <2>1 DEF Participates
  <2>. QED
    BY <2>3, <2>4 DEF Fits
<1>7. CASE p \in GroupByGroup(t, o, Known) /\ p \notin BroadcastFormula(t, o)
  <2>. DEFINE ops == [i \in DOMAIN to |->
                        OffsetOp(to[i], OneGroup(t, o, to[i]))]
              one == OneGroup(t, o, g)
  <2>1. p.ops = ops
    BY <1>7 DEF GroupByGroup, Plan
  <2>2. All \notin ToSet(to)
    BY <1>1 DEF GroupsOnly
  <2>3. IF g \in ToSet(to) THEN w = Packed(one) ELSE w = v
    <3>1. Ends(ops, v, d, w)
      BY <1>3, <2>1
    <3>2. EachOne(ops, to, t, o)
      <4>. HIDE DEF to
      <4>. QED
        BY DEF EachOne
    <3>. HIDE DEF to, ops, t, o
    <3>3. ASSUME g \in ToSet(to) PROVE w = Packed(one)
      BY <2>2, <3>1, <3>2, <3>3, EndsGroups
    <3>4. ASSUME g \notin ToSet(to) PROVE w = v
      BY <2>2, <3>1, <3>2, <3>4, EndsGroups
    <3>. QED
      BY <3>3, <3>4
  <2>4. t.kind = "broadcast" => o.mode # "none"
    BY <1>1, <1>7, ClearingIsOne DEF GroupsOnly
  <2>5. Asked(o, g, Packed(one))
    BY <1>1, <1>3, <2>4, OneGroupAsked
  <2>. HIDE DEF one, to
  <2>. QED
    BY <1>2, <2>3, <2>5 DEF Fits
<1>8. CASE p \in FormulaWithResets(t, o, Known)
  <2>. DEFINE ops == <<OffsetOp(All, o)>>
                     \o [i \in DOMAIN others |-> OffsetOp(others[i], NoOffset)]
  <2>1. p.ops = ops /\ t.kind # "broadcast" /\ o.mode # "explicit"
    <3>1. /\ t.kind # "broadcast" /\ o.mode \notin {"none", "explicit"}
          /\ p = Plan("C", ops)
      BY <1>8 DEF FormulaWithResets
    <3>. HIDE DEF ops
    <3>. QED
      BY <3>1 DEF Plan
  <2>2. w = IF g \in ToSet(others) THEN NoOffset ELSE Packed(o)
    <3>1. Ends(ops, v, d, w)
      BY <1>3, <2>1
    <3>2. IsList(others) /\ All \notin ToSet(others)
      BY <1>1 DEF GroupsOnly
    <3>. HIDE DEF others
    <3>. QED
      BY <3>1, <3>2, EndsFormula
  <2>3. Asked(o, g, Packed(o))
    BY <1>3, <2>1, FormulaAsked
  <2>4. Participates(a, d) <=> g \notin ToSet(others)
    BY <1>1, <1>2, <2>1
  <2>. HIDE DEF others
  <2>. QED
    BY <2>2, <2>3, <2>4 DEF Fits
<1>. QED
  BY <1>4, <1>5, <1>6, <1>7, <1>8 DEF Ways

(* A child's effect carries the offset flag its container forces.          *)
ChildOp(a, op) ==
  /\ op.sender \in {"send_wled_control", "send_wled_preset"}
  /\ "offset_mode" \in op.flags <=> a.offset.mode # "none"

LEMMA FlagForced ==
  ASSUME NEW kept, NEW c, NEW b \in BOOLEAN
  PROVE  "offset_mode" \in MergeFlags(kept, Override(c, Forced(b))) <=> b
<1>. DEFINE over == Override(c, Forced(b))
<1>1. Forced(b) # {} /\ (TRUE \in Forced(b) <=> b)
  BY DEF Forced
<1>2. "offset_mode" \in DOMAIN over /\ (over["offset_mode"] <=> b)
  <2>1. "offset_mode" \in DOMAIN over
    BY <1>1 DEF Override
  <2>2. over["offset_mode"] = (TRUE \in Forced(b))
    BY <1>1 DEF Override
  <2>. HIDE DEF over
  <2>. QED
    BY <1>1, <2>1, <2>2
<1>3. "offset_mode" \in UserFlags
  BY RunnerAssumption
<1>. HIDE DEF over
<1>4. "offset_mode" \in MergeFlags(kept, over)
        <=> IF "offset_mode" \in DOMAIN over THEN over["offset_mode"]
            ELSE "offset_mode" \in kept
  BY <1>3 DEF MergeFlags
<1>5. "offset_mode" \in MergeFlags(kept, over) <=> b
  BY <1>2, <1>4
<1>. QED
  BY <1>5 DEF over

LEMMA ChildEffect ==
  ASSUME NEW a, NEW c, c.kind \in ChildKinds, NEW groupOf, NEW known_presets,
         NEW ops, ops = PlanEffect(c, Forced(a.offset.mode # "none"), groupOf,
                                   known_presets).ops,
         NEW i \in DOMAIN ops
  PROVE  ChildOp(a, ops[i])
<1>. DEFINE to == Resolve(c.target, groupOf)
            b == a.offset.mode # "none"
            what == IF c.kind = "rl_preset" THEN known_presets[c.ref].what
                    ELSE c.what
            kept == IF c.kind = "rl_preset" THEN known_presets[c.ref].flags
                    ELSE {}
            flags == MergeFlags(kept, Override(c, Forced(b)))
            sent == [k \in DOMAIN to |-> Op(Sender(c.kind), to[k].group,
                                            to[k].dev, NoOffset, what, flags)]
            plan == PlanEffect(c, Forced(b), groupOf, known_presets)
<1>1. plan \in {Degraded, Raising, Actions(sent)}
  BY DEF PlanEffect
<1>2. ops = <<>> \/ ops = sent
  <2>1. ops = plan.ops
    OBVIOUS
  <2>. HIDE DEF plan, sent
  <2>. QED
    BY <1>1, <2>1 DEF Degraded, Raising, Actions
<1>3. i \in DOMAIN to /\ ops[i] = sent[i]
  <2>1. DOMAIN <<>> = {}
    OBVIOUS
  <2>2. DOMAIN sent = DOMAIN to
    OBVIOUS
  <2>. HIDE DEF sent, to
  <2>. QED
    BY <1>2, <2>1, <2>2
<1>4. ops[i].sender = Sender(c.kind) /\ ops[i].flags = flags
  <2>. HIDE DEF to, what, flags
  <2>. QED
    BY <1>3 DEF Op
<1>5. Sender(c.kind) \in {"send_wled_control", "send_wled_preset"}
  BY DEF Sender, ChildKinds
<1>6. "offset_mode" \in flags <=> b
  BY FlagForced
<1>. HIDE DEF flags
<1>. QED
  BY <1>4, <1>5, <1>6 DEF ChildOp

(* A container as the store keeps it.                                      *)
StoredContainer(a) ==
  /\ a.target.ids \in Seq(0..254) /\ a.offset \in OffsetBlocks
  /\ IsList(a.actions)
  /\ \A c \in ToSet(a.actions) : Listing(c.target) /\ c.kind \in ChildKinds

LEMMA ContainerOps ==
  ASSUME NEW a, StoredContainer(a), NEW known, IsList(known), NEW groupOf,
         NEW known_presets, NEW plan,
         plan = PlanOffsetGroup(a, known, groupOf, known_presets),
         ~plan.raises
  PROVE  LET setup == PlanSetup(a.target, a.offset, known).ops IN
         /\ Offsets(setup) /\ IsList(plan.ops) /\ Len(plan.ops) >= Len(setup)
         /\ \A i \in 1..Len(setup) : plan.ops[i] = setup[i]
         /\ \A i \in 1..Len(plan.ops) :
              i > Len(setup) => ChildOp(a, plan.ops[i])
<1>. DEFINE Kid(c) == PlanEffect(c, Forced(a.offset.mode # "none"), groupOf,
                                 known_presets)
            kids == [i \in DOMAIN a.actions |-> Kid(a.actions[i])]
            lists == [i \in DOMAIN kids |-> kids[i].ops]
            setup == PlanSetup(a.target, a.offset, known).ops
            K == UNION {ToSet(lists[i]) : i \in DOMAIN lists}
            T == ToSet(setup) \cup K
            rest == FlattenSeq(lists)
<1>1. /\ Len(a.actions) \in Nat /\ DOMAIN a.actions = 1..Len(a.actions)
      /\ IsList(a.target.ids)
  BY ListIs, ListOf DEF StoredContainer
<1>2. ASSUME NEW i \in DOMAIN lists
      PROVE  /\ IsList(lists[i])
             /\ \A op \in ToSet(lists[i]) : ChildOp(a, op)
  <2>1. a.actions[i] \in ToSet(a.actions) /\ lists[i] = Kid(a.actions[i]).ops
    BY DEF ToSet
  <2>2. Listing(a.actions[i].target) /\ a.actions[i].kind \in ChildKinds
    BY <2>1 DEF StoredContainer
  <2>3. IsList(lists[i])
    BY <2>1, <2>2, EffectIs DEF Quiet, NoSync
  <2>4. \A k \in DOMAIN lists[i] : ChildOp(a, lists[i][k])
    <3>. DEFINE some == lists[i]
    <3>1. some = PlanEffect(a.actions[i], Forced(a.offset.mode # "none"),
                            groupOf, known_presets).ops
      BY <2>1
    <3>. HIDE DEF some
    <3>2. \A k \in DOMAIN some : ChildOp(a, some[k])
      BY <2>2, <3>1, ChildEffect
    <3>. QED
      BY <3>2 DEF some
  <2>. HIDE DEF lists
  <2>. QED
    BY <2>3, <2>4 DEF ToSet
<1>3. IsList(lists)
  <2>1. lists = [i \in 1..Len(a.actions) |-> lists[i]]
    <3>. HIDE DEF Kid
    <3>. QED
      BY <1>1
  <2>. HIDE DEF lists
  <2>. QED
    BY <1>1, <2>1, ListMade
<1>4. Offsets(setup)
  BY <1>1, SetupIs
<1>5. plan.ops = setup \o rest
  <2>1. plan = IF \E i \in DOMAIN kids : kids[i].raises THEN Raising
               ELSE [ops |-> setup \o rest,
                     degraded |-> \E i \in DOMAIN kids : kids[i].degraded,
                     raises |-> FALSE]
    BY DEF PlanOffsetGroup
  <2>2. Raising.raises
    BY DEF Raising
  <2>. HIDE DEF kids, setup, rest
  <2>. QED
    BY <2>1, <2>2
<1>. HIDE DEF lists, setup
<1>6. setup \in Seq(T) /\ rest \in Seq(K) /\ rest \in Seq(T)
  <2>1. \A i \in DOMAIN lists : lists[i] \in Seq(K)
    <3>1. \A i \in DOMAIN lists : ToSet(lists[i]) \subseteq K
      OBVIOUS
    <3>. HIDE DEF K
    <3>. QED
      BY <1>2, <3>1, SeqMonotonic DEF IsList
  <2>2. rest \in Seq(K)
    <3>. HIDE DEF K
    <3>. QED
      BY <1>3, <2>1, FlattenIs
  <2>3. ToSet(setup) \subseteq T /\ K \subseteq T
    OBVIOUS
  <2>. HIDE DEF K, T, rest
  <2>. QED
    BY <1>4, <2>2, <2>3, SeqMonotonic DEF Offsets, IsList
<1>7. \A op \in K : ChildOp(a, op)
  BY <1>2
<1>. HIDE DEF K, T, rest
<1>8. /\ Len(setup) \in Nat /\ Len(rest) \in Nat /\ plan.ops \in Seq(T)
      /\ Len(plan.ops) = Len(setup) + Len(rest)
      /\ \A i \in 1..(Len(setup) + Len(rest)) :
           plan.ops[i] = IF i <= Len(setup) THEN setup[i]
                         ELSE rest[i - Len(setup)]
  BY <1>5, <1>6, ConcatProperties, LenProperties
<1>9. ASSUME NEW i \in 1..Len(plan.ops), i > Len(setup)
      PROVE  ChildOp(a, plan.ops[i])
  <2>1. i - Len(setup) \in 1..Len(rest)
    BY <1>8, <1>9
  <2>2. plan.ops[i] = rest[i - Len(setup)]
    BY <1>8, <1>9
  <2>3. rest[i - Len(setup)] \in K
    BY <1>6, <2>1, ElementOfSeq
  <2>. QED
    BY <1>7, <2>2, <2>3
<1>10. /\ Len(plan.ops) >= Len(setup) /\ IsList(plan.ops)
       /\ \A i \in 1..Len(setup) : plan.ops[i] = setup[i]
  BY <1>8, ListOf
<1>. QED
  BY <1>4, <1>9, <1>10 DEF setup

(* The plan of a container does what the container asks for.               *)
LEMMA PlanEnds ==
  ASSUME NEW a, StoredContainer(a), NEW known_presets, NEW plan,
         plan = PlanOffsetGroup(a, Known, GroupOf, known_presets),
         ~plan.raises
  PROVE  /\ \A i \in DOMAIN plan.ops :
              plan.ops[i].sender # "send_offset" => ChildOp(a, plan.ops[i])
         /\ \A d \in Devices : \A v, w :
              Ends(plan.ops, v, d, w) => Fits(a, d, v, w)
<1>. DEFINE setup == PlanSetup(a.target, a.offset, Known).ops
<1>1. /\ Offsets(setup) /\ IsList(plan.ops) /\ Len(plan.ops) >= Len(setup)
      /\ \A i \in 1..Len(setup) : plan.ops[i] = setup[i]
      /\ \A i \in 1..Len(plan.ops) :
           i > Len(setup) => ChildOp(a, plan.ops[i])
  BY KnownIs, ContainerOps
<1>2. a.target.ids \in Seq(0..254) /\ a.offset \in OffsetBlocks
  BY DEF StoredContainer
<1>. HIDE DEF setup
<1>3. /\ Len(setup) \in Nat /\ DOMAIN setup = 1..Len(setup)
      /\ Len(plan.ops) \in Nat /\ DOMAIN plan.ops = 1..Len(plan.ops)
      /\ \A i \in 1..Len(setup) : setup[i].sender = "send_offset"
  BY <1>1, ListIs DEF Offsets
<1>4. ASSUME NEW i \in DOMAIN plan.ops
      PROVE  IF i <= Len(setup)
             THEN i \in DOMAIN setup /\ plan.ops[i] = setup[i]
                  /\ plan.ops[i].sender = "send_offset"
             ELSE ChildOp(a, plan.ops[i]) /\ plan.ops[i].sender # "send_offset"
  <2>1. CASE i <= Len(setup)
    BY <1>1, <1>3, <2>1
  <2>2. CASE ~(i <= Len(setup))
    <3>1. ChildOp(a, plan.ops[i])
      BY <1>1, <1>3, <2>2
    <3>. QED
      BY <2>2, <3>1 DEF ChildOp
  <2>. QED
    BY <2>1, <2>2
<1>5. ASSUME NEW d \in Devices, NEW v, NEW w, Ends(plan.ops, v, d, w)
      PROVE  Fits(a, d, v, w)
  <2>1. Ends(setup, v, d, w)
    <3>1. DOMAIN setup \subseteq DOMAIN plan.ops
      BY <1>1, <1>3
    <3>2. \A i \in DOMAIN setup : plan.ops[i] = setup[i]
      BY <1>1, <1>3
    <3>3. \A i \in DOMAIN plan.ops : Sets(plan.ops[i], d) => i \in DOMAIN setup
      BY <1>4 DEF Sets
    <3>. QED
      BY <1>5, <3>1, <3>2, <3>3 DEF Ends
  <2>. QED
    BY <1>2, <2>1, SetupEnds DEF setup
<1>6. \A i \in DOMAIN plan.ops :
        plan.ops[i].sender # "send_offset" => ChildOp(a, plan.ops[i])
  BY <1>4
<1>. QED
  BY <1>5, <1>6

-----------------------------------------------------------------------------
(***************************************************************************)
(* What the offsets that are left to send will do.  That the nodes hold    *)
(* the right offsets once all are sent is no invariant of the steps before *)
(* it; that what the nodes hold and what is still to be sent end in the    *)
(* right offsets is.                                                       *)
(***************************************************************************)
Due(q, h, offsets) ==
  LET a == q.scene.actions[Len(q.results) + 1] IN
  q.ops # <<>> /\ a.kind = "offset_group" =>
    /\ \A i \in DOMAIN q.ops :
         q.ops[i].sender # "send_offset" => ChildOp(a, q.ops[i])
    /\ h.quiet => \A d \in Devices : \A w :
         Ends(q.ops, offsets[d], d, w) => Fits(a, d, h.before[d], w)

(* The inductive invariant of the offsets and of the children.             *)
OffsetsInv == RunsInv /\ \A r \in Runs : Due(run[r], told[r], offsetOf)

LEMMA EndsTail ==
  ASSUME NEW ops, IsList(ops), ops # <<>>, NEW d, NEW v, NEW w, NEW v2,
         v2 = IF Sets(Head(ops), d) THEN Head(ops).cfg ELSE v,
         Ends(Tail(ops), v2, d, w)
  PROVE  Ends(ops, v, d, w)
<1>. DEFINE n == Len(ops)  rest == Tail(ops)
<1>1. /\ n \in Nat /\ n >= 1 /\ DOMAIN ops = 1..n /\ Head(ops) = ops[1]
      /\ DOMAIN rest = 1..(n - 1)
      /\ \A i \in 1..(n - 1) : rest[i] = ops[i + 1]
  <2>1. n \in Nat /\ n # 0 /\ DOMAIN ops = 1..n /\ ops \in Seq(ToSet(ops))
    BY ListIs DEF IsList
  <2>2. /\ rest \in Seq(ToSet(ops)) /\ Len(rest) = n - 1
        /\ \A i \in 1..Len(rest) : rest[i] = ops[i + 1]
    BY <2>1, HeadTailProperties
  <2>3. DOMAIN rest = 1..Len(rest)
    BY <2>2, LenProperties
  <2>4. Head(ops) = ops[1]
    OBVIOUS
  <2>. QED
    BY <2>1, <2>2, <2>3, <2>4
<1>. HIDE DEF n, rest
<1>2. \A j \in 1..n : j > 1 => j - 1 \in 1..(n - 1) /\ rest[j - 1] = ops[j]
  BY <1>1
<1>3. CASE \E i \in DOMAIN rest : Sets(rest[i], d)
  <2>1. PICK i \in 1..(n - 1) :
          /\ Sets(rest[i], d) /\ w = rest[i].cfg
          /\ \A j \in 1..(n - 1) : j > i => ~Sets(rest[j], d)
    <3>1. Ends(rest, v2, d, w)
      BY DEF rest
    <3>. QED
      BY <1>1, <1>3, <3>1 DEF Ends
  <2>2. i + 1 \in 1..n /\ rest[i] = ops[i + 1]
    BY <1>1
  <2>3. ASSUME NEW j \in 1..n, j > i + 1 PROVE ~Sets(ops[j], d)
    <3>1. j - 1 \in 1..(n - 1) /\ j - 1 > i /\ rest[j - 1] = ops[j]
      BY <1>1, <1>2, <2>3
    <3>. QED
      BY <2>1, <3>1
  <2>4. i + 1 \in DOMAIN ops /\ Sets(ops[i + 1], d) /\ w = ops[i + 1].cfg
        /\ \A j \in DOMAIN ops : j > i + 1 => ~Sets(ops[j], d)
    BY <1>1, <2>1, <2>2, <2>3
  <2>. QED
    BY <2>4 DEF Ends
<1>4. CASE \A i \in DOMAIN rest : ~Sets(rest[i], d)
  <2>1. w = v2
    <3>1. Ends(rest, v2, d, w)
      BY DEF rest
    <3>. QED
      BY <1>4, <3>1 DEF Ends
  <2>2. ASSUME NEW j \in 1..n, j > 1 PROVE ~Sets(ops[j], d)
    BY <1>1, <1>2, <1>4, <2>2
  <2>3. 1 \in 1..n
    BY <1>1
  <2>4. CASE Sets(ops[1], d)
    <3>1. 1 \in DOMAIN ops /\ w = ops[1].cfg
          /\ \A j \in DOMAIN ops : j > 1 => ~Sets(ops[j], d)
      BY <1>1, <2>1, <2>2, <2>3, <2>4
    <3>. QED
      BY <2>4, <3>1 DEF Ends
  <2>5. CASE ~Sets(ops[1], d)
    <3>1. ASSUME NEW j \in DOMAIN ops PROVE ~Sets(ops[j], d)
      <4>1. j \in 1..n /\ (j = 1 \/ j > 1)
        BY <1>1
      <4>. QED
        BY <2>2, <2>5, <4>1
    <3>2. w = v
      BY <1>1, <2>1, <2>5
    <3>. QED
      BY <3>1, <3>2 DEF Ends
  <2>. QED
    BY <2>4, <2>5
<1>. QED
  BY <1>3, <1>4

LEMMA DueIdle ==
  ASSUME NEW q, q.ops = <<>>, NEW h, NEW offsets
  PROVE  Due(q, h, offsets)
BY DEF Due

(* What another run does, and what disturbs a run.                         *)
LEMMA DueKept ==
  ASSUME NEW q, NEW h, NEW offsets, Due(q, h, offsets), NEW h2, NEW offsets2,
         \/ h2 = h /\ offsets2 = offsets
         \/ h2.quiet = FALSE
  PROVE  Due(q, h2, offsets2)
BY DEF Due

LEMMA ContainerKept ==
  ASSUME NEW q, q.scene \in Scenes \cup {NoScene},
         NEW i \in 1..Len(q.scene.actions),
         q.scene.actions[i].kind = "offset_group"
  PROVE  StoredContainer(q.scene.actions[i])
<1>. DEFINE a == q.scene.actions[i]
<1>1. q.scene \in Scenes
  <2>1. CASE q.scene = NoScene
    <3>1. Len(q.scene.actions) = 0
      BY <2>1, EmptySeq DEF NoScene
    <3>. QED
      BY <3>1
  <2>. QED
    BY <2>1
<1>2. IsList(q.scene.actions)
  BY <1>1, RunnerAssumption
<1>3. a \in ToSet(q.scene.actions)
  BY <1>2, ListIs DEF ToSet
<1>4. /\ a.target.ids \in Seq(0..254) /\ IsList(a.actions)
      /\ a.offset \in OffsetBlocks
      /\ \A c \in ToSet(a.actions) :
           c.target.ids \in Seq(0..254) /\ c.kind \in ChildKinds
  BY <1>1, <1>3, RunnerAssumption
<1>5. \A c \in ToSet(a.actions) : Listing(c.target)
  BY <1>4, ListOf DEF Listing
<1>. HIDE DEF a
<1>6. StoredContainer(a)
  BY <1>4, <1>5 DEF StoredContainer
<1>. QED
  BY <1>6 DEF a

(* A step of r: the others are as they were, or disturbed.                 *)
DueAt(r) ==
  /\ \A s \in Runs \ {r} :
       /\ run'[s] = run[s]
       /\ \/ told'[s] = told[s] /\ offsetOf' = offsetOf
          \/ told'[s].quiet = FALSE
  /\ Due(run'[r], told'[r], offsetOf')

LEMMA DueOK ==
  ASSUME OffsetsInv, NEW r \in Runs, RunsInv', DueAt(r)
  PROVE  OffsetsInv'
<1>1. ASSUME NEW s \in Runs PROVE Due(run'[s], told'[s], offsetOf')
  <2>1. CASE s = r
    BY <2>1 DEF DueAt
  <2>2. CASE s # r
    <3>1. /\ Due(run[s], told[s], offsetOf) /\ run'[s] = run[s]
          /\ \/ told'[s] = told[s] /\ offsetOf' = offsetOf
             \/ told'[s].quiet = FALSE
      BY <2>2 DEF DueAt, OffsetsInv
    <3>. QED
      BY <3>1, DueKept
  <2>. QED
    BY <2>1, <2>2
<1>. QED
  BY <1>1 DEF OffsetsInv

LEMMA ConcludeIs ==
  ASSUME RunsInv, NEW r \in Runs, NEW result, Conclude(r, result)
  PROVE  /\ \A s \in Runs \ {r} : run'[s] = run[s]
         /\ run'[r].ops = <<>>
<1>1. DOMAIN run = Runs /\ DOMAIN run[r] = RunFields
  BY RunIs
<1>. QED
  BY <1>1 DEF Conclude, RunFields

LEMMA BeginDue ==
  ASSUME OffsetsInv, NEW r \in Runs, Begin(r)
  PROVE  OffsetsInv'
<1>. DEFINE q == run[r]  h2 == told'[r]
            a == Current(r)  plan == PlanAction(a, Known, GroupOf, presets)
<1>1. RunsInv /\ RunsInv'
  BY BeginStep DEF OffsetsInv
<1>2. /\ DOMAIN q = RunFields /\ Base(q, told[r]) /\ Left(q)
      /\ DOMAIN run = Runs /\ DOMAIN told = Runs /\ DOMAIN told[r] = ToldFields
  BY <1>1, RunIs DEF Begin, Running, Left
<1>3. /\ \A s \in Runs \ {r} : told'[s] = told[s]
      /\ h2.before = offsetOf /\ offsetOf' = offsetOf
  <2>1. /\ offsetOf' = offsetOf
        /\ \E sent, planned, badge :
             told' = [told EXCEPT ![r].sent = sent, ![r].planned = planned,
                                  ![r].badge = badge, ![r].quiet = TRUE,
                                  ![r].before = offsetOf]
    BY DEF Begin
  <2>. QED
    BY <1>2, <2>1 DEF ToldFields
<1>4. IF plan.raises THEN Conclude(r, "error")
      ELSE IF plan.degraded THEN Conclude(r, "degraded")
      ELSE IF plan.ops = <<>> THEN
        Conclude(r, IF a.kind = "offset_group" THEN "error" ELSE "ok")
      ELSE run' = [run EXCEPT ![r].ops = plan.ops]
  BY DEF Begin
<1>5. /\ \A s \in Runs \ {r} : run'[s] = run[s]
      /\ \/ run'[r].ops = <<>>
         \/ ~plan.raises /\ run'[r] = [q EXCEPT !.ops = plan.ops]
  <2>1. ASSUME NEW result, Conclude(r, result)
        PROVE  /\ \A s \in Runs \ {r} : run'[s] = run[s]
               /\ run'[r].ops = <<>>
    BY <1>1, <2>1, ConcludeIs
  <2>2. ASSUME run' = [run EXCEPT ![r].ops = plan.ops]
        PROVE  /\ \A s \in Runs \ {r} : run'[s] = run[s]
               /\ run'[r] = [q EXCEPT !.ops = plan.ops]
    <3>. HIDE DEF plan
    <3>. QED
      BY <1>2, <2>2
  <2>. HIDE DEF plan, a, q
  <2>. QED
    BY <1>4, <2>1, <2>2
<1>6. ASSUME ~plan.raises, run'[r] = [q EXCEPT !.ops = plan.ops],
             a.kind = "offset_group"
      PROVE  Due(run'[r], h2, offsetOf')
  <2>1. StoredContainer(a)
    <3>1. Len(q.results) + 1 \in 1..Len(q.scene.actions)
      <4>1. Len(q.results) \in Nat /\ Len(q.scene.actions) \in Nat
        BY <1>2, LenProperties, SceneIs DEF Base
      <4>. QED
        BY <1>2, <4>1 DEF Left
    <3>2. q.scene \in Scenes \cup {NoScene}
      BY <1>2 DEF Base
    <3>3. a = q.scene.actions[Len(q.results) + 1]
      BY DEF Current
    <3>. HIDE DEF a, q
    <3>. QED
      BY <1>6, <3>1, <3>2, <3>3, ContainerKept
  <2>2. plan = PlanOffsetGroup(a, Known, GroupOf, presets)
    BY <1>6 DEF PlanAction
  <2>. HIDE DEF plan
  <2>3. /\ \A i \in DOMAIN plan.ops :
             plan.ops[i].sender # "send_offset" => ChildOp(a, plan.ops[i])
        /\ \A d \in Devices : \A v, w :
             Ends(plan.ops, v, d, w) => Fits(a, d, v, w)
    BY <1>6, <2>1, <2>2, PlanEnds
  <2>4. /\ run'[r].ops = plan.ops /\ run'[r].scene = q.scene
        /\ run'[r].results = q.results
    BY <1>2, <1>6 DEF RunFields
  <2>5. run'[r].scene.actions[Len(run'[r].results) + 1] = a
    BY <2>4 DEF Current
  <2>. HIDE DEF a
  <2>. QED
    BY <1>3, <2>3, <2>4, <2>5 DEF Due
<1>7. ASSUME run'[r] = [q EXCEPT !.ops = plan.ops], a.kind # "offset_group"
      PROVE  Due(run'[r], h2, offsetOf')
  <2>1. run'[r].scene = q.scene /\ run'[r].results = q.results
    <3>. HIDE DEF plan
    <3>. QED
      BY <1>2, <1>7 DEF RunFields
  <2>2. run'[r].scene.actions[Len(run'[r].results) + 1] = a
    BY <2>1 DEF Current
  <2>. HIDE DEF a
  <2>. QED
    BY <1>7, <2>2 DEF Due
<1>8. Due(run'[r], told'[r], offsetOf')
  <2>. HIDE DEF plan, a, q
  <2>. QED
    BY <1>5, <1>6, <1>7, DueIdle DEF h2
<1>9. DueAt(r)
  BY <1>3, <1>5, <1>8 DEF DueAt
<1>. QED
  BY <1>1, <1>9, DueOK

LEMMA TailIs ==
  ASSUME NEW ops, IsList(ops), ops # <<>>, NEW i \in DOMAIN Tail(ops)
  PROVE  i + 1 \in DOMAIN ops /\ Tail(ops)[i] = ops[i + 1]
<1>. DEFINE rest == Tail(ops)
<1>1. /\ ops \in Seq(ToSet(ops)) /\ DOMAIN ops = 1..Len(ops)
      /\ Len(ops) \in Nat
  BY ListIs DEF IsList
<1>2. /\ rest \in Seq(ToSet(ops)) /\ Len(rest) = Len(ops) - 1
      /\ \A k \in 1..Len(rest) : rest[k] = ops[k + 1]
  BY <1>1, HeadTailProperties
<1>3. i \in 1..Len(rest)
  BY <1>2, LenProperties
<1>. HIDE DEF rest
<1>4. i + 1 \in DOMAIN ops /\ rest[i] = ops[i + 1]
  BY <1>1, <1>2, <1>3
<1>. QED
  BY <1>4 DEF rest

(* The operation at the head was dealt with, or the action is over.        *)
LEMMA SentDue ==
  ASSUME OffsetsInv, NEW r \in Runs, run[r].ops # <<>>, NEW ok, Sent(r, ok)
  PROVE  /\ \A s \in Runs \ {r} : run'[s] = run[s]
         /\ \/ run'[r].ops = <<>>
            \/ /\ run'[r].ops = Tail(run[r].ops)
               /\ run'[r].scene = run[r].scene
               /\ run'[r].results = run[r].results
<1>. DEFINE q == run[r]
<1>1. RunsInv /\ DOMAIN q = RunFields
  BY RunIs DEF OffsetsInv
<1>2. PICK all_ok :
        /\ \A s \in Runs \ {r} : run'[s] = run[s]
        /\ run'[r] = IF Len(q.ops) = 1
                     THEN [q EXCEPT !.results = Done(q, IF all_ok THEN "ok"
                                                        ELSE "error"),
                                    !.ops = <<>>, !.ok = TRUE]
                     ELSE [q EXCEPT !.ops = Tail(@), !.ok = all_ok]
  BY <1>1, SentIs
<1>. HIDE DEF q
<1>3. \/ run'[r].ops = <<>>
      \/ /\ run'[r].ops = Tail(q.ops) /\ run'[r].scene = q.scene
         /\ run'[r].results = q.results
  <2>1. CASE Len(q.ops) = 1
    BY <1>1, <1>2, <2>1 DEF RunFields
  <2>2. CASE Len(q.ops) # 1
    BY <1>1, <1>2, <2>2 DEF RunFields
  <2>. QED
    BY <2>1, <2>2
<1>. QED
  BY <1>2, <1>3 DEF q

LEMMA HandedDue ==
  ASSUME RunsInv, NEW r \in Runs, NEW refused, NEW disturbed,
         Handed(r, refused, disturbed)
  PROVE  /\ \A s \in Runs \ {r} : told'[s].quiet = FALSE
         /\ told'[r].before = told[r].before
         /\ told'[r].quiet = IF r \in disturbed THEN FALSE ELSE told[r].quiet
<1>. DEFINE others == (Runs \ {r}) \cup disturbed
            now == Disturbed(others)
<1>1. \A s \in Runs : DOMAIN told[s] = ToldFields
  BY RunIs
<1>2. /\ DOMAIN now = Runs
      /\ \A s \in Runs : now[s] = IF s \in others
                                  THEN [told[s] EXCEPT !.quiet = FALSE]
                                  ELSE told[s]
  BY DEF Disturbed
<1>3. \E sent, kept : told' = [now EXCEPT ![r].sent = sent,
                                           ![r].refused = kept]
  BY DEF Handed
<1>4. \A s \in Runs \ {r} : s \in others
  OBVIOUS
<1>5. r \in others <=> r \in disturbed
  OBVIOUS
<1>. HIDE DEF now, others
<1>6. /\ \A s \in Runs \ {r} : told'[s] = now[s]
      /\ \E sent, kept : told'[r] = [now[r] EXCEPT !.sent = sent,
                                                  !.refused = kept]
  <2>1. PICK sent, kept : told' = [now EXCEPT ![r].sent = sent,
                                              ![r].refused = kept]
    BY <1>3
  <2>2. \A s \in Runs \ {r} : told'[s] = now[s]
    BY <1>2, <2>1
  <2>3. told'[r] = [now[r] EXCEPT !.sent = sent, !.refused = kept]
    BY <1>2, <2>1
  <2>. QED
    BY <2>2, <2>3
<1>7. /\ DOMAIN now[r] = ToldFields /\ now[r].before = told[r].before
      /\ now[r].quiet = IF r \in disturbed THEN FALSE ELSE told[r].quiet
  BY <1>1, <1>2, <1>5 DEF ToldFields
<1>8. told'[r].before = now[r].before /\ told'[r].quiet = now[r].quiet
  BY <1>6, <1>7 DEF ToldFields
<1>9. \A s \in Runs \ {r} : told'[s].quiet = FALSE
  BY <1>1, <1>2, <1>4, <1>6 DEF ToldFields
<1>. QED
  BY <1>7, <1>8, <1>9

LEMMA SendOutDue ==
  ASSUME OffsetsInv, NEW r \in Runs, SendOut(r)
  PROVE  OffsetsInv'
<1>. DEFINE q == run[r]  h == told[r]  op == Head(run[r].ops)
            a == q.scene.actions[Len(q.results) + 1]
<1>1. RunsInv /\ RunsInv' /\ Due(q, h, offsetOf) /\ IsList(q.ops)
  BY SendStep, RunIs DEF OffsetsInv, Sending
<1>2. q.ops # <<>> /\ Sent(r, TRUE)
  BY DEF SendOut
<1>3. PICK missed :
        /\ offsetOf' = [d \in Devices |-> IF Sets(op, d) /\ d \notin missed
                                          THEN op.cfg ELSE offsetOf[d]]
        /\ Handed(r, FALSE, IF missed = {} THEN {} ELSE {r})
  BY DEF SendOut, Sets
<1>4. /\ \A s \in Runs \ {r} : told'[s].quiet = FALSE
      /\ told'[r].before = h.before
      /\ told'[r].quiet = IF missed = {} THEN h.quiet ELSE FALSE
  BY <1>1, <1>3, HandedDue
<1>5. /\ \A s \in Runs \ {r} : run'[s] = run[s]
      /\ \/ run'[r].ops = <<>>
         \/ /\ run'[r].ops = Tail(q.ops) /\ run'[r].scene = q.scene
            /\ run'[r].results = q.results
  BY <1>2, SentDue
<1>6. ASSUME run'[r].ops = Tail(q.ops), run'[r].scene = q.scene,
             run'[r].results = q.results
      PROVE  Due(run'[r], told'[r], offsetOf')
  <2>. SUFFICES ASSUME run'[r].ops # <<>>, a.kind = "offset_group"
                PROVE  /\ \A i \in DOMAIN run'[r].ops :
                            run'[r].ops[i].sender # "send_offset"
                              => ChildOp(a, run'[r].ops[i])
                       /\ told'[r].quiet => \A d \in Devices : \A w :
                            Ends(run'[r].ops, offsetOf'[d], d, w)
                              => Fits(a, d, told'[r].before[d], w)
    BY <1>6 DEF Due
  <2>. HIDE DEF a, op, h, q
  <2>1. /\ \A i \in DOMAIN q.ops :
             q.ops[i].sender # "send_offset" => ChildOp(a, q.ops[i])
        /\ h.quiet => \A d \in Devices : \A w :
             Ends(q.ops, offsetOf[d], d, w) => Fits(a, d, h.before[d], w)
    BY <1>1, <1>2 DEF Due, a
  <2>2. \A i \in DOMAIN run'[r].ops :
          /\ i + 1 \in DOMAIN q.ops
          /\ run'[r].ops[i] = q.ops[i + 1]
    BY <1>1, <1>2, <1>6, TailIs
  <2>3. ASSUME told'[r].quiet, NEW d \in Devices, NEW w,
               Ends(run'[r].ops, offsetOf'[d], d, w)
        PROVE  Fits(a, d, told'[r].before[d], w)
    <3>1. missed = {} /\ h.quiet
      BY <1>4, <2>3
    <3>2. offsetOf'[d] = IF Sets(op, d) THEN op.cfg ELSE offsetOf[d]
      BY <1>3, <3>1
    <3>3. Ends(q.ops, offsetOf[d], d, w)
      <4>1. Ends(Tail(q.ops), offsetOf'[d], d, w)
        BY <1>6, <2>3
      <4>. QED
        BY <1>1, <1>2, <3>2, <4>1, EndsTail DEF op, q
    <3>. QED
      BY <1>4, <2>1, <3>1, <3>3
  <2>4. \A i \in DOMAIN run'[r].ops :
          run'[r].ops[i].sender # "send_offset" => ChildOp(a, run'[r].ops[i])
    BY <2>1, <2>2
  <2>. QED
    BY <2>3, <2>4
<1>7. Due(run'[r], told'[r], offsetOf')
  BY <1>5, <1>6, DueIdle
<1>8. DueAt(r)
  BY <1>4, <1>5, <1>7 DEF DueAt
<1>. QED
  BY <1>1, <1>8, DueOK

(* A run that was refused or had no transport is disturbed.                *)
LEMMA FailedDue ==
  ASSUME OffsetsInv, NEW r \in Runs, SendNowhere(r) \/ SendRefused(r)
  PROVE  OffsetsInv'
<1>1. RunsInv /\ RunsInv'
  BY SendStep DEF OffsetsInv
<1>2. run[r].ops # <<>> /\ \E ok : Sent(r, ok)
  BY DEF SendNowhere, SendRefused
<1>3. /\ told'[r].quiet = FALSE /\ offsetOf' = offsetOf
      /\ \A s \in Runs \ {r} : told'[s] = told[s] \/ told'[s].quiet = FALSE
  <2>1. CASE SendNowhere(r)
    <3>1. told' = [told EXCEPT ![r].quiet = FALSE] /\ offsetOf' = offsetOf
      BY <2>1 DEF SendNowhere
    <3>. QED
      BY <1>1, <3>1, RunIs DEF ToldFields
  <2>2. CASE SendRefused(r)
    <3>1. Handed(r, TRUE, {r}) /\ offsetOf' = offsetOf
      BY <2>2 DEF SendRefused
    <3>. QED
      BY <1>1, <3>1, HandedDue
  <2>. QED
    BY <2>1, <2>2
<1>4. /\ \A s \in Runs \ {r} : run'[s] = run[s]
      /\ \/ run'[r].ops = <<>>
         \/ /\ run'[r].ops = Tail(run[r].ops)
            /\ run'[r].scene = run[r].scene
            /\ run'[r].results = run[r].results
  BY <1>2, SentDue
<1>5. ASSUME run'[r].ops = Tail(run[r].ops), run'[r].scene = run[r].scene,
             run'[r].results = run[r].results
      PROVE  Due(run'[r], told'[r], offsetOf')
  <2>. DEFINE a == run[r].scene.actions[Len(run[r].results) + 1]
              rest == Tail(run[r].ops)
  <2>1. IsList(run[r].ops) /\ Due(run[r], told[r], offsetOf)
    BY <1>1, RunIs DEF OffsetsInv, Sending
  <2>2. \A i \in DOMAIN rest :
          i + 1 \in DOMAIN run[r].ops /\ rest[i] = run[r].ops[i + 1]
    BY <1>2, <2>1, TailIs
  <2>3. ASSUME a.kind = "offset_group", NEW i \in DOMAIN rest,
               rest[i].sender # "send_offset"
        PROVE  ChildOp(a, rest[i])
    BY <1>2, <2>1, <2>2, <2>3 DEF Due
  <2>. HIDE DEF rest, a
  <2>4. run'[r].scene.actions[Len(run'[r].results) + 1] = a
        /\ run'[r].ops = rest
    BY <1>5 DEF a, rest
  <2>. QED
    BY <1>3, <2>3, <2>4 DEF Due
<1>6. Due(run'[r], told'[r], offsetOf')
  BY <1>4, <1>5, DueIdle
<1>7. DueAt(r)
  BY <1>3, <1>4, <1>6 DEF DueAt
<1>. QED
  BY <1>1, <1>7, DueOK

LEMMA RaiseDue ==
  ASSUME OffsetsInv, NEW r \in Runs, SendRaises(r)
  PROVE  OffsetsInv'
<1>1. RunsInv /\ RunsInv'
  BY RaiseStep DEF OffsetsInv
<1>2. Conclude(r, "error") /\ told' = told /\ offsetOf' = offsetOf
  BY DEF SendRaises
<1>3. DueAt(r)
  BY <1>1, <1>2, ConcludeIs, DueIdle DEF DueAt
<1>. QED
  BY <1>1, <1>3, DueOK

LEMMA StartDue ==
  ASSUME OffsetsInv, NEW r \in Runs, Start(r)
  PROVE  OffsetsInv'
<1>1. RunsInv /\ RunsInv'
  BY StartStep DEF OffsetsInv
<1>2. PICK s \in Scenes : run' = [run EXCEPT ![r].scene = s, ![r].on = TRUE]
  BY DEF Start
<1>3. /\ told' = told /\ offsetOf' = offsetOf /\ run[r].ops = <<>>
  BY DEF Start, Idle
<1>4. DOMAIN run = Runs /\ DOMAIN run[r] = RunFields
  BY <1>1, RunIs
<1>5. run'[r].ops = <<>> /\ \A t \in Runs \ {r} : run'[t] = run[t]
  BY <1>2, <1>3, <1>4 DEF RunFields
<1>6. DueAt(r)
  BY <1>3, <1>5, DueIdle DEF DueAt
<1>. QED
  BY <1>1, <1>6, DueOK

LEMMA OffsetsInvInit == Init => OffsetsInv
<1>. SUFFICES ASSUME Init PROVE OffsetsInv
  OBVIOUS
<1>1. \A r \in Runs : run[r].ops = <<>>
  BY DEF Init, Idle
<1>. QED
  BY <1>1, RunsInvInit, DueIdle DEF OffsetsInv

LEMMA OffsetsStep ==
  ASSUME OffsetsInv, [Next]_vars
  PROVE  OffsetsInv'
<1>1. CASE UNCHANGED <<run, told, offsetOf>>
  BY <1>1 DEF OffsetsInv, RunsInv, Due
<1>2. ASSUME NEW r \in Runs, Start(r) PROVE OffsetsInv'
  BY <1>2, StartDue
<1>3. ASSUME NEW r \in Runs, Begin(r) PROVE OffsetsInv'
  BY <1>3, BeginDue
<1>4. ASSUME NEW r \in Runs, SendOut(r) PROVE OffsetsInv'
  BY <1>4, SendOutDue
<1>5. ASSUME NEW r \in Runs, SendNowhere(r) \/ SendRefused(r)
      PROVE  OffsetsInv'
  BY <1>5, FailedDue
<1>6. ASSUME NEW r \in Runs, SendRaises(r) PROVE OffsetsInv'
  BY <1>6, RaiseDue
<1>. QED
  BY <1>1, <1>2, <1>3, <1>4, <1>5, <1>6
     DEF Next, vars, LoseTransport, ClearTransport, FindTransport, DeletePreset

(* When the offsets of a container are all sent.                           *)
LEMMA AllSet ==
  ASSUME OffsetsInv, NEW r \in Runs, IsSet(r), told[r].quiet
  PROVE  LET a == Current(r)  op == Head(run[r].ops) IN
         /\ ChildOp(a, op)
         /\ \A d \in Devices : Fits(a, d, told[r].before[d], offsetOf[d])
<1>. DEFINE a == Current(r)  q == run[r]
<1>1. /\ Due(q, told[r], offsetOf) /\ IsList(q.ops) /\ q.ops # <<>>
      /\ a.kind = "offset_group"
      /\ \A i \in DOMAIN q.ops : q.ops[i].sender # "send_offset"
  BY RunIs DEF OffsetsInv, Sending, IsSet, Setting
<1>2. /\ \A i \in DOMAIN q.ops :
           q.ops[i].sender # "send_offset" => ChildOp(a, q.ops[i])
      /\ \A d \in Devices : \A w :
           Ends(q.ops, offsetOf[d], d, w) => Fits(a, d, told[r].before[d], w)
  BY <1>1 DEF Due, Current
<1>. HIDE DEF q, a
<1>3. ChildOp(a, Head(q.ops))
  <2>1. Len(q.ops) \in Nat /\ Len(q.ops) # 0 /\ DOMAIN q.ops = 1..Len(q.ops)
    BY <1>1, ListIs
  <2>2. 1 \in DOMAIN q.ops /\ Head(q.ops) = q.ops[1]
    BY <2>1
  <2>. QED
    BY <1>1, <1>2, <2>2
<1>4. ASSUME NEW d \in Devices PROVE Fits(a, d, told[r].before[d], offsetOf[d])
  <2>1. Ends(q.ops, offsetOf[d], d, offsetOf[d])
    BY <1>1 DEF Ends, Sets
  <2>. QED
    BY <1>2, <2>1
<1>. QED
  BY <1>3, <1>4 DEF a, q

(* Whichever packet sequence is the cheapest, once the offsets of a        *)
(* container are sent to nodes that heard them all, every participating    *)
(* node computes the offset the container's formula gives its group, and   *)
(* no other node was put into offset mode: for any devices, groups,        *)
(* formulas and values the store accepts (plan_offset_setup).              *)
THEOREM OffsetsArrive == Spec => []OffsetsReachParticipants
<1>1. OffsetsInv => OffsetsReachParticipants
  <2>. SUFFICES ASSUME OffsetsInv, NEW r \in Runs, IsSet(r), told[r].quiet,
                       NEW d \in Devices
                PROVE
                LET a == Current(r) IN
                IF Participates(a, d)
                THEN /\ NodeOffset(d) = Wanted(a.offset, GroupOf[d])
                     /\ (offsetOf[d].mode = "none") = (a.offset.mode = "none")
                ELSE offsetOf[d] \in {NoOffset, told[r].before[d]}
    BY DEF OffsetsReachParticipants
  <2>1. Fits(Current(r), d, told[r].before[d], offsetOf[d])
    BY AllSet
  <2>. QED
    BY <2>1 DEF Fits, Asked, NodeOffset
<1>. QED
  BY <1>1, OffsetsInvInit, OffsetsStep, PTL DEF Spec

(* A child is taken by every participating node it is for, whatever flags  *)
(* its preset was stored with, and by no other node unless the container   *)
(* clears offsets or found a node outside it in offset mode                *)
(* (force_offset_flag, and the acceptance gate of the firmware).           *)
THEOREM ChildrenAreContained == Spec => []ChildrenStayInside
<1>1. OffsetsInv => ChildrenStayInside
  <2>. SUFFICES ASSUME OffsetsInv, NEW r \in Runs, IsSet(r), told[r].quiet
                PROVE
                LET a == Current(r)  op == Head(run[r].ops) IN
                /\ \A d \in Devices :
                     IsFor(op, d) /\ Participates(a, d) => Accepts(op, d)
                /\ \/ a.offset.mode = "none"
                   \/ \E d \in Devices :
                        ~Participates(a, d) /\ told[r].before[d] # NoOffset
                   \/ \A d \in Devices : Accepts(op, d) => Participates(a, d)
    BY DEF ChildrenStayInside
  <2>. DEFINE a == Current(r)  op == Head(run[r].ops)
  <2>1. /\ ChildOp(a, op)
        /\ \A d \in Devices : Fits(a, d, told[r].before[d], offsetOf[d])
    BY AllSet
  <2>. HIDE DEF a, op
  <2>2. ASSUME NEW d \in Devices, IsFor(op, d), Participates(a, d)
        PROVE  Accepts(op, d)
    <3>1. (offsetOf[d].mode = "none") = (a.offset.mode = "none")
      BY <2>1, <2>2 DEF Fits, Asked
    <3>. QED
      BY <2>1, <2>2, <3>1 DEF ChildOp, Accepts
  <2>3. ASSUME a.offset.mode # "none", NEW d \in Devices, ~Participates(a, d),
               told[r].before[d] = NoOffset
        PROVE  ~Accepts(op, d)
    <3>1. offsetOf[d].mode = "none"
      BY <2>1, <2>3, PackedNone DEF Fits
    <3>. QED
      BY <2>1, <2>3, <3>1 DEF ChildOp, Accepts
  <2>4. /\ \A d \in Devices :
             IsFor(op, d) /\ Participates(a, d) => Accepts(op, d)
        /\ \/ a.offset.mode = "none"
           \/ \E d \in Devices :
                ~Participates(a, d) /\ told[r].before[d] # NoOffset
           \/ \A d \in Devices : Accepts(op, d) => Participates(a, d)
    BY <2>2, <2>3
  <2>. QED
    BY <2>4 DEF a, op
<1>. QED
  BY <1>1, OffsetsInvInit, OffsetsStep, PTL DEF Spec

=============================================================================
