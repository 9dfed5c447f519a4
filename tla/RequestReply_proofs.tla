------------------------ MODULE RequestReply_proofs -------------------------
(***************************************************************************)
(* Proofs about RequestReply for any callers, devices, opcodes and bounds: *)
(* type correctness, the registry's bookkeeping, the handling of the       *)
(* expectation, the attribution of replies, and that the retry loop        *)
(* implements RequestContract.                                             *)
(***************************************************************************)
EXTENDS RequestReply, SequenceTheorems, TLAPS

\* TypeOK is not inductive: that the retry loop keeps its counter in range
\* rests on where the caller is.
TriesInv ==
  /\ \A t \in Callers : pc[t] = "starting" => tries[t] < MaxAttempts
  /\ \A t \in Callers :
       pc[t] \notin {"idle", "starting", "casting", "cast"} => tries[t] > 0

TypeInv == TypeOK /\ TriesInv

LEMMA NoRequestType ==
  ASSUME NEW t \in Callers
  PROVE  NoRequest(t) \in Requests
BY RequestAssumption DEF NoRequest, Requests

LEMMA InboxAppend ==
  ASSUME inbox \in Seq(Events), NEW ev \in Events
  PROVE  Append(inbox, ev) \in Seq(Events)
BY AppendProperties

LEMMA InboxHead ==
  ASSUME inbox \in Seq(Events), inbox # <<>>
  PROVE  /\ Head(inbox) \in Events
         /\ Tail(inbox) \in Seq(Events)
BY HeadTailProperties

LEMMA TypeInit == Init => TypeInv
<1> SUFFICES ASSUME Init PROVE TypeInv
  OBVIOUS
<1>1. cur \in [Callers -> Requests]
  BY NoRequestType DEF Init
<1>2. inbox \in Seq(Events)
  BY DEF Init
<1>3. TriesInv
  BY RequestAssumption DEF Init, TriesInv
<1>4. /\ pc \in [Callers -> {"idle"}]
      /\ calls \in [Callers -> {0}]
      /\ tries \in [Callers -> {0}]
      /\ link \in [Devices -> {"unknown"}]
      /\ stash \in [Devices -> {{}}]
  BY DEF Init
<1>5. /\ mirror \in [Devices -> Values]
      /\ config \in [Devices -> Values]
  BY DEF Init
<1>6. /\ calls \in [Callers -> 0..MaxCalls]
      /\ tries \in [Callers -> 0..MaxAttempts]
      /\ states \in 0..MaxStates
  BY <1>4, RequestAssumption DEF Init
<1>7. stash \in [Devices -> SUBSET Values]
  BY <1>4
<1>8. TypeOK
  BY <1>1, <1>2, <1>4, <1>5, <1>6, <1>7 DEF Init, TypeOK, Locations
<1> QED BY <1>3, <1>8 DEF TypeInv

\* The steps of a caller.
LEMMA TypeCaller ==
  ASSUME TypeInv, NEW t \in Callers, Caller(t)
  PROVE  TypeInv'
<1> USE RequestAssumption DEF TypeInv, TypeOK, TriesInv, Locations,
        Transition,
        callerVars, rxVars, devVars, extVars
<1>1. ASSUME NEW d \in Devices, NEW o \in Ops, NEW v \in Values,
             NEW w \in Waits, Begin(t, d, o, v, w)
      PROVE  TypeInv'
  <2>1. [nr |-> IF w THEN 0 ELSE issued + 1, by |-> t, dev |-> d, op |-> o,
         val |-> v] \in Requests
    BY DEF Requests
  <2>2. cur' \in [Callers -> Requests]
    BY <1>1, <2>1 DEF Begin
  <2>3. stash' \in [Devices -> SUBSET Values]
    BY <1>1 DEF Begin
  <2>4. mishaps' \in SUBSET {"overlap", "restash", "expired"}
    BY <1>1 DEF Begin, Add
  <2>5. issued' \in Nat
    BY <1>1 DEF Begin
  <2>6. /\ pc' \in [Callers -> Locations]
        /\ calls' \in [Callers -> 0..MaxCalls]
        /\ tries' \in [Callers -> 0..MaxAttempts]
    BY <1>1 DEF Begin
  <2>7. TriesInv'
    BY <1>1 DEF Begin
  <2> QED BY <1>1, <2>2, <2>3, <2>4, <2>5, <2>6, <2>7 DEF Begin
<1>2. CASE Register(t)
  <2>1. cur[t] \in Requests /\ issued + 1 \in Nat
    OBVIOUS
  <2>2. [cur[t] EXCEPT !.nr = issued + 1] \in Requests
    BY <2>1 DEF Requests
  <2>5. cur' \in [Callers -> Requests] /\ cur'[t] \in Requests
    BY <1>2, <2>2 DEF Register
  <2>6. registry' \in SUBSET Requests
    BY <1>2, <2>5 DEF Register
  <2>3. completed' \in SUBSET [req : Requests, reply : Requests]
    BY <1>2 DEF Register, Forget
  <2>4. tries' \in [Callers -> 0..MaxAttempts] /\ TriesInv'
    BY <1>2 DEF Register
  <2>7. pc' \in [Callers -> Locations]
    BY <1>2 DEF Register
  <2> QED BY <1>2, <2>1, <2>3, <2>4, <2>5, <2>6, <2>7 DEF Register
<1>3. ASSUME NEW fate \in Fates, Transmit(t, fate) PROVE TypeInv'
  <2>1. cur[t] \in Requests /\ KeyOf(cur[t]) \in Keys
    BY DEF Requests, KeyOf, Keys
  <2>2. config' \in [Devices -> Values]
    BY <1>3, <2>1 DEF Transmit, Requests
  <2>3. fate \in {"ack", "nack"} => [kind |-> fate, of |-> {cur[t]}] \in Events
    BY <2>1 DEF Events
  <2>4. inbox' \in Seq(Events) /\ answered' \in SUBSET Keys
    <3>1. CASE fate \in {"ack", "nack"}
      <4>1. inbox' = Append(inbox, [kind |-> fate, of |-> {cur[t]}])
        BY <1>3, <3>1 DEF Transmit
      <4>2. inbox' \in Seq(Events)
        BY <2>3, <3>1, <4>1, InboxAppend
      <4> QED BY <1>3, <2>1, <3>1, <4>2 DEF Transmit
    <3>2. CASE fate \notin {"ack", "nack"}
      BY <1>3, <3>2 DEF Transmit
    <3> QED BY <3>1, <3>2
  <2>5. /\ pc' \in [Callers -> Locations]
        /\ TriesInv'
    BY <1>3 DEF Transmit
  <2> QED BY <1>3, <2>2, <2>4, <2>5 DEF Transmit
<1>4. CASE StampExpect(t)
  <2>1. {cur[t]} \in SUBSET Requests
    OBVIOUS
  <2>2. pc' \in [Callers -> Locations]
    BY <1>4 DEF StampExpect
  <2>3. TriesInv'
    BY <1>4 DEF StampExpect
  <2> QED BY <1>4, <2>1, <2>2, <2>3 DEF StampExpect
<1>5. CASE SendFails(t)
  BY <1>5 DEF SendFails
<1>6. CASE Wake(t)
  BY <1>6 DEF Wake
<1>7. CASE Expire(t)
  BY <1>7 DEF Expire
<1>8. CASE Cancel(t)
  BY <1>8 DEF Cancel
<1>9. CASE ReturnReply(t)
  BY <1>9 DEF ReturnReply, Forget
<1>10. CASE ReturnFailure(t)
  BY <1>10 DEF ReturnFailure, Forget
<1> QED BY <1>1, <1>2, <1>3, <1>4, <1>5, <1>6, <1>7, <1>8, <1>9, <1>10
        DEF Caller, Progress

\* The steps of the RX thread.
LEMMA TypeReader ==
  ASSUME TypeInv, Reader
  PROVE  TypeInv'
<1> USE RequestAssumption DEF TypeInv, TypeOK, TriesInv, RxStep,
        callerVars, rxVars, devVars, extVars
<1>1. CASE RxReply
  <2>1. Head(inbox) \in Events /\ Tail(inbox) \in Seq(Events)
    BY <1>1, InboxHead DEF RxReply
  <2>2. PICK r \in Head(inbox).of :
          /\ rxMatch' = Candidate(r)
          /\ rxAt' = IF Candidate(r) = {} THEN "update" ELSE "complete"
          /\ rxEvent' = {r}
    BY <1>1 DEF RxReply
  <2>3. Candidate(r) \in SUBSET Requests /\ r \in Requests
    BY <2>1 DEF Candidate, Events
  <2> QED BY <1>1, <2>1, <2>2, <2>3 DEF RxReply
<1>2. CASE RxComplete
  BY <1>2 DEF RxComplete
<1>3. CASE RxRemove
  BY <1>3 DEF RxRemove
<1>4. CASE RxUpdate
  <2>1. PICK r \in rxEvent :
       /\ link' = [link EXCEPT ![r.dev] = "online"]
       /\ IF r.op = CONFIG /\ rxOk
          THEN /\ stash' = [stash EXCEPT ![r.dev] = {}]
               /\ mirror' = [mirror EXCEPT ![r.dev] =
                    IF stash[r.dev] = {} THEN @
                    ELSE CHOOSE v \in stash[r.dev] : TRUE]
          ELSE UNCHANGED <<stash, mirror>>
    BY <1>4 DEF RxUpdate
  <2>2. r.dev \in Devices
    BY DEF Requests
  <2>3. stash[r.dev] # {} => (CHOOSE v \in stash[r.dev] : TRUE) \in Values
    BY <2>2
  <2>4. mirror' \in [Devices -> Values]
    BY ZenonT(60), <2>1, <2>2, <2>3
  <2>5. stash' \in [Devices -> SUBSET Values]
    BY <2>1, <2>2
  <2> QED BY <1>4, <2>1, <2>4, <2>5 DEF RxUpdate
<1>5. CASE RxReadExpect
  BY <1>5 DEF RxReadExpect
<1>6. CASE RxMarkOnline
  BY <1>6 DEF RxMarkOnline
<1>7. CASE RxState
  <2>1. Head(inbox) \in Events /\ Tail(inbox) \in Seq(Events)
    BY <1>7, InboxHead DEF RxState
  <2> QED BY <1>7, <2>1 DEF RxState
<1>8. CASE RxMarkOffline
  BY <1>8 DEF RxMarkOffline
<1>9. CASE RxClearExpect
  BY <1>9 DEF RxClearExpect
<1> QED BY <1>1, <1>2, <1>3, <1>4, <1>5, <1>6, <1>7, <1>8, <1>9 DEF Reader

LEMMA TypeStep == TypeInv /\ [Next]_vars => TypeInv'
<1> SUFFICES ASSUME TypeInv, [Next]_vars PROVE TypeInv'
  OBVIOUS
<1>1. ASSUME NEW kind \in {"window", "nonWindow"}, GatewayState(kind)
      PROVE  TypeInv'
  <2>1. [kind |-> kind, of |-> {}] \in Events
    BY DEF Events
  <2>2. inbox' \in Seq(Events)
    BY <1>1, <2>1, InboxAppend DEF GatewayState, TypeInv, TypeOK
  <2> QED BY <1>1, <2>2, RequestAssumption DEF GatewayState, TypeInv, TypeOK,
          TriesInv, callerVars, rxVars, devVars, extVars
<1>2. CASE UNCHANGED vars
  BY <1>2 DEF vars, callerVars, rxVars, devVars, extVars, TypeInv, TypeOK,
              TriesInv
<1> QED BY <1>1, <1>2, TypeCaller, TypeReader DEF Next, Gateway

LEMMA TypeInvariant == Spec => []TypeInv
BY TypeInit, TypeStep, PTL DEF Spec

\* Every variable of RequestReply stays in its type; in particular no call
\* makes more attempts than MaxAttempts.
THEOREM TypeCorrect == Spec => []TypeOK
<1>1. TypeInv => TypeOK
  BY DEF TypeInv
<1> QED BY <1>1, TypeInvariant, PTL

-----------------------------------------------------------------------------
(* The phases of the RX thread, and the expectation.                       *)

\* There is one expectation; the RX thread handles one event, and clears
\* only an expectation that event matched or swept.
RxInv ==
  /\ \A p, q \in expect : p = q
  /\ \A p, q \in rxEvent : p = q
  /\ \A p, q \in rxExpect : p = q
  /\ rxAt \in {"complete", "remove", "update", "expect"} => rxEvent # {}
  /\ rxAt \in {"ready", "sweep"} => rxEvent = {}
  /\ rxAt \in {"markOnline", "clear"} =>
       \A r \in rxEvent, p \in rxExpect : KeyOf(r) = KeyOf(p)

LEMMA RxInvariant == Spec => []RxInv
<1>1. Init => RxInv
  BY DEF Init, RxInv
<1>2. RxInv /\ [Next]_vars => RxInv'
  <2> SUFFICES ASSUME RxInv, [Next]_vars PROVE RxInv'
    OBVIOUS
  <2> USE DEF RxInv, RxStep, callerVars, rxVars
  <2>1. ASSUME NEW t \in Callers, StampExpect(t) PROVE RxInv'
    BY <2>1 DEF StampExpect
  <2>2. ASSUME NEW t \in Callers, Caller(t), ~StampExpect(t) PROVE RxInv'
    BY <2>2 DEF Caller, Progress, Begin, Register, Transmit, SendFails, Wake,
                Expire, Cancel, ReturnReply, ReturnFailure
  <2>3. CASE RxReply
    BY <2>3 DEF RxReply
  <2>4. CASE RxComplete \/ RxRemove \/ RxUpdate
    BY <2>4 DEF RxComplete, RxRemove, RxUpdate
  <2>5. CASE RxReadExpect
    BY <2>5 DEF RxReadExpect
  <2>6. CASE RxMarkOnline \/ RxState \/ RxMarkOffline
    BY <2>6 DEF RxMarkOnline, RxState, RxMarkOffline
  <2>7. CASE RxClearExpect
    BY <2>7 DEF RxClearExpect
  <2>8. CASE Gateway
    BY <2>8 DEF Gateway, GatewayState
  <2>9. CASE UNCHANGED vars
    BY <2>9 DEF vars
  <2> QED BY <2>1, <2>2, <2>3, <2>4, <2>5, <2>6, <2>7, <2>8, <2>9
          DEF Next, Reader
<1> QED BY <1>1, <1>2, PTL DEF Spec

\* The RX thread never wipes an expectation that was stamped after the one
\* it has read: compare-and-clear does its job for every interleaving.
THEOREM ExpectationsAreNotLost == Spec => NoSilentLoss
<1>1. RxInv /\ [Next]_vars =>
        [\A p \in expect : expect' = {} =>
           /\ rxAt = "clear" /\ rxExpect = {p}
           /\ \A r \in rxEvent : KeyOf(r) = KeyOf(p)]_vars
  <2> SUFFICES ASSUME RxInv, Next, NEW p \in expect, expect' = {}
               PROVE  /\ rxAt = "clear" /\ rxExpect = {p}
                      /\ \A r \in rxEvent : KeyOf(r) = KeyOf(p)
    OBVIOUS
  <2>3. ASSUME NEW t \in Callers, Caller(t) PROVE FALSE
    BY <2>3 DEF Caller, Progress, Begin, Register, Transmit, StampExpect,
                SendFails, Wake, Expire, Cancel, ReturnReply, ReturnFailure
  <2>4. ~Gateway
    BY DEF Gateway, GatewayState
  <2>5. /\ ~RxReply /\ ~RxComplete /\ ~RxRemove /\ ~RxUpdate
        /\ ~RxReadExpect /\ ~RxMarkOnline /\ ~RxState /\ ~RxMarkOffline
    BY DEF RxReply, RxComplete, RxRemove, RxUpdate, RxReadExpect,
           RxMarkOnline, RxState, RxMarkOffline
  <2>1. RxClearExpect
    BY <2>3, <2>4, <2>5 DEF Next, Reader
  <2>2. rxAt = "clear" /\ expect = rxExpect
    BY <2>1 DEF RxClearExpect, RxStep
  <2> QED BY <2>2 DEF RxInv
<1> QED BY <1>1, RxInvariant, PTL DEF Spec, NoSilentLoss

-----------------------------------------------------------------------------
(* The registry.                                                           *)

\* The strengthening of RegistryMatchesWaiters: callers own their requests,
\* identities are not used twice, and what the RX thread is about to remove
\* has its reply if its caller still waits for it.
RegistryInv ==
  /\ RegistryMatchesWaiters
  /\ \A t \in Callers : cur[t].by = t
  /\ \A r \in registry \cup rxMatch : r.nr <= issued
  /\ rxAt = "remove" =>
       \A q \in rxMatch :
         q = cur[q.by] /\ Registered(q.by) => HasReply(q)

LEMMA RegistryInit == Init => RegistryInv
BY DEF Init, RegistryInv, RegistryMatchesWaiters, Registered, NoRequest

LEMMA ForgetKeeps ==
  ASSUME NEW t \in Callers, NEW r, r.by # t, HasReply(r),
         completed' = Forget(t)
  PROVE  HasReply(r)'
BY DEF HasReply, Forget

\* A step that moves only pcs, and none in or out of the registered ones.
LEMMA RegistryFrame ==
  ASSUME TypeInv, RegistryInv,
         UNCHANGED <<cur, issued, registry, completed, rxAt, rxMatch>>,
         \A u \in Callers :
           /\ Registered(u)' => Registered(u)
           /\ Registered(u) \/ pc[u] = "matched" =>
                Registered(u)' \/ pc'[u] = "matched"
  PROVE  RegistryInv'
<1>1. \A r : HasReply(r)' <=> HasReply(r)
  BY DEF HasReply
<1>2. \A r \in registry \cup rxMatch : r.by \in Callers
  BY DEF TypeInv, TypeOK, Requests
<1>3. RegistryMatchesWaiters'
  BY <1>1, <1>2 DEF RegistryInv, RegistryMatchesWaiters
<1> QED BY <1>1, <1>2, <1>3 DEF RegistryInv

LEMMA RegistryCaller ==
  ASSUME TypeInv, RegistryInv, NEW t \in Callers, Caller(t)
  PROVE  RegistryInv'
<1> USE DEF Transition, rxVars
<1>0. /\ \A r \in registry \cup rxMatch : r \in Requests /\ r.by \in Callers
      /\ cur \in [Callers -> Requests] /\ pc \in [Callers -> Locations]
      /\ issued \in Nat
  BY DEF TypeInv, TypeOK, Requests
<1>1. ASSUME NEW d \in Devices, NEW o \in Ops, NEW v \in Values,
             NEW w \in Waits, Begin(t, d, o, v, w)
      PROVE  RegistryInv'
  <2>1. /\ cur'[t].by = t
        /\ \A u \in Callers \ {t} : cur'[u] = cur[u] /\ pc'[u] = pc[u]
        /\ pc[t] = "idle" /\ pc'[t] \in {"starting", "casting"}
        /\ issued' \in {issued, issued + 1}
        /\ UNCHANGED <<registry, completed, rxAt, rxMatch>>
    BY <1>0, <1>1 DEF Begin
  <2>2. \A r : HasReply(r)' <=> HasReply(r)
    BY <2>1 DEF HasReply
  <2>3. \A r \in registry : r.by # t
    BY <1>0, <2>1 DEF RegistryInv, RegistryMatchesWaiters, Registered
  <2>4. ~Registered(t)'
    BY <2>1 DEF Registered
  <2>5. RegistryMatchesWaiters'
    BY <1>0, <2>1, <2>2, <2>3, <2>4
       DEF RegistryInv, RegistryMatchesWaiters, Registered
  <2>6. \A r \in registry \cup rxMatch : r.nr <= issued'
    BY <1>0, <2>1 DEF RegistryInv, Requests
  <2> QED BY <1>0, <2>1, <2>2, <2>4, <2>5, <2>6 DEF RegistryInv, Registered
<1>2. CASE Register(t)
  <2>1. /\ cur'[t].nr = issued + 1 /\ cur'[t].by = t
        /\ \A u \in Callers \ {t} : cur'[u] = cur[u] /\ pc'[u] = pc[u]
        /\ pc[t] = "starting" /\ pc'[t] = "registered"
        /\ registry' = registry \cup {cur'[t]}
        /\ issued' = issued + 1
        /\ completed' = Forget(t)
        /\ UNCHANGED <<rxAt, rxMatch>>
    BY <1>0, <1>2 DEF Register, Requests, RegistryInv
  <2>2. \A r \in registry : r.by # t
    BY <1>0, <2>1 DEF RegistryInv, RegistryMatchesWaiters, Registered
  <2>3. \A r : r.by # t /\ HasReply(r) => HasReply(r)'
    BY <2>1, ForgetKeeps
  <2>4. \A u \in Callers \ {t} : cur'[u].by # t
    BY <2>1 DEF RegistryInv
  <2>5. \A q \in rxMatch : q # cur'[t]
    BY <1>0, <2>1 DEF RegistryInv, Requests
  <2>6. RegistryMatchesWaiters'
    BY <1>0, <2>1, <2>2, <2>3, <2>4
       DEF RegistryInv, RegistryMatchesWaiters, Registered
  <2>7. \A r \in registry' \cup rxMatch : r.nr <= issued'
    BY <1>0, <2>1 DEF RegistryInv, Requests
  <2>8. rxAt = "remove" =>
          \A q \in rxMatch :
            q = cur'[q.by] /\ Registered(q.by)' => HasReply(q)'
    BY <1>0, <2>1, <2>3, <2>5 DEF RegistryInv, Registered
  <2> QED BY <2>1, <2>6, <2>7, <2>8 DEF RegistryInv
<1>3. ASSUME NEW fate \in Fates, Transmit(t, fate) PROVE RegistryInv'
  BY <1>0, <1>3, RegistryFrame DEF Transmit, Registered
<1>4. CASE StampExpect(t) \/ SendFails(t)
  BY <1>0, <1>4, RegistryFrame DEF StampExpect, SendFails, Registered
<1>5. CASE Wake(t) \/ Expire(t)
  BY <1>0, <1>5, RegistryFrame DEF Wake, Expire, Registered
<1>6. CASE Cancel(t)
  <2>1. /\ registry' = registry \ {cur[t]}
        /\ \A u \in Callers \ {t} : pc'[u] = pc[u]
        /\ pc'[t] \in {"replied", "starting", "failed"}
        /\ UNCHANGED <<cur, issued, completed, rxAt, rxMatch>>
    BY <1>0, <1>6 DEF Cancel
  <2>2. \A r \in registry' : r.by # t
    BY <1>0, <2>1 DEF RegistryInv, RegistryMatchesWaiters
  <2>3. \A r : HasReply(r)' <=> HasReply(r)
    BY <2>1 DEF HasReply
  <2>4. \A u \in Callers \ {t} : cur[u] \in registry => cur[u] \in registry'
    BY <2>1 DEF RegistryInv
  <2>5. RegistryMatchesWaiters'
    BY <1>0, <2>1, <2>2, <2>3, <2>4
       DEF RegistryInv, RegistryMatchesWaiters, Registered
  <2> QED BY <1>0, <2>1, <2>3, <2>5 DEF RegistryInv, Registered
<1>7. CASE ReturnReply(t) \/ ReturnFailure(t)
  <2>1. /\ \A u \in Callers \ {t} : pc'[u] = pc[u]
        /\ pc'[t] = "idle" /\ pc[t] \in {"replied", "failed"}
        /\ completed' = Forget(t)
        /\ UNCHANGED <<cur, issued, registry, rxAt, rxMatch>>
    BY <1>0, <1>7 DEF ReturnReply, ReturnFailure
  <2>2. \A r \in registry : r.by # t
    BY <1>0, <2>1 DEF RegistryInv, RegistryMatchesWaiters, Registered
  <2>3. \A r : r.by # t /\ HasReply(r) => HasReply(r)'
    BY <2>1, ForgetKeeps
  <2>4. \A u \in Callers \ {t} : cur[u].by # t
    BY DEF RegistryInv
  <2>5. RegistryMatchesWaiters'
    BY <1>0, <2>1, <2>2, <2>3, <2>4
       DEF RegistryInv, RegistryMatchesWaiters, Registered
  <2> QED BY <1>0, <2>1, <2>3, <2>5 DEF RegistryInv, Registered
<1> QED BY <1>1, <1>2, <1>3, <1>4, <1>5, <1>6, <1>7 DEF Caller, Progress

LEMMA RegistryReader ==
  ASSUME TypeInv, RxInv, RegistryInv, Reader
  PROVE  RegistryInv'
<1> USE DEF TypeInv, TypeOK, RegistryInv, RegistryMatchesWaiters, Registered,
        RxStep, callerVars, rxVars
<1>1. CASE RxReply
  <2>1. rxMatch' \subseteq registry /\ rxAt' \in {"update", "complete"}
    BY <1>1 DEF RxReply, Candidate
  <2> QED BY <1>1, <2>1 DEF RxReply, HasReply
<1>2. CASE RxComplete
  <2>1. \A r : HasReply(r) => HasReply(r)'
    BY <1>2 DEF RxComplete, HasReply
  <2>2. \A q \in rxMatch : HasReply(q)'
    <3>1. PICK r \in rxEvent : TRUE
      BY <1>2 DEF RxComplete, RxInv
    <3>2. ASSUME NEW q \in rxMatch PROVE \E c \in completed' : c.req = q
      <4>1. [req |-> q, reply |-> r] \in completed'
        BY <1>2 DEF RxComplete
      <4> QED BY <4>1
    <3> QED BY <3>2 DEF HasReply
  <2> QED BY <1>2, <2>1, <2>2 DEF RxComplete
<1>3. CASE RxRemove
  <2>1. \A r \in registry \cup rxMatch : r.by \in Callers
    BY DEF Requests
  <2>2. \A t \in Callers : Registered(t) /\ cur[t] \in rxMatch =>
                             HasReply(cur[t])
    BY <1>3, <2>1 DEF RxRemove
  <2> QED BY <1>3, <2>2 DEF RxRemove, HasReply
<1>4. CASE RxUpdate
  BY <1>4 DEF RxUpdate, HasReply
<1>5. CASE RxReadExpect \/ RxMarkOnline \/ RxState \/ RxMarkOffline
           \/ RxClearExpect
  BY <1>5 DEF RxReadExpect, RxMarkOnline, RxState, RxMarkOffline,
              RxClearExpect, HasReply
<1> QED BY <1>1, <1>2, <1>3, <1>4, <1>5 DEF Reader

LEMMA RegistryInvariant == Spec => []RegistryInv
<1>1. TypeInv /\ RxInv /\ RegistryInv /\ [Next]_vars => RegistryInv'
  <2> SUFFICES ASSUME TypeInv, RxInv, RegistryInv, [Next]_vars
               PROVE  RegistryInv'
    OBVIOUS
  <2>1. CASE Gateway \/ UNCHANGED vars
    BY <2>1, RegistryFrame
       DEF Gateway, GatewayState, vars, callerVars, rxVars, Registered
  <2> QED BY <2>1, RegistryCaller, RegistryReader DEF Next
<1> QED BY <1>1, RegistryInit, TypeInvariant, RxInvariant, PTL DEF Spec

\* The registry holds the requests that are waited for, and no other,
\* however the callers and the RX thread interleave.
THEOREM RegistryIsExact == Spec => []RegistryMatchesWaiters
<1>1. RegistryInv => RegistryMatchesWaiters
  BY DEF RegistryInv
<1> QED BY <1>1, RegistryInvariant, PTL

-----------------------------------------------------------------------------
(* The replies on their way to the RX thread.                              *)

Incoming == UNION {inbox[i].of : i \in 1..Len(inbox)}

LEMMA IncomingTail ==
  ASSUME inbox \in Seq(Events), inbox # <<>>, inbox' = Tail(inbox)
  PROVE  /\ Head(inbox).of \subseteq Incoming
         /\ Incoming' \subseteq Incoming
<1>1. /\ Len(inbox) \in Nat \ {0} /\ Head(inbox) = inbox[1]
      /\ Len(inbox') = Len(inbox) - 1
      /\ \A i \in 1..Len(inbox') : inbox'[i] = inbox[i + 1]
  BY HeadTailProperties, EmptySeq
<1>2. 1 \in 1..Len(inbox)
  BY <1>1
<1>3. \A i \in 1..Len(inbox') : i + 1 \in 1..Len(inbox)
  BY <1>1
<1> QED BY <1>1, <1>2, <1>3 DEF Incoming

LEMMA IncomingAppend ==
  ASSUME inbox \in Seq(Events), NEW ev \in Events, inbox' = Append(inbox, ev)
  PROVE  Incoming' = Incoming \cup ev.of
<1>1. /\ Len(inbox) \in Nat /\ Len(inbox') = Len(inbox) + 1
      /\ \A i \in 1..Len(inbox) : inbox'[i] = inbox[i]
      /\ inbox'[Len(inbox) + 1] = ev
  BY AppendProperties, LenProperties
<1>2. 1..Len(inbox') = (1..Len(inbox)) \cup {Len(inbox) + 1}
  BY <1>1
<1> QED BY <1>1, <1>2 DEF Incoming

\* What a transmission adds.
LEMMA TransmitIncoming ==
  ASSUME TypeInv, NEW t \in Callers, NEW fate \in Fates, Transmit(t, fate)
  PROVE  \/ /\ Incoming' = Incoming \cup {cur[t]}
            /\ answered' = answered \cup {KeyOf(cur[t])}
         \/ Incoming' = Incoming /\ answered' = answered
<1>1. cur[t] \in Requests
  BY DEF TypeInv, TypeOK
<1>2. CASE fate \in {"ack", "nack"}
  <2>1. [kind |-> fate, of |-> {cur[t]}] \in Events
    BY <1>1, <1>2 DEF Events
  <2>2. /\ inbox' = Append(inbox, [kind |-> fate, of |-> {cur[t]}])
        /\ answered' = answered \cup {KeyOf(cur[t])}
    BY <1>2 DEF Transmit
  <2> QED BY <2>1, <2>2, IncomingAppend DEF TypeInv, TypeOK
<1>3. CASE fate \notin {"ack", "nack"}
  BY <1>3 DEF Transmit, Incoming
<1> QED BY <1>2, <1>3

LEMMA StateIncoming ==
  ASSUME TypeInv, Gateway
  PROVE  Incoming' = Incoming
<1>1. PICK kind \in {"window", "nonWindow"} : GatewayState(kind)
  BY DEF Gateway
<1>2. [kind |-> kind, of |-> {}] \in Events
  BY DEF Events
<1> QED BY <1>1, <1>2, IncomingAppend DEF GatewayState, TypeInv, TypeOK

LEMMA InitIncoming == Init => Incoming = {}
BY EmptySeq DEF Init, Incoming

\* Whatever completes a request is a reply some device has given to its
\* device and opcode.
AnsweredInv ==
  /\ \A r \in Incoming \cup rxEvent : KeyOf(r) \in answered
  /\ \A c \in completed : KeyOf(c.req) \in answered
  /\ rxAt = "complete" =>
       \A q \in rxMatch, r \in rxEvent : KeyOf(q) = KeyOf(r)
  /\ \A t \in Callers :
       pc[t] \in {"matched", "replied"} => HasReply(cur[t])

LEMMA AnsweredInvariant == Spec => []AnsweredInv
<1>1. Init => AnsweredInv
  BY InitIncoming DEF Init, AnsweredInv
<1>2. TypeInv /\ RegistryInv /\ AnsweredInv /\ [Next]_vars => AnsweredInv'
  <2> SUFFICES ASSUME TypeInv, RegistryInv, AnsweredInv, [Next]_vars
               PROVE  AnsweredInv'
    OBVIOUS
  <2> USE DEF RxStep, Transition, callerVars, rxVars, extVars
  <2>0. /\ cur \in [Callers -> Requests] /\ pc \in [Callers -> Locations]
        /\ inbox \in Seq(Events)
        /\ \A t \in Callers : cur[t].by = t
    BY DEF TypeInv, TypeOK, RegistryInv
  <2>1. ASSUME NEW t \in Callers, NEW d \in Devices, NEW o \in Ops,
               NEW v \in Values, NEW w \in Waits, Begin(t, d, o, v, w)
        PROVE  AnsweredInv'
    BY <2>0, <2>1 DEF Begin, AnsweredInv, Incoming, HasReply
  <2>2. ASSUME NEW t \in Callers,
               Register(t) \/ ReturnReply(t) \/ ReturnFailure(t)
        PROVE  AnsweredInv'
    <3>1. /\ completed' = Forget(t)
          /\ \A u \in Callers \ {t} : cur'[u] = cur[u] /\ pc'[u] = pc[u]
          /\ pc'[t] \in {"registered", "idle"}
          /\ UNCHANGED <<rxAt, rxEvent, rxMatch, inbox, answered>>
      BY <2>0, <2>2 DEF Register, ReturnReply, ReturnFailure
    <3>2. \A r : r.by # t /\ HasReply(r) => HasReply(r)'
      BY <3>1, ForgetKeeps
    <3>3. Incoming' = Incoming /\ completed' \subseteq completed
      BY <3>1 DEF Incoming, Forget
    <3> QED BY <2>0, <3>1, <3>2, <3>3 DEF AnsweredInv
  <2>3. ASSUME NEW t \in Callers, NEW fate \in Fates, Transmit(t, fate)
        PROVE  AnsweredInv'
    <3>1. /\ \A u \in Callers : pc'[u] \in {"matched", "replied"} =>
                                  pc[u] \in {"matched", "replied"}
          /\ UNCHANGED <<rxAt, rxEvent, rxMatch, completed, cur>>
      BY <2>0, <2>3 DEF Transmit
    <3> QED BY <2>3, <3>1, TransmitIncoming DEF AnsweredInv, HasReply
  <2>4. ASSUME NEW t \in Callers,
               StampExpect(t) \/ SendFails(t) \/ Wake(t) \/ Expire(t)
                 \/ Cancel(t)
        PROVE  AnsweredInv'
    BY <2>0, <2>4 DEF StampExpect, SendFails, Wake, Expire, Cancel,
                      AnsweredInv, Incoming, HasReply
  <2>5. CASE RxReply
    <3>1. /\ Head(inbox).of \subseteq Incoming
          /\ Incoming' \subseteq Incoming
      BY <2>0, <2>5, IncomingTail DEF RxReply
    <3>2. PICK r \in Head(inbox).of :
            rxMatch' = Candidate(r) /\ rxEvent' = {r}
      BY <2>5 DEF RxReply
    <3>3. UNCHANGED <<pc, cur, completed, answered>>
      BY <2>5 DEF RxReply
    <3> QED BY <3>1, <3>2, <3>3 DEF AnsweredInv, HasReply, Candidate
  <2>6. CASE RxComplete
    <3>1. \A r : HasReply(r) => HasReply(r)'
      BY <2>6 DEF RxComplete, HasReply
    <3>2. \A c \in completed' : KeyOf(c.req) \in answered
      BY <2>6 DEF RxComplete, AnsweredInv
    <3> QED BY <2>6, <3>1, <3>2 DEF RxComplete, AnsweredInv, Incoming
  <2>7. CASE RxRemove \/ RxUpdate \/ RxReadExpect \/ RxMarkOnline
               \/ RxMarkOffline \/ RxClearExpect
    BY <2>7 DEF RxRemove, RxUpdate, RxReadExpect, RxMarkOnline,
                RxMarkOffline, RxClearExpect, AnsweredInv, Incoming, HasReply
  <2>8. CASE RxState
    <3>1. Incoming' \subseteq Incoming
      BY <2>0, <2>8, IncomingTail DEF RxState
    <3> QED BY <2>8, <3>1 DEF RxState, AnsweredInv, HasReply
  <2>9. CASE Gateway
    BY <2>9, StateIncoming DEF Gateway, GatewayState, AnsweredInv, HasReply
  <2>10. CASE UNCHANGED vars
    BY <2>10 DEF vars, AnsweredInv, Incoming, HasReply
  <2> QED BY <2>1, <2>2, <2>3, <2>4, <2>5, <2>6, <2>7, <2>8, <2>9, <2>10
          DEF Next, Caller, Progress, Reader
<1> QED BY <1>1, <1>2, TypeInvariant, RegistryInvariant, PTL DEF Spec

-----------------------------------------------------------------------------
(* The retry loop implements RequestContract.                              *)

\* A step that the contract does not see.
LEMMA ContractStutter ==
  ASSUME UNCHANGED <<tries, answered>>,
         \A t \in Callers : Phase(t)' = Phase(t),
         \A t \in Callers : KeyOf(cur[t])' = KeyOf(cur[t])
  PROVE  UNCHANGED <<phases, askedKey, attempts, answered>>
BY DEF phases, askedKey, attempts

\* The implementation's variables at t change, the others' do not.
LEMMA ContractOthers ==
  ASSUME TypeInv, NEW t \in Callers,
         \A u \in Callers \ {t} :
           pc'[u] = pc[u] /\ cur'[u] = cur[u] /\ tries'[u] = tries[u]
  PROVE  /\ phases' = [phases EXCEPT ![t] = Phase(t)']
         /\ askedKey' = [askedKey EXCEPT ![t] = KeyOf(cur'[t])]
         /\ attempts' = [attempts EXCEPT ![t] =
                           IF Phase(t)' = "idle" THEN 0 ELSE tries'[t]]
BY DEF phases, askedKey, attempts, Phase, KeyOf

THEOREM RetriesImplementContract == Spec => ImplementsContract
<1>1. Init => Contract!Init
  <2> SUFFICES ASSUME Init PROVE Contract!Init
    OBVIOUS
  <2>1. \A t \in Callers : Phase(t) = "idle" /\ KeyOf(cur[t]) \in Keys
    BY NoRequestType DEF Init, Phase, KeyOf, Keys, Requests
  <2> QED BY <2>1 DEF Init, Contract!Init, phases, askedKey, attempts
<1>2. TypeInv /\ AnsweredInv /\ [Next]_vars => [Contract!Next]_(Contract!vars)
  <2> SUFFICES ASSUME TypeInv, AnsweredInv, [Next]_vars
               PROVE  Contract!Next \/ UNCHANGED Contract!vars
    OBVIOUS
  <2> USE DEF Transition
  <2>0. /\ cur \in [Callers -> Requests] /\ pc \in [Callers -> Locations]
        /\ tries \in [Callers -> 0..MaxAttempts]
        /\ \A t \in Callers : KeyOf(cur[t]) \in Keys
    BY DEF TypeInv, TypeOK, KeyOf, Keys, Requests
  <2>1. ASSUME NEW t \in Callers, NEW d \in Devices, NEW o \in Ops,
               NEW v \in Values, NEW w \in Waits, Begin(t, d, o, v, w)
        PROVE  Contract!Next
    <3>1. /\ \A u \in Callers \ {t} :
               pc'[u] = pc[u] /\ cur'[u] = cur[u] /\ tries'[u] = tries[u]
          /\ pc[t] = "idle" /\ pc'[t] = (IF w THEN "starting" ELSE "casting")
          /\ tries'[t] = 0 /\ KeyOf(cur'[t]) = <<d, o>>
          /\ UNCHANGED answered
      BY <2>0, <2>1 DEF Begin, KeyOf, extVars
    <3>2. <<d, o>> \in Keys
      BY DEF Keys
    <3>3. /\ Phase(t) = "idle"
          /\ Phase(t)' = (IF w THEN "open" ELSE "idle")
      BY <3>1 DEF Phase
    <3>4. /\ phases[t] = "idle" /\ attempts[t] = 0
          /\ attempts = [attempts EXCEPT ![t] = 0]
          /\ phases = [phases EXCEPT ![t] = "idle"]
      BY <3>3 DEF phases, attempts
    <3>5. CASE w
      <4>1. Contract!Begin(t)
        BY <3>1, <3>2, <3>3, <3>4, <3>5, ContractOthers DEF Contract!Begin
      <4> QED BY <4>1 DEF Contract!Next
    <3>6. CASE ~w
      <4>1. Contract!Cast(t)
        BY <3>1, <3>2, <3>3, <3>4, <3>6, ContractOthers DEF Contract!Cast
      <4> QED BY <4>1 DEF Contract!Next
    <3> QED BY <3>5, <3>6
  <2>2. ASSUME NEW t \in Callers, Register(t) PROVE Contract!Next
    <3>1. /\ \A u \in Callers \ {t} :
               pc'[u] = pc[u] /\ cur'[u] = cur[u] /\ tries'[u] = tries[u]
          /\ pc[t] = "starting" /\ pc'[t] = "registered"
          /\ tries'[t] = tries[t] + 1 /\ tries[t] < MaxAttempts
          /\ KeyOf(cur'[t]) = KeyOf(cur[t])
          /\ UNCHANGED answered
      BY <2>0, <2>2
         DEF Register, KeyOf, extVars, TypeInv, TriesInv, Requests
    <3>2. Phase(t) = "open" /\ Phase(t)' = "open"
      BY <3>1 DEF Phase
    <3>3. /\ phases[t] = "open" /\ attempts[t] = tries[t]
          /\ phases = [phases EXCEPT ![t] = "open"]
          /\ askedKey = [askedKey EXCEPT ![t] = KeyOf(cur[t])]
      BY <3>2 DEF phases, attempts, askedKey
    <3>4. Contract!Attempt(t)
      BY <3>1, <3>2, <3>3, ContractOthers DEF Contract!Attempt
    <3> QED BY <3>4 DEF Contract!Next
  <2>3. ASSUME NEW t \in Callers, NEW fate \in Fates, Transmit(t, fate)
        PROVE  Contract!Next \/ UNCHANGED Contract!vars
    <3>1. /\ UNCHANGED <<tries, cur>>
          /\ \A u \in Callers : Phase(u)' = Phase(u)
      BY <2>0, <2>3 DEF Transmit, Phase
    <3>2. UNCHANGED <<phases, askedKey, attempts>>
      BY <3>1 DEF phases, askedKey, attempts
    <3>3. \/ answered' = answered \cup {KeyOf(cur[t])}
          \/ answered' = answered
      BY <2>3 DEF Transmit
    <3>4. CASE answered' = answered \cup {KeyOf(cur[t])}
      <4>1. Contract!DeviceReplies(KeyOf(cur[t]))
        BY <3>2, <3>4 DEF Contract!DeviceReplies
      <4> QED BY <2>0, <4>1 DEF Contract!Next
    <3> QED BY <3>2, <3>3, <3>4 DEF Contract!vars
  <2>4. ASSUME NEW t \in Callers,
               StampExpect(t) \/ SendFails(t) \/ Wake(t) \/ Expire(t)
        PROVE  UNCHANGED Contract!vars
    <3>1. /\ UNCHANGED <<tries, cur, answered>>
          /\ \A u \in Callers : Phase(u)' = Phase(u)
      BY <2>0, <2>4
         DEF StampExpect, SendFails, Wake, Expire, Phase, extVars
    <3> QED BY <3>1, ContractStutter DEF Contract!vars
  <2>5. ASSUME NEW t \in Callers, Cancel(t)
        PROVE  Contract!Next \/ UNCHANGED Contract!vars
    <3>1. /\ UNCHANGED <<tries, cur, answered>>
          /\ \A u \in Callers \ {t} : pc'[u] = pc[u]
          /\ Phase(t) = "open" /\ phases[t] = "open"
          /\ attempts[t] = tries[t] /\ tries[t] > 0
      BY <2>0, <2>5
         DEF Cancel, Phase, extVars, phases, attempts, TypeInv, TriesInv
    <3>2. CASE pc[t] = "matched"
      <4>1. Phase(t)' = "replied" /\ HasReply(cur[t])
        BY <2>0, <2>5, <3>2 DEF Cancel, Phase, AnsweredInv
      <4>2. askedKey[t] \in answered
        BY <4>1 DEF HasReply, AnsweredInv, askedKey
      <4>3. Contract!Succeed(t)
        BY <3>1, <4>1, <4>2, ContractOthers
           DEF Contract!Succeed, attempts, askedKey
      <4> QED BY <4>3 DEF Contract!Next
    <3>3. CASE pc[t] = "expired" /\ tries[t] < MaxAttempts
      <4>1. pc'[t] = "starting"
        BY <2>0, <2>5, <3>3, RequestAssumption DEF Cancel
      <4>2. \A u \in Callers : Phase(u)' = Phase(u)
        BY <3>1, <4>1 DEF Phase
      <4> QED BY <3>1, <4>2, ContractStutter DEF Contract!vars
    <3>4. CASE pc[t] = "expired" /\ tries[t] >= MaxAttempts
      <4>1. Phase(t)' = "failed" /\ tries[t] = MaxAttempts
        BY <2>0, <2>5, <3>4, RequestAssumption DEF Cancel, Phase
      <4>2. Contract!Fail(t)
        BY <3>1, <4>1, ContractOthers DEF Contract!Fail, attempts, askedKey
      <4> QED BY <4>2 DEF Contract!Next
    <3> QED BY <2>5, <3>2, <3>3, <3>4 DEF Cancel
  <2>6. ASSUME NEW t \in Callers, ReturnReply(t) \/ ReturnFailure(t)
        PROVE  Contract!Next
    <3>1. /\ UNCHANGED <<tries, cur, answered>>
          /\ \A u \in Callers \ {t} : pc'[u] = pc[u]
          /\ pc[t] \in {"replied", "failed"} /\ pc'[t] = "idle"
      BY <2>0, <2>6 DEF ReturnReply, ReturnFailure, extVars
    <3>2. phases[t] \in {"replied", "failed"} /\ Phase(t)' = "idle"
      BY <3>1 DEF phases, Phase
    <3>3. askedKey' = askedKey
      BY <3>1 DEF askedKey
    <3>4. Contract!Return(t)
      BY <3>1, <3>2, <3>3, ContractOthers DEF Contract!Return
    <3> QED BY <3>4 DEF Contract!Next
  <2>7. CASE Reader \/ Gateway \/ UNCHANGED vars
    <3>1. UNCHANGED <<tries, cur, pc, answered>>
      BY <2>7 DEF Reader, RxReply, RxComplete, RxRemove, RxUpdate,
         RxReadExpect, RxMarkOnline, RxState, RxMarkOffline, RxClearExpect,
         Gateway, GatewayState, callerVars, extVars, vars
    <3>2. \A t \in Callers : Phase(t)' = Phase(t)
      BY <3>1 DEF Phase
    <3> QED BY <3>1, <3>2, ContractStutter DEF Contract!vars
  <2> QED BY <2>1, <2>2, <2>3, <2>4, <2>5, <2>6, <2>7
          DEF Next, Caller, Progress
<1> QED BY <1>1, <1>2, TypeInvariant, AnsweredInvariant, PTL
        DEF Spec, ImplementsContract, Contract!Spec

-----------------------------------------------------------------------------
(* The attribution of replies.                                             *)

\* As long as nothing has happened that can misdirect a reply: no two open
\* calls have the same key, a reply that is on its way finds no other
\* request of its key, and no request that is still to be sent finds a reply
\* of its key on its way.
CleanInv ==
  mishaps = {} =>
    /\ \A t \in Callers : pc[t] # "expired"
    /\ \A t, u \in Callers :
         t # u /\ pc[t] # "idle" /\ pc[u] # "idle" =>
           KeyOf(cur[t]) # KeyOf(cur[u])
    /\ \A r \in Incoming, u \in Callers :
         pc[u] # "idle" /\ KeyOf(cur[u]) = KeyOf(r) => cur[u] = r
    /\ \A r \in Incoming, u \in Callers :
         pc[u] \in {"starting", "registered", "casting"} =>
           KeyOf(cur[u]) # KeyOf(r)
    /\ rxAt \in {"complete", "remove"} =>
         \A q \in rxMatch, r \in rxEvent : q = r
    /\ \A c \in completed : c.reply = c.req

\* A step that moves no caller into a call, an expiry or back to the start,
\* changes no request and brings no new reply.
LEMMA CleanFrame ==
  ASSUME CleanInv, mishaps' = mishaps,
         Incoming' \subseteq Incoming, completed' \subseteq completed,
         UNCHANGED <<cur, rxAt, rxMatch, rxEvent>>,
         \A u \in Callers :
           /\ pc'[u] # "idle" => pc[u] # "idle"
           /\ pc'[u] = "expired" => pc[u] = "expired"
           /\ pc'[u] \in {"starting", "registered", "casting"} =>
                pc[u] \in {"starting", "registered", "casting"}
  PROVE  CleanInv'
BY DEF CleanInv

LEMMA CleanCaller ==
  ASSUME TypeInv, CleanInv, NEW t \in Callers, Caller(t)
  PROVE  CleanInv'
<1> USE DEF Transition, rxVars, extVars
<1>0. cur \in [Callers -> Requests] /\ pc \in [Callers -> Locations]
  BY DEF TypeInv, TypeOK
<1>1. ASSUME NEW d \in Devices, NEW o \in Ops, NEW v \in Values,
             NEW w \in Waits, Begin(t, d, o, v, w)
      PROVE  CleanInv'
  <2> SUFFICES ASSUME mishaps' = {} PROVE CleanInv'
    BY DEF CleanInv
  <2>1. mishaps = {} /\ ~Outstanding(<<d, o>>)
    BY <1>1 DEF Begin, Add
  <2>2. /\ \A u \in Callers \ {t} : pc'[u] = pc[u] /\ cur'[u] = cur[u]
        /\ pc'[t] \in {"starting", "casting"} /\ KeyOf(cur'[t]) = <<d, o>>
        /\ UNCHANGED <<inbox, rxAt, rxMatch, rxEvent, completed>>
    BY <1>0, <1>1 DEF Begin, KeyOf
  <2>3. /\ \A u \in Callers : pc[u] # "idle" => KeyOf(cur[u]) # <<d, o>>
        /\ \A r \in Incoming : KeyOf(r) # <<d, o>>
    BY <2>1 DEF Outstanding, Incoming
  <2>4. Incoming' = Incoming
    BY <2>2 DEF Incoming
  <2> QED BY <2>1, <2>2, <2>3, <2>4 DEF CleanInv
<1>2. CASE Register(t)
  <2> SUFFICES ASSUME mishaps = {} PROVE CleanInv'
    BY <1>2 DEF CleanInv, Register
  <2>1. /\ \A u \in Callers \ {t} : pc'[u] = pc[u] /\ cur'[u] = cur[u]
        /\ pc[t] = "starting" /\ pc'[t] = "registered"
        /\ KeyOf(cur'[t]) = KeyOf(cur[t])
        /\ completed' \subseteq completed
        /\ UNCHANGED <<inbox, rxAt, rxMatch, rxEvent>>
    BY <1>0, <1>2 DEF Register, KeyOf, Forget, Requests
  <2>2. Incoming' = Incoming
    BY <2>1 DEF Incoming
  <2>3. \A u \in Callers : KeyOf(cur'[u]) = KeyOf(cur[u])
    BY <2>1
  <2>4. \A u \in Callers : pc'[u] # "idle" => pc[u] # "idle"
    BY <2>1
  <2>5. \A r \in Incoming : KeyOf(cur[t]) # KeyOf(r)
    BY <2>1 DEF CleanInv
  <2> QED BY <2>1, <2>2, <2>3, <2>4, <2>5 DEF CleanInv
<1>3. ASSUME NEW fate \in Fates, Transmit(t, fate) PROVE CleanInv'
  <2> SUFFICES ASSUME mishaps = {} PROVE CleanInv'
    BY <1>3 DEF CleanInv, Transmit
  <2>1. /\ \A u \in Callers \ {t} : pc'[u] = pc[u]
        /\ pc[t] \in {"registered", "casting"} /\ pc'[t] \in {"sent", "cast"}
        /\ UNCHANGED <<cur, mishaps, completed, rxAt, rxMatch, rxEvent>>
    BY <1>0, <1>3 DEF Transmit
  <2>2. \A r \in Incoming' : r \in Incoming \/ r = cur[t]
    BY <1>3, TransmitIncoming
  <2>3. \A u \in Callers \ {t} :
          pc[u] # "idle" => KeyOf(cur[u]) # KeyOf(cur[t])
    BY <2>1 DEF CleanInv
  <2> QED BY <2>1, <2>2, <2>3 DEF CleanInv
<1>4. CASE StampExpect(t) \/ SendFails(t) \/ Wake(t)
  <2>1. /\ \A u \in Callers \ {t} : pc'[u] = pc[u]
        /\ pc'[t] \in {"waiting", "idle", "matched"} /\ pc[t] # "idle"
        /\ UNCHANGED <<cur, mishaps, inbox, completed, rxAt, rxMatch, rxEvent>>
    BY <1>0, <1>4 DEF StampExpect, SendFails, Wake
  <2>2. Incoming' = Incoming
    BY <2>1 DEF Incoming
  <2> QED BY <2>1, <2>2, CleanFrame
<1>5. CASE Expire(t)
  BY <1>5 DEF Expire, CleanInv
<1>6. CASE Cancel(t)
  <2> SUFFICES ASSUME mishaps = {} PROVE CleanInv'
    BY <1>6 DEF CleanInv, Cancel
  <2>1. pc[t] # "expired"
    BY DEF CleanInv
  <2>2. /\ \A u \in Callers \ {t} : pc'[u] = pc[u]
        /\ pc[t] = "matched" /\ pc'[t] = "replied"
        /\ UNCHANGED <<cur, mishaps, inbox, completed, rxAt, rxMatch, rxEvent>>
    BY <1>0, <1>6, <2>1 DEF Cancel
  <2>3. Incoming' = Incoming
    BY <2>2 DEF Incoming
  <2> QED BY <2>2, <2>3, CleanFrame
<1>7. CASE ReturnReply(t) \/ ReturnFailure(t)
  <2>1. /\ \A u \in Callers \ {t} : pc'[u] = pc[u]
        /\ pc'[t] = "idle" /\ completed' \subseteq completed
        /\ UNCHANGED <<cur, mishaps, inbox, rxAt, rxMatch, rxEvent>>
    BY <1>0, <1>7 DEF ReturnReply, ReturnFailure, Forget
  <2>2. Incoming' = Incoming
    BY <2>1 DEF Incoming
  <2> QED BY <2>1, <2>2, CleanFrame
<1> QED BY <1>1, <1>2, <1>3, <1>4, <1>5, <1>6, <1>7 DEF Caller, Progress

LEMMA CleanReader ==
  ASSUME TypeInv, RegistryInv, CleanInv, Reader
  PROVE  CleanInv'
<1> USE DEF RxStep, callerVars, rxVars, extVars
<1>0. inbox \in Seq(Events) /\ registry \in SUBSET Requests
  BY DEF TypeInv, TypeOK
<1>1. CASE RxReply
  <2> SUFFICES ASSUME mishaps = {} PROVE CleanInv'
    BY <1>1 DEF CleanInv, RxReply
  <2>1. /\ Head(inbox).of \subseteq Incoming
        /\ Incoming' \subseteq Incoming
    BY <1>0, <1>1, IncomingTail DEF RxReply
  <2>2. PICK r \in Head(inbox).of :
          rxMatch' = Candidate(r) /\ rxEvent' = {r}
    BY <1>1 DEF RxReply
  <2>3. \A q \in registry :
          q.by \in Callers /\ q = cur[q.by] /\ pc[q.by] # "idle"
    BY <1>0 DEF RegistryInv, RegistryMatchesWaiters, Registered, Requests
  <2>4. \A q \in Candidate(r) : q = r
    BY <2>1, <2>3 DEF Candidate, CleanInv
  <2>5. UNCHANGED <<pc, cur, completed, mishaps>>
    BY <1>1 DEF RxReply
  <2> QED BY <2>1, <2>2, <2>4, <2>5 DEF CleanInv
<1>2. CASE RxComplete
  <2>1. /\ \A c \in completed' :
             c \in completed \/ (c.req \in rxMatch /\ c.reply \in rxEvent)
        /\ UNCHANGED <<pc, cur, mishaps, inbox, rxMatch, rxEvent>>
        /\ rxAt = "complete"
    BY <1>2 DEF RxComplete
  <2>2. Incoming' = Incoming
    BY <2>1 DEF Incoming
  <2> QED BY <2>1, <2>2 DEF CleanInv
<1>3. CASE RxRemove \/ RxUpdate \/ RxReadExpect \/ RxMarkOnline
             \/ RxMarkOffline \/ RxClearExpect
  <2>1. /\ UNCHANGED <<pc, cur, mishaps, inbox, completed>>
        /\ rxAt' \notin {"complete", "remove"}
    BY <1>3 DEF RxRemove, RxUpdate, RxReadExpect, RxMarkOnline,
                RxMarkOffline, RxClearExpect
  <2>2. Incoming' = Incoming
    BY <2>1 DEF Incoming
  <2> QED BY <2>1, <2>2 DEF CleanInv
<1>4. CASE RxState
  <2>1. Incoming' \subseteq Incoming
    BY <1>0, <1>4, IncomingTail DEF RxState
  <2>2. /\ UNCHANGED <<pc, cur, mishaps, completed>>
        /\ rxAt' \notin {"complete", "remove"}
    BY <1>4 DEF RxState
  <2> QED BY <2>1, <2>2 DEF CleanInv
<1> QED BY <1>1, <1>2, <1>3, <1>4 DEF Reader

\* Without expired attempts and overlapping requests, no caller is ever
\* given the reply to another request.
THEOREM CleanRepliesAreAttributed == Spec => []CleanSuccess
<1>1. Init => CleanInv
  BY InitIncoming DEF Init, CleanInv
<1>2. TypeInv /\ RegistryInv /\ CleanInv /\ [Next]_vars => CleanInv'
  <2> SUFFICES ASSUME TypeInv, RegistryInv, CleanInv, [Next]_vars
               PROVE  CleanInv'
    OBVIOUS
  <2>1. CASE Gateway
    <3>1. /\ UNCHANGED <<pc, cur, mishaps, completed>>
          /\ UNCHANGED <<rxAt, rxMatch, rxEvent>>
      BY <2>1 DEF Gateway, GatewayState, callerVars, rxVars
    <3> QED BY <2>1, <3>1, StateIncoming, CleanFrame
  <2>2. CASE UNCHANGED vars
    BY <2>2 DEF vars, callerVars, rxVars, extVars, CleanInv, Incoming
  <2> QED BY <2>1, <2>2, CleanCaller, CleanReader DEF Next
<1>3. CleanInv => CleanSuccess
  BY DEF CleanInv, CleanSuccess
<1> QED BY <1>1, <1>2, <1>3, TypeInvariant, RegistryInvariant, PTL DEF Spec

-----------------------------------------------------------------------------
(* The host's mirror of the configuration.                                 *)

\* The configuration request of t for d has yet to be put on air.
Pending(t, d) ==
  /\ pc[t] \in {"starting", "registered", "casting"}
  /\ cur[t].op = CONFIG /\ cur[t].dev = d

\* r is the configuration request of a positive ACK from d that waits in
\* place i of the inbox, or that the RX thread has taken and not applied.
Acked(i, r, d) ==
  /\ inbox[i].kind = "ack" /\ r \in inbox[i].of
  /\ r.op = CONFIG /\ r.dev = d

Taken(r, d) ==
  /\ rxAt \in {"complete", "remove", "update"}
  /\ rxOk /\ r \in rxEvent
  /\ r.op = CONFIG /\ r.dev = d

\* A device has at most one configuration request that is still to be sent
\* or whose ACK is still to be applied; the stash holds its payload, and
\* once it is acknowledged so does the device.
MirrorOf(d) ==
  /\ stash[d] = {} => mirror[d] = config[d]
  /\ \A t \in Callers : Pending(t, d) =>
       /\ stash[d] = {cur[t].val}
       /\ \A u \in Callers : Pending(u, d) => u = t
       /\ \A i \in 1..Len(inbox) : \A r \in inbox[i].of : ~Acked(i, r, d)
       /\ \A r \in rxEvent : ~Taken(r, d)
  /\ \A i \in 1..Len(inbox) : \A r \in inbox[i].of : Acked(i, r, d) =>
       /\ stash[d] = {r.val}
       /\ config[d] = r.val
       /\ \A j \in 1..Len(inbox) :
            \A q \in inbox[j].of : Acked(j, q, d) => j = i
       /\ \A q \in rxEvent : ~Taken(q, d)
  /\ \A r \in rxEvent : Taken(r, d) => stash[d] = {r.val} /\ config[d] = r.val

Spoiled == mishaps \cap {"expired", "restash"} # {}

MirrorInv ==
  ~Spoiled => /\ \A t \in Callers : pc[t] # "expired"
              /\ \A d \in Devices : MirrorOf(d)

\* A step that leaves the record and the configuration of a device alone,
\* makes no request for it, and at most takes the first of its events.
LEMMA MirrorFrame ==
  ASSUME TypeInv, NEW d \in Devices, MirrorOf(d),
         UNCHANGED <<stash[d], mirror[d], config[d]>>,
         NEW k \in {0, 1}, Len(inbox') = Len(inbox) - k,
         \A i \in 1..Len(inbox') : inbox'[i] = inbox[i + k],
         \A u \in Callers : Pending(u, d)' =>
           Pending(u, d) /\ cur'[u].val = cur[u].val,
         \A r \in rxEvent' : Taken(r, d)' => r \in rxEvent /\ Taken(r, d)
  PROVE  MirrorOf(d)'
<1>1. Len(inbox) \in Nat
  BY LenProperties DEF TypeInv, TypeOK
<1>2. \A i \in 1..Len(inbox') :
        /\ i + k \in 1..Len(inbox)
        /\ \A r \in inbox'[i].of : Acked(i, r, d)' =>
             r \in inbox[i + k].of /\ Acked(i + k, r, d)
  BY <1>1 DEF Acked
<1>3. \A i, j \in 1..Len(inbox') : i + k = j + k => i = j
  BY <1>1
<1>. QED
  BY <1>2, <1>3 DEF MirrorOf

LEMMA MirrorCaller ==
  ASSUME TypeInv, MirrorInv, NEW t \in Callers, Caller(t), ~Spoiled'
  PROVE  MirrorInv'
<1>. USE DEF Transition, rxVars, devVars, extVars
<1>0. /\ cur \in [Callers -> Requests] /\ pc \in [Callers -> Locations]
      /\ stash \in [Devices -> SUBSET Values]
      /\ inbox \in Seq(Events) /\ Len(inbox) \in Nat
  BY LenProperties DEF TypeInv, TypeOK
<1>1. ASSUME NEW d \in Devices, NEW o \in Ops, NEW v \in Values,
             NEW w \in Waits, Begin(t, d, o, v, w)
      PROVE  MirrorInv'
  <2>1. ~Spoiled /\ (o = CONFIG => stash[d] = {})
    BY <1>1 DEF Begin, Add, Spoiled
  <2>2. /\ \A u \in Callers \ {t} : pc'[u] = pc[u] /\ cur'[u] = cur[u]
        /\ pc'[t] \in {"starting", "casting"}
        /\ cur'[t].op = o /\ cur'[t].dev = d /\ cur'[t].val = v
        /\ stash' = IF o = CONFIG THEN [stash EXCEPT ![d] = {v}] ELSE stash
        /\ UNCHANGED <<inbox, mirror, config, rxAt, rxOk, rxEvent>>
    BY <1>0, <1>1 DEF Begin
  <2>3. \A e \in Devices : MirrorOf(e)
    BY <2>1 DEF MirrorInv
  <2>4. ASSUME NEW e \in Devices PROVE MirrorOf(e)'
    <3>1. CASE o = CONFIG /\ e = d
      <4>1. stash[d] = {} /\ stash'[d] = {v}
        BY <1>0, <2>1, <2>2, <3>1
      <4>2. /\ \A u \in Callers : ~Pending(u, d)
            /\ \A i \in 1..Len(inbox) : \A r \in inbox[i].of : ~Acked(i, r, d)
            /\ \A r \in rxEvent : ~Taken(r, d)
        <5>1. MirrorOf(d)
          BY <2>3
        <5>2. \A x : stash[d] # {x}
          BY <4>1
        <5>. QED
          BY <5>1, <5>2 DEF MirrorOf
      <4>3. \A u \in Callers \ {t} : ~Pending(u, d)'
        BY <2>2, <4>2 DEF Pending
      <4>4. \A i \in 1..Len(inbox') : \A r \in inbox'[i].of : ~Acked(i, r, d)'
        BY <2>2, <4>2 DEF Acked
      <4>5. \A r \in rxEvent' : ~Taken(r, d)'
        BY <2>2, <4>2 DEF Taken
      <4>. QED
        BY <2>2, <3>1, <4>1, <4>3, <4>4, <4>5 DEF MirrorOf
    <3>2. CASE ~(o = CONFIG /\ e = d)
      <4>1. stash'[e] = stash[e]
        BY <1>0, <2>2, <3>2
      <4>2. \A u \in Callers : Pending(u, e)' =>
              Pending(u, e) /\ cur'[u].val = cur[u].val
        BY <2>2, <3>2 DEF Pending
      <4>3. \A r \in rxEvent' : Taken(r, e)' => r \in rxEvent /\ Taken(r, e)
        BY <2>2 DEF Taken
      <4>. QED
        BY <1>0, <2>2, <2>3, <4>1, <4>2, <4>3, MirrorFrame
    <3>. QED
      BY <3>1, <3>2
  <2>5. \A u \in Callers : pc'[u] # "expired"
    BY <2>1, <2>2 DEF MirrorInv
  <2>. QED
    BY <2>4, <2>5 DEF MirrorInv
<1>2. ASSUME NEW fate \in Fates, Transmit(t, fate) PROVE MirrorInv'
  <2>. DEFINE q == cur[t]
  <2>1. /\ ~Spoiled /\ q \in Requests
        /\ \A d \in Devices : MirrorOf(d)
        /\ \A u \in Callers : pc[u] # "expired"
    BY <1>0, <1>2 DEF Transmit, Spoiled, MirrorInv
  <2>2. /\ \A u \in Callers \ {t} : pc'[u] = pc[u]
        /\ pc[t] \in {"registered", "casting"} /\ pc'[t] \in {"sent", "cast"}
        /\ UNCHANGED <<cur, stash, mirror, rxAt, rxOk, rxEvent>>
    BY <1>0, <1>2 DEF Transmit
  <2>3. ASSUME NEW d \in Devices PROVE MirrorOf(d)'
    <3>1. /\ \A u \in Callers \ {t} : Pending(u, d)' => Pending(u, d)
          /\ ~Pending(t, d)'
          /\ \A r \in rxEvent' : Taken(r, d)' => r \in rxEvent /\ Taken(r, d)
      BY <2>2 DEF Pending, Taken
    <3>2. CASE q.op = CONFIG /\ q.dev = d
      <4>1. Pending(t, d)
        BY <2>2, <3>2 DEF Pending
      <4>2. /\ stash[d] = {q.val}
            /\ \A u \in Callers : ~Pending(u, d)'
            /\ \A i \in 1..Len(inbox) : \A r \in inbox[i].of : ~Acked(i, r, d)
            /\ \A r \in rxEvent : ~Taken(r, d)
        BY <2>1, <3>1, <4>1 DEF MirrorOf
      <4>3. stash'[d] = {q.val} /\ \A r \in rxEvent' : ~Taken(r, d)'
        BY <2>2, <3>1, <4>2
      <4>4. \A i \in 1..Len(inbox') : \A r \in inbox'[i].of :
              Acked(i, r, d)' =>
                i = Len(inbox) + 1 /\ r = q /\ fate = "ack"
        <5>1. CASE fate \in {"ack", "nack"}
          <6>1. [kind |-> fate, of |-> {q}] \in Events
            BY <2>1, <5>1 DEF Events
          <6>2. inbox' = Append(inbox, [kind |-> fate, of |-> {q}])
            BY <1>2, <5>1 DEF Transmit
          <6>3. /\ Len(inbox') = Len(inbox) + 1
                /\ \A i \in 1..Len(inbox) : inbox'[i] = inbox[i]
                /\ inbox'[Len(inbox) + 1] = [kind |-> fate, of |-> {q}]
            BY <1>0, <6>1, <6>2, AppendProperties
          <6>4. \A i \in 1..Len(inbox') :
                  i \in 1..Len(inbox) \/ i = Len(inbox) + 1
            BY <1>0, <6>3
          <6>. QED
            BY <4>2, <6>3, <6>4 DEF Acked
        <5>2. CASE fate \notin {"ack", "nack"}
          <6>1. inbox' = inbox
            BY <1>2, <5>2 DEF Transmit
          <6>. QED
            BY <4>2, <6>1 DEF Acked
        <5>. QED
          BY <5>1, <5>2
      <4>5. fate = "ack" => config'[d] = q.val
        BY <1>2, <2>1, <3>2 DEF Transmit, TypeInv, TypeOK
      <4>. QED
        BY <4>2, <4>3, <4>4, <4>5 DEF MirrorOf
    <3>3. CASE ~(q.op = CONFIG /\ q.dev = d)
      <4>1. config'[d] = config[d]
        BY <1>2, <2>1, <3>3 DEF Transmit, TypeInv, TypeOK, Requests
      <4>2. CASE fate \in {"ack", "nack"}
        <5>1. [kind |-> fate, of |-> {q}] \in Events
          BY <2>1, <4>2 DEF Events
        <5>2. inbox' = Append(inbox, [kind |-> fate, of |-> {q}])
          BY <1>2, <4>2 DEF Transmit
        <5>3. /\ Len(inbox') = Len(inbox) + 1
              /\ \A i \in 1..Len(inbox) : inbox'[i] = inbox[i]
              /\ inbox'[Len(inbox) + 1] = [kind |-> fate, of |-> {q}]
          BY <1>0, <5>1, <5>2, AppendProperties
        <5>4. \A i \in 1..Len(inbox') : \A r \in inbox'[i].of :
                Acked(i, r, d)' => /\ i \in 1..Len(inbox)
                                   /\ r \in inbox[i].of /\ Acked(i, r, d)
          BY <1>0, <3>3, <5>3 DEF Acked
        <5>. QED
          BY <2>1, <2>2, <3>1, <4>1, <5>4 DEF MirrorOf
      <4>3. CASE fate \notin {"ack", "nack"}
        <5>1. inbox' = inbox
          BY <1>2, <4>3 DEF Transmit
        <5>2. \A u \in Callers : Pending(u, d)' =>
                Pending(u, d) /\ cur'[u].val = cur[u].val
          BY <2>2, <3>1
        <5>. QED
          BY <1>0, <2>1, <2>2, <3>1, <4>1, <5>1, <5>2, MirrorFrame
      <4>. QED
        BY <4>2, <4>3
    <3>. QED
      BY <3>2, <3>3
  <2>4. \A u \in Callers : pc'[u] # "expired"
    BY <2>1, <2>2
  <2>. QED
    BY <2>3, <2>4 DEF MirrorInv
<1>3. CASE Expire(t)
  BY <1>3 DEF Expire, Spoiled
<1>4. CASE \/ Register(t) \/ StampExpect(t) \/ SendFails(t) \/ Wake(t)
           \/ Cancel(t) \/ ReturnReply(t) \/ ReturnFailure(t)
  <2>1. /\ mishaps' = mishaps
        /\ UNCHANGED <<stash, mirror, config, inbox, rxAt, rxOk, rxEvent>>
    BY <1>4 DEF Register, StampExpect, SendFails, Wake, Cancel, ReturnReply,
       ReturnFailure
  <2>2. /\ ~Spoiled
        /\ \A d \in Devices : MirrorOf(d)
        /\ \A u \in Callers : pc[u] # "expired"
    BY <2>1 DEF Spoiled, MirrorInv
  <2>3. \A u \in Callers : /\ cur'[u].op = cur[u].op
                           /\ cur'[u].dev = cur[u].dev
                           /\ cur'[u].val = cur[u].val
    BY SMTT(60), <1>0, <1>4 DEF Register, StampExpect, SendFails, Wake, Cancel,
       ReturnReply, ReturnFailure, Requests
  <2>4. /\ \A u \in Callers \ {t} : pc'[u] = pc[u]
        /\ pc'[t] # "expired"
        /\ pc'[t] \in {"starting", "registered", "casting"} =>
             pc[t] \in {"starting", "registered", "casting"}
    BY <1>0, <1>4, <2>2 DEF Register, StampExpect, SendFails, Wake, Cancel,
       ReturnReply, ReturnFailure
  <2>5. ASSUME NEW d \in Devices PROVE MirrorOf(d)'
    <3>1. \A u \in Callers : Pending(u, d)' =>
            Pending(u, d) /\ cur'[u].val = cur[u].val
      BY <2>3, <2>4 DEF Pending
    <3>2. \A r \in rxEvent' : Taken(r, d)' => r \in rxEvent /\ Taken(r, d)
      BY <2>1 DEF Taken
    <3>. QED
      BY <1>0, <2>1, <2>2, <3>1, <3>2, MirrorFrame
  <2>. QED
    BY <2>2, <2>4, <2>5 DEF MirrorInv
<1>. QED
  BY <1>1, <1>2, <1>3, <1>4 DEF Caller, Progress

LEMMA MirrorReader ==
  ASSUME TypeInv, MirrorInv, Reader \/ Gateway \/ UNCHANGED vars, ~Spoiled'
  PROVE  MirrorInv'
<1>. USE DEF RxStep, callerVars, rxVars, devVars, extVars
<1>0. /\ stash \in [Devices -> SUBSET Values]
      /\ mirror \in [Devices -> Values]
      /\ inbox \in Seq(Events) /\ Len(inbox) \in Nat
      /\ rxEvent \in SUBSET Requests
  BY LenProperties DEF TypeInv, TypeOK
<1>1. UNCHANGED <<mishaps, cur, pc, config>>
  BY DEF Reader, Gateway, GatewayState, vars, RxReply, RxComplete, RxRemove,
     RxUpdate, RxReadExpect, RxMarkOnline, RxState, RxMarkOffline,
     RxClearExpect
<1>2. /\ \A u \in Callers : pc'[u] # "expired"
      /\ \A d \in Devices : MirrorOf(d)
  BY <1>1 DEF MirrorInv, Spoiled
<1>3. \A u \in Callers, d \in Devices : Pending(u, d)' =>
        Pending(u, d) /\ cur'[u].val = cur[u].val
  BY <1>1 DEF Pending
<1>4. SUFFICES ASSUME NEW d \in Devices PROVE MirrorOf(d)'
  BY <1>2 DEF MirrorInv
<1>5. inbox # <<>> =>
        /\ 1 \in 1..Len(inbox) /\ Head(inbox) = inbox[1]
        /\ Head(inbox) \in Events
        /\ Len(Tail(inbox)) = Len(inbox) - 1
        /\ \A i \in 1..Len(Tail(inbox)) : Tail(inbox)[i] = inbox[i + 1]
  BY <1>0, HeadTailProperties, EmptySeq, InboxHead
<1>6. CASE RxReply
  <2>1. /\ inbox # <<>> /\ inbox' = Tail(inbox)
        /\ rxOk' = (Head(inbox).kind = "ack")
        /\ UNCHANGED <<stash, mirror>>
    BY <1>6 DEF RxReply
  <2>2. PICK r \in Head(inbox).of : rxEvent' = {r}
    BY <1>6 DEF RxReply
  <2>3. CASE Head(inbox).kind = "ack" /\ r.op = CONFIG /\ r.dev = d
    <3>1. Acked(1, r, d) /\ r \in inbox[1].of
      BY <1>5, <2>1, <2>2, <2>3 DEF Acked
    <3>2. /\ stash[d] = {r.val} /\ config[d] = r.val
          /\ \A j \in 1..Len(inbox) :
               \A q \in inbox[j].of : Acked(j, q, d) => j = 1
      BY <1>2, <1>5, <2>1, <3>1 DEF MirrorOf
    <3>3. \A u \in Callers : ~Pending(u, d)'
      BY <1>2, <1>3, <1>5, <2>1, <3>1 DEF MirrorOf
    <3>4. \A i \in 1..Len(inbox') : \A q \in inbox'[i].of : ~Acked(i, q, d)'
      <4>. SUFFICES ASSUME NEW i \in 1..Len(inbox'), NEW q \in inbox'[i].of,
                           Acked(i, q, d)'
                    PROVE  FALSE
        OBVIOUS
      <4>1. /\ i \in Nat \ {0} /\ i + 1 \in 1..Len(inbox)
            /\ inbox'[i] = inbox[i + 1]
        BY <1>0, <1>5, <2>1
      <4>2. q \in inbox[i + 1].of /\ Acked(i + 1, q, d)
        BY <4>1 DEF Acked
      <4>. QED
        BY <3>2, <4>1, <4>2
    <3>. QED
      BY <1>1, <2>1, <2>2, <3>2, <3>3, <3>4 DEF MirrorOf
  <2>4. CASE ~(Head(inbox).kind = "ack" /\ r.op = CONFIG /\ r.dev = d)
    <3>1. \A q \in rxEvent' : ~Taken(q, d)'
      BY <2>1, <2>2, <2>4 DEF Taken
    <3>2. /\ Len(inbox') = Len(inbox) - 1
          /\ \A i \in 1..Len(inbox') : inbox'[i] = inbox[i + 1]
      BY <1>5, <2>1
    <3>. QED
      BY <1>1, <1>2, <1>3, <2>1, <3>1, <3>2, MirrorFrame
  <2>. QED
    BY <2>3, <2>4
<1>7. CASE RxUpdate
  <2>1. PICK r \in rxEvent :
          IF r.op = CONFIG /\ rxOk
          THEN /\ stash' = [stash EXCEPT ![r.dev] = {}]
               /\ mirror' = [mirror EXCEPT ![r.dev] =
                    IF stash[r.dev] = {} THEN @
                    ELSE CHOOSE v \in stash[r.dev] : TRUE]
          ELSE UNCHANGED <<stash, mirror>>
    BY <1>7 DEF RxUpdate
  <2>2. rxAt = "update" /\ rxAt' = "expect" /\ inbox' = inbox
    BY <1>7 DEF RxUpdate
  <2>3. \A q \in rxEvent' : ~Taken(q, d)'
    BY <2>2 DEF Taken
  <2>4. CASE r.op = CONFIG /\ rxOk /\ r.dev = d
    <3>1. Taken(r, d)
      BY <2>1, <2>2, <2>4 DEF Taken
    <3>2. stash[d] = {r.val} /\ config[d] = r.val
      BY <1>2, <2>1, <3>1 DEF MirrorOf
    <3>3. stash'[d] = {} /\ mirror'[d] = r.val
      BY <1>0, <2>1, <2>4, <3>2
    <3>4. \A u \in Callers : ~Pending(u, d)'
      BY <1>2, <1>3, <2>1, <3>1 DEF MirrorOf
    <3>5. \A i \in 1..Len(inbox') : \A q \in inbox'[i].of : ~Acked(i, q, d)'
      BY <1>2, <2>1, <2>2, <3>1 DEF MirrorOf, Acked
    <3>. QED
      BY <1>1, <2>3, <3>2, <3>3, <3>4, <3>5 DEF MirrorOf
  <2>5. CASE ~(r.op = CONFIG /\ rxOk /\ r.dev = d)
    <3>1. stash'[d] = stash[d] /\ mirror'[d] = mirror[d]
      BY <1>0, <2>1, <2>5
    <3>. QED
      BY <1>0, <1>1, <1>2, <1>3, <2>2, <2>3, <3>1, MirrorFrame
  <2>. QED
    BY <2>4, <2>5
<1>8. CASE RxState
  <2>1. /\ inbox # <<>> /\ inbox' = Tail(inbox) /\ UNCHANGED <<stash, mirror>>
        /\ rxAt' \in {"sweep", "ready"}
    BY <1>8 DEF RxState
  <2>2. \A q \in rxEvent' : ~Taken(q, d)'
    BY <2>1 DEF Taken
  <2>3. /\ Len(inbox') = Len(inbox) - 1
        /\ \A i \in 1..Len(inbox') : inbox'[i] = inbox[i + 1]
    BY <1>5, <2>1
  <2>. QED
    BY <1>1, <1>2, <1>3, <2>1, <2>2, <2>3, MirrorFrame
<1>9. CASE Gateway
  <2>1. PICK kind \in {"window", "nonWindow"} : GatewayState(kind)
    BY <1>9 DEF Gateway
  <2>2. /\ inbox' = Append(inbox, [kind |-> kind, of |-> {}])
        /\ UNCHANGED <<stash, mirror, rxAt, rxOk, rxEvent>>
    BY <2>1 DEF GatewayState
  <2>3. [kind |-> kind, of |-> {}] \in Events
    BY DEF Events
  <2>4. /\ Len(inbox') = Len(inbox) + 1
        /\ \A i \in 1..Len(inbox) : inbox'[i] = inbox[i]
        /\ inbox'[Len(inbox) + 1].of = {}
    BY <1>0, <2>2, <2>3, AppendProperties
  <2>5. \A i \in 1..Len(inbox') : \A r \in inbox'[i].of :
          Acked(i, r, d)' => /\ i \in 1..Len(inbox)
                             /\ r \in inbox[i].of /\ Acked(i, r, d)
    BY <1>0, <2>4 DEF Acked
  <2>6. \A r \in rxEvent' : Taken(r, d)' => r \in rxEvent /\ Taken(r, d)
    BY <2>2 DEF Taken
  <2>. QED
    BY <1>1, <1>2, <1>3, <2>2, <2>5, <2>6 DEF MirrorOf
<1>10. CASE \/ RxComplete \/ RxRemove \/ RxReadExpect \/ RxMarkOnline
            \/ RxMarkOffline \/ RxClearExpect \/ UNCHANGED vars
  <2>1. UNCHANGED <<stash, mirror, inbox>>
    BY <1>10 DEF vars, RxComplete, RxRemove, RxReadExpect, RxMarkOnline,
       RxMarkOffline, RxClearExpect
  <2>2. \A r \in rxEvent' : Taken(r, d)' => r \in rxEvent /\ Taken(r, d)
    <3>1. CASE RxComplete \/ RxRemove
      <4>1. /\ UNCHANGED <<rxEvent, rxOk>>
            /\ rxAt \in {"complete", "remove"}
        BY <3>1 DEF RxComplete, RxRemove
      <4>. QED
        BY <4>1 DEF Taken
    <3>2. CASE \/ RxReadExpect \/ RxMarkOnline \/ RxMarkOffline
               \/ RxClearExpect
      <4>1. rxAt' \in {"markOnline", "ready", "clear"}
        BY <3>2 DEF RxReadExpect, RxMarkOnline, RxMarkOffline, RxClearExpect
      <4>. QED
        BY <4>1 DEF Taken
    <3>3. CASE UNCHANGED vars
      BY <3>3 DEF Taken, vars
    <3>. QED
      BY <1>10, <3>1, <3>2, <3>3
  <2>. QED
    BY <1>0, <1>1, <1>2, <1>3, <2>1, <2>2, MirrorFrame
<1>. QED
  BY <1>6, <1>7, <1>8, <1>9, <1>10 DEF Reader

\* config_service and the stash of send_config: with lost frames, lost
\* replies and refusals, but without expired attempts and payloads stashed
\* over others, the host's mirror of a device is its configuration whenever
\* all is quiet and nothing is stashed.
THEOREM MirrorIsTrue == Spec => []CleanMirror
<1>1. Init => MirrorInv
  <2>. SUFFICES ASSUME Init PROVE MirrorInv
    OBVIOUS
  <2>1. inbox = <<>> /\ rxEvent = {} /\ mirror = config
        /\ pc = [t \in Callers |-> "idle"]
    BY DEF Init
  <2>2. 1..Len(inbox) = {}
    BY <2>1
  <2>3. \A t \in Callers, d \in Devices : ~Pending(t, d)
    BY <2>1 DEF Pending
  <2>. QED
    BY <2>1, <2>2, <2>3 DEF MirrorInv, MirrorOf
<1>2. TypeInv /\ MirrorInv /\ [Next]_vars => MirrorInv'
  <2>. SUFFICES ASSUME TypeInv, MirrorInv, [Next]_vars, ~Spoiled'
                PROVE  MirrorInv'
    BY DEF MirrorInv
  <2>. QED
    BY MirrorCaller, MirrorReader DEF Next
<1>3. MirrorInv => CleanMirror
  BY DEF MirrorInv, MirrorOf, CleanMirror, Spoiled
<1>. QED
  BY <1>1, <1>2, <1>3, TypeInvariant, PTL DEF Spec
=============================================================================
