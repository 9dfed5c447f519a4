------------------------- MODULE GatewaySend_proofs -------------------------
(***************************************************************************)
(* Proofs about GatewaySend for any set of sender threads and any bounds:  *)
(* type correctness, the registration discipline of the outcome slot, the  *)
(* attribution of outcomes while nothing has gone wrong, and that the send *)
(* path implements SendContract.                                           *)
(***************************************************************************)
EXTENDS GatewaySend, SequenceTheorems, TLAPS

\* What the reader makes of an event fits into a slot.
LEMMA OutcomeOfEvent ==
  ASSUME NEW ev \in Events
  PROVE  [code |-> CodeOf(ev), of |-> ev.of] \in Outcomes
BY DEF Events, Outcomes, Codes, CodeOf

\* Dispatching an event keeps every slot in its type.
LEMMA FulfillType ==
  ASSUME slot \in [Senders -> Outcomes \cup {Empty}], NEW ev \in Events,
         FulfillPendingOutcome(ev)
  PROVE  slot' \in [Senders -> Outcomes \cup {Empty}]
BY OutcomeOfEvent DEF FulfillPendingOutcome

\* What the gateway sends keeps the event stream in its type.
LEMMA EmitType ==
  ASSUME fromGateway \in Seq(Events), NEW f \in Origins,
         NEW k \in {"TX_DONE", "TX_REJECTED", "EV_ERROR"}, Emit(k, f)
  PROVE  fromGateway' \in Seq(Events)
<1>1. [kind |-> k, of |-> f] \in Events
  BY DEF Events
<1> QED BY <1>1, AppendProperties DEF Emit

\* Every variable of GatewaySend stays in its type, whatever the threads,
\* the gateway and the cable do.
THEOREM TypeCorrect == Spec => []TypeOK
<1> USE SendAssumption DEF TypeOK
<1>1. Init => TypeOK
  BY DEF Init
<1>2. TypeOK /\ [Next]_vars => TypeOK'
  <2> SUFFICES ASSUME TypeOK, [Next]_vars PROVE TypeOK'
    OBVIOUS
  <2> USE DEF Transition, hostVars, linkVars, gatewayVars
  <2>1. ASSUME NEW t \in Senders, Register(t) PROVE TypeOK'
    BY <2>1 DEF Register, Kinds
  <2>2. ASSUME NEW t \in Senders, WriteFrame(t) PROVE TypeOK'
    <3>1. Frame(t) \in Frames
      BY DEF Frame, Frames
    <3>2. toGateway' \in Seq(Frames)
      BY <2>2, <3>1, AppendProperties DEF WriteFrame
    <3> QED BY <2>2, <3>2 DEF WriteFrame
  <2>3. ASSUME NEW t \in Senders, WriteRaises(t) PROVE TypeOK'
    <3>1. [code |-> "USB_ERROR", of |-> NoFrame] \in Outcomes
      BY DEF Outcomes, Codes, Origins
    <3> QED BY <2>3, <3>1 DEF WriteRaises
  <2>4. ASSUME NEW t \in Senders, ReportDisconnect(t) PROVE TypeOK'
    BY <2>4 DEF ReportDisconnect
  <2>5. ASSUME NEW t \in Senders, Wake(t) PROVE TypeOK'
    BY <2>5 DEF Wake
  <2>6. ASSUME NEW t \in Senders, TimeOut(t) PROVE TypeOK'
    <3>1. [code |-> "TIMEOUT", of |-> NoFrame] \in Outcomes
      BY DEF Outcomes, Codes, Origins
    <3> QED BY <2>6, <3>1 DEF TimeOut, Kinds
  <2>7. ASSUME NEW t \in Senders, Return(t) PROVE TypeOK'
    BY <2>7 DEF Return
  <2>8. CASE HandleFrame
    <3>1. /\ Head(fromGateway) \in Events
          /\ fromGateway' \in Seq(Events)
      BY <2>8, HeadTailProperties DEF HandleFrame
    <3>2. slot' \in [Senders -> Outcomes \cup {Empty}]
      BY <2>8, <3>1, FulfillType DEF HandleFrame
    <3> QED BY <2>8, <3>1, <3>2 DEF HandleFrame
  <2>9. CASE ReadRaises \/ ReaderStops
    BY <2>9 DEF ReadRaises, ReaderStops
  <2>10. CASE Host \/ Unplug
    BY <2>10 DEF Host, StateRequestRaises, CloseBegin, ClosePort, Unplug
  <2>11. ASSUME toGateway # <<>>
         PROVE  /\ Head(toGateway) \in Frames
                /\ Tail(toGateway) \in Seq(Frames)
    BY <2>11, HeadTailProperties
  <2>12. CASE GatewayAccepts \/ GatewayStalls
    <3>1. toGateway # <<>>
      BY <2>12 DEF GatewayAccepts, GatewayStalls
    <3>2. toGateway' \in Seq(Frames)
      BY <2>11, <2>12, <3>1 DEF GatewayAccepts, GatewayStalls
    <3>3. gwTx' \in SUBSET (Frames \cup {AutoFrame})
      BY <2>11, <2>12, <3>1 DEF GatewayAccepts, GatewayStalls
    <3>4. noise' \in 0..MaxNoise
      BY <2>12 DEF GatewayAccepts, GatewayStalls
    <3> QED BY <2>12, <3>2, <3>3, <3>4 DEF GatewayAccepts, GatewayStalls
  <2>13. CASE GatewayRejects
    <3>1. fromGateway' \in Seq(Events)
      BY <2>11, <2>13, EmitType DEF GatewayRejects, Origins
    <3> QED BY <2>11, <2>13, <3>1 DEF GatewayRejects
  <2>14. CASE GatewayFinishes
    <3>1. PICK f \in gwTx : Emit("TX_DONE", f) /\ aired' = aired \cup {f}
      BY <2>14 DEF GatewayFinishes
    <3>2. fromGateway' \in Seq(Events)
      BY <3>1, EmitType DEF Origins
    <3> QED BY <2>14, <3>1, <3>2 DEF GatewayFinishes
  <2>15. CASE GatewayAutoSync
    BY <2>15 DEF GatewayAutoSync, Kinds
  <2>16. CASE GatewayError
    <3>1. fromGateway' \in Seq(Events)
      BY <2>16, EmitType DEF GatewayError, Origins
    <3> QED BY <2>16, <3>1 DEF GatewayError, Kinds
  <2>17. CASE UNCHANGED vars
    BY <2>17 DEF vars
  <2> QED
    BY <2>1, <2>2, <2>3, <2>4, <2>5, <2>6, <2>7, <2>8, <2>9, <2>10, <2>12,
       <2>13, <2>14, <2>15, <2>16, <2>17 DEF Next, Sender, Reader, Gateway
<1> QED BY <1>1, <1>2, PTL DEF Spec

-----------------------------------------------------------------------------
(* The registration discipline.                                            *)

\* The strengthening of NoStaleRegistration: the lock holder is the sender
\* between registering and writing, it is the registered one and has no
\* outcome yet; whoever is leaving has one.
SlotInv ==
  /\ \A t \in Senders : pc[t] = "registered" <=> txLock = t
  /\ \A t \in Senders :
       pc[t] = "registered" => slot[t] = Empty /\ pending = t
  /\ \A t \in Senders : pc[t] \in {"broken", "leaving"} => slot[t] # Empty
  /\ \A t \in Senders :
       pending = t => pc[t] \in {"registered", "waiting"}

\* An outcome made by _send_m2n itself or from an event is not None.
LEMMA OutcomeNotEmpty ==
  /\ \A f : \A c \in Codes : [code |-> c, of |-> f] # Empty
  /\ \A ev : [code |-> CodeOf(ev), of |-> ev.of] # Empty
<1>1. \A f : \A c \in Codes : [code |-> c, of |-> f] # Empty
  <2> SUFFICES ASSUME NEW c \in Codes, NEW f, [code |-> c, of |-> f] = Empty
               PROVE  FALSE
    OBVIOUS
  <2>1. [code |-> c, of |-> f].code = Empty.code
    OBVIOUS
  <2> QED BY <2>1 DEF Empty, Codes
<1>2. \A ev : CodeOf(ev) \in Codes
  BY DEF CodeOf, Codes
<1> QED BY <1>1, <1>2

LEMMA SlotInvStep == TypeOK /\ SlotInv /\ [Next]_vars => SlotInv'
<1> SUFFICES ASSUME TypeOK, SlotInv, [Next]_vars PROVE SlotInv'
  OBVIOUS
<1> USE SendAssumption DEF TypeOK, SlotInv, Transition, hostVars, linkVars,
                           gatewayVars
<1>1. ASSUME NEW t \in Senders, Register(t) PROVE SlotInv'
  BY <1>1 DEF Register
<1>2. ASSUME NEW t \in Senders, WriteFrame(t) PROVE SlotInv'
  BY <1>2 DEF WriteFrame
<1>3. ASSUME NEW t \in Senders, WriteRaises(t) PROVE SlotInv'
  <2>1. [code |-> "USB_ERROR", of |-> NoFrame] # Empty
    BY OutcomeNotEmpty DEF Codes
  <2> QED BY <1>3, <2>1 DEF WriteRaises
<1>4. ASSUME NEW t \in Senders, ReportDisconnect(t) PROVE SlotInv'
  BY <1>4 DEF ReportDisconnect
<1>5. ASSUME NEW t \in Senders, Wake(t) PROVE SlotInv'
  BY <1>5 DEF Wake
<1>6. ASSUME NEW t \in Senders, TimeOut(t) PROVE SlotInv'
  <2>1. [code |-> "TIMEOUT", of |-> NoFrame] # Empty
    BY OutcomeNotEmpty DEF Codes
  <2> QED BY <1>6, <2>1 DEF TimeOut
<1>7. ASSUME NEW t \in Senders, Return(t) PROVE SlotInv'
  BY <1>7 DEF Return
<1>8. CASE HandleFrame
  <2>1. \A t \in Senders : slot[t] # Empty => slot'[t] = slot[t]
    BY <1>8 DEF HandleFrame, FulfillPendingOutcome
  <2>2. \A t \in Senders : pc[t] = "registered" => FALSE
    BY <1>8 DEF HandleFrame
  <2> QED BY <1>8, <2>1, <2>2 DEF HandleFrame
<1>9. CASE ReadRaises \/ ReaderStops \/ Gateway \/ Host \/ Unplug
  <2>1. UNCHANGED hostVars
    BY <1>9 DEF ReadRaises, ReaderStops, Gateway, GatewayAccepts,
         GatewayRejects, GatewayFinishes, GatewayAutoSync, GatewayError,
         GatewayStalls, Host, StateRequestRaises, CloseBegin, ClosePort, Unplug
  <2> QED BY <2>1
<1>10. CASE UNCHANGED vars
  BY <1>10 DEF vars
<1> QED
  BY <1>1, <1>2, <1>3, <1>4, <1>5, <1>6, <1>7, <1>8, <1>9, <1>10
     DEF Next, Sender, Reader

LEMMA SlotInvariant == Spec => []SlotInv
<1>1. Init => SlotInv
  BY SendAssumption DEF Init, SlotInv
<1> QED BY <1>1, SlotInvStep, TypeCorrect, PTL DEF Spec

\* No exit path of _send_m2n leaves its registration behind: an outcome
\* event never reaches the slot of a call that is over.
THEOREM RegistrationDiscipline == Spec => []NoStaleRegistration
<1>1. TypeOK /\ SlotInv => NoStaleRegistration
  BY DEF TypeOK, SlotInv, NoStaleRegistration
<1> QED BY <1>1, TypeCorrect, SlotInvariant, PTL

-----------------------------------------------------------------------------
(* Attribution while nothing has gone wrong.                               *)

\* t waits for the outcome of frame f.
Awaits(t, f) == pc[t] = "waiting" /\ slot[t] = Empty /\ f = Frame(t)
Awaited(f)   == \E t \in Senders : Awaits(t, f)

\* Without mishaps at most one call is under way and at most one thing of
\* it is: a frame at the gateway's door, a frame on air, or an outcome
\* event on its way back, always about the frame that call waits for.
OneCall ==
  /\ \A t, u \in Senders : pc[t] = "waiting" /\ pc[u] = "waiting" => t = u
  /\ \A t, u \in Senders : pc[t] = "registered" => pc[u] # "waiting"
  /\ \A t \in Senders : pc[t] = "waiting" => pending = t

FrameAtDoor ==
  toGateway # <<>> =>
    /\ \E f : toGateway = <<f>> /\ Awaited(f)
    /\ gwTx = {} /\ fromGateway = <<>>

FrameOnAir ==
  gwTx # {} =>
    /\ \E f : gwTx = {f} /\ Awaited(f)
    /\ toGateway = <<>> /\ fromGateway = <<>>

EventUnderWay ==
  fromGateway # <<>> =>
    /\ \E ev : /\ fromGateway = <<ev>>
               /\ Awaited(ev.of)
               /\ ev.kind \in {"TX_DONE", "TX_REJECTED"}
               /\ ev.kind = "TX_DONE" => ev.of \in aired
    /\ toGateway = <<>> /\ gwTx = {}

OwnOutcomes == \A t \in Senders : Answered(t) => OwnOutcome(t)

CleanInv ==
  mishaps = {} =>
    OneCall /\ FrameAtDoor /\ FrameOnAir /\ EventUnderWay /\ OwnOutcomes

\* Facts about one-element sequences the channel steps rest on.
LEMMA Singletons ==
  /\ \A x : Head(<<x>>) = x /\ Tail(<<x>>) = <<>> /\ <<x>> # <<>>
  /\ \A x : Append(<<>>, x) = <<x>>
OBVIOUS

LEMMA EmptyNotAnswered == Empty.code \notin {"SUCCESS", "REJECTED"}
BY DEF Empty

\* The part of CleanInv that looks at the threads only through Awaited.
Channels == FrameAtDoor /\ FrameOnAir /\ EventUnderWay

LEMMA CleanInvStep == TypeOK /\ SlotInv /\ CleanInv /\ [Next]_vars => CleanInv'
<1> SUFFICES ASSUME TypeOK, SlotInv, CleanInv, [Next]_vars, mishaps' = {}
             PROVE  (OneCall /\ Channels /\ OwnOutcomes)'
  BY DEF CleanInv, Channels
<1> USE SendAssumption DEF TypeOK, Transition, hostVars, linkVars, gatewayVars
<1>0. mishaps = {} /\ OneCall /\ Channels /\ OwnOutcomes
  <2>1. mishaps \subseteq mishaps'
    BY DEF Next, Sender, Register, WriteFrame, WriteRaises, ReportDisconnect,
       Wake, TimeOut, Return, Reader, HandleFrame, ReadRaises, ReaderStops,
       Gateway, GatewayAccepts, GatewayRejects, GatewayFinishes,
       GatewayAutoSync, GatewayError, GatewayStalls, Host, StateRequestRaises,
       CloseBegin, ClosePort, Unplug, vars
  <2> QED BY <2>1 DEF CleanInv, Channels
\* Nothing is under way unless somebody waits with an empty slot.
<1>quiet. ASSUME \A t \in Senders : pc[t] = "waiting" => slot[t] # Empty
          PROVE  toGateway = <<>> /\ gwTx = {} /\ fromGateway = <<>>
  BY <1>0, <1>quiet DEF Channels, FrameAtDoor, FrameOnAir, EventUnderWay,
     Awaited, Awaits
\* Steps that leave the gateway and every waiting call alone.
<1>same. ASSUME UNCHANGED <<toGateway, gwTx, fromGateway, aired>>,
                \A t \in Senders : pc[t] = "waiting" =>
                   /\ pc'[t] = "waiting" /\ slot'[t] = slot[t]
                   /\ calls'[t] = calls[t]
         PROVE  Channels'
  <2>1. \A f : Awaited(f) => Awaited(f)'
    BY <1>same DEF Awaited, Awaits, Frame
  <2> QED BY <1>0, <1>same, <2>1 DEF Channels, FrameAtDoor, FrameOnAir,
             EventUnderWay
\* Steps that start from silence and leave it.
<1>silent. ASSUME toGateway' = <<>>, gwTx' = {}, fromGateway' = <<>>
           PROVE  Channels'
  BY <1>silent DEF Channels, FrameAtDoor, FrameOnAir, EventUnderWay
<1>1. ASSUME NEW t \in Senders, Register(t)
      PROVE  (OneCall /\ Channels /\ OwnOutcomes)'
  <2>1. \A u \in Senders : pc[u] # "waiting"
    BY <1>1 DEF Register
  <2>2. Channels'
    BY <1>1, <1>quiet, <1>silent, <2>1 DEF Register
  <2>3. OneCall'
    BY <1>1, <2>1 DEF Register, OneCall
  <2>4. OwnOutcomes'
    BY <1>0, <1>1, EmptyNotAnswered
       DEF Register, OwnOutcomes, Answered, OwnOutcome, Frame
  <2> QED BY <2>2, <2>3, <2>4
<1>2. ASSUME NEW t \in Senders, WriteFrame(t)
      PROVE  (OneCall /\ Channels /\ OwnOutcomes)'
  <2>1. pc[t] = "registered" /\ slot[t] = Empty /\ pending = t
    BY <1>2 DEF WriteFrame, SlotInv
  <2>2. \A u \in Senders : pc[u] # "waiting"
    BY <1>0, <2>1 DEF OneCall
  <2>3. toGateway = <<>> /\ gwTx = {} /\ fromGateway = <<>>
    BY <1>quiet, <2>2
  <2>4. Awaited(Frame(t))'
    BY <1>2, <2>1 DEF WriteFrame, Awaited, Awaits, Frame
  <2>5. Channels'
    <3>1. toGateway' = <<>> \/ toGateway' = <<Frame(t)>>
      BY <1>2, <2>3, Singletons DEF WriteFrame
    <3>2. Frame(t)' = Frame(t)
      BY <1>2 DEF WriteFrame, Frame
    <3>3. gwTx' = {} /\ fromGateway' = <<>>
      BY <1>2, <2>3 DEF WriteFrame
    <3> QED BY <2>4, <3>1, <3>2, <3>3
            DEF Channels, FrameAtDoor, FrameOnAir, EventUnderWay
  <2>6. OneCall'
    BY <1>2, <2>1, <2>2 DEF WriteFrame, OneCall, SlotInv
  <2>7. OwnOutcomes'
    BY <1>0, <1>2 DEF WriteFrame, OwnOutcomes, Answered, OwnOutcome, Frame
  <2> QED BY <2>5, <2>6, <2>7
<1>3. ASSUME NEW t \in Senders, WriteRaises(t)
      PROVE  (OneCall /\ Channels /\ OwnOutcomes)'
  <2>1. \A u \in Senders : pc[u] # "waiting"
    BY <1>0, <1>3 DEF WriteRaises, OneCall
  <2>2. Channels'
    BY <1>3, <1>quiet, <1>silent, <2>1 DEF WriteRaises
  <2>3. OneCall'
    BY <1>3, <2>1 DEF WriteRaises, OneCall
  <2>4. OwnOutcomes'
    BY <1>0, <1>3 DEF WriteRaises, OwnOutcomes, Answered, OwnOutcome, Frame
  <2> QED BY <2>2, <2>3, <2>4
<1>4. ASSUME NEW t \in Senders, ReportDisconnect(t) \/ Return(t)
      PROVE  (OneCall /\ Channels /\ OwnOutcomes)'
  <2>1. Channels'
    BY <1>4, <1>same DEF ReportDisconnect, Return
  <2>2. OneCall'
    BY <1>0, <1>4 DEF ReportDisconnect, Return, OneCall
  <2>3. OwnOutcomes'
    BY <1>0, <1>4 DEF ReportDisconnect, Return, OwnOutcomes, Answered,
                      OwnOutcome, Frame
  <2> QED BY <2>1, <2>2, <2>3
<1>5. ASSUME NEW t \in Senders, Wake(t)
      PROVE  (OneCall /\ Channels /\ OwnOutcomes)'
  <2>1. \A u \in Senders : pc[u] = "waiting" => u = t
    BY <1>0, <1>5 DEF Wake, OneCall
  <2>2. Channels'
    BY <1>5, <1>quiet, <1>silent, <2>1 DEF Wake
  <2>3. OneCall'
    BY <1>0, <1>5, <2>1 DEF Wake, OneCall
  <2>4. OwnOutcomes'
    BY <1>0, <1>5 DEF Wake, OwnOutcomes, Answered, OwnOutcome, Frame
  <2> QED BY <2>2, <2>3, <2>4
<1>6. ASSUME NEW t \in Senders, TimeOut(t) PROVE FALSE
  BY <1>6 DEF TimeOut
<1>7. CASE HandleFrame
  <2>1. PICK ev : /\ fromGateway = <<ev>>
                  /\ Awaited(ev.of)
                  /\ ev.kind \in {"TX_DONE", "TX_REJECTED"}
                  /\ ev.kind = "TX_DONE" => ev.of \in aired
    BY <1>0, <1>7 DEF HandleFrame, Channels, EventUnderWay
  <2>2. PICK t \in Senders : Awaits(t, ev.of)
    BY <2>1 DEF Awaited
  <2>3. pending = t /\ slot[t] = Empty
    BY <1>0, <2>2 DEF OneCall, Awaits
  <2>4. /\ slot'[t] = [code |-> CodeOf(ev), of |-> Frame(t)]
        /\ \A u \in Senders \ {t} : slot'[u] = slot[u]
    BY <1>7, <2>1, <2>2, <2>3, Singletons
       DEF HandleFrame, FulfillPendingOutcome, Awaits
  <2>5. Channels'
    <3>1. toGateway' = <<>> /\ gwTx' = {} /\ fromGateway' = <<>>
      BY <1>0, <1>7, <2>1, Singletons
         DEF HandleFrame, Channels, EventUnderWay
    <3> QED BY <3>1, <1>silent
  <2>6. OneCall'
    BY <1>0, <1>7 DEF HandleFrame, OneCall
  <2>7. CodeOf(ev) = "SUCCESS" => Frame(t) \in aired
    BY <2>1, <2>2 DEF CodeOf, Awaits
  <2>8. \A u \in Senders : Frame(u)' = Frame(u)
    BY <1>7 DEF HandleFrame, Frame
  <2>9. OwnOutcome(t)'
    <3>1. slot'[t].code = CodeOf(ev) /\ slot'[t].of = Frame(t)
      BY <2>4
    <3>2. aired' = aired
      BY <1>7 DEF HandleFrame
    <3> QED BY <2>7, <2>8, <3>1, <3>2 DEF OwnOutcome
  <2>10. ASSUME NEW u \in Senders \ {t}, Answered(u)'
         PROVE  OwnOutcome(u)'
    <3>1. slot'[u] = slot[u] /\ aired' = aired
      BY <1>7, <2>4 DEF HandleFrame
    <3> QED BY <1>0, <2>8, <2>10, <3>1 DEF OwnOutcomes, Answered, OwnOutcome
  <2>11. OwnOutcomes'
    BY <2>9, <2>10 DEF OwnOutcomes
  <2> QED BY <2>5, <2>6, <2>11
<1>8. CASE ReadRaises \/ ReaderStops \/ Host \/ Unplug \/ UNCHANGED vars
  <2>1. UNCHANGED <<hostVars, gatewayVars>>
    BY <1>8 DEF ReadRaises, ReaderStops, Host, StateRequestRaises, CloseBegin,
                ClosePort, Unplug, vars
  <2>2. Channels'
    BY <1>same, <2>1
  <2> QED
    BY <1>0, <2>1, <2>2 DEF OneCall, OwnOutcomes, Answered, OwnOutcome, Frame
<1>9. CASE Gateway
  <2>1. UNCHANGED hostVars
    BY <1>9 DEF Gateway, GatewayAccepts, GatewayRejects, GatewayFinishes,
                GatewayAutoSync, GatewayError, GatewayStalls
  <2>2. aired \subseteq aired'
    BY <1>9 DEF Gateway, GatewayAccepts, GatewayRejects, GatewayFinishes,
                GatewayAutoSync, GatewayError, GatewayStalls
  <2>3. OneCall' /\ OwnOutcomes'
    BY <1>0, <2>1, <2>2 DEF OneCall, OwnOutcomes, Answered, OwnOutcome, Frame
  <2>4. \A f : Awaited(f) => Awaited(f)'
    BY <2>1 DEF Awaited, Awaits, Frame
  <2>5. CASE GatewayAccepts
    <3>1. PICK f : toGateway = <<f>> /\ Awaited(f) /\ fromGateway = <<>>
      BY <1>0, <2>5 DEF GatewayAccepts, Channels, FrameAtDoor
    <3>2. gwTx' = {f} /\ toGateway' = <<>> /\ fromGateway' = <<>>
      BY <2>5, <3>1, Singletons DEF GatewayAccepts
    <3> QED BY <2>3, <2>4, <3>1, <3>2
            DEF Channels, FrameAtDoor, FrameOnAir, EventUnderWay
  <2>6. CASE GatewayRejects
    <3>1. PICK f : /\ toGateway = <<f>> /\ Awaited(f)
                   /\ fromGateway = <<>> /\ gwTx = {}
      BY <1>0, <2>6 DEF GatewayRejects, Channels, FrameAtDoor
    <3>2. /\ fromGateway' = <<[kind |-> "TX_REJECTED", of |-> f]>>
          /\ toGateway' = <<>> /\ gwTx' = {}
      BY <2>6, <3>1, Singletons DEF GatewayRejects, Emit
    <3> QED BY <2>3, <2>4, <3>1, <3>2
            DEF Channels, FrameAtDoor, FrameOnAir, EventUnderWay
  <2>7. CASE GatewayFinishes
    <3>1. PICK f : /\ gwTx = {f} /\ Awaited(f)
                   /\ fromGateway = <<>> /\ toGateway = <<>>
      BY <1>0, <2>7 DEF GatewayFinishes, Channels, FrameOnAir
    <3>2. /\ fromGateway' = <<[kind |-> "TX_DONE", of |-> f]>>
          /\ toGateway' = <<>> /\ gwTx' = {} /\ f \in aired'
      BY <2>7, <3>1, Singletons DEF GatewayFinishes, Emit
    <3> QED BY <2>3, <2>4, <3>1, <3>2
            DEF Channels, FrameAtDoor, FrameOnAir, EventUnderWay
  <2>8. CASE GatewayAutoSync \/ GatewayError
    BY <2>8 DEF GatewayAutoSync, GatewayError
  <2>9. CASE GatewayStalls
    <3>1. PICK f : toGateway = <<f>> /\ gwTx = {} /\ fromGateway = <<>>
      BY <1>0, <2>9 DEF GatewayStalls, Channels, FrameAtDoor
    <3>2. toGateway' = <<>> /\ gwTx' = {} /\ fromGateway' = <<>>
      BY <2>9, <3>1, Singletons DEF GatewayStalls
    <3> QED BY <1>silent, <2>3, <3>2
  <2> QED BY <1>9, <2>5, <2>6, <2>7, <2>8, <2>9 DEF Gateway
<1> QED
  BY <1>1, <1>2, <1>3, <1>4, <1>5, <1>6, <1>7, <1>8, <1>9
     DEF Next, Sender, Reader

\* As long as no calls overlap, none times out and the gateway neither
\* auto-syncs nor reports errors, the outcome _send_m2n returns is about
\* its own frame, and SUCCESS means that frame went on air.
THEOREM CleanCallsAreAttributed == Spec => []CleanAttribution
<1>1. Init => CleanInv
  BY EmptyNotAnswered DEF Init, CleanInv, OneCall, FrameAtDoor, FrameOnAir,
     EventUnderWay, OwnOutcomes, Answered
<1>2. CleanInv => CleanAttribution
  BY DEF CleanInv, CleanAttribution, OwnOutcomes
<1> QED
  BY <1>1, <1>2, CleanInvStep, TypeCorrect, SlotInvariant, PTL DEF Spec

-----------------------------------------------------------------------------
(* The send path implements its contract.                                  *)

LEMMA OutcomeCodes ==
  ASSUME TypeOK, NEW t \in Senders, slot[t] # Empty
  PROVE  slot[t].code \in Codes
BY DEF TypeOK, Outcomes

\* A step that moves one call, and one that moves none.
LEMMA OneCallMoves ==
  ASSUME NEW t \in Senders, NEW v, CallState(t)' = v,
         \A u \in Senders \ {t} : CallState(u)' = CallState(u)
  PROVE  callStates' = [callStates EXCEPT ![t] = v]
BY DEF callStates

LEMMA NoCallMoves ==
  ASSUME \A u \in Senders : CallState(u)' = CallState(u)
  PROVE  UNCHANGED callStates
BY DEF callStates

LEMMA ContractInit == Init => Contract!Init
BY DEF Init, Contract!Init, callStates, CallState

LEMMA ContractStep ==
  TypeOK /\ SlotInv /\ [Next]_vars => [Contract!Next]_callStates
<1> SUFFICES ASSUME TypeOK, SlotInv, [Next]_vars
             PROVE  [Contract!Next]_callStates
  OBVIOUS
<1> USE SendAssumption DEF TypeOK, Transition, hostVars, linkVars, gatewayVars
<1>codes. Contract!Codes = Codes
  BY DEF Contract!Codes, Codes
\* t's open call is answered with c, nobody else's call changes.
<1>answer. ASSUME NEW t \in Senders, NEW c \in Codes,
                  pc[t] # "idle", slot[t] = Empty, pc'[t] # "idle",
                  slot'[t].code = c, slot'[t] # Empty,
                  \A u \in Senders \ {t} : pc'[u] = pc[u] /\ slot'[u] = slot[u]
           PROVE  Contract!Next
  <2>1. CallState(t)' = c
    BY <1>answer DEF CallState
  <2>2. \A u \in Senders \ {t} : CallState(u)' = CallState(u)
    BY <1>answer DEF CallState
  <2>3. callStates' = [callStates EXCEPT ![t] = c]
    BY <2>1, <2>2, OneCallMoves
  <2>4. callStates[t] = "open"
    BY <1>answer DEF callStates, CallState
  <2> QED BY <1>codes, <2>3, <2>4 DEF Contract!Next, Contract!Answer
<1>1. ASSUME NEW t \in Senders, Register(t) PROVE Contract!Next
  <2>1. CallState(t)' = "open"
    BY <1>1 DEF Register, CallState
  <2>2. \A u \in Senders \ {t} : CallState(u)' = CallState(u)
    BY <1>1 DEF Register, CallState
  <2>3. callStates' = [callStates EXCEPT ![t] = "open"]
    BY <2>1, <2>2, OneCallMoves
  <2>4. callStates[t] = "idle"
    BY <1>1 DEF Register, callStates, CallState
  <2> QED BY <2>3, <2>4 DEF Contract!Next, Contract!Begin
<1>2. ASSUME NEW t \in Senders, WriteRaises(t) PROVE Contract!Next
  <2>1. [code |-> "USB_ERROR", of |-> NoFrame] # Empty
    BY OutcomeNotEmpty DEF Codes
  <2> QED BY <1>2, <1>answer, <2>1 DEF WriteRaises, SlotInv, Codes
<1>3. ASSUME NEW t \in Senders, TimeOut(t) PROVE Contract!Next
  <2>1. [code |-> "TIMEOUT", of |-> NoFrame] # Empty
    BY OutcomeNotEmpty DEF Codes
  <2> QED BY <1>3, <1>answer, <2>1 DEF TimeOut, Codes
<1>4. ASSUME NEW t \in Senders, Return(t) PROVE Contract!Next
  <2>1. slot[t] # Empty
    BY <1>4 DEF Return, SlotInv
  <2>2. callStates[t] \in Codes
    BY <1>4, <2>1, OutcomeCodes DEF Return, callStates, CallState
  <2>3. CallState(t)' = "idle"
    BY <1>4 DEF Return, CallState
  <2>4. \A u \in Senders \ {t} : CallState(u)' = CallState(u)
    BY <1>4 DEF Return, CallState
  <2>5. callStates' = [callStates EXCEPT ![t] = "idle"]
    BY <2>3, <2>4, OneCallMoves
  <2> QED BY <1>codes, <2>2, <2>5 DEF Contract!Next, Contract!Finish
<1>5. ASSUME NEW t \in Senders,
             WriteFrame(t) \/ ReportDisconnect(t) \/ Wake(t)
      PROVE  UNCHANGED callStates
  <2>1. \A u \in Senders : CallState(u)' = CallState(u)
    BY <1>5 DEF WriteFrame, ReportDisconnect, Wake, CallState
  <2> QED BY <2>1, NoCallMoves
<1>6. CASE HandleFrame
  <2> DEFINE ev == Head(fromGateway)
  <2>1. CASE \E t \in Senders : pending = t /\ slot[t] = Empty
    <3>1. PICK t \in Senders : pending = t /\ slot[t] = Empty
      BY <2>1
    <3>2. /\ slot'[t] = [code |-> CodeOf(ev), of |-> ev.of]
          /\ \A u \in Senders \ {t} : slot'[u] = slot[u]
      BY <1>6, <3>1 DEF HandleFrame, FulfillPendingOutcome
    <3>3. slot'[t] # Empty /\ slot'[t].code = CodeOf(ev) /\ CodeOf(ev) \in Codes
      BY <3>2, OutcomeNotEmpty DEF CodeOf, Codes
    <3>4. pc[t] # "idle" /\ pc' = pc
      BY <1>6, <3>1 DEF HandleFrame, SlotInv
    <3> QED BY <1>answer, <3>1, <3>2, <3>3, <3>4
  <2>2. CASE ~\E t \in Senders : pending = t /\ slot[t] = Empty
    <3>1. \A u \in Senders : slot'[u] = slot[u] /\ pc'[u] = pc[u]
      BY <1>6, <2>2 DEF HandleFrame, FulfillPendingOutcome
    <3>2. \A u \in Senders : CallState(u)' = CallState(u)
      BY <3>1 DEF CallState
    <3> QED BY <3>2, NoCallMoves
  <2> QED BY <2>1, <2>2
<1>7. CASE ReadRaises \/ ReaderStops \/ Gateway \/ Host \/ Unplug
           \/ UNCHANGED vars
  <2>1. UNCHANGED hostVars
    BY <1>7 DEF ReadRaises, ReaderStops, Gateway, GatewayAccepts,
         GatewayRejects, GatewayFinishes, GatewayAutoSync, GatewayError,
         GatewayStalls, Host, StateRequestRaises, CloseBegin, ClosePort,
         Unplug, vars
  <2>2. \A u \in Senders : CallState(u)' = CallState(u)
    BY <2>1 DEF CallState
  <2> QED BY <2>2, NoCallMoves
<1> QED
  BY <1>1, <1>2, <1>3, <1>4, <1>5, <1>6, <1>7 DEF Next, Sender, Reader

\* Every call of _send_m2n is answered exactly once, and no step of any
\* thread answers two calls.
THEOREM SendImplementsContract == Spec => ImplementsContract
<1> QED
  BY ContractInit, ContractStep, TypeCorrect, SlotInvariant, PTL
     DEF Spec, ImplementsContract, Contract!Spec
=============================================================================
