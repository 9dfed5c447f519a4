------------------------ MODULE GatewayLink_proofs --------------------------
(* Proofs about GatewayLink, for any number of slots and of inputs.        *)
EXTENDS GatewayLink, TLAPS

(* Type correctness, in two parts: the flags and the rest.                 *)

LEMMA TypeInit == Init => TypeOK
<1>. SUFFICES ASSUME Init PROVE FlagsOK /\ DataOK
  BY DEF TypeOK
<1>1. FlagsOK
  BY Zenon DEF Init, FlagsOK
<1>2. DataOK
  BY LinkAssumption DEF Init, DataOK
<1>. QED
  BY <1>1, <1>2

LEMMA FlagsStep == FlagsOK /\ [Next]_vars => FlagsOK'
<1>. SUFFICES ASSUME FlagsOK, [Next]_vars PROVE FlagsOK'
  OBVIOUS
<1>1. ASSUME NEW k \in Slots, Startup(k) PROVE FlagsOK'
  BY Zenon, <1>1 DEF FlagsOK, Startup, Begin, runVars, ctlVars, tmrVars,
                     recVars, portVars, hookVars, shutVars, envVars, history
<1>2. ASSUME NEW k \in Slots, RetryGateway(k) PROVE FlagsOK'
  BY Zenon, <1>2 DEF FlagsOK, RetryGateway, Begin, Input, runVars, ctlVars,
                     tmrVars, recVars, portVars, hookVars, shutVars,
                     envVars, history
<1>3. ASSUME NEW k \in Slots, ReleaseOld(k) PROVE FlagsOK'
  BY ZenonT(60), <1>3 DEF FlagsOK, ReleaseOld, Goto, CloseTransport, runVars,
                     ctlVars, tmrVars, recVars, portVars, hookVars,
                     shutVars, envVars, history
<1>4. ASSUME NEW k \in Slots, DropOld(k) PROVE FlagsOK'
  BY ZenonT(60), <1>4 DEF FlagsOK, DropOld, Goto, runVars, ctlVars, tmrVars,
                     recVars, portVars, hookVars, shutVars, envVars, history
<1>5. ASSUME NEW k \in Slots, TakeOld(k) PROVE FlagsOK'
  BY ZenonT(60), <1>5 DEF FlagsOK, TakeOld, Goto, runVars, ctlVars, tmrVars,
                     recVars, portVars, hookVars, shutVars, envVars, history
<1>6. ASSUME NEW k \in Slots, CloseAndCreate(k) PROVE FlagsOK'
  BY Zenon, <1>6 DEF FlagsOK, CloseAndCreate, Goto, CloseTransport, runVars,
                     ctlVars, tmrVars, recVars, portVars, hookVars,
                     shutVars, envVars, history
<1>7. ASSUME NEW k \in Slots, OpenSucceeds(k) PROVE FlagsOK'
  BY Zenon, <1>7 DEF FlagsOK, OpenSucceeds, Goto, runVars, ctlVars, tmrVars,
                     recVars, portVars, hookVars, shutVars, envVars, history
<1>8. ASSUME NEW k \in Slots, OpenFails(k) PROVE FlagsOK'
  BY ZenonT(60), <1>8 DEF FlagsOK, OpenFails, Fail, Goto, runVars, ctlVars,
                     tmrVars, recVars, portVars, hookVars, shutVars,
                     envVars, history
<1>9. ASSUME NEW k \in Slots, StartReader(k) PROVE FlagsOK'
  BY ZenonT(60), <1>9 DEF FlagsOK, StartReader, Goto, runVars, ctlVars, tmrVars,
                     recVars, portVars, hookVars, shutVars, envVars, history
<1>10. ASSUME NEW k \in Slots, ReopenAndStart(k) PROVE FlagsOK'
  BY Zenon, <1>10 DEF FlagsOK, ReopenAndStart, Goto, runVars, ctlVars,
                      tmrVars, recVars, portVars, hookVars, shutVars,
                      envVars, history
<1>11. ASSUME NEW k \in Slots, StartFails(k) PROVE FlagsOK'
  BY ZenonT(60), <1>11 DEF FlagsOK, StartFails, Fail, Goto, Codes, runVars,
                      ctlVars, tmrVars, recVars, portVars, hookVars,
                      shutVars, envVars, history
<1>12. ASSUME NEW k \in Slots, MarkReady(k) PROVE FlagsOK'
  BY Zenon, <1>12 DEF FlagsOK, MarkReady, Goto, runVars, ctlVars, tmrVars,
                      recVars, portVars, hookVars, shutVars, envVars,
                      history
<1>13. ASSUME NEW k \in Slots, ClearError(k) PROVE FlagsOK'
  BY ZenonT(60), <1>13 DEF FlagsOK, ClearError, Goto, runVars, ctlVars, tmrVars,
                      recVars, portVars, hookVars, shutVars, envVars,
                      history
<1>14. ASSUME NEW k \in Slots, HookTransport(k) PROVE FlagsOK'
  BY ZenonT(60), <1>14 DEF FlagsOK, HookTransport, InstallHooks, Fail, Goto,
                      Codes, hookVars, runVars, ctlVars, tmrVars, recVars,
                      portVars, shutVars, envVars, history
<1>15. ASSUME NEW k \in Slots, RecordError(k) PROVE FlagsOK'
  BY Zenon, <1>15 DEF FlagsOK, RecordError, Goto, Resolved, Codes, runVars,
                      ctlVars, tmrVars, recVars, portVars, hookVars,
                      shutVars, envVars, history
<1>16. ASSUME NEW k \in Slots, CancelTimer(k) PROVE FlagsOK'
  BY ZenonT(60), <1>16 DEF FlagsOK, CancelTimer, Goto, runVars, ctlVars,
                           tmrVars, recVars, portVars, hookVars, shutVars,
                           envVars, history
<1>17. ASSUME NEW k \in Slots, ArmTimer(k) PROVE FlagsOK'
  BY ZenonT(60), <1>17 DEF FlagsOK, ArmTimer, Goto, runVars, ctlVars, tmrVars,
                      recVars, portVars, hookVars, shutVars, envVars,
                      history
<1>18. ASSUME NEW k \in Slots, EndAttempt(k) PROVE FlagsOK'
  BY Zenon, <1>18 DEF FlagsOK, EndAttempt, Goto, runVars, ctlVars, tmrVars,
                      recVars, portVars, hookVars, shutVars, envVars,
                      history
<1>19. ASSUME NEW k \in Slots, ReaderReports(k) PROVE FlagsOK'
  BY Zenon, <1>19 DEF FlagsOK, ReaderReports, Report, runVars, ctlVars,
                      tmrVars, recVars, portVars, hookVars, shutVars,
                      envVars, history
<1>20. ASSUME NEW k \in Slots, ReaderStops(k) PROVE FlagsOK'
  BY ZenonT(60), <1>20 DEF FlagsOK, ReaderStops, runVars, ctlVars, tmrVars,
                      recVars, portVars, hookVars, shutVars, envVars,
                      history
<1>21. ASSUME NEW k \in Slots, SenderReports(k) PROVE FlagsOK'
  BY Zenon, <1>21 DEF FlagsOK, SenderReports, Report, Input, runVars,
                      ctlVars, tmrVars, recVars, portVars, hookVars,
                      shutVars, envVars, history
<1>22. ASSUME NEW k \in Slots, GatewayReports(k) PROVE FlagsOK'
  BY Zenon, <1>22 DEF FlagsOK, GatewayReports, Report, Input, runVars,
                      ctlVars, tmrVars, recVars, portVars, hookVars,
                      shutVars, envVars, history
<1>23. ASSUME NEW j \in Slots, NEW k \in Slots, TimerFires(j, k) PROVE FlagsOK'
  BY Zenon, <1>23 DEF FlagsOK, TimerFires, Fired, Begin, runVars, ctlVars,
                      tmrVars, recVars, portVars, hookVars, shutVars,
                      envVars, history
<1>24. ASSUME NEW j \in Slots, TimerFiresTooLate(j) PROVE FlagsOK'
  BY ZenonT(60), <1>24 DEF FlagsOK, TimerFiresTooLate, Fired, runVars, ctlVars,
                      tmrVars, recVars, portVars, hookVars, shutVars,
                      envVars, history
<1>25. ASSUME NEW r \in reports, NEW k \in Slots, ScheduleReconnect(r, k)
       PROVE  FlagsOK'
  BY Zenon, <1>25 DEF FlagsOK, ScheduleReconnect, Begin, runVars, ctlVars,
                      tmrVars, recVars, portVars, hookVars, shutVars,
                      envVars, history
<1>26. ASSUME NEW r \in reports, FinishDisconnect(r) PROVE FlagsOK'
  BY ZenonT(60), <1>26 DEF FlagsOK, FinishDisconnect, runVars, ctlVars, tmrVars,
                      recVars, portVars, hookVars, shutVars, envVars,
                      history
<1>27. CASE SenderInstallsHooks
  BY Zenon, <1>27 DEF FlagsOK, SenderInstallsHooks, InstallHooks, runVars,
                      ctlVars, tmrVars, recVars, portVars, hookVars,
                      shutVars, envVars, history
<1>28. CASE FiveSecondsPass
  BY Zenon, <1>28 DEF FlagsOK, FiveSecondsPass, runVars, ctlVars, tmrVars,
                      recVars, portVars, hookVars, shutVars, envVars,
                      history
<1>29. CASE ShutdownBegins
  BY Zenon, <1>29 DEF FlagsOK, ShutdownBegins, runVars, ctlVars, tmrVars,
                      recVars, portVars, hookVars, shutVars, envVars,
                      history
<1>30. CASE ShutdownTakes
  BY ZenonT(60), <1>30 DEF FlagsOK, ShutdownTakes, runVars, ctlVars, tmrVars,
                      recVars, portVars, hookVars, shutVars, envVars,
                      history
<1>31. CASE ShutdownCloses
  BY Zenon, <1>31 DEF FlagsOK, ShutdownCloses, CloseTransport, runVars,
                      ctlVars, tmrVars, recVars, portVars, hookVars,
                      shutVars, envVars, history
<1>32. CASE Replug
  BY Zenon, <1>32 DEF FlagsOK, Replug, Input, runVars, ctlVars, tmrVars,
                      recVars, portVars, hookVars, shutVars, envVars,
                      history
<1>33. CASE OtherProcess
  BY Zenon, <1>33 DEF FlagsOK, OtherProcess, Input, runVars, ctlVars,
                      tmrVars, recVars, portVars, hookVars, shutVars,
                      envVars, history
<1>34. CASE UNCHANGED vars
  BY ZenonT(60), <1>34 DEF FlagsOK, vars, runVars, ctlVars, tmrVars, recVars,
                      portVars, hookVars, shutVars, envVars, history
<1>35. QED
  BY <1>1, <1>2, <1>3, <1>4, <1>5, <1>6, <1>7, <1>8, <1>9, <1>10, <1>11,
     <1>12, <1>13, <1>14, <1>15, <1>16, <1>17, <1>18, <1>19, <1>20, <1>21,
     <1>22, <1>23, <1>24, <1>25, <1>26, <1>27, <1>28, <1>29, <1>30, <1>31,
     <1>32, <1>33, <1>34
     DEF Next, AttemptStep, ReaderStep, TimerStep, ReportStep, ShutdownStep

\* The codes an attempt can fail to open with.
LEMMA FailureCodes ==
  ASSUME NEW k \in Slots
  PROVE  OpenFailures(k) \subseteq Codes
BY Zenon DEF OpenFailures, Codes

LEMMA DataStep == DataOK /\ [Next]_vars => DataOK'
<1>. SUFFICES ASSUME DataOK, [Next]_vars PROVE DataOK'
  OBVIOUS
<1>. USE LinkAssumption
<1>1. ASSUME NEW k \in Slots, Startup(k) PROVE DataOK'
  BY <1>1 DEF DataOK, Origins, Startup, Begin, runVars, ctlVars, tmrVars,
              recVars, portVars, hookVars, shutVars, envVars, history
<1>2. ASSUME NEW k \in Slots, RetryGateway(k) PROVE DataOK'
  BY <1>2 DEF DataOK, Origins, RetryGateway, Begin, Input, runVars, ctlVars,
              tmrVars, recVars, portVars, hookVars, shutVars, envVars,
              history
<1>3. ASSUME NEW k \in Slots, ReleaseOld(k) PROVE DataOK'
  BY <1>3 DEF DataOK, Origins, ReleaseOld, Goto, CloseTransport, runVars,
              ctlVars, tmrVars, recVars, portVars, hookVars, shutVars,
              envVars, history
<1>4. ASSUME NEW k \in Slots, DropOld(k) PROVE DataOK'
  BY <1>4 DEF DataOK, Origins, DropOld, Goto, runVars, ctlVars, tmrVars,
              recVars, portVars, hookVars, shutVars, envVars, history
<1>5. ASSUME NEW k \in Slots, TakeOld(k) PROVE DataOK'
  BY <1>5 DEF DataOK, Origins, TakeOld, Goto, runVars, ctlVars, tmrVars,
              recVars, portVars, hookVars, shutVars, envVars, history
<1>6. ASSUME NEW k \in Slots, CloseAndCreate(k) PROVE DataOK'
  BY <1>6 DEF DataOK, Origins, CloseAndCreate, Goto, CloseTransport,
              runVars, ctlVars, tmrVars, recVars, portVars, hookVars,
              shutVars, envVars, history
<1>7. ASSUME NEW k \in Slots, OpenSucceeds(k) PROVE DataOK'
  BY <1>7 DEF DataOK, Origins, OpenSucceeds, Goto, runVars, ctlVars,
              tmrVars, recVars, portVars, hookVars, shutVars, envVars,
              history
<1>8. ASSUME NEW k \in Slots, OpenFails(k) PROVE DataOK'
  <2>1. PICK code \in Codes : Fail(k, "open", code)
    BY <1>8, FailureCodes DEF OpenFails
  <2>. QED
    BY <1>8, <2>1 DEF DataOK, OpenFails, Fail, Goto, runVars, ctlVars,
                      tmrVars, recVars, portVars, hookVars, shutVars,
                      envVars, history
<1>9. ASSUME NEW k \in Slots, StartReader(k) PROVE DataOK'
  BY <1>9 DEF DataOK, Origins, StartReader, Goto, runVars, ctlVars, tmrVars,
              recVars, portVars, hookVars, shutVars, envVars, history
<1>10. ASSUME NEW k \in Slots, ReopenAndStart(k) PROVE DataOK'
  BY <1>10 DEF DataOK, Origins, ReopenAndStart, Goto, runVars, ctlVars,
               tmrVars, recVars, portVars, hookVars, shutVars, envVars,
               history
<1>11. ASSUME NEW k \in Slots, StartFails(k) PROVE DataOK'
  BY <1>11 DEF DataOK, Origins, StartFails, Fail, Goto, Codes, runVars,
               ctlVars, tmrVars, recVars, portVars, hookVars, shutVars,
               envVars, history
<1>12. ASSUME NEW k \in Slots, MarkReady(k) PROVE DataOK'
  BY <1>12 DEF DataOK, Origins, MarkReady, Goto, runVars, ctlVars, tmrVars,
               recVars, portVars, hookVars, shutVars, envVars, history
<1>13. ASSUME NEW k \in Slots, ClearError(k) PROVE DataOK'
  BY <1>13 DEF DataOK, Origins, ClearError, Goto, runVars, ctlVars, tmrVars,
               recVars, portVars, hookVars, shutVars, envVars, history
<1>14. ASSUME NEW k \in Slots, HookTransport(k) PROVE DataOK'
  BY ZenonT(60), <1>14 DEF DataOK, Origins, HookTransport, InstallHooks,
                           Fail, Goto, Codes, hookVars, runVars, ctlVars,
                           tmrVars, recVars, portVars, shutVars, envVars,
                           history
<1>15. ASSUME NEW k \in Slots, RecordError(k) PROVE DataOK'
  BY <1>15 DEF DataOK, Origins, RecordError, Goto, Resolved, Codes, runVars,
               ctlVars, tmrVars, recVars, portVars, hookVars, shutVars,
               envVars, history
<1>16. ASSUME NEW k \in Slots, CancelTimer(k) PROVE DataOK'
  BY <1>16 DEF DataOK, Origins, CancelTimer, Goto, runVars, ctlVars,
               tmrVars, recVars, portVars, hookVars, shutVars, envVars,
               history
<1>17. ASSUME NEW k \in Slots, ArmTimer(k) PROVE DataOK'
  BY <1>17 DEF DataOK, Origins, ArmTimer, Goto, runVars, ctlVars, tmrVars,
               recVars, portVars, hookVars, shutVars, envVars, history
<1>18. ASSUME NEW k \in Slots, EndAttempt(k) PROVE DataOK'
  BY <1>18 DEF DataOK, Origins, EndAttempt, Goto, runVars, ctlVars, tmrVars,
               recVars, portVars, hookVars, shutVars, envVars, history
<1>19. ASSUME NEW k \in Slots, ReaderReports(k) PROVE DataOK'
  BY <1>19 DEF DataOK, Origins, ReaderReports, Report, runVars, ctlVars,
               tmrVars, recVars, portVars, hookVars, shutVars, envVars,
               history
<1>20. ASSUME NEW k \in Slots, ReaderStops(k) PROVE DataOK'
  BY <1>20 DEF DataOK, Origins, ReaderStops, runVars, ctlVars, tmrVars,
               recVars, portVars, hookVars, shutVars, envVars, history
<1>21. ASSUME NEW k \in Slots, SenderReports(k) PROVE DataOK'
  BY <1>21 DEF DataOK, Origins, SenderReports, Report, Input, runVars,
               ctlVars, tmrVars, recVars, portVars, hookVars, shutVars,
               envVars, history
<1>22. ASSUME NEW k \in Slots, GatewayReports(k) PROVE DataOK'
  BY <1>22 DEF DataOK, Origins, GatewayReports, Report, Input, runVars,
               ctlVars, tmrVars, recVars, portVars, hookVars, shutVars,
               envVars, history
<1>23. ASSUME NEW j \in Slots, NEW k \in Slots, TimerFires(j, k) PROVE DataOK'
  BY <1>23 DEF DataOK, Origins, TimerFires, Fired, Begin, runVars, ctlVars,
               tmrVars, recVars, portVars, hookVars, shutVars, envVars,
               history
<1>24. ASSUME NEW j \in Slots, TimerFiresTooLate(j) PROVE DataOK'
  BY <1>24 DEF DataOK, Origins, TimerFiresTooLate, Fired, runVars, ctlVars,
               tmrVars, recVars, portVars, hookVars, shutVars, envVars,
               history
<1>25. ASSUME NEW r \in reports, NEW k \in Slots, ScheduleReconnect(r, k)
       PROVE  DataOK'
  BY <1>25 DEF DataOK, Origins, ScheduleReconnect, Begin, runVars, ctlVars,
               tmrVars, recVars, portVars, hookVars, shutVars, envVars,
               history
<1>26. ASSUME NEW r \in reports, FinishDisconnect(r) PROVE DataOK'
  <2>1. r.of \in Slots
    BY DEF DataOK
  <2>2. port' \in [Slots -> {"new", "open", "closed"}]
    BY <1>26, <2>1 DEF DataOK, FinishDisconnect
  <2>3. readers' \in [Slots -> Nat]
    <3>1. readers \in [Slots -> Nat]
      BY DEF DataOK
    <3>2. CASE r.by = "reader" /\ readers[r.of] > 0
      <4>1. readers[r.of] - 1 \in Nat
        <5>1. \A n \in Nat : n > 0 => n - 1 \in Nat
          OBVIOUS
        <5>2. readers[r.of] \in Nat
          BY <2>1, <3>1
        <5>3. readers[r.of] > 0
          BY <3>2
        <5>. QED
          BY <5>1, <5>2, <5>3
      <4>2. readers' = [readers EXCEPT ![r.of] = readers[r.of] - 1]
        BY <1>26, <3>2 DEF FinishDisconnect
      <4>. QED
        BY <2>1, <3>1, <4>1, <4>2
    <3>3. CASE ~(r.by = "reader" /\ readers[r.of] > 0)
      BY <1>26, <3>1, <3>3 DEF FinishDisconnect
    <3>. QED
      BY <3>2, <3>3
  <2>. QED
    BY <1>26, <2>2, <2>3
       DEF DataOK, FinishDisconnect, runVars, ctlVars, tmrVars, recVars,
           portVars, hookVars, shutVars, envVars, history
<1>27. CASE SenderInstallsHooks
  BY <1>27 DEF DataOK, Origins, SenderInstallsHooks, InstallHooks, runVars,
               ctlVars, tmrVars, recVars, portVars, hookVars, shutVars,
               envVars, history
<1>28. CASE FiveSecondsPass
  BY <1>28 DEF DataOK, Origins, FiveSecondsPass, runVars, ctlVars, tmrVars,
               recVars, portVars, hookVars, shutVars, envVars, history
<1>29. CASE ShutdownBegins
  BY <1>29 DEF DataOK, Origins, ShutdownBegins, runVars, ctlVars, tmrVars,
               recVars, portVars, hookVars, shutVars, envVars, history
<1>30. CASE ShutdownTakes
  BY <1>30 DEF DataOK, Origins, ShutdownTakes, runVars, ctlVars, tmrVars,
               recVars, portVars, hookVars, shutVars, envVars, history
<1>31. CASE ShutdownCloses
  BY <1>31 DEF DataOK, Origins, ShutdownCloses, CloseTransport, runVars,
               ctlVars, tmrVars, recVars, portVars, hookVars, shutVars,
               envVars, history
<1>32. CASE Replug
  BY <1>32 DEF DataOK, Origins, Replug, Input, runVars, ctlVars, tmrVars,
               recVars, portVars, hookVars, shutVars, envVars, history
<1>33. CASE OtherProcess
  BY <1>33 DEF DataOK, Origins, OtherProcess, Input, runVars, ctlVars,
               tmrVars, recVars, portVars, hookVars, shutVars, envVars,
               history
<1>34. CASE UNCHANGED vars
  BY <1>34 DEF DataOK, Origins, vars, runVars, ctlVars, tmrVars, recVars,
               portVars, hookVars, shutVars, envVars, history
<1>35. QED
  BY <1>1, <1>2, <1>3, <1>4, <1>5, <1>6, <1>7, <1>8, <1>9, <1>10, <1>11,
     <1>12, <1>13, <1>14, <1>15, <1>16, <1>17, <1>18, <1>19, <1>20, <1>21,
     <1>22, <1>23, <1>24, <1>25, <1>26, <1>27, <1>28, <1>29, <1>30, <1>31,
     <1>32, <1>33, <1>34
     DEF Next, AttemptStep, ReaderStep, TimerStep, ReportStep, ShutdownStep

\* Every variable keeps its type, whichever attempts, losses and shutdown
\* overlap.
THEOREM TypeCorrect == Spec => []TypeOK
<1>1. TypeOK /\ [Next]_vars => TypeOK'
  BY FlagsStep, DataStep DEF TypeOK
<1>2. QED
  BY TypeInit, <1>1, PTL DEF Spec

-----------------------------------------------------------------------------
(* A reconnect in progress is somebody's.                                  *)

\* An unused slot carries no origin, so an attempt that begins in it takes
\* nothing from the reconnect that inProgress stands for.
OwnInv ==
  /\ \A k \in Slots : pc[k] = "free" => origin[k] = NoCode
  /\ ReconnectOwned

\* What an attempt that begins does to the others.
LEMMA BeginKeepsOthers ==
  ASSUME DataOK, OwnInv, NEW k \in Slots, NEW who \in Origins, Begin(k, who)
  PROVE  /\ \A j \in Slots : pc'[j] = "free" => origin'[j] = NoCode
         /\ \A j \in Slots : origin[j] = "reconnect" =>
                             origin'[j] = "reconnect"
         /\ origin'[k] = who
BY DEF DataOK, OwnInv, Begin, Unused, Origins, NoCode

LEMMA OwnStep == DataOK /\ OwnInv /\ [Next]_vars => OwnInv'
<1>. SUFFICES ASSUME DataOK, OwnInv, [Next]_vars PROVE OwnInv'
  OBVIOUS
<1>. USE DEF OwnInv, ReconnectOwned
<1>1. ASSUME NEW k \in Slots, Startup(k) \/ RetryGateway(k) PROVE OwnInv'
  <2>1. PICK who \in Origins : Begin(k, who)
    BY <1>1 DEF Startup, RetryGateway, Origins
  <2>2. inProgress' = inProgress
    BY <1>1 DEF Startup, RetryGateway, recVars
  <2>. QED
    BY <2>1, <2>2, BeginKeepsOthers
<1>2. ASSUME NEW j \in Slots, NEW k \in Slots, TimerFires(j, k) PROVE OwnInv'
  <2>1. Begin(k, "timer") /\ inProgress' = inProgress
    BY <1>2 DEF TimerFires, recVars
  <2>. QED
    BY <2>1, BeginKeepsOthers DEF Origins
<1>3. ASSUME NEW r \in reports, NEW k \in Slots, ScheduleReconnect(r, k)
      PROVE  OwnInv'
  <2>1. Begin(k, "reconnect")
    BY <1>3 DEF ScheduleReconnect
  <2>. QED
    BY <2>1, BeginKeepsOthers DEF Origins
<1>4. ASSUME NEW k \in Slots,
             \/ ReleaseOld(k) \/ DropOld(k) \/ TakeOld(k) \/ CloseAndCreate(k)
             \/ OpenSucceeds(k) \/ OpenFails(k) \/ StartReader(k)
             \/ ReopenAndStart(k) \/ StartFails(k) \/ MarkReady(k)
             \/ ClearError(k) \/ HookTransport(k) \/ RecordError(k)
             \/ CancelTimer(k) \/ ArmTimer(k)
      PROVE  OwnInv'
  <2>1. origin' = origin /\ inProgress' = inProgress
    BY <1>4 DEF ReleaseOld, DropOld, TakeOld, CloseAndCreate, OpenSucceeds,
                OpenFails, StartReader, ReopenAndStart, StartFails,
                MarkReady, ClearError, HookTransport, RecordError,
                CancelTimer, ArmTimer, recVars
  <2>2. \A j \in Slots : pc'[j] = "free" => pc[j] = "free"
    BY <1>4 DEF ReleaseOld, DropOld, TakeOld, CloseAndCreate, OpenSucceeds,
                OpenFails, StartReader, ReopenAndStart, StartFails, Fail,
                MarkReady, ClearError, HookTransport, RecordError,
                CancelTimer, ArmTimer, Goto, DataOK
  <2>. QED
    BY <2>1, <2>2
<1>5. ASSUME NEW k \in Slots, EndAttempt(k) PROVE OwnInv'
  BY <1>5 DEF EndAttempt, Goto, DataOK, NoCode
<1>6. ASSUME UNCHANGED <<pc, origin, inProgress>> PROVE OwnInv'
  BY <1>6
<1>7. ASSUME NEW k \in Slots,
             \/ ReaderReports(k) \/ ReaderStops(k)
             \/ SenderReports(k) \/ GatewayReports(k) \/ TimerFiresTooLate(k)
      PROVE  OwnInv'
  BY <1>6, <1>7 DEF ReaderReports, ReaderStops, SenderReports,
     GatewayReports, TimerFiresTooLate, Report, runVars, recVars
<1>8. ASSUME NEW r \in reports, FinishDisconnect(r) PROVE OwnInv'
  BY <1>6, <1>8 DEF FinishDisconnect, runVars
<1>9. CASE \/ SenderInstallsHooks \/ FiveSecondsPass \/ ShutdownBegins
           \/ ShutdownStep \/ Replug \/ OtherProcess \/ UNCHANGED vars
  BY <1>6, <1>9 DEF SenderInstallsHooks, FiveSecondsPass, ShutdownBegins,
     ShutdownStep, ShutdownTakes, ShutdownCloses, Replug, OtherProcess, vars,
     runVars, recVars
<1>10. QED
  BY <1>1, <1>2, <1>3, <1>4, <1>5, <1>7, <1>8, <1>9
     DEF Next, AttemptStep, ReaderStep, TimerStep, ReportStep

\* schedule_reconnect ignores losses on account of a reconnect in progress
\* only while a reconnect is in flight, whatever overlaps it: the flag is
\* never left behind by an attempt that failed or was overtaken.
THEOREM ReconnectsAreOwned == Spec => []ReconnectOwned
<1>1. Init => OwnInv
  BY DEF Init, OwnInv, ReconnectOwned
<1>2. TypeOK => DataOK
  BY DEF TypeOK
<1>3. OwnInv => ReconnectOwned
  BY DEF OwnInv
<1>4. QED
  BY TypeCorrect, OwnStep, <1>1, <1>2, <1>3, PTL DEF Spec

-----------------------------------------------------------------------------
(* Attempts that do not overlap.                                           *)

\* The steps in which an attempt begins.
Begins(k) ==
  \/ Startup(k) \/ RetryGateway(k)
  \/ \E j \in Slots : TimerFires(j, k)
  \/ \E r \in reports : ScheduleReconnect(r, k)

\* The steps that concern no attempt.
Elsewhere ==
  \/ \E k \in Slots : \/ ReaderStep(k) \/ SenderReports(k)
                      \/ GatewayReports(k) \/ TimerFiresTooLate(k)
  \/ \E r \in reports : FinishDisconnect(r)
  \/ SenderInstallsHooks \/ FiveSecondsPass
  \/ ShutdownBegins \/ ShutdownStep \/ Replug \/ OtherProcess
  \/ UNCHANGED vars

LEMMA Steps ==
  ASSUME [Next]_vars
  PROVE  \/ \E k \in Slots : Begins(k) \/ AttemptStep(k)
         \/ Elsewhere
BY DEF Next, Begins, Elsewhere, TimerStep, ReportStep

\* An attempt that begins beside none leaves overlap as it was.
LEMMA BeginsAlone ==
  ASSUME DataOK, NEW k \in Slots, Begins(k), ~overlap'
  PROVE  /\ ~overlap /\ shut = "no" /\ shut' = shut
         /\ \A j \in Slots : pc[j] = "free"
         /\ \A j \in Slots \ {k} : pc'[j] = "free"
         /\ pc'[k] \in {"release", "take"}
<1>1. PICK who \in Origins : Begin(k, who)
  BY DEF Begins, Startup, RetryGateway, TimerFires, ScheduleReconnect,
         Origins
<1>2. shut' = shut
  BY DEF Begins, Startup, RetryGateway, TimerFires, ScheduleReconnect,
         shutVars
<1>3. ~overlap /\ InFlight = {} /\ shut = "no"
  BY <1>1 DEF Begin
<1>4. QED
  BY <1>1, <1>2, <1>3 DEF Begin, InFlight, DataOK

\* An attempt moves only itself.
LEMMA AttemptMoves ==
  ASSUME DataOK, NEW k \in Slots, AttemptStep(k)
  PROVE  /\ pc[k] # "free"
         /\ \A j \in Slots \ {k} : pc'[j] = pc[j]
         /\ overlap' = overlap /\ shut' = shut
<1>1. overlap' = overlap /\ shut' = shut
  BY DEF AttemptStep, ReleaseOld, DropOld, TakeOld, CloseAndCreate,
         OpenSucceeds, OpenFails, StartReader, ReopenAndStart, StartFails,
         MarkReady, ClearError, HookTransport, RecordError, CancelTimer,
         ArmTimer, EndAttempt, shutVars, history
<1>2. QED
  BY <1>1 DEF AttemptStep, ReleaseOld, DropOld, TakeOld, CloseAndCreate,
         OpenSucceeds, OpenFails, StartReader, ReopenAndStart, StartFails,
         MarkReady, ClearError, HookTransport, RecordError, CancelTimer,
         ArmTimer, EndAttempt, Fail, Goto, DataOK

\* Nothing else moves an attempt or ends an overlap.
LEMMA ElsewhereStays ==
  ASSUME Elsewhere
  PROVE  pc' = pc /\ (overlap => overlap')
<1>1. CASE ShutdownBegins
  BY Zenon, <1>1 DEF ShutdownBegins, runVars
<1>2. CASE ~ShutdownBegins
  <2>1. pc' = pc /\ overlap' = overlap
    BY <1>2 DEF Elsewhere, ReaderStep, ReaderReports, ReaderStops,
       SenderReports, GatewayReports, Report, TimerFiresTooLate,
       FinishDisconnect, SenderInstallsHooks, FiveSecondsPass, ShutdownStep,
       ShutdownTakes, ShutdownCloses, Replug, OtherProcess, vars, runVars,
       history
  <2>. QED
    BY <2>1
<1>3. QED
  BY <1>1, <1>2

\* What "no overlap" means: one attempt at a time, and none once shutdown()
\* has begun.
AloneInv ==
  ~overlap =>
    /\ \A j, k \in Slots : pc[j] # "free" /\ pc[k] # "free" => j = k
    /\ shut # "no" => \A k \in Slots : pc[k] = "free"

LEMMA AloneStep == DataOK /\ AloneInv /\ [Next]_vars => AloneInv'
<1>. SUFFICES ASSUME DataOK, AloneInv, [Next]_vars, ~overlap'
              PROVE  AloneInv'
  BY DEF AloneInv
<1>1. ASSUME NEW k \in Slots, Begins(k) PROVE AloneInv'
  BY <1>1, BeginsAlone DEF AloneInv
<1>2. ASSUME NEW k \in Slots, AttemptStep(k) PROVE AloneInv'
  BY <1>2, AttemptMoves DEF AloneInv
<1>3. CASE Elsewhere
  <2>1. pc' = pc /\ ~overlap
    BY <1>3, ElsewhereStays
  <2>2. shut' # "no" => shut # "no" \/ InFlight = {}
    BY <1>3 DEF Elsewhere, ReaderStep, ReaderReports, ReaderStops,
       SenderReports, GatewayReports, Report, TimerFiresTooLate,
       FinishDisconnect, SenderInstallsHooks, FiveSecondsPass,
       ShutdownBegins, ShutdownStep, ShutdownTakes, ShutdownCloses, Replug,
       OtherProcess, vars, shutVars
  <2>. QED
    BY <2>1, <2>2 DEF AloneInv, InFlight
<1>4. QED
  BY <1>1, <1>2, <1>3, Steps

-----------------------------------------------------------------------------
(* One retry timer.                                                        *)

\* While attempts do not overlap, nothing is armed when a new timer is about
\* to be: the cancellation before it was complete.
TimerInv ==
  ~overlap =>
    /\ SingleTimer
    /\ \A k \in Slots : pc[k] = "arm" => armed = {}

LEMMA TimerStepInv ==
  DataOK /\ AloneInv /\ TimerInv /\ [Next]_vars => TimerInv'
<1>. SUFFICES ASSUME DataOK, AloneInv, TimerInv, [Next]_vars, ~overlap'
              PROVE  TimerInv'
  BY DEF TimerInv
<1>. USE DEF TimerInv, SingleTimer
<1>1. ASSUME NEW k \in Slots, Begins(k) PROVE TimerInv'
  <2>1. ~overlap /\ \A j \in Slots : pc'[j] # "arm"
    BY <1>1, BeginsAlone
  <2>2. armed' \subseteq {handle'}
    <3>1. CASE Startup(k) \/ RetryGateway(k)
      BY <2>1, <3>1 DEF Startup, RetryGateway, tmrVars
    <3>2. ASSUME NEW j \in Slots, TimerFires(j, k)
          PROVE  armed' \subseteq {handle'}
      BY <2>1, <3>2 DEF TimerFires, Fired
    <3>3. ASSUME NEW r \in reports, ScheduleReconnect(r, k)
          PROVE  armed' \subseteq {handle'}
      <4>1. armed' = armed /\ handle' = handle
        BY <3>3 DEF ScheduleReconnect, tmrVars
      <4>. QED
        BY <2>1, <4>1
    <3>. QED
      BY <1>1, <3>1, <3>2, <3>3 DEF Begins
  <2>. QED
    BY <2>1, <2>2
<1>2. ASSUME NEW k \in Slots, AttemptStep(k) PROVE TimerInv'
  <2>1. /\ ~overlap
        /\ \A j \in Slots \ {k} : pc'[j] = "free"
    BY <1>2, AttemptMoves DEF AloneInv
  <2>2. CASE \/ ReleaseOld(k) \/ DropOld(k) \/ TakeOld(k)
             \/ CloseAndCreate(k) \/ OpenSucceeds(k) \/ OpenFails(k)
             \/ StartReader(k) \/ ReopenAndStart(k) \/ StartFails(k)
             \/ MarkReady(k) \/ HookTransport(k) \/ RecordError(k)
             \/ EndAttempt(k)
    <3>1. armed' = armed /\ handle' = handle
      BY <2>2 DEF ReleaseOld, DropOld, TakeOld, CloseAndCreate,
         OpenSucceeds, OpenFails, StartReader, ReopenAndStart, StartFails,
         MarkReady, HookTransport, RecordError, EndAttempt, tmrVars
    <3>2. pc'[k] # "arm"
      BY <2>2 DEF ReleaseOld, DropOld, TakeOld, CloseAndCreate,
         OpenSucceeds, OpenFails, StartReader, ReopenAndStart, StartFails,
         MarkReady, HookTransport, RecordError, EndAttempt, Fail, Goto,
         DataOK
    <3>. QED
      BY <2>1, <3>1, <3>2
  <2>3. CASE ClearError(k) \/ CancelTimer(k)
    BY <2>1, <2>3 DEF ClearError, CancelTimer, Goto, DataOK
  <2>4. CASE ArmTimer(k)
    BY <2>1, <2>4 DEF ArmTimer, Goto, DataOK
  <2>. QED
    BY <1>2, <2>2, <2>3, <2>4 DEF AttemptStep
<1>3. CASE Elsewhere
  <2>1. pc' = pc /\ ~overlap
    BY <1>3, ElsewhereStays
  <2>2. \/ armed' = armed /\ handle' = handle
        \/ armed' = armed \ {handle}
        \/ \E j \in Slots : Fired(j)
    BY <1>3 DEF Elsewhere, ReaderStep, ReaderReports, ReaderStops,
       SenderReports, GatewayReports, Report, TimerFiresTooLate,
       FinishDisconnect, SenderInstallsHooks, FiveSecondsPass,
       ShutdownBegins, ShutdownStep, ShutdownTakes, ShutdownCloses, Replug,
       OtherProcess, vars, tmrVars
  <2>. QED
    BY <2>1, <2>2 DEF Fired
<1>4. QED
  BY <1>1, <1>2, <1>3, Steps

\* _schedule_gateway_retry: as long as no attempt began beside another one,
\* at most one timer is armed, and it is the one that can be cancelled.
THEOREM OneTimerUnlessOverlap == Spec => []CleanSingleTimer
<1>1. Init => AloneInv /\ TimerInv
  BY DEF Init, AloneInv, TimerInv, SingleTimer
<1>2. TypeOK => DataOK
  BY DEF TypeOK
<1>3. TimerInv => CleanSingleTimer
  BY DEF TimerInv, CleanSingleTimer
<1>4. QED
  BY TypeCorrect, AloneStep, TimerStepInv, <1>1, <1>2, <1>3, PTL DEF Spec

-----------------------------------------------------------------------------
(* No rival transports.                                                    *)

\* Where an open transport can be while attempts do not overlap: it is
\* self.transport, or an attempt or shutdown() holds it to close it.
RivalInv ==
  ~overlap =>
    /\ \A k \in Slots : pc[k] # "close" => old[k] = None
    /\ \A k \in Slots : pc[k] = "close" => transport = None
    /\ \A k \in Slots : pc[k] = "open" => transport = k
    /\ \A k \in Slots : pc[k] = "drop" =>
         transport = None \/ port[transport] # "open"
    /\ shutOld # None => shut = "taken"
    /\ \A x \in Slots : port[x] = "open" /\ readers[x] > 0 =>
         x \in {transport, shutOld} \/ \E k \in Slots : old[k] = x

\* CloseTransport closes and stops x, and nothing else.
LEMMA CloseEffect ==
  ASSUME DataOK, NEW x \in Slots \cup {None}, CloseTransport(x)
  PROVE  /\ \A y \in Slots : port'[y] = "open" => port[y] = "open" /\ y # x
         /\ \A y \in Slots : readers'[y] > 0 => readers[y] > 0
BY LinkAssumption DEF DataOK, CloseTransport, None

LEMMA RivalStep ==
  DataOK /\ AloneInv /\ RivalInv /\ [Next]_vars => RivalInv'
<1>. SUFFICES ASSUME DataOK, AloneInv, RivalInv, [Next]_vars, ~overlap'
              PROVE  RivalInv'
  BY DEF RivalInv
<1>. USE LinkAssumption DEF RivalInv
<1>0. None \notin Slots
  OBVIOUS
<1>1. ASSUME NEW k \in Slots, Begins(k) PROVE RivalInv'
  <2>1. /\ ~overlap /\ shut' = shut
        /\ \A j \in Slots : pc[j] = "free"
        /\ \A j \in Slots : pc'[j] \notin {"close", "open", "drop"}
    BY <1>1, BeginsAlone
  <2>2. UNCHANGED <<transport, old, readers, shutOld>>
    BY <1>1 DEF Begins, Startup, RetryGateway, TimerFires,
                ScheduleReconnect, Begin, ctlVars, shutVars
  <2>3. \A y \in Slots : port'[y] = "open" => port[y] = "open"
    <3>1. port' = [port EXCEPT ![k] = "new"]
      BY <1>1 DEF Begins, Startup, RetryGateway, TimerFires,
                  ScheduleReconnect, Begin
    <3>. QED
      BY <3>1 DEF DataOK
  <2>. QED
    BY <2>1, <2>2, <2>3
<1>2. ASSUME NEW k \in Slots, AttemptStep(k) PROVE RivalInv'
  <2>1. /\ ~overlap /\ shut' = shut /\ shut = "no"
        /\ pc[k] # "free"
        /\ \A j \in Slots \ {k} : pc[j] = "free" /\ pc'[j] = "free"
    BY <1>2, AttemptMoves DEF AloneInv
  <2>2. shutOld' = shutOld /\ shutOld = None
    BY <1>2, <2>1 DEF AttemptStep, ReleaseOld, DropOld, TakeOld,
       CloseAndCreate, OpenSucceeds, OpenFails, StartReader, ReopenAndStart,
       StartFails, MarkReady, ClearError, HookTransport, RecordError,
       CancelTimer, ArmTimer, EndAttempt, shutVars
  <2>3. CASE ReleaseOld(k)
    <3>1. CloseTransport(transport) /\ transport \in Slots \cup {None}
      BY <2>3 DEF ReleaseOld, DataOK
    <3>2. /\ pc[k] = "release" /\ pc'[k] = "drop"
          /\ transport' = transport /\ old' = old
      BY <2>3 DEF ReleaseOld, Goto, DataOK, ctlVars
    <3>. QED
      BY <1>0, <2>1, <2>2, <3>1, <3>2, CloseEffect
  <2>4. CASE DropOld(k)
    <3>1. /\ pc[k] = "drop" /\ pc'[k] = "close"
          /\ transport' = None
          /\ UNCHANGED <<old, port, readers>>
      BY <2>4 DEF DropOld, Goto, DataOK, portVars
    <3>. QED
      BY <1>0, <2>1, <2>2, <3>1
  <2>5. CASE TakeOld(k)
    <3>1. /\ pc[k] = "take" /\ pc'[k] = "close"
          /\ transport' = None
          /\ old' = [old EXCEPT ![k] = transport]
          /\ UNCHANGED <<port, readers>>
      BY <2>5 DEF TakeOld, Goto, DataOK, portVars
    <3>. QED
      BY <1>0, <2>1, <2>2, <3>1 DEF DataOK
  <2>6. CASE CloseAndCreate(k)
    <3>1. CloseTransport(old[k]) /\ old[k] \in Slots \cup {None}
      BY <2>6 DEF CloseAndCreate, DataOK
    <3>2. /\ pc[k] = "close" /\ pc'[k] = "open"
          /\ transport' = k /\ transport = None
          /\ old' = [old EXCEPT ![k] = None]
      BY <2>1, <2>6 DEF CloseAndCreate, Goto, DataOK
    <3>3. \A j \in Slots : old'[j] = None
      BY <2>1, <3>2 DEF DataOK
    <3>4. \A x \in Slots : ~(port'[x] = "open" /\ readers'[x] > 0)
      <4>. SUFFICES ASSUME NEW x \in Slots, port'[x] = "open",
                           readers'[x] > 0
                    PROVE  FALSE
        OBVIOUS
      <4>1. port[x] = "open" /\ x # old[k] /\ readers[x] > 0
        BY ZenonT(60), <3>1, CloseEffect
      <4>2. \A j \in Slots : old[j] # x
        BY <1>0, <2>1, <4>1
      <4>. QED
        BY <1>0, <2>1, <2>2, <3>2, <4>1, <4>2
    <3>. QED
      BY <2>1, <2>2, <3>2, <3>3, <3>4
  <2>7. CASE OpenSucceeds(k)
    <3>1. /\ pc[k] = "open" /\ pc'[k] = "start"
          /\ port' = [port EXCEPT ![k] = "open"]
          /\ UNCHANGED <<transport, old, readers>>
      BY <2>7 DEF OpenSucceeds, Goto, DataOK, ctlVars
    <3>. QED
      BY <1>0, <2>1, <2>2, <3>1 DEF DataOK
  <2>8. CASE StartReader(k) \/ ReopenAndStart(k)
    <3>1. /\ pc[k] = "start" /\ pc'[k] = "ready"
          /\ transport \in Slots
          /\ UNCHANGED <<transport, old>>
          /\ \A y \in Slots \ {transport} :
               port'[y] = port[y] /\ readers'[y] = readers[y]
      BY <2>8 DEF StartReader, ReopenAndStart, Goto, DataOK, ctlVars
    <3>. QED
      BY <1>0, <2>1, <2>2, <3>1
  <2>9. CASE \/ OpenFails(k) \/ StartFails(k) \/ MarkReady(k)
             \/ ClearError(k) \/ HookTransport(k) \/ RecordError(k)
             \/ CancelTimer(k) \/ ArmTimer(k) \/ EndAttempt(k)
    <3>1. /\ pc[k] # "close"
          /\ pc'[k] \notin {"close", "open", "drop"}
      <4>1. CASE RecordError(k)
        BY <4>1 DEF RecordError, Goto, DataOK
      <4>2. CASE OpenFails(k)
        BY <4>2 DEF OpenFails, Fail, Goto, DataOK
      <4>3. CASE StartFails(k)
        BY <4>3 DEF StartFails, Fail, Goto, DataOK
      <4>4. CASE HookTransport(k)
        BY <4>4 DEF HookTransport, Fail, Goto, DataOK
      <4>5. CASE MarkReady(k)
        BY <4>5 DEF MarkReady, Goto, DataOK
      <4>6. CASE ClearError(k) \/ CancelTimer(k)
        BY <4>6 DEF ClearError, CancelTimer, Goto, DataOK
      <4>7. CASE ArmTimer(k)
        BY <4>7 DEF ArmTimer, Goto, DataOK
      <4>8. CASE EndAttempt(k)
        BY <4>8 DEF EndAttempt, Goto, DataOK
      <4>. QED
        BY <2>9, <4>1, <4>2, <4>3, <4>4, <4>5, <4>6, <4>7, <4>8
    <3>2. UNCHANGED <<transport, old, port, readers>>
      BY <2>9 DEF OpenFails, StartFails, MarkReady, ClearError,
         HookTransport, RecordError, CancelTimer, ArmTimer, EndAttempt,
         ctlVars, portVars
    <3>. QED
      BY <1>0, <2>1, <2>2, <3>1, <3>2
  <2>. QED
    BY <1>2, <2>3, <2>4, <2>5, <2>6, <2>7, <2>8, <2>9 DEF AttemptStep
<1>3. CASE Elsewhere
  <2>1. pc' = pc /\ ~overlap
    BY <1>3, ElsewhereStays
  <2>2. CASE ShutdownTakes
    <3>1. /\ shut = "flagged" /\ shut' = "taken"
          /\ shutOld' = transport /\ transport' = None
          /\ UNCHANGED <<old, port, readers>>
      BY <2>2 DEF ShutdownTakes, runVars, portVars
    <3>. QED
      BY <1>0, <2>1, <3>1 DEF AloneInv
  <2>3. CASE ShutdownCloses
    <3>1. CloseTransport(shutOld) /\ shutOld \in Slots \cup {None}
      BY <2>3 DEF ShutdownCloses, DataOK
    <3>2. /\ shut = "taken" /\ shutOld' = None
          /\ UNCHANGED <<transport, old>>
      BY <2>3 DEF ShutdownCloses, runVars
    <3>. QED
      BY <1>0, <2>1, <3>1, <3>2, CloseEffect DEF AloneInv
  <2>4. ASSUME NEW r \in reports, FinishDisconnect(r) PROVE RivalInv'
    <3>1. /\ \A y \in Slots : port'[y] = "open" => port[y] = "open"
          /\ UNCHANGED <<transport, old, shut, shutOld>>
      BY <2>4 DEF FinishDisconnect, DataOK, runVars, ctlVars, shutVars
    <3>2. \A y \in Slots : readers'[y] > 0 => readers[y] > 0
      BY <2>4 DEF FinishDisconnect, DataOK
    <3>. QED
      BY <2>1, <3>1, <3>2 DEF DataOK
  <2>5. ASSUME NEW x \in Slots, ReaderStops(x) PROVE RivalInv'
    <3>1. UNCHANGED <<transport, old, port, shut, shutOld>>
      BY <2>5 DEF ReaderStops, runVars, ctlVars, shutVars
    <3>2. \A y \in Slots : readers'[y] > 0 => readers[y] > 0
      BY <2>5 DEF ReaderStops, DataOK
    <3>. QED
      BY <2>1, <3>1, <3>2
  <2>6. CASE ShutdownBegins
    <3>1. /\ shut = "no"
          /\ UNCHANGED <<transport, old, port, readers, shutOld>>
      BY <2>6 DEF ShutdownBegins, runVars, ctlVars, portVars
    <3>. QED
      BY <2>1, <3>1
  <2>7. ASSUME UNCHANGED <<transport, old, port, readers, shut, shutOld>>
        PROVE  RivalInv'
    BY <2>1, <2>7
  <2>. QED
    BY <1>3, <2>2, <2>3, <2>4, <2>5, <2>6, <2>7
       DEF Elsewhere, ReaderStep, ReaderReports, SenderReports,
           GatewayReports, Report, TimerFiresTooLate, SenderInstallsHooks,
           FiveSecondsPass, ShutdownStep, Replug, OtherProcess, vars,
           runVars, ctlVars, portVars, shutVars
<1>4. QED
  BY <1>1, <1>2, <1>3, Steps

\* discoverPort: as long as no attempt began beside another one, the
\* attempt that opens a port finds no other transport holding one.
THEOREM NoRivalsUnlessOverlap == Spec => []CleanNoRivals
<1>1. Init => AloneInv /\ RivalInv
  BY LinkAssumption DEF Init, AloneInv, RivalInv
<1>2. TypeOK => DataOK
  BY DEF TypeOK
<1>3. AloneInv /\ RivalInv => CleanNoRivals
  <2>. SUFFICES ASSUME AloneInv, RivalInv, ~overlap, NEW k \in Slots,
                       pc[k] = "open", NEW x \in Slots, port[x] = "open",
                       Referenced(x)
                PROVE  x = k
    BY DEF CleanNoRivals, NoRivalTransports, Holders
  <2>1. shut = "no" /\ \A j \in Slots \ {k} : pc[j] = "free"
    BY DEF AloneInv
  <2>2. transport = k /\ shutOld = None /\ \A j \in Slots : old[j] = None
    BY <2>1 DEF RivalInv
  <2>. QED
    BY <2>2, LinkAssumption DEF Referenced, RivalInv
<1>4. QED
  BY TypeCorrect, AloneStep, RivalStep, <1>1, <1>2, <1>3, PTL DEF Spec

-----------------------------------------------------------------------------
(* Shutdown.                                                               *)

\* Where a transport with a running RX thread can be while attempts do not
\* overlap, whether or not its port is open.
ReaderInv ==
  ~overlap =>
    /\ \A x \in Slots : readers[x] > 0 =>
         x \in {transport, shutOld} \/ \E k \in Slots : old[k] = x
    /\ \A k \in Slots : pc[k] = "drop" =>
         transport = None \/ readers[transport] = 0

\* CloseTransport ends the RX threads of x and starts none.
LEMMA CloseStops ==
  ASSUME DataOK, NEW x \in Slots \cup {None}, CloseTransport(x)
  PROVE  \A y \in Slots : /\ readers'[y] > 0 => y # x /\ readers[y] > 0
                          /\ y = x => readers'[y] = 0
                          /\ readers[y] = 0 => readers'[y] = 0
BY LinkAssumption DEF DataOK, CloseTransport, None

LEMMA ReaderStepInv ==
  DataOK /\ AloneInv /\ RivalInv /\ ReaderInv /\ [Next]_vars => ReaderInv'
<1>. SUFFICES ASSUME DataOK, AloneInv, RivalInv, ReaderInv, [Next]_vars,
                     ~overlap'
              PROVE  ReaderInv'
  BY DEF ReaderInv
<1>. USE LinkAssumption DEF ReaderInv
<1>0. None \notin Slots
  OBVIOUS
<1>1. ASSUME NEW k \in Slots, Begins(k) PROVE ReaderInv'
  <2>1. /\ ~overlap
        /\ \A j \in Slots : pc'[j] # "drop"
    BY <1>1, BeginsAlone
  <2>2. UNCHANGED <<transport, old, readers, shutOld>>
    BY <1>1 DEF Begins, Startup, RetryGateway, TimerFires,
                ScheduleReconnect, Begin, ctlVars, shutVars
  <2>. QED
    BY <2>1, <2>2
<1>2. ASSUME NEW k \in Slots, AttemptStep(k) PROVE ReaderInv'
  <2>1. /\ ~overlap /\ shut = "no" /\ pc[k] # "free"
        /\ \A j \in Slots \ {k} : pc[j] = "free" /\ pc'[j] = "free"
    BY <1>2, AttemptMoves DEF AloneInv
  <2>2. shutOld' = shutOld /\ shutOld = None
    BY <1>2, <2>1 DEF RivalInv, AttemptStep, ReleaseOld, DropOld, TakeOld,
       CloseAndCreate, OpenSucceeds, OpenFails, StartReader, ReopenAndStart,
       StartFails, MarkReady, ClearError, HookTransport, RecordError,
       CancelTimer, ArmTimer, EndAttempt, shutVars
  <2>3. CASE ReleaseOld(k)
    <3>1. CloseTransport(transport) /\ transport \in Slots \cup {None}
      BY <2>3 DEF ReleaseOld, DataOK
    <3>2. transport' = transport /\ old' = old
      BY <2>3 DEF ReleaseOld, ctlVars
    <3>. QED
      BY <1>0, <2>1, <2>2, <3>1, <3>2, CloseStops
  <2>4. CASE DropOld(k)
    <3>1. /\ pc[k] = "drop" /\ pc'[k] = "close"
          /\ transport' = None /\ UNCHANGED <<old, readers>>
      BY <2>4 DEF DropOld, Goto, DataOK, portVars
    <3>. QED
      BY <1>0, <2>1, <2>2, <3>1 DEF DataOK
  <2>5. CASE TakeOld(k)
    <3>1. /\ pc[k] = "take" /\ pc'[k] = "close" /\ transport' = None
          /\ old' = [old EXCEPT ![k] = transport] /\ readers' = readers
      BY <2>5 DEF TakeOld, Goto, DataOK, portVars
    <3>. QED
      BY <1>0, <2>1, <2>2, <3>1 DEF DataOK, RivalInv
  <2>6. CASE CloseAndCreate(k)
    <3>1. CloseTransport(old[k]) /\ old[k] \in Slots \cup {None}
      BY <2>6 DEF CloseAndCreate, DataOK
    <3>2. pc[k] = "close" /\ pc'[k] = "open" /\ transport = None
      BY <2>1, <2>6 DEF RivalInv, CloseAndCreate, Goto, DataOK
    <3>3. \A x \in Slots : ~(readers'[x] > 0)
      <4>. SUFFICES ASSUME NEW x \in Slots, readers'[x] > 0 PROVE FALSE
        OBVIOUS
      <4>1. x # old[k] /\ readers[x] > 0
        BY <3>1, CloseStops
      <4>2. \A j \in Slots : old[j] # x
        BY <1>0, <2>1, <4>1 DEF RivalInv
      <4>. QED
        BY <1>0, <2>1, <2>2, <3>2, <4>1, <4>2
    <3>. QED
      BY <2>1, <3>2, <3>3
  <2>7. CASE StartReader(k) \/ ReopenAndStart(k)
    <3>1. /\ pc'[k] = "ready" /\ UNCHANGED <<transport, old>>
          /\ \A y \in Slots \ {transport} : readers'[y] = readers[y]
      BY <2>7 DEF StartReader, ReopenAndStart, Goto, DataOK, ctlVars
    <3>. QED
      BY <1>0, <2>1, <2>2, <3>1
  <2>8. CASE \/ OpenSucceeds(k) \/ OpenFails(k) \/ StartFails(k)
             \/ MarkReady(k) \/ ClearError(k) \/ HookTransport(k)
             \/ RecordError(k) \/ CancelTimer(k) \/ ArmTimer(k)
             \/ EndAttempt(k)
    <3>1. UNCHANGED <<transport, old, readers>>
      BY <2>8 DEF OpenSucceeds, OpenFails, StartFails, MarkReady,
         ClearError, HookTransport, RecordError, CancelTimer, ArmTimer,
         EndAttempt, ctlVars, portVars
    <3>2. pc'[k] # "drop"
      BY ZenonT(60), <2>8 DEF OpenSucceeds, OpenFails, StartFails, MarkReady,
         ClearError, HookTransport, RecordError, CancelTimer, ArmTimer,
         EndAttempt, Fail, Goto, DataOK
    <3>. QED
      BY <2>1, <2>2, <3>1, <3>2
  <2>. QED
    BY <1>2, <2>3, <2>4, <2>5, <2>6, <2>7, <2>8 DEF AttemptStep
<1>3. CASE Elsewhere
  <2>1. pc' = pc /\ ~overlap
    BY <1>3, ElsewhereStays
  <2>2. CASE ShutdownTakes
    <3>1. /\ shut = "flagged" /\ shutOld' = transport /\ transport' = None
          /\ UNCHANGED <<old, readers>>
      BY <2>2 DEF ShutdownTakes, runVars, portVars
    <3>2. shutOld = None /\ \A k \in Slots : pc[k] = "free"
      BY <2>1, <3>1 DEF RivalInv, AloneInv
    <3>. QED
      BY <1>0, <2>1, <3>1, <3>2
  <2>3. CASE ShutdownCloses
    <3>1. CloseTransport(shutOld) /\ shutOld \in Slots \cup {None}
      BY <2>3 DEF ShutdownCloses, DataOK
    <3>2. UNCHANGED <<transport, old>> /\ \A k \in Slots : pc[k] = "free"
      BY <2>1, <2>3 DEF ShutdownCloses, runVars, AloneInv
    <3>. QED
      BY <1>0, <2>1, <3>1, <3>2, CloseStops
  <2>4. ASSUME UNCHANGED <<transport, shutOld, old>>,
               \A y \in Slots : /\ readers'[y] > 0 => readers[y] > 0
                                /\ readers[y] = 0 => readers'[y] = 0
        PROVE  ReaderInv'
    BY <1>0, <2>1, <2>4 DEF DataOK
  <2>5. ASSUME NEW r \in reports, FinishDisconnect(r) PROVE ReaderInv'
    <3>1. \A y \in Slots : /\ readers'[y] > 0 => readers[y] > 0
                           /\ readers[y] = 0 => readers'[y] = 0
      BY <2>5 DEF FinishDisconnect, DataOK
    <3>. QED
      BY <2>4, <2>5, <3>1 DEF FinishDisconnect, runVars, ctlVars, shutVars
  <2>6. ASSUME NEW x \in Slots, ReaderStops(x) PROVE ReaderInv'
    <3>1. \A y \in Slots : /\ readers'[y] > 0 => readers[y] > 0
                           /\ readers[y] = 0 => readers'[y] = 0
      BY <2>6 DEF ReaderStops, DataOK
    <3>. QED
      BY <2>4, <2>6, <3>1 DEF ReaderStops, runVars, ctlVars, shutVars
  <2>. QED
    BY <1>3, <2>2, <2>3, <2>4, <2>5, <2>6
       DEF Elsewhere, ReaderStep, ReaderReports, SenderReports,
           GatewayReports, Report, TimerFiresTooLate, SenderInstallsHooks,
           FiveSecondsPass, ShutdownBegins, ShutdownStep, Replug,
           OtherProcess, vars, runVars, ctlVars, portVars, shutVars
<1>4. QED
  BY <1>1, <1>2, <1>3, Steps

\* What shutdown() has taken away nobody brings back.
ShutInv ==
  ~overlap =>
    /\ shut \in {"taken", "done"} => transport = None /\ armed = {}
    /\ shut = "done" => ~ready

LEMMA ShutStep ==
  DataOK /\ AloneInv /\ TimerInv /\ ShutInv /\ [Next]_vars => ShutInv'
<1>. SUFFICES ASSUME DataOK, AloneInv, TimerInv, ShutInv, [Next]_vars,
                     ~overlap'
              PROVE  ShutInv'
  BY DEF ShutInv
<1>. USE DEF ShutInv
<1>1. ASSUME NEW k \in Slots, Begins(k) PROVE ShutInv'
  BY <1>1, BeginsAlone
<1>2. ASSUME NEW k \in Slots, AttemptStep(k) PROVE ShutInv'
  BY <1>2, AttemptMoves DEF AloneInv
<1>3. CASE Elsewhere
  <2>1. pc' = pc /\ ~overlap
    BY <1>3, ElsewhereStays
  <2>2. CASE ShutdownBegins
    BY <2>2 DEF ShutdownBegins
  <2>3. CASE ShutdownTakes
    BY <2>1, <2>3 DEF ShutdownTakes, TimerInv, SingleTimer
  <2>4. CASE ShutdownCloses
    BY <2>1, <2>4 DEF ShutdownCloses, tmrVars
  <2>5. CASE ~ShutdownBegins /\ ~ShutdownStep
    <3>1. UNCHANGED <<shut, transport>>
      BY <1>3, <2>5 DEF Elsewhere, ReaderStep, ReaderReports, ReaderStops,
         SenderReports, GatewayReports, Report, TimerFiresTooLate,
         FinishDisconnect, SenderInstallsHooks, FiveSecondsPass, Replug,
         OtherProcess, vars, ctlVars, shutVars
    <3>2. armed' \subseteq armed
      BY <1>3, <2>5 DEF Elsewhere, ReaderStep, ReaderReports, ReaderStops,
         SenderReports, GatewayReports, Report, TimerFiresTooLate, Fired,
         FinishDisconnect, SenderInstallsHooks, FiveSecondsPass, Replug,
         OtherProcess, vars, tmrVars
    <3>3. ready' => ready
      BY Zenon, <1>3, <2>5 DEF Elsewhere, ReaderStep, ReaderReports,
         ReaderStops, SenderReports, GatewayReports, Report,
         TimerFiresTooLate, FinishDisconnect, SenderInstallsHooks,
         FiveSecondsPass, Replug, OtherProcess, vars, ctlVars
    <3>. QED
      BY <2>1, <3>1, <3>2, <3>3
  <2>. QED
    BY <2>2, <2>3, <2>4, <2>5 DEF ShutdownStep
<1>4. QED
  BY <1>1, <1>2, <1>3, Steps

\* shutdown(): as long as no attempt overlaps it or follows it, it releases
\* the port, cancels the timer, ends the RX thread and says "not ready".
THEOREM ShutdownIsComplete == Spec => []CleanShutdown
<1>1. Init => AloneInv /\ TimerInv /\ RivalInv /\ ReaderInv /\ ShutInv
  BY LinkAssumption
     DEF Init, AloneInv, TimerInv, SingleTimer, RivalInv, ReaderInv, ShutInv
<1>2. TypeOK => DataOK
  BY DEF TypeOK
<1>3. DataOK /\ AloneInv /\ RivalInv /\ ReaderInv /\ ShutInv => CleanShutdown
  <2>. SUFFICES ASSUME DataOK, AloneInv, RivalInv, ReaderInv, ShutInv,
                       shut = "done", ~overlap
                PROVE  /\ armed = {} /\ ~ready
                       /\ \A x \in Slots : readers[x] = 0 /\ ~Referenced(x)
    BY DEF CleanShutdown, Holders
  <2>1. armed = {} /\ ~ready /\ transport = None /\ shutOld = None
    BY DEF ShutInv, RivalInv
  <2>2. \A k \in Slots : old[k] = None
    BY DEF AloneInv, RivalInv
  <2>3. \A x \in Slots : readers[x] = 0
    BY <2>1, <2>2, LinkAssumption DEF ReaderInv, DataOK
  <2>. QED
    BY <2>1, <2>2, <2>3, LinkAssumption DEF Referenced
<1>4. QED
  BY TypeCorrect, AloneStep, TimerStepInv, RivalStep, ReaderStepInv,
     ShutStep, <1>1, <1>2, <1>3, PTL DEF Spec

-----------------------------------------------------------------------------
(* Readiness.                                                              *)

\* The flag _transport_hooks_installed speaks of self.transport.
HookInv == hooksDone /\ transport # None => transport \in hooked

LEMMA HookStep == DataOK /\ HookInv /\ [Next]_vars => HookInv'
<1>. SUFFICES ASSUME DataOK, HookInv, [Next]_vars PROVE HookInv'
  OBVIOUS
<1>. USE DEF HookInv
<1>1. ASSUME NEW k \in Slots, Begins(k) PROVE HookInv'
  <2>1. PICK who \in Origins : Begin(k, who)
    BY <1>1 DEF Begins, Startup, RetryGateway, TimerFires,
                ScheduleReconnect, Origins
  <2>2. transport' = transport
    BY <1>1 DEF Begins, Startup, RetryGateway, TimerFires,
                ScheduleReconnect, ctlVars
  <2>3. k # transport
    BY <2>1 DEF Begin, Unused, Referenced
  <2>. QED
    BY <2>1, <2>2, <2>3 DEF Begin
<1>2. ASSUME NEW k \in Slots, AttemptStep(k) PROVE HookInv'
  <2>1. CASE DropOld(k) \/ TakeOld(k)
    BY <2>1 DEF DropOld, TakeOld
  <2>2. CASE CloseAndCreate(k)
    BY <2>2 DEF CloseAndCreate
  <2>3. CASE HookTransport(k)
    BY <2>3 DEF HookTransport, InstallHooks, ctlVars, hookVars
  <2>4. CASE UNCHANGED <<transport, hookVars>>
    BY <2>4 DEF hookVars
  <2>. QED
    BY <1>2, <2>1, <2>2, <2>3, <2>4 DEF AttemptStep, ReleaseOld,
       OpenSucceeds, OpenFails, StartReader, ReopenAndStart, StartFails,
       MarkReady, ClearError, RecordError, CancelTimer, ArmTimer,
       EndAttempt, ctlVars
<1>3. CASE Elsewhere
  <2>1. CASE SenderInstallsHooks
    BY <2>1 DEF SenderInstallsHooks, InstallHooks, ctlVars, hookVars
  <2>2. CASE ShutdownTakes
    BY <2>2 DEF ShutdownTakes
  <2>3. CASE UNCHANGED <<transport, hookVars>>
    BY <2>3 DEF hookVars
  <2>. QED
    BY <1>3, <2>1, <2>2, <2>3 DEF Elsewhere, ReaderStep, ReaderReports,
       ReaderStops, SenderReports, GatewayReports, Report,
       TimerFiresTooLate, FinishDisconnect, FiveSecondsPass,
       ShutdownBegins, ShutdownStep, ShutdownCloses, Replug, OtherProcess,
       vars, ctlVars
<1>4. QED
  BY <1>1, <1>2, <1>3, Steps

\* Until an attempt has created its transport, nothing of that is in use.
Early == {"take", "release", "drop", "close"}

\* From then on it is self.transport, as long as attempts do not overlap.
\* And what is left of a report about self.transport is to close it: then
\* the report was ignored or unheard, or an attempt is about to drop it.
PlaceInv ==
  ~overlap =>
    /\ \A k \in Slots : pc[k] \in Early =>
         /\ transport # k /\ readers[k] = 0
         /\ \A r \in reports : r.of # k
    /\ \A k \in Slots : pc[k] \in {"open", "start", "ready", "clear", "hook"}
         => transport = k
    /\ \A k \in Slots : pc[k] = "open" => readers[k] = 0
    /\ \A r \in reports : r.at = "finish" /\ r.of = transport =>
         \/ ignored \/ unheard
         \/ \E k \in Slots : pc[k] \in {"take", "release", "drop"}

LEMMA PlaceStep ==
  DataOK /\ AloneInv /\ PlaceInv /\ [Next]_vars => PlaceInv'
<1>. SUFFICES ASSUME DataOK, AloneInv, PlaceInv, [Next]_vars, ~overlap'
              PROVE  PlaceInv'
  BY DEF PlaceInv
<1>. USE LinkAssumption DEF PlaceInv, Early
<1>0. None \notin Slots /\ \A r \in reports : r.of \in Slots
  BY DEF DataOK
<1>1. ASSUME NEW k \in Slots, Begins(k) PROVE PlaceInv'
  <2>1. /\ \A j \in Slots \ {k} : pc'[j] = "free"
        /\ pc'[k] \in {"release", "take"}
    BY <1>1, BeginsAlone
  <2>2. PICK who \in Origins : Begin(k, who)
    BY <1>1 DEF Begins, Startup, RetryGateway, TimerFires,
                ScheduleReconnect, Origins
  <2>3. transport' = transport /\ readers' = readers
    BY <1>1, <2>2 DEF Begins, Startup, RetryGateway, TimerFires,
                      ScheduleReconnect, Begin, ctlVars
  <2>4. transport # k /\ readers[k] = 0 /\ \A r \in reports : r.of # k
    BY <2>2 DEF Begin, Unused, Referenced, DataOK
  <2>5. \A r \in reports' : r.of # k
    <3>1. CASE Startup(k) \/ RetryGateway(k) \/ \E j \in Slots : TimerFires(j, k)
      BY <2>4, <3>1 DEF Startup, RetryGateway, TimerFires, recVars
    <3>2. ASSUME NEW q \in reports, ScheduleReconnect(q, k)
          PROVE  \A r \in reports' : r.of # k
      <4>1. reports' = (reports \ {q}) \cup {[q EXCEPT !.at = "finish"]}
        BY <3>2 DEF ScheduleReconnect
      <4>2. [q EXCEPT !.at = "finish"].of = q.of
        BY DEF DataOK
      <4>. QED
        BY <2>4, <4>1, <4>2
    <3>. QED
      BY <1>1, <3>1, <3>2 DEF Begins
  <2>. QED
    BY <2>1, <2>3, <2>4, <2>5
<1>2. ASSUME NEW k \in Slots, AttemptStep(k) PROVE PlaceInv'
  <2>1. /\ ~overlap /\ pc[k] # "free"
        /\ \A j \in Slots \ {k} : pc[j] = "free" /\ pc'[j] = "free"
    BY <1>2, AttemptMoves DEF AloneInv
  <2>2. UNCHANGED <<reports, ignored, unheard>>
    BY <1>2 DEF AttemptStep, ReleaseOld, DropOld, TakeOld, CloseAndCreate,
       OpenSucceeds, OpenFails, StartReader, ReopenAndStart, StartFails,
       MarkReady, ClearError, HookTransport, RecordError, CancelTimer,
       ArmTimer, EndAttempt, recVars, history
  <2>3. CASE ReleaseOld(k)
    <3>1. /\ pc[k] = "release" /\ pc'[k] = "drop"
          /\ transport' = transport
      BY <2>3 DEF ReleaseOld, Goto, DataOK, ctlVars
    <3>2. CloseTransport(transport) /\ transport \in Slots \cup {None}
      BY <2>3 DEF ReleaseOld, DataOK
    <3>. QED
      BY <2>1, <2>2, <3>1, <3>2, CloseStops
  <2>4. CASE DropOld(k) \/ TakeOld(k)
    <3>1. /\ pc[k] \in {"drop", "take"} /\ pc'[k] = "close"
          /\ transport' = None /\ readers' = readers
      BY <2>4 DEF DropOld, TakeOld, Goto, DataOK, portVars
    <3>. QED
      BY <1>0, <2>1, <2>2, <3>1
  <2>5. CASE CloseAndCreate(k)
    <3>1. pc[k] = "close" /\ pc'[k] = "open" /\ transport' = k
      BY <2>5 DEF CloseAndCreate, Goto, DataOK
    <3>2. CloseTransport(old[k]) /\ old[k] \in Slots \cup {None}
      BY <2>5 DEF CloseAndCreate, DataOK
    <3>. QED
      BY <2>1, <2>2, <3>1, <3>2, CloseStops
  <2>6. CASE OpenSucceeds(k)
    <3>1. /\ pc[k] = "open" /\ pc'[k] = "start"
          /\ UNCHANGED <<transport, readers>>
      BY <2>6 DEF OpenSucceeds, Goto, DataOK, ctlVars
    <3>. QED
      BY <2>1, <2>2, <3>1
  <2>7. CASE StartReader(k) \/ ReopenAndStart(k)
    <3>1. pc[k] = "start" /\ pc'[k] = "ready" /\ transport' = transport
      BY <2>7 DEF StartReader, ReopenAndStart, Goto, DataOK, ctlVars
    <3>. QED
      BY <2>1, <2>2, <3>1
  <2>8. CASE MarkReady(k) \/ ClearError(k)
    <3>1. /\ pc[k] \in {"ready", "clear"} /\ pc'[k] \in {"clear", "hook"}
          /\ UNCHANGED <<transport, readers>>
      BY <2>8 DEF MarkReady, ClearError, Goto, DataOK, portVars
    <3>. QED
      BY <2>1, <2>2, <3>1
  <2>9. CASE \/ OpenFails(k) \/ StartFails(k) \/ HookTransport(k)
             \/ RecordError(k) \/ CancelTimer(k) \/ ArmTimer(k)
             \/ EndAttempt(k)
    <3>1. /\ pc[k] \in {"open", "start", "hook", "record", "cancel", "arm",
                        "end"}
          /\ pc'[k] \in {"record", "cancel", "arm", "end", "free"}
      <4>1. CASE OpenFails(k) \/ StartFails(k)
        BY <4>1 DEF OpenFails, StartFails, Fail, Goto, DataOK
      <4>2. CASE HookTransport(k)
        BY <4>2 DEF HookTransport, Fail, Goto, DataOK
      <4>3. CASE RecordError(k)
        BY <4>3 DEF RecordError, Goto, DataOK
      <4>4. CASE CancelTimer(k) \/ ArmTimer(k) \/ EndAttempt(k)
        BY <4>4 DEF CancelTimer, ArmTimer, EndAttempt, Goto, DataOK
      <4>. QED
        BY <2>9, <4>1, <4>2, <4>3, <4>4
    <3>2. UNCHANGED <<transport, readers>>
      BY <2>9 DEF OpenFails, StartFails, HookTransport, RecordError,
         CancelTimer, ArmTimer, EndAttempt, ctlVars, portVars
    <3>. QED
      BY <2>1, <2>2, <3>1, <3>2
  <2>. QED
    BY <1>2, <2>3, <2>4, <2>5, <2>6, <2>7, <2>8, <2>9 DEF AttemptStep
<1>3. CASE Elsewhere
  <2>1. pc' = pc /\ ~overlap
    BY <1>3, ElsewhereStays
  <2>2. ASSUME NEW x \in Slots, NEW by, Report(x, by),
               readers[x] > 0 \/ x = transport
        PROVE  PlaceInv'
    <3>1. UNCHANGED <<transport, readers>>
      BY <2>2 DEF Report, portVars
    <3>2. /\ ignored => ignored' 
          /\ unheard => unheard'
      BY Zenon, <2>2 DEF Report
    <3>3. ASSUME NEW r \in reports', r \notin reports
          PROVE  r.of = x /\ (r.at = "finish" => ignored' \/ unheard')
      <4>. DEFINE spawns == x \in hooked /\ ~inProgress /\ ~recent
      <4>1. r.of = x /\ (r.at = "finish" => ~spawns)
        BY <2>2, <3>3 DEF Report
      <4>2. ~spawns => ignored' \/ unheard'
        BY Zenon, <2>2 DEF Report
      <4>. QED
        BY <4>1, <4>2
    <3>4. \A k \in Slots : pc[k] \in Early => x # k
      BY <2>1, <2>2
    <3>. QED
      BY <2>1, <3>1, <3>2, <3>3, <3>4
  <2>3. ASSUME NEW x \in Slots,
               ReaderReports(x) \/ SenderReports(x) \/ GatewayReports(x)
        PROVE  PlaceInv'
    BY <2>2, <2>3 DEF ReaderReports, SenderReports, GatewayReports
  <2>4. ASSUME UNCHANGED <<transport, ignored, unheard>>,
               reports' \subseteq reports,
               \A y \in Slots : readers[y] = 0 => readers'[y] = 0
        PROVE  PlaceInv'
    BY <2>1, <2>4
  <2>5. ASSUME NEW r \in reports, FinishDisconnect(r) PROVE PlaceInv'
    <3>1. \A y \in Slots : readers[y] = 0 => readers'[y] = 0
      BY <2>5 DEF FinishDisconnect, DataOK
    <3>2. reports' \subseteq reports
      BY <2>5 DEF FinishDisconnect
    <3>. QED
      BY <2>4, <2>5, <3>1, <3>2 DEF FinishDisconnect, ctlVars, history
  <2>6. ASSUME NEW x \in Slots, ReaderStops(x) PROVE PlaceInv'
    <3>1. \A y \in Slots : readers[y] = 0 => readers'[y] = 0
      BY <2>6 DEF ReaderStops, DataOK
    <3>. QED
      BY <2>4, <2>6, <3>1 DEF ReaderStops, ctlVars, recVars, history
  <2>7. CASE ShutdownTakes
    BY <1>0, <2>1, <2>7
       DEF ShutdownTakes, AloneInv, recVars, history
  <2>8. CASE ShutdownCloses
    <3>1. CloseTransport(shutOld) /\ shutOld \in Slots \cup {None}
      BY <2>8 DEF ShutdownCloses, DataOK
    <3>. QED
      BY <2>4, <2>8, <3>1, CloseStops DEF ShutdownCloses, recVars, history
  <2>9. CASE UNCHANGED <<transport, ignored, unheard, reports, readers>>
    BY <2>4, <2>9
  <2>. QED
    BY <1>3, <2>3, <2>5, <2>6, <2>7, <2>8, <2>9
       DEF Elsewhere, ReaderStep, TimerFiresTooLate, SenderInstallsHooks,
           FiveSecondsPass, ShutdownBegins, ShutdownStep, Replug,
           OtherProcess, vars, ctlVars, portVars, recVars, history
<1>4. QED
  BY <1>1, <1>2, <1>3, Steps

Up(x) == port[x] = "open" /\ readers[x] = 1

\* No attempt is under way but one that only has to return.
Idle == shut = "no" /\ \A k \in Slots : pc[k] \in {"free", "end"}

\* Until a loss is ignored or unheard, an open transport stays open while
\* its attempt goes on, and a ready one stays open until its loss is heard.
LiveInv ==
  ~overlap =>
    /\ \A k \in Slots : pc[k] \in {"cancel", "arm"} => ~ready
    /\ ~ignored /\ ~unheard =>
         /\ \A k \in Slots :
              pc[k] = "start" => port[k] = "open" /\ readers[k] = 0
         /\ \A k \in Slots : pc[k] \in {"ready", "clear", "hook"} => Up(k)
         /\ Idle /\ ready =>
              transport # None /\ Up(transport) /\ transport \in hooked

LEMMA LiveStep ==
  DataOK /\ AloneInv /\ HookInv /\ PlaceInv /\ LiveInv /\ [Next]_vars
    => LiveInv'
<1>. SUFFICES ASSUME DataOK, AloneInv, HookInv, PlaceInv, LiveInv,
                     [Next]_vars, ~overlap'
              PROVE  LiveInv'
  BY DEF LiveInv
<1>. USE LinkAssumption DEF LiveInv, Idle, Up
<1>1. ASSUME NEW k \in Slots, Begins(k) PROVE LiveInv'
  BY <1>1, BeginsAlone
<1>2. ASSUME NEW k \in Slots, AttemptStep(k) PROVE LiveInv'
  <2>1. /\ ~overlap /\ shut = "no" /\ shut' = "no" /\ pc[k] # "free"
        /\ \A j \in Slots \ {k} : pc[j] = "free" /\ pc'[j] = "free"
    BY <1>2, AttemptMoves DEF AloneInv
  <2>2. UNCHANGED <<ignored, unheard>>
    BY <1>2 DEF AttemptStep, ReleaseOld, DropOld, TakeOld,
       CloseAndCreate, OpenSucceeds, OpenFails, StartReader, ReopenAndStart,
       StartFails, MarkReady, ClearError, HookTransport, RecordError,
       CancelTimer, ArmTimer, EndAttempt, history
  <2>3. CASE \/ ReleaseOld(k) \/ DropOld(k) \/ TakeOld(k)
             \/ CloseAndCreate(k) \/ OpenFails(k) \/ StartFails(k)
    <3>1. pc'[k] \in {"drop", "close", "open", "record"}
      BY <2>3 DEF ReleaseOld, DropOld, TakeOld, CloseAndCreate, OpenFails,
         StartFails, Fail, Goto, DataOK
    <3>. QED
      BY <2>1, <3>1
  <2>4. CASE OpenSucceeds(k)
    <3>1. /\ pc[k] = "open" /\ pc'[k] = "start"
          /\ port'[k] = "open" /\ readers' = readers
      BY <2>4 DEF OpenSucceeds, Goto, DataOK
    <3>. QED
      BY <2>1, <3>1 DEF PlaceInv
  <2>5. CASE StartReader(k)
    <3>1. /\ pc[k] = "start" /\ pc'[k] = "ready" /\ port' = port
          /\ readers' = [readers EXCEPT ![transport] = @ + 1]
      BY <2>5 DEF StartReader, Goto, DataOK
    <3>2. transport = k
      BY <2>1, <3>1 DEF PlaceInv
    <3>. QED
      BY <2>1, <2>2, <3>1, <3>2 DEF DataOK
  <2>6. CASE ReopenAndStart(k)
    <3>1. /\ pc[k] = "start" /\ pc'[k] = "ready"
          /\ port[transport] # "open"
      BY <2>6 DEF ReopenAndStart, Goto, DataOK
    <3>2. transport = k
      BY <2>1, <3>1 DEF PlaceInv
    <3>. QED
      BY <2>1, <2>2, <3>1, <3>2
  <2>7. CASE MarkReady(k) \/ ClearError(k)
    <3>1. /\ pc[k] \in {"ready", "clear"} /\ pc'[k] \in {"clear", "hook"}
          /\ UNCHANGED <<port, readers>>
      BY <2>7 DEF MarkReady, ClearError, Goto, DataOK, portVars
    <3>. QED
      BY <2>1, <2>2, <3>1
  <2>8. CASE HookTransport(k)
    <3>1. pc[k] = "hook" /\ UNCHANGED <<port, readers, transport>>
      BY <2>8 DEF HookTransport, Fail, Goto, DataOK, portVars, ctlVars
    <3>2. transport = k
      BY <2>1, <3>1 DEF PlaceInv
    <3>3. pc'[k] = "end" /\ k \in hooked'
      BY <2>8, <3>2
         DEF HookTransport, InstallHooks, HookInv, Goto, DataOK, hookVars
    <3>. QED
      BY <2>1, <2>2, <3>1, <3>2, <3>3
  <2>9. CASE RecordError(k)
    BY <2>1, <2>9 DEF RecordError, Goto, DataOK
  <2>10. CASE CancelTimer(k) \/ ArmTimer(k)
    <3>1. /\ pc[k] \in {"cancel", "arm"} /\ pc'[k] \in {"arm", "end"}
          /\ ready' = ready
      BY <2>10 DEF CancelTimer, ArmTimer, Goto, DataOK, ctlVars
    <3>. QED
      BY <2>1, <3>1
  <2>11. CASE EndAttempt(k)
    <3>1. /\ pc[k] = "end" /\ pc'[k] = "free"
          /\ UNCHANGED <<port, readers, transport, hooked, ready>>
      BY <2>11 DEF EndAttempt, Goto, DataOK, portVars, ctlVars, hookVars
    <3>. QED
      BY <2>1, <2>2, <3>1
  <2>. QED
    BY <1>2, <2>3, <2>4, <2>5, <2>6, <2>7, <2>8, <2>9, <2>10, <2>11
       DEF AttemptStep
<1>3. CASE Elsewhere
  <2>1. pc' = pc /\ ~overlap
    BY <1>3, ElsewhereStays
  <2>2. ASSUME UNCHANGED <<port, readers, transport, shut>>,
               hooked \subseteq hooked', ready' => ready,
               ~ignored' => ~ignored, ~unheard' => ~unheard
        PROVE  LiveInv'
    BY <2>1, <2>2
  <2>3. ASSUME NEW x \in Slots,
               ReaderReports(x) \/ SenderReports(x) \/ GatewayReports(x)
        PROVE  LiveInv'
    <3>1. PICK by : Report(x, by)
      BY <2>3 DEF ReaderReports, SenderReports, GatewayReports
    <3>2. UNCHANGED <<port, readers, transport, shut, hooked>>
      BY <2>3, <3>1 DEF Report, ReaderReports, SenderReports,
         GatewayReports, portVars, hookVars, shutVars
    <3>3. /\ ready' => ready
          /\ ~ignored' => ~ignored
          /\ ~unheard' => ~unheard
      BY Zenon, <3>1 DEF Report
    <3>. QED
      BY <2>2, <3>2, <3>3
  <2>4. ASSUME NEW r \in reports, FinishDisconnect(r) PROVE LiveInv'
    <3>1. /\ UNCHANGED <<transport, shut, hooked, ready, ignored, unheard>>
          /\ r.at = "finish"
      BY <2>4 DEF FinishDisconnect, ctlVars, hookVars, shutVars, history
    <3>2. \A y \in Slots : y # r.of => port'[y] = port[y]
                                       /\ readers'[y] = readers[y]
      BY <2>4 DEF FinishDisconnect, DataOK
    <3>3. CASE ignored \/ unheard
      BY <2>1, <3>1, <3>3
    <3>4. CASE r.of = transport /\ ~ignored /\ ~unheard
      <4>1. PICK k \in Slots : pc[k] \in {"take", "release", "drop"}
        BY <2>1, <3>1, <3>4 DEF PlaceInv
      <4>2. \A j \in Slots \ {k} : pc[j] = "free"
        BY <2>1, <4>1 DEF AloneInv
      <4>. QED
        BY <2>1, <3>1, <4>1, <4>2
    <3>5. CASE r.of # transport
      <4>1. \A k \in Slots : pc[k] \in {"start", "ready", "clear", "hook"}
                             => k # r.of
        BY <2>1, <3>5 DEF PlaceInv
      <4>2. transport \in Slots \cup {None}
        BY DEF DataOK
      <4>. QED
        BY <2>1, <3>1, <3>2, <3>5, <4>1, <4>2
    <3>. QED
      BY <3>3, <3>4, <3>5
  <2>5. ASSUME NEW x \in Slots, ReaderStops(x) PROVE LiveInv'
    <3>1. UNCHANGED <<port, transport, shut, hooked, ready, ignored, unheard>>
      BY <2>5 DEF ReaderStops, ctlVars, hookVars, shutVars, history
    <3>2. /\ port[x] # "open"
          /\ \A y \in Slots : y # x => readers'[y] = readers[y]
      BY <2>5 DEF ReaderStops, DataOK
    <3>3. transport \in Slots \cup {None}
      BY DEF DataOK
    <3>. QED
      BY <2>1, <3>1, <3>2, <3>3
  <2>6. CASE ShutdownBegins \/ ShutdownStep
    <3>1. shut' # "no" /\ \A k \in Slots : pc[k] = "free"
      BY <2>1, <2>6 DEF ShutdownBegins, ShutdownStep, ShutdownTakes,
         ShutdownCloses, AloneInv, InFlight
    <3>. QED
      BY <2>1, <3>1
  <2>7. CASE SenderInstallsHooks
    BY <2>2, <2>7 DEF SenderInstallsHooks, InstallHooks, ctlVars, hookVars,
       portVars, shutVars, history
  <2>8. CASE UNCHANGED <<port, readers, transport, shut, hooked, ready,
                         ignored, unheard>>
    BY <2>2, <2>8
  <2>. QED
    BY <1>3, <2>3, <2>4, <2>5, <2>6, <2>7, <2>8
       DEF Elsewhere, ReaderStep, TimerFiresTooLate, FiveSecondsPass,
           Replug, OtherProcess, vars, ctlVars, portVars, hookVars,
           shutVars, history
<1>4. QED
  BY <1>1, <1>2, <1>3, Steps

\* discoverPort: when it has returned with "ready", the transport's port is
\* open, one RX thread reads it and its losses will be heard, as long as
\* attempts do not overlap and no loss was ignored or unheard.
THEOREM ReadyMeansReady == Spec => []CleanReady
<1>1. Init => AloneInv /\ HookInv /\ PlaceInv /\ LiveInv
  BY LinkAssumption
     DEF Init, AloneInv, HookInv, PlaceInv, LiveInv, Idle, Up, Early
<1>2. TypeOK => DataOK
  BY DEF TypeOK
<1>3. LiveInv => CleanReady
  BY DEF LiveInv, CleanReady, Quiet, InFlight, Idle, Up
<1>4. QED
  BY TypeCorrect, AloneStep, HookStep, PlaceStep, LiveStep,
     <1>1, <1>2, <1>3, PTL DEF Spec

-----------------------------------------------------------------------------
(* A retry is pending when one is due.                                     *)

\* What an attempt records is one of the codes of classify_gateway_error.
FailureInv == \A k \in Slots : pc[k] = "record" => failure[k] \in Codes

LEMMA FailureStep == DataOK /\ FailureInv /\ [Next]_vars => FailureInv'
<1>. SUFFICES ASSUME DataOK, FailureInv, [Next]_vars PROVE FailureInv'
  OBVIOUS
<1>. USE DEF FailureInv
<1>1. ASSUME NEW k \in Slots, Begins(k) PROVE FailureInv'
  <2>1. PICK who \in Origins : Begin(k, who)
    BY <1>1 DEF Begins, Startup, RetryGateway, TimerFires,
                ScheduleReconnect, Origins
  <2>. QED
    BY <2>1 DEF Begin, DataOK
<1>2. ASSUME NEW k \in Slots, AttemptStep(k) PROVE FailureInv'
  <2>1. ASSUME NEW code \in Codes, NEW from, Fail(k, from, code)
        PROVE  FailureInv'
    BY <2>1 DEF Fail, Goto, DataOK
  <2>2. CASE OpenFails(k)
    BY <2>1, <2>2, FailureCodes DEF OpenFails
  <2>3. CASE StartFails(k)
    BY <2>1, <2>3 DEF StartFails, Codes
  <2>4. CASE HookTransport(k)
    <3>1. CASE transport = None
      BY <2>1, <2>4, <3>1 DEF HookTransport, Codes
    <3>2. CASE transport # None
      BY <2>4, <3>2 DEF HookTransport, Goto, DataOK
    <3>. QED
      BY <3>1, <3>2
  <2>5. CASE RecordError(k)
    BY <2>5 DEF RecordError, Goto, DataOK
  <2>6. CASE ~OpenFails(k) /\ ~StartFails(k) /\ ~HookTransport(k)
             /\ ~RecordError(k)
    <3>1. failure' = failure
      BY <1>2, <2>6 DEF AttemptStep, ReleaseOld, DropOld, TakeOld,
         CloseAndCreate, OpenSucceeds, StartReader, ReopenAndStart,
         MarkReady, ClearError, CancelTimer, ArmTimer, EndAttempt
    <3>2. \A j \in Slots : pc'[j] = "record" => pc[j] = "record"
      BY <1>2, <2>6 DEF AttemptStep, ReleaseOld, DropOld, TakeOld,
         CloseAndCreate, OpenSucceeds, StartReader, ReopenAndStart,
         MarkReady, ClearError, CancelTimer, ArmTimer, EndAttempt, Goto,
         DataOK
    <3>. QED
      BY <3>1, <3>2
  <2>. QED
    BY <2>2, <2>3, <2>4, <2>5, <2>6
<1>3. CASE Elsewhere
  <2>1. pc' = pc /\ failure' = failure
    BY <1>3, ElsewhereStays DEF Elsewhere, ReaderStep, ReaderReports,
       ReaderStops, SenderReports, GatewayReports, Report,
       TimerFiresTooLate, FinishDisconnect, SenderInstallsHooks,
       FiveSecondsPass, ShutdownBegins, ShutdownStep, ShutdownTakes,
       ShutdownCloses, Replug, OtherProcess, vars, runVars
  <2>. QED
    BY <2>1
<1>4. QED
  BY <1>1, <1>2, <1>3, Steps

\* A reconnect thread is about to be spawned.
Claimed == \E r \in reports : r.at = "schedule"

Polled == armed # {} \/ error \in {"NOT_FOUND", "HOST_ERROR"}

\* Until a loss is ignored, whoever is not ready and has no reconnect thread
\* coming is either within an attempt that has not succeeded, or polled.
RetryInv ==
  ~overlap /\ ~ignored /\ shut = "no" /\ ~ready /\ ~Claimed =>
    /\ \A k \in Slots : pc[k] \notin {"clear", "hook"}
    /\ started /\ Idle => Polled

LEMMA RetryStep ==
  DataOK /\ AloneInv /\ FailureInv /\ RetryInv /\ [Next]_vars => RetryInv'
<1>. SUFFICES ASSUME DataOK, AloneInv, FailureInv, RetryInv, [Next]_vars,
                     ~overlap', ~ignored', shut' = "no", ~ready', ~Claimed'
              PROVE  /\ \A k \in Slots : pc'[k] \notin {"clear", "hook"}
                     /\ started' /\ Idle' => Polled'
  BY DEF RetryInv
<1>. USE DEF RetryInv, Idle, Polled
<1>1. ASSUME NEW k \in Slots, Begins(k)
      PROVE  /\ \A j \in Slots : pc'[j] \notin {"clear", "hook"}
             /\ started' /\ Idle' => Polled'
  BY <1>1, BeginsAlone
<1>2. ASSUME NEW k \in Slots, AttemptStep(k)
      PROVE  /\ \A j \in Slots : pc'[j] \notin {"clear", "hook"}
             /\ started' /\ Idle' => Polled'
  <2>1. /\ ~overlap /\ shut = "no" /\ pc[k] # "free"
        /\ \A j \in Slots \ {k} : pc[j] = "free" /\ pc'[j] = "free"
    BY <1>2, AttemptMoves DEF AloneInv
  <2>2. ~Claimed
    <3>1. reports' = reports
      BY <1>2 DEF AttemptStep, ReleaseOld, DropOld, TakeOld, CloseAndCreate,
         OpenSucceeds, OpenFails, StartReader, ReopenAndStart, StartFails,
         MarkReady, ClearError, HookTransport, RecordError, CancelTimer,
         ArmTimer, EndAttempt, recVars
    <3>. QED
      BY <3>1 DEF Claimed
  <2>3. UNCHANGED <<ignored, started>>
    BY <1>2 DEF AttemptStep, ReleaseOld, DropOld, TakeOld,
       CloseAndCreate, OpenSucceeds, OpenFails, StartReader, ReopenAndStart,
       StartFails, MarkReady, ClearError, HookTransport, RecordError,
       CancelTimer, ArmTimer, EndAttempt, history
  <2>4. CASE \/ ReleaseOld(k) \/ DropOld(k) \/ TakeOld(k)
             \/ CloseAndCreate(k) \/ OpenSucceeds(k) \/ OpenFails(k)
             \/ StartReader(k) \/ ReopenAndStart(k) \/ StartFails(k)
             \/ CancelTimer(k)
    <3>1. pc'[k] \in {"drop", "close", "open", "start", "ready", "record",
                      "arm"}
      BY <2>4 DEF ReleaseOld, DropOld, TakeOld, CloseAndCreate,
         OpenSucceeds, OpenFails, StartReader, ReopenAndStart, StartFails,
         CancelTimer, Fail, Goto, DataOK
    <3>. QED
      BY <2>1, <3>1
  <2>5. CASE MarkReady(k)
    BY <2>5 DEF MarkReady
  <2>6. CASE ClearError(k) \/ HookTransport(k)
    <3>1. pc[k] \in {"clear", "hook"}
      BY <2>6 DEF ClearError, HookTransport, Fail, Goto
    <3>2. ~ready
      BY Zenon, <2>6 DEF ClearError, HookTransport, ctlVars
    <3>. QED
      BY <2>1, <2>2, <2>3, <3>1, <3>2
  <2>7. CASE RecordError(k)
    <3>. DEFINE code == Resolved(failure[k])
    <3>1. pc[k] = "record" /\ error' = code
          /\ pc'[k] = IF code \in Retried THEN "cancel" ELSE "end"
      BY <2>1, <2>7 DEF RecordError, Goto, DataOK
    <3>2. code \in Codes
      BY <3>1 DEF FailureInv, Resolved, Codes
    <3>3. code \notin Retried => code \in {"NOT_FOUND", "HOST_ERROR"}
      BY <3>2 DEF Codes, Retried
    <3>. QED
      BY <2>1, <3>1, <3>3
  <2>8. CASE ArmTimer(k)
    BY <2>1, <2>8 DEF ArmTimer, Goto, DataOK
  <2>9. CASE EndAttempt(k)
    <3>1. /\ pc[k] = "end" /\ pc'[k] = "free"
          /\ UNCHANGED <<armed, error>>
      BY <2>9 DEF EndAttempt, Goto, DataOK, ctlVars, tmrVars
    <3>2. ~ready
      BY Zenon, <2>9 DEF EndAttempt, ctlVars
    <3>. QED
      BY <2>1, <2>2, <2>3, <3>1, <3>2
  <2>. QED
    BY <1>2, <2>4, <2>5, <2>6, <2>7, <2>8, <2>9 DEF AttemptStep
<1>3. CASE Elsewhere
  <2>1. pc' = pc /\ ~overlap
    BY <1>3, ElsewhereStays
  <2>. DEFINE Goal == /\ \A k \in Slots : pc'[k] \notin {"clear", "hook"}
                      /\ started' /\ Idle' => Polled'
  <2>2. ASSUME UNCHANGED <<armed, error, shut>>, started' => started,
               ~ignored, ~ready, ~Claimed
        PROVE  Goal
    BY <2>1, <2>2
  <2>3. ASSUME NEW x \in Slots,
               ReaderReports(x) \/ SenderReports(x) \/ GatewayReports(x)
        PROVE  Goal
    <3>1. PICK by : Report(x, by)
      BY <2>3 DEF ReaderReports, SenderReports, GatewayReports
    <3>2. UNCHANGED <<armed, error, shut>>
      BY <3>1 DEF Report, tmrVars, shutVars
    <3>3. started' = started
      BY <3>1 DEF Report
    <3>4. ~(x \in hooked /\ ~inProgress /\ ~recent)
      <4>. SUFFICES ASSUME x \in hooked /\ ~inProgress /\ ~recent
                    PROVE  FALSE
        OBVIOUS
      <4>1. [of |-> x, by |-> by, at |-> "schedule"] \in reports'
        BY <3>1 DEF Report
      <4>. QED
        BY <4>1 DEF Claimed
    <3>5. ~ready
      BY Zenon, <3>1, <3>4 DEF Report
    <3>6. ~Claimed
      BY <3>1 DEF Report, Claimed
    <3>7. ~ignored
      BY Zenon, <3>1 DEF Report
    <3>. QED
      BY <2>2, <3>2, <3>3, <3>5, <3>6, <3>7
  <2>4. ASSUME NEW r \in reports, FinishDisconnect(r) PROVE Goal
    <3>1. UNCHANGED <<armed, error, shut>> /\ ~Claimed
      BY <2>4 DEF FinishDisconnect, ctlVars, tmrVars, shutVars, Claimed
    <3>2. ~ignored /\ ~ready /\ (started' => started)
      BY Zenon, <2>4 DEF FinishDisconnect, ctlVars, history
    <3>. QED
      BY <2>2, <3>1, <3>2
  <2>5. CASE UNCHANGED <<armed, error, shut, started, ignored, ready,
                         reports>>
    BY <2>2, <2>5 DEF Claimed
  <2>6. CASE ShutdownBegins \/ ShutdownStep
    BY <2>6 DEF ShutdownBegins, ShutdownStep, ShutdownTakes, ShutdownCloses
  <2>7. ASSUME NEW j \in Slots, TimerFiresTooLate(j) PROVE Goal
    BY <2>7 DEF TimerFiresTooLate, shutVars
  <2>. QED
    BY <1>3, <2>3, <2>4, <2>5, <2>6, <2>7
       DEF Elsewhere, ReaderStep, ReaderStops, SenderInstallsHooks,
           FiveSecondsPass, Replug, OtherProcess, vars, ctlVars, tmrVars,
           recVars, shutVars, history
<1>4. QED
  BY <1>1, <1>2, <1>3, Steps

\* _record_gateway_error and _schedule_gateway_retry: when nothing is under
\* way and the gateway is not ready, a timer is armed or the error is one
\* that is not retried, as long as attempts do not overlap and no loss was
\* ignored.
THEOREM RetryIsPending == Spec => []CleanRetryPending
<1>1. Init => AloneInv /\ FailureInv /\ RetryInv
  BY DEF Init, AloneInv, FailureInv, RetryInv
<1>2. TypeOK => DataOK
  BY DEF TypeOK
<1>3. RetryInv => CleanRetryPending
  BY DEF RetryInv, CleanRetryPending, RetryPending, Quiet, InFlight, Idle,
         Claimed, Polled
<1>4. QED
  BY TypeCorrect, AloneStep, FailureStep, RetryStep,
     <1>1, <1>2, <1>3, PTL DEF Spec
=============================================================================
