-------------------------- MODULE TaskFeed_proofs ---------------------------
(* Proofs about TaskFeed, for any number of threads and clients.           *)
EXTENDS TaskFeed, TLAPS

LEMMA NoTaskType == NoTask \in Tasks
  BY DEF NoTask, Tasks

LEMMA TypeInit == Init => TypeOK
<1>. SUFFICES ASSUME Init PROVE TypeOK
  OBVIOUS
<1>1. /\ task \in Tasks /\ payload \in [Threads -> Tasks]
      /\ seed \in [Clients -> Tasks] /\ shown \in [Clients -> Tasks]
  BY NoTaskType DEF Init
<1>2. /\ at \in [Threads -> Locations]
      /\ after \in [Threads -> {"idle", "spawn", "work"}]
      /\ todo \in [Threads -> SUBSET clients]
  BY DEF Init, Locations
<1>3. /\ clients = {c \in Clients : tap[c] # "off"}
      /\ tap \in [Clients -> {"off", "added", "seeding", "on"}]
  BY DEF Init
<1>4. seen \in Nat /\ heard \in Nat /\ events \in 0..MaxEvents
  BY FeedAssumption DEF Init, FeedAssumption
<1>5. crossed \in BOOLEAN /\ handover \in BOOLEAN
  BY Zenon DEF Init
<1>. QED
  BY <1>1, <1>2, <1>3, <1>4, <1>5 DEF TypeOK

LEMMA TypeStep ==
  ASSUME TypeOK, [Next]_vars
  PROVE  TypeOK'
<1>1. ASSUME NEW a \in Threads, TakeSnapshot(a) PROVE TypeOK'
  BY <1>1, FeedAssumption DEF TakeSnapshot, TypeOK, Tasks, Locations,
     clientVars, threadVars, history
<1>2. ASSUME NEW a \in Threads, ListClients(a) PROVE TypeOK'
  BY <1>2, FeedAssumption DEF ListClients, TypeOK, Tasks, Locations,
     clientVars, threadVars, history
<1>3. ASSUME NEW a \in Threads, NEW c \in Clients, Put(a, c) PROVE TypeOK'
  BY <1>3, FeedAssumption DEF Put, TypeOK, Tasks, Locations, clientVars,
     threadVars, history
<1>4. ASSUME NEW a \in Threads, EndBroadcast(a) PROVE TypeOK'
  BY <1>4, NoTaskType, FeedAssumption
     DEF EndBroadcast, TypeOK, Locations, clientVars, history
<1>5. ASSUME NEW h \in Handlers, NEW counted \in BOOLEAN, Start(h, counted)
        PROVE TypeOK'
  <2>1. NewTask(counted) \in Tasks
    <3>1. task.id + 1 \in Nat
      BY DEF TypeOK, Tasks
    <3>2. \A t \in Tasks, i \in Nat :
            [t EXCEPT !.id = i, !.state = "running", !.counted = counted]
              \in Tasks
      BY DEF Tasks
    <3>. QED
      BY <3>1, <3>2, NoTaskType DEF NewTask
  <2>2. /\ task' \in Tasks
        /\ heard' = 0 /\ seen' = seen /\ events' = events
        /\ crossed' \in BOOLEAN /\ handover' \in BOOLEAN
    BY <1>5, <2>1 DEF Start, Change, TypeOK
  <2>3. /\ at' \in [Threads -> Locations]
        /\ after' \in [Threads -> {"idle", "spawn", "work"}]
    BY <1>5 DEF Start, Change, TypeOK, Threads, Locations
  <2>. QED
    BY <1>5, <2>2, <2>3 DEF Start, Change, TypeOK, clientVars
<1>6. ASSUME NEW h \in Handlers, NEW r \in Runners, Spawn(h, r) PROVE TypeOK'
  BY <1>6, FeedAssumption DEF Spawn, Threads, TypeOK, Tasks, Locations,
     clientVars, threadVars, history
<1>7. ASSUME NEW r \in Runners, Note(r) PROVE TypeOK'
  <2>1. [task EXCEPT !.notes = @ + 1] \in Tasks
    BY DEF TypeOK, Tasks
  <2>2. /\ task' \in Tasks
        /\ heard' = heard /\ seen' = seen /\ events' \in 0..MaxEvents
        /\ crossed' \in BOOLEAN /\ handover' = handover
    BY <1>7, <2>1, FeedAssumption DEF Note, Change, TypeOK
  <2>3. /\ at' \in [Threads -> Locations]
        /\ after' \in [Threads -> {"idle", "spawn", "work"}]
    BY <1>7 DEF Note, Change, TypeOK, Threads, Locations
  <2>. QED
    BY <1>7, <2>2, <2>3 DEF Note, Change, TypeOK, clientVars
<1>8. ASSUME NEW r \in Runners, NEW failed \in BOOLEAN, Finish(r, failed)
        PROVE TypeOK'
  BY <1>8, FeedAssumption DEF Finish, Change, Threads, TypeOK, Tasks,
     Locations, clientVars, threadVars, history
<1>9. ASSUME NEW to \in {"read", "fault"}, RxSeesTask(to) PROVE TypeOK'
  BY <1>9, FeedAssumption DEF RxSeesTask, Advance, Threads, TypeOK, Tasks,
     Locations, clientVars, threadVars, history
<1>10. ASSUME RxReads PROVE TypeOK'
  BY <1>10, FeedAssumption DEF RxReads, Advance, Threads, TypeOK, Tasks,
     Locations, clientVars, threadVars, history
<1>11. ASSUME RxWrites PROVE TypeOK'
  BY <1>11, FeedAssumption DEF RxWrites, Change, Threads, TypeOK, Tasks,
     Locations, clientVars, threadVars, history
<1>12. ASSUME RxReportsError PROVE TypeOK'
  BY <1>12, FeedAssumption DEF RxReportsError, Change, Threads, TypeOK, Tasks,
     Locations, clientVars, threadVars, history
<1>13. ASSUME NEW c \in Clients, Connect(c) PROVE TypeOK'
  BY <1>13, FeedAssumption DEF Connect, TypeOK, Tasks, Locations, clientVars,
     threadVars, history
<1>14. ASSUME NEW c \in Clients, SeedRead(c) PROVE TypeOK'
  BY <1>14, FeedAssumption DEF SeedRead, TypeOK, Tasks, Locations, clientVars,
     threadVars, history
<1>15. ASSUME NEW c \in Clients, SeedPut(c) PROVE TypeOK'
  BY <1>15, NoTaskType, FeedAssumption
     DEF SeedPut, TypeOK, threadVars, history
<1>16. ASSUME NEW c \in Clients, Leave(c) PROVE TypeOK'
  <2>1. clients' = {d \in Clients : tap'[d] # "off"}
    BY <1>16 DEF Leave, TypeOK
  <2>2. todo' \in [Threads -> SUBSET clients']
    BY <1>16 DEF Leave, TypeOK
  <2>3. /\ tap' \in [Clients -> {"off", "added", "seeding", "on"}]
        /\ shown' \in [Clients -> Tasks]
    BY <1>16, NoTaskType DEF Leave, TypeOK
  <2>. QED
    BY <1>16, <2>1, <2>2, <2>3 DEF Leave, TypeOK, history
<1>17. CASE UNCHANGED vars
  BY <1>17, FeedAssumption DEF vars, TypeOK, Tasks, Locations, clientVars,
     threadVars, history
<1>. QED
  BY <1>1, <1>2, <1>3, <1>4, <1>5, <1>6, <1>7, <1>8, <1>9, <1>10, <1>11,
     <1>12, <1>13, <1>14, <1>15, <1>16, <1>17 DEF Next, Broadcast, Handler,
     Runner, RxThread, Browser

\* Every variable keeps to its values, and the clients SSEBridge knows are
\* those whose request lasts.
THEOREM TypeCorrect == Spec => []TypeOK
  BY TypeInit, TypeStep, PTL DEF Spec

-----------------------------------------------------------------------------
(* One task at a time.  The property is inductive as it stands.            *)

LEMMA OneTaskInit == Init => OneTaskAtATime
  BY DEF Init, OneTaskAtATime, Carrying, Broadcasting, Running, NoTask

LEMMA OneTaskStep ==
  ASSUME TypeOK, OneTaskAtATime, [Next]_vars
  PROVE  OneTaskAtATime'
<1>1. ASSUME NEW a \in Threads, TakeSnapshot(a) PROVE OneTaskAtATime'
  BY <1>1, FeedAssumption DEF TakeSnapshot, TypeOK, OneTaskAtATime, Carrying,
     Broadcasting, Running, clientVars, threadVars, history
<1>2. ASSUME NEW a \in Threads, ListClients(a) PROVE OneTaskAtATime'
  BY <1>2, FeedAssumption DEF ListClients, TypeOK, OneTaskAtATime, Carrying,
     Broadcasting, Running, clientVars, threadVars, history
<1>3. ASSUME NEW a \in Threads, NEW c \in Clients, Put(a, c) PROVE
        OneTaskAtATime'
  BY <1>3, FeedAssumption DEF Put, TypeOK, OneTaskAtATime, Carrying,
     Broadcasting, Running, clientVars, threadVars, history
<1>4. ASSUME NEW a \in Threads, EndBroadcast(a) PROVE OneTaskAtATime'
  BY <1>4, FeedAssumption DEF EndBroadcast, TypeOK, OneTaskAtATime, Carrying,
     Broadcasting, Running, clientVars, threadVars, history
<1>5. ASSUME NEW h \in Handlers, NEW counted \in BOOLEAN, Start(h, counted)
        PROVE OneTaskAtATime'
  BY <1>5, FeedAssumption DEF Start, Change, NewTask, NoTask, Threads, TypeOK,
     OneTaskAtATime, Carrying, Broadcasting, Running, clientVars, threadVars,
     history
<1>6. ASSUME NEW h \in Handlers, NEW r \in Runners, Spawn(h, r) PROVE
        OneTaskAtATime'
  BY <1>6, FeedAssumption DEF Spawn, Threads, TypeOK, OneTaskAtATime,
     Carrying, Broadcasting, Running, clientVars, threadVars, history
<1>7. ASSUME NEW r \in Runners, Note(r) PROVE OneTaskAtATime'
  BY <1>7, FeedAssumption DEF Note, Change, Threads, TypeOK, OneTaskAtATime,
     Carrying, Broadcasting, Running, clientVars, threadVars, history
<1>8. ASSUME NEW r \in Runners, NEW failed \in BOOLEAN, Finish(r, failed)
        PROVE OneTaskAtATime'
  BY <1>8, FeedAssumption DEF Finish, Change, Threads, TypeOK, OneTaskAtATime,
     Carrying, Broadcasting, Running, clientVars, threadVars, history
<1>9. ASSUME NEW to \in {"read", "fault"}, RxSeesTask(to) PROVE
        OneTaskAtATime'
  BY <1>9, FeedAssumption DEF RxSeesTask, Advance, Threads, TypeOK,
     OneTaskAtATime, Carrying, Broadcasting, Running, clientVars, threadVars,
     history
<1>10. ASSUME RxReads PROVE OneTaskAtATime'
  BY <1>10, FeedAssumption DEF RxReads, Advance, Threads, TypeOK,
     OneTaskAtATime, Carrying, Broadcasting, Running, clientVars, threadVars,
     history
<1>11. ASSUME RxWrites PROVE OneTaskAtATime'
  BY <1>11, FeedAssumption DEF RxWrites, Change, Threads, TypeOK,
     OneTaskAtATime, Carrying, Broadcasting, Running, clientVars, threadVars,
     history
<1>12. ASSUME RxReportsError PROVE OneTaskAtATime'
  BY <1>12, FeedAssumption DEF RxReportsError, Change, Threads, TypeOK,
     OneTaskAtATime, Carrying, Broadcasting, Running, clientVars, threadVars,
     history
<1>13. ASSUME NEW c \in Clients, Connect(c) PROVE OneTaskAtATime'
  BY <1>13, FeedAssumption DEF Connect, TypeOK, OneTaskAtATime, Carrying,
     Broadcasting, Running, clientVars, threadVars, history
<1>14. ASSUME NEW c \in Clients, SeedRead(c) PROVE OneTaskAtATime'
  BY <1>14, FeedAssumption DEF SeedRead, TypeOK, OneTaskAtATime, Carrying,
     Broadcasting, Running, clientVars, threadVars, history
<1>15. ASSUME NEW c \in Clients, SeedPut(c) PROVE OneTaskAtATime'
  BY <1>15, FeedAssumption DEF SeedPut, TypeOK, OneTaskAtATime, Carrying,
     Broadcasting, Running, clientVars, threadVars, history
<1>16. ASSUME NEW c \in Clients, Leave(c) PROVE OneTaskAtATime'
  BY <1>16, FeedAssumption DEF Leave, TypeOK, OneTaskAtATime, Carrying,
     Broadcasting, Running, clientVars, threadVars, history
<1>17. CASE UNCHANGED vars
  BY <1>17, FeedAssumption DEF vars, TypeOK, OneTaskAtATime, Carrying,
     Broadcasting, Running, clientVars, threadVars, history
<1>. QED
  BY <1>1, <1>2, <1>3, <1>4, <1>5, <1>6, <1>7, <1>8, <1>9, <1>10, <1>11,
     <1>12, <1>13, <1>14, <1>15, <1>16, <1>17 DEF Next, Broadcast, Handler,
     Runner, RxThread, Browser

\* TaskManager's busy test keeps tasks apart, whatever the order in which
\* starts, endings and broadcasts interleave, and never outlasts a task.
THEOREM TasksExclude == Spec => []OneTaskAtATime
  BY TypeCorrect, OneTaskInit, OneTaskStep, PTL DEF Spec

-----------------------------------------------------------------------------
(* The counter.                                                            *)

\* The RX thread writes a count of the task it has read.
CounterInv ==
  /\ CleanCounter
  /\ ~handover /\ at[Rx] = "write" => seen = task.replies

LEMMA CounterInit == Init => CounterInv
  BY DEF Init, CounterInv, CleanCounter, NoTask, Threads

LEMMA CounterStep ==
  ASSUME TypeOK, CounterInv, [Next]_vars
  PROVE  CounterInv'
<1>1. ASSUME NEW a \in Threads, TakeSnapshot(a) PROVE CounterInv'
  BY <1>1, FeedAssumption DEF TakeSnapshot, TypeOK, Tasks, CounterInv,
     CleanCounter, Threads, clientVars, threadVars, history
<1>2. ASSUME NEW a \in Threads, ListClients(a) PROVE CounterInv'
  BY <1>2, FeedAssumption DEF ListClients, TypeOK, Tasks, CounterInv,
     CleanCounter, Threads, clientVars, threadVars, history
<1>3. ASSUME NEW a \in Threads, NEW c \in Clients, Put(a, c) PROVE CounterInv'
  BY <1>3, FeedAssumption DEF Put, TypeOK, Tasks, CounterInv, CleanCounter,
     Threads, clientVars, threadVars, history
<1>4. ASSUME NEW a \in Threads, EndBroadcast(a) PROVE CounterInv'
  BY <1>4, FeedAssumption DEF EndBroadcast, TypeOK, Tasks, CounterInv,
     CleanCounter, Threads, clientVars, threadVars, history
<1>5. ASSUME NEW h \in Handlers, NEW counted \in BOOLEAN, Start(h, counted)
        PROVE CounterInv'
  BY <1>5, FeedAssumption DEF Start, Change, NewTask, NoTask, Threads, TypeOK,
     Tasks, CounterInv, CleanCounter, clientVars, threadVars, history
<1>6. ASSUME NEW h \in Handlers, NEW r \in Runners, Spawn(h, r) PROVE
        CounterInv'
  BY <1>6, FeedAssumption DEF Spawn, Threads, TypeOK, Tasks, CounterInv,
     CleanCounter, clientVars, threadVars, history
<1>7. ASSUME NEW r \in Runners, Note(r) PROVE CounterInv'
  BY <1>7, FeedAssumption DEF Note, Change, Threads, TypeOK, Tasks,
     CounterInv, CleanCounter, clientVars, threadVars, history
<1>8. ASSUME NEW r \in Runners, NEW failed \in BOOLEAN, Finish(r, failed)
        PROVE CounterInv'
  BY <1>8, FeedAssumption DEF Finish, Change, Threads, TypeOK, Tasks,
     CounterInv, CleanCounter, clientVars, threadVars, history
<1>9. ASSUME NEW to \in {"read", "fault"}, RxSeesTask(to) PROVE CounterInv'
  BY <1>9, FeedAssumption DEF RxSeesTask, Advance, Threads, TypeOK, Tasks,
     CounterInv, CleanCounter, clientVars, threadVars, history
<1>10. ASSUME RxReads PROVE CounterInv'
  BY <1>10, FeedAssumption DEF RxReads, Advance, Threads, TypeOK, Tasks,
     CounterInv, CleanCounter, clientVars, threadVars, history
<1>11. ASSUME RxWrites PROVE CounterInv'
  BY <1>11, FeedAssumption DEF RxWrites, Change, Threads, TypeOK, Tasks,
     CounterInv, CleanCounter, clientVars, threadVars, history
<1>12. ASSUME RxReportsError PROVE CounterInv'
  BY <1>12, FeedAssumption DEF RxReportsError, Change, Threads, TypeOK, Tasks,
     CounterInv, CleanCounter, clientVars, threadVars, history
<1>13. ASSUME NEW c \in Clients, Connect(c) PROVE CounterInv'
  BY <1>13, FeedAssumption DEF Connect, TypeOK, Tasks, CounterInv,
     CleanCounter, Threads, clientVars, threadVars, history
<1>14. ASSUME NEW c \in Clients, SeedRead(c) PROVE CounterInv'
  BY <1>14, FeedAssumption DEF SeedRead, TypeOK, Tasks, CounterInv,
     CleanCounter, Threads, clientVars, threadVars, history
<1>15. ASSUME NEW c \in Clients, SeedPut(c) PROVE CounterInv'
  BY <1>15, FeedAssumption DEF SeedPut, TypeOK, Tasks, CounterInv,
     CleanCounter, Threads, clientVars, threadVars, history
<1>16. ASSUME NEW c \in Clients, Leave(c) PROVE CounterInv'
  BY <1>16, FeedAssumption DEF Leave, TypeOK, Tasks, CounterInv, CleanCounter,
     Threads, clientVars, threadVars, history
<1>17. CASE UNCHANGED vars
  BY <1>17, FeedAssumption DEF vars, TypeOK, Tasks, CounterInv, CleanCounter,
     Threads, clientVars, threadVars, history
<1>. QED
  BY <1>1, <1>2, <1>3, <1>4, <1>5, <1>6, <1>7, <1>8, <1>9, <1>10, <1>11,
     <1>12, <1>13, <1>14, <1>15, <1>16, <1>17 DEF Next, Broadcast, Handler,
     Runner, RxThread, Browser

\* No reply is lost from the counter, and none is counted twice, unless a
\* task started between the reading and the writing of a count.
THEOREM CountsAreExact == Spec => []CleanCounter
<1>1. CounterInv => CleanCounter
  BY DEF CounterInv
<1>. QED
  BY <1>1, TypeCorrect, CounterInit, CounterStep, PTL DEF Spec

-----------------------------------------------------------------------------
(* The feed.                                                               *)

\* Thread a will still give client c a snapshot.
WillShow(a, c) ==
  \/ at[a] \in {"snapshot", "list"}
  \/ at[a] = "put" /\ c \in todo[a]

\* While no change crosses an older snapshot, the snapshots under way are
\* the task, and whoever does not show it will be given it.
FeedInv ==
  ~crossed =>
    /\ \A a \in Threads : at[a] \in {"list", "put"} => payload[a] = task
    /\ \A c \in Clients : tap[c] = "seeding" => seed[c] = task
    /\ \A c \in Clients :
         tap[c] = "on" =>
           shown[c] = task \/ \E a \in Threads : WillShow(a, c)

LEMMA FeedInit == Init => FeedInv
  BY DEF Init, FeedInv

LEMMA FeedStep ==
  ASSUME TypeOK, FeedInv, [Next]_vars
  PROVE  FeedInv'
<1>1. ASSUME NEW a \in Threads, TakeSnapshot(a) PROVE FeedInv'
  BY <1>1, FeedAssumption DEF TakeSnapshot, TypeOK, FeedInv, WillShow,
     OlderSnapshotUnderWay, clientVars, threadVars, history
<1>2. ASSUME NEW a \in Threads, ListClients(a) PROVE FeedInv'
  BY <1>2, FeedAssumption DEF ListClients, TypeOK, FeedInv, WillShow,
     OlderSnapshotUnderWay, clientVars, threadVars, history
<1>3. ASSUME NEW a \in Threads, NEW c \in Clients, Put(a, c) PROVE FeedInv'
  BY <1>3, FeedAssumption DEF Put, TypeOK, FeedInv, WillShow,
     OlderSnapshotUnderWay, clientVars, threadVars, history
<1>4. ASSUME NEW a \in Threads, EndBroadcast(a) PROVE FeedInv'
  BY <1>4, FeedAssumption DEF EndBroadcast, TypeOK, FeedInv, WillShow,
     OlderSnapshotUnderWay, clientVars, threadVars, history
<1>5. ASSUME NEW h \in Handlers, NEW counted \in BOOLEAN, Start(h, counted)
        PROVE FeedInv'
  BY <1>5, FeedAssumption DEF Start, Change, NewTask, NoTask, Threads, TypeOK,
     FeedInv, WillShow, OlderSnapshotUnderWay, clientVars, threadVars, history
<1>6. ASSUME NEW h \in Handlers, NEW r \in Runners, Spawn(h, r) PROVE FeedInv'
  BY <1>6, FeedAssumption DEF Spawn, Threads, TypeOK, FeedInv, WillShow,
     OlderSnapshotUnderWay, clientVars, threadVars, history
<1>7. ASSUME NEW r \in Runners, Note(r) PROVE FeedInv'
  BY <1>7, FeedAssumption DEF Note, Change, Threads, TypeOK, FeedInv,
     WillShow, OlderSnapshotUnderWay, clientVars, threadVars, history
<1>8. ASSUME NEW r \in Runners, NEW failed \in BOOLEAN, Finish(r, failed)
        PROVE FeedInv'
  BY <1>8, FeedAssumption DEF Finish, Change, Threads, TypeOK, FeedInv,
     WillShow, OlderSnapshotUnderWay, clientVars, threadVars, history
<1>9. ASSUME NEW to \in {"read", "fault"}, RxSeesTask(to) PROVE FeedInv'
  BY <1>9, FeedAssumption DEF RxSeesTask, Advance, Threads, TypeOK, FeedInv,
     WillShow, OlderSnapshotUnderWay, clientVars, threadVars, history
<1>10. ASSUME RxReads PROVE FeedInv'
  BY <1>10, FeedAssumption DEF RxReads, Advance, Threads, TypeOK, FeedInv,
     WillShow, OlderSnapshotUnderWay, clientVars, threadVars, history
<1>11. ASSUME RxWrites PROVE FeedInv'
  BY <1>11, FeedAssumption DEF RxWrites, Change, Threads, TypeOK, FeedInv,
     WillShow, OlderSnapshotUnderWay, clientVars, threadVars, history
<1>12. ASSUME RxReportsError PROVE FeedInv'
  BY <1>12, FeedAssumption DEF RxReportsError, Change, Threads, TypeOK,
     FeedInv, WillShow, OlderSnapshotUnderWay, clientVars, threadVars, history
<1>13. ASSUME NEW c \in Clients, Connect(c) PROVE FeedInv'
  BY <1>13, FeedAssumption DEF Connect, TypeOK, FeedInv, WillShow,
     OlderSnapshotUnderWay, clientVars, threadVars, history
<1>14. ASSUME NEW c \in Clients, SeedRead(c) PROVE FeedInv'
  BY <1>14, FeedAssumption DEF SeedRead, TypeOK, FeedInv, WillShow,
     OlderSnapshotUnderWay, clientVars, threadVars, history
<1>15. ASSUME NEW c \in Clients, SeedPut(c) PROVE FeedInv'
  BY <1>15, FeedAssumption DEF SeedPut, TypeOK, FeedInv, WillShow,
     OlderSnapshotUnderWay, clientVars, threadVars, history
<1>16. ASSUME NEW c \in Clients, Leave(c) PROVE FeedInv'
  BY <1>16, FeedAssumption DEF Leave, TypeOK, FeedInv, WillShow,
     OlderSnapshotUnderWay, clientVars, threadVars, history
<1>17. CASE UNCHANGED vars
  BY <1>17, FeedAssumption DEF vars, TypeOK, FeedInv, WillShow,
     OlderSnapshotUnderWay, clientVars, threadVars, history
<1>. QED
  BY <1>1, <1>2, <1>3, <1>4, <1>5, <1>6, <1>7, <1>8, <1>9, <1>10, <1>11,
     <1>12, <1>13, <1>14, <1>15, <1>16, <1>17 DEF Next, Broadcast, Handler,
     Runner, RxThread, Browser

LEMMA FeedClean == TypeOK /\ FeedInv => CleanFeed
  BY DEF TypeOK, FeedInv, CleanFeed, Settled, Broadcasting, WillShow

\* When everything has been delivered every browser shows the task as it is,
\* unless a change crossed an older snapshot on its way.
THEOREM FeedIsCurrent == Spec => []CleanFeed
  BY TypeCorrect, FeedInit, FeedStep, FeedClean, PTL DEF Spec
=============================================================================
