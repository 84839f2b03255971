--------------------------- MODULE LifespanProofs ---------------------------
(***************************************************************************)
(* Theorems about PublisherSupervisor and the Lifespan around it, for any  *)
(* list of sibling publishers.                                             *)
(***************************************************************************)
EXTENDS Lifespan, TLAPS

BringUp == {"idle", "authenticating", "connecting"}

\* Before start() is through nothing runs.
NothingYet ==
  sup \in BringUp =>
    /\ kisTask = "none" /\ refreshTask = "none" /\ mockTask = "none"
    /\ watchdog = "none" /\ active = "none" /\ ~client

\* What runs goes with the publisher that is active: the refresh loop and the
\* client with KIS, the mock task with the mock.
Ownership ==
  /\ active = "kis" => mockTask = "none" /\ client /\ watchdog # "none"
  /\ active # "kis" => kisTask \notin KisLive /\ refreshTask = "none"
                         /\ watchdog \in {"none", "done"}
  /\ active = "mock" => ~client
  /\ active = "none" => mockTask = "none"
  /\ ~client => ws = "none"

\* How far the watchdog got.
Failover ==
  /\ watchdog \in {"none", "sleeping"} => failovers = 0
  /\ watchdog = "sleeping" => sup = "up"
  /\ watchdog \in {"stoppingRefresh", "closingWs"} =>
       kisTask \notin KisLive /\ sup \in {"up", "awaitWatchdog"}
  /\ watchdog = "stoppingRefresh" => refreshTask = "cancelled"
  /\ watchdog = "closingWs" => refreshTask = "none"

\* How far stop() got.
Stopping ==
  /\ sup = "stopRefresh" => active = "kis" /\ watchdog = "done"
                              /\ refreshTask \in {"none", "cancelled"}
  /\ sup \in {"closeWs", "stopped"} => active = "none"
  /\ sup = "stopped" => ~client
  /\ sup \in {"closeWs", "stopped", "raised"} =>
       watchdog \in {"none", "done"} /\ refreshTask = "none"

SupInv == SupTypeOK /\ NothingYet /\ Ownership /\ Failover /\ Stopping

-----------------------------------------------------------------------------
LEMMA SupInvInit == SupInit => SupInv
  BY DEF SupInit, SupInv, SupTypeOK, NothingYet, Ownership, Failover, Stopping, KisLive,
         KisDead, BringUp

LEMMA SupInvStep == SupInv /\ [SupNext]_supVars => SupInv'
<1> SUFFICES ASSUME SupInv, [SupNext]_supVars PROVE SupInv'
  OBVIOUS
<1> USE DEF SupInv, SupTypeOK, NothingYet, Ownership, Failover, Stopping, KisLive, KisDead,
            BringUp, settings, kisClient
<1>1. CASE StartWithoutCreds
  BY <1>1 DEF StartWithoutCreds, FallBack
<1>2. CASE StartAuthenticating
  BY <1>2 DEF StartAuthenticating
<1>3. CASE Authenticated
  BY <1>3 DEF Authenticated
<1>4. CASE BringUpFails
  BY <1>4 DEF BringUpFails, FallBack
<1>5. CASE Connected
  BY <1>5 DEF Connected
<1>6. CASE KisProceeds
  BY <1>6 DEF KisProceeds, NextStage
<1>7. CASE KisStreamEnds
  BY <1>7 DEF KisStreamEnds
<1>8. CASE KisRaises
  BY <1>8 DEF KisRaises
<1>9. CASE SocketDrops
  BY <1>9 DEF SocketDrops
<1>10. CASE MockRaises
  BY <1>10 DEF MockRaises
<1>11. CASE TokenAges
  BY <1>11 DEF TokenAges
<1>12. CASE RefreshBegins
  BY <1>12 DEF RefreshBegins
<1>13. CASE RefreshSucceeds
  BY <1>13 DEF RefreshSucceeds
<1>14. CASE RefreshFails
  BY <1>14 DEF RefreshFails
<1>15. CASE WatchdogPolls
  BY <1>15 DEF WatchdogPolls
<1>16. CASE WatchdogStopsKis
  BY <1>16 DEF WatchdogStopsKis
<1>17. CASE WatchdogStartsMock
  <2>1. /\ watchdog = "closingWs" /\ watchdog' = "done" /\ ~client' /\ client' \in BOOLEAN
        /\ kisState' = "disconnected" /\ ws' = "none" /\ active' = "mock" /\ mockTask' = "running"
        /\ UNCHANGED <<settings, sup, token, kisTask, refreshTask, failovers>>
    BY ONLY <1>17, Zenon DEF WatchdogStartsMock
  <2> QED BY <2>1
<1>18. CASE Stop
  BY <1>18 DEF Stop
<1>19. CASE StopMock
  BY <1>19 DEF StopMock, WatchdogAwaited
<1>20. CASE StopNothing
  BY <1>20 DEF StopNothing, WatchdogAwaited
<1>21. CASE StopRefresh
  BY <1>21 DEF StopRefresh, WatchdogAwaited
<1>22. CASE StopKis
  BY <1>22 DEF StopKis
<1>23. CASE CloseClient
  <2>1. /\ sup = "closeWs" /\ sup' = "stopped" /\ ~client' /\ client' \in BOOLEAN
        /\ (client /\ ws' = "none" /\ kisState' = "disconnected")
             \/ (~client /\ ws' = ws /\ kisState' = kisState)
        /\ UNCHANGED <<settings, active, token, kisTask, refreshTask, mockTask, watchdog, failovers>>
    BY ONLY <1>23, Zenon DEF CloseClient
  <2> QED BY <2>1
<1>24. CASE UNCHANGED supVars
  BY <1>24 DEF supVars
<1>25. QED
  BY <1>1, <1>2, <1>3, <1>4, <1>5, <1>6, <1>7, <1>8, <1>9, <1>10, <1>11, <1>12, <1>13,
     <1>14, <1>15, <1>16, <1>17, <1>18, <1>19, <1>20, <1>21, <1>22, <1>23, <1>24
     DEF SupNext, Start, SupTasks, Watchdog, StopStep

\* Every step of the lifespan is one of the supervisor, or leaves it alone.
LEMMA LifespanStep == [Next]_vars => [SupNext]_supVars
<1> SUFFICES ASSUME [Next]_vars PROVE SupNext \/ UNCHANGED supVars
  OBVIOUS
<1>1. CASE Start \/ SupTasks \/ StopStep \/ StopSupervisor
  BY <1>1 DEF SupNext, StopSupervisor
<1>2. CASE \/ StartSiblings \/ (\E i \in Index : SiblingRaises(i)) \/ Shutdown
           \/ StopSibling \/ SupervisorStops \/ StopWorker \/ CloseRedis \/ ClosePool
  BY <1>2 DEF StartSiblings, SiblingRaises, Shutdown, StopSibling, SupervisorStops,
              StopWorker, CloseRedis, ClosePool
<1>3. CASE UNCHANGED vars
  BY <1>3 DEF vars
<1>4. QED
  BY <1>1, <1>2, <1>3 DEF Next, ShutdownStep

LEMMA SupInvariance == Spec => []SupInv
<1>1. Init => SupInv
  BY SupInvInit DEF Init
<1>2. SupInv /\ [Next]_vars => SupInv'
  BY SupInvStep, LifespanStep
<1>3. QED
  BY <1>1, <1>2, PTL DEF Spec

\* How far the finally block got, and what it has stopped by then.
Teardown == {"stopWorker", "closeRedis", "closePool", "down"}

LifeInv ==
  /\ TypeOK
  /\ life \in {"starting", "serving", "stopSiblings"} => sup \in BringUp \cup {"up"}
  /\ \A i \in Index : i < nextStop => sibling[i] = "none"
  /\ life \in {"starting", "serving"} => nextStop = 1
  /\ life \in Teardown \cup {"stopSupervisor"} => nextStop \notin Index
  /\ life \in Teardown => sup = "stopped"
  /\ worker = "drained" => life \in {"closeRedis", "closePool", "down"}
  /\ ~redis => life \in {"closePool", "down"}
  /\ ~pool => life = "down"
  /\ life \in {"closeRedis", "closePool", "down"} => worker = "drained"

LEMMA LifeInvInit == Init => LifeInv
<1> SUFFICES ASSUME Init PROVE LifeInv
  OBVIOUS
<1>1. SupTypeOK
  BY SupInvInit DEF Init, SupInv
<1>2. QED
  BY <1>1, SiblingsAssumption DEF Init, SupInit, LifeInv, TypeOK, Index, Teardown, BringUp

\* The supervisor moves, the lifespan does not.
LEMMA SupStepKeepsLife ==
  ASSUME LifeInv, SupInv', UNCHANGED lifeVars,
         \/ Start
         \/ SupTasks
         \/ StopStep
         \/ UNCHANGED supVars
  PROVE  LifeInv'
<1>1. SupTypeOK'
  BY DEF SupInv
<1>2. life \in {"starting", "serving", "stopSiblings"} => sup' \in BringUp \cup {"up"}
  BY DEF LifeInv, BringUp, Start, SupTasks, StopStep, StartWithoutCreds,
         StartAuthenticating, Authenticated, BringUpFails, FallBack, Connected, KisProceeds,
         KisStreamEnds, KisRaises, SocketDrops, MockRaises, TokenAges, RefreshBegins,
         RefreshSucceeds, RefreshFails, Watchdog, WatchdogPolls, WatchdogStopsKis,
         WatchdogStartsMock, StopMock, StopNothing, StopRefresh, StopKis, CloseClient,
         WatchdogAwaited, supVars
<1>3. life \in Teardown => sup' = "stopped"
  BY DEF LifeInv, Teardown, Start, SupTasks, StopStep, StartWithoutCreds,
         StartAuthenticating, Authenticated, BringUpFails, FallBack, Connected, KisProceeds,
         KisStreamEnds, KisRaises, SocketDrops, MockRaises, TokenAges, RefreshBegins,
         RefreshSucceeds, RefreshFails, Watchdog, WatchdogPolls, WatchdogStopsKis,
         WatchdogStartsMock, StopMock, StopNothing, StopRefresh, StopKis, CloseClient,
         WatchdogAwaited, supVars
<1>4. QED
  BY <1>1, <1>2, <1>3 DEF LifeInv, TypeOK, lifeVars, Index

LEMMA LifeInvStep == LifeInv /\ SupInv' /\ [Next]_vars => LifeInv'
<1> SUFFICES ASSUME LifeInv, SupInv', [Next]_vars PROVE LifeInv'
  OBVIOUS
<1>0. SupTypeOK'
  BY DEF SupInv
<1>1. CASE UNCHANGED lifeVars /\ (Start \/ SupTasks \/ StopStep)
  BY <1>1, SupStepKeepsLife
<1>2. CASE UNCHANGED vars
  BY <1>2, SupStepKeepsLife DEF vars
<1> USE SiblingsAssumption DEF LifeInv, TypeOK, Index, Teardown, BringUp
<1>3. CASE StartSiblings
  BY <1>0, <1>3 DEF StartSiblings, supVars
<1>4. ASSUME NEW i \in Index, SiblingRaises(i) PROVE LifeInv'
  BY <1>0, <1>4 DEF SiblingRaises, supVars
<1>5. CASE Shutdown
  BY <1>0, <1>5 DEF Shutdown, supVars
<1>6. CASE StopSibling
  BY <1>0, <1>6 DEF StopSibling, supVars
<1>7. CASE StopSupervisor
  BY <1>0, <1>7 DEF StopSupervisor, Stop
<1>8. CASE SupervisorStops
  BY <1>0, <1>8 DEF SupervisorStops, supVars
<1>9. CASE StopWorker
  BY <1>0, <1>9 DEF StopWorker, supVars
<1>10. CASE CloseRedis
  BY <1>0, <1>10 DEF CloseRedis, supVars
<1>11. CASE ClosePool
  BY <1>0, <1>11 DEF ClosePool, supVars
<1>12. QED
  BY <1>1, <1>2, <1>3, <1>4, <1>5, <1>6, <1>7, <1>8, <1>9, <1>10, <1>11
     DEF Next, ShutdownStep

LEMMA LifeInvariance == Spec => []LifeInv
  BY LifeInvInit, LifeInvStep, SupInvariance, PTL DEF Spec

-----------------------------------------------------------------------------
(* Theorems.                                                               *)

\* Every variable of supervisor and lifespan keeps its type; in particular the
\* watchdog fails over at most once.
THEOREM TypeCorrect == Spec => []TypeOK
<1>1. LifeInv => TypeOK
  BY DEF LifeInv
<1>2. QED
  BY <1>1, LifeInvariance, PTL

\* The KIS publisher and the mock are never both live (the failover of
\* _failover_to_mock begins only with a dead task).
THEOREM WritersExclude == Spec => []OneWriter
<1>1. SupInv => OneWriter
  BY DEF SupInv, SupTypeOK, Ownership, OneWriter
<1>2. QED
  BY <1>1, SupInvariance, PTL

\* A stop() that returns leaves no task, socket or client behind, wherever in a
\* failover it cancelled the watchdog.
THEOREM StopIsClean == Spec => []CleanStop
<1>1. SupInv => CleanStop
  BY DEF SupInv, SupTypeOK, Ownership, Stopping, CleanStop
<1>2. QED
  BY <1>1, SupInvariance, PTL

\* The refresh loop is over before the client it uses is torn down.
THEOREM RefreshStopsFirst == Spec => []RefreshBeforeTeardown
<1>1. SupInv => RefreshBeforeTeardown
  BY DEF SupInv, SupTypeOK, Ownership, Failover, Stopping, RefreshBeforeTeardown
<1>2. QED
  BY <1>1, SupInvariance, PTL

\* However many siblings there are, the worker's last flush comes after every
\* publisher's end.
THEOREM DrainIsQuiet == Spec => []QuietBeforeDrain
<1>1. LifeInv /\ SupInv => QuietBeforeDrain
  <2> SUFFICES ASSUME LifeInv, SupInv, worker = "drained"
               PROVE  /\ \A i \in Index : sibling[i] # "running"
                      /\ kisTask \notin KisLive
                      /\ mockTask # "running"
    BY DEF QuietBeforeDrain
  <2>1. sup = "stopped" /\ nextStop \notin Index
    BY DEF LifeInv, Teardown
  <2>2. kisTask \notin KisLive /\ mockTask # "running"
    BY <2>1 DEF SupInv, SupTypeOK, Ownership, Stopping
  <2>3. ASSUME NEW i \in Index PROVE sibling[i] # "running"
    <3>1. i < nextStop
      BY <2>1, SiblingsAssumption DEF LifeInv, TypeOK, Index
    <3>2. QED
      BY <3>1 DEF LifeInv
  <2>4. QED
    BY <2>2, <2>3
<1>2. QED
  BY <1>1, LifeInvariance, SupInvariance, PTL

\* Redis and the pool are closed after their users are done.
THEOREM ResourcesLast == Spec => []ResourcesOutliveUsers
<1>1. LifeInv /\ SupInv => ResourcesOutliveUsers
  BY DEF LifeInv, SupInv, SupTypeOK, Stopping, Teardown, ResourcesOutliveUsers
<1>2. QED
  BY <1>1, LifeInvariance, SupInvariance, PTL

-----------------------------------------------------------------------------
(* What has to have happened where the docstrings' promises fail.          *)

Watching == {"sleeping", "stoppingRefresh", "closingWs"}

\* While the supervisor is up its active publisher is watched, or is the mock,
\* whose task nobody watches; there is none in production only.
Attended ==
  sup = "up" =>
    /\ active = "kis" => watchdog \in Watching
    /\ active = "mock" => mockTask \in {"running", "raised"}
    /\ active = "none" => ~development

LEMMA AttendedStep == SupInv /\ Attended /\ [SupNext]_supVars => Attended'
<1> SUFFICES ASSUME SupInv, Attended, [SupNext]_supVars PROVE Attended'
  OBVIOUS
<1>0. active \in {"none", "kis", "mock"}
  BY DEF SupInv, SupTypeOK
<1> USE DEF Attended, Watching, settings, kisClient
<1>1. CASE StartWithoutCreds \/ BringUpFails
  <2>1. /\ active' = IF development THEN "mock" ELSE "none"
        /\ mockTask' = IF development THEN "running" ELSE "none"
        /\ development' = development
    BY <1>1 DEF StartWithoutCreds, BringUpFails, FallBack
  <2>2. QED
    BY <2>1
<1>2. CASE StartAuthenticating \/ Authenticated
  BY <1>2 DEF StartAuthenticating, Authenticated
<1>3. CASE Connected
  BY <1>3 DEF Connected
<1>4. CASE KisProceeds \/ KisStreamEnds \/ KisRaises \/ SocketDrops \/ TokenAges \/ RefreshBegins
           \/ RefreshSucceeds \/ RefreshFails
  <2>1. UNCHANGED <<sup, active, watchdog, mockTask, development>>
    BY <1>4 DEF KisProceeds, KisStreamEnds, KisRaises, SocketDrops, TokenAges,
                RefreshBegins, RefreshSucceeds, RefreshFails
  <2>2. QED
    BY <2>1
<1>5. CASE MockRaises
  BY <1>5 DEF MockRaises
<1>6. CASE WatchdogPolls \/ WatchdogStopsKis
  BY <1>6 DEF WatchdogPolls, WatchdogStopsKis
<1>7. CASE WatchdogStartsMock
  BY <1>7 DEF WatchdogStartsMock
<1>8. CASE Stop \/ StopStep
  BY <1>8 DEF Stop, StopStep, StopMock, StopNothing, StopRefresh, StopKis, CloseClient,
              WatchdogAwaited
<1>9. CASE UNCHANGED supVars
  BY <1>9 DEF supVars
<1>10. QED
  BY <1>1, <1>2, <1>3, <1>4, <1>5, <1>6, <1>7, <1>8, <1>9
     DEF SupNext, Start, SupTasks, Watchdog

\* In development the service is silent only while a failover is under way or
\* after the mock's own task died: no other run of start, watchdog, refresh loop
\* and socket leads to NeverSilent's violation.
SilentOnlyIfMockDied ==
  (development /\ sup = "up" /\ kisTask \notin KisLive /\ mockTask # "running")
    => watchdog \in Watching \/ mockTask = "raised"

\* Only the death of the unwatched mock task silences a development service.
THEOREM SilenceIsTheMocks == Spec => []SilentOnlyIfMockDied
<1>1. Init => Attended
  BY DEF Init, SupInit, Attended
<1>2. SupInv /\ Attended /\ [Next]_vars => Attended'
  BY AttendedStep, LifespanStep
<1>3. SupInv /\ Attended => SilentOnlyIfMockDied
  BY DEF SupInv, SupTypeOK, Attended, SilentOnlyIfMockDied
<1>4. QED
  BY <1>1, <1>2, <1>3, SupInvariance, PTL DEF Spec

\* A publisher's task ended with an exception, which its stop() re-raises.
TaskRaised ==
  \/ kisTask = "raised"
  \/ mockTask = "raised"
  \/ \E i \in Index : sibling[i] = "raised"

RaiseInv ==
  /\ sup = "raised" => kisTask = "raised" \/ mockTask = "raised"
  /\ life = "aborted" => TaskRaised

\* An exception stays in its task, and stop() raises no other.
LEMMA RaisedStays ==
  ASSUME SupInv, [SupNext]_supVars
  PROVE  /\ kisTask = "raised" => kisTask' = "raised"
         /\ mockTask = "raised" => mockTask' = "raised"
         /\ sup' = "raised" => sup = "raised" \/ kisTask' = "raised" \/ mockTask' = "raised"
<1>0. /\ sup \in BringUp => kisTask = "none" /\ mockTask = "none"
      /\ active = "kis" => mockTask = "none"
      /\ active # "kis" => watchdog \in {"none", "done"}
  BY DEF SupInv, NothingYet, Ownership
<1> USE DEF settings, kisClient
<1>1. CASE Start
  BY <1>0, <1>1 DEF Start, StartWithoutCreds, StartAuthenticating, Authenticated, BringUpFails,
                    FallBack, Connected, BringUp
<1>2. CASE KisProceeds \/ KisStreamEnds \/ KisRaises \/ SocketDrops \/ MockRaises
  BY <1>2 DEF KisProceeds, KisStreamEnds, KisRaises, SocketDrops, MockRaises, KisLive
<1>3. CASE TokenAges \/ RefreshBegins \/ RefreshSucceeds \/ RefreshFails
  BY <1>3 DEF TokenAges, RefreshBegins, RefreshSucceeds, RefreshFails
<1>4. CASE WatchdogPolls \/ WatchdogStopsKis
  BY <1>4 DEF WatchdogPolls, WatchdogStopsKis
<1>5. CASE WatchdogStartsMock
  <2>1. watchdog = "closingWs" /\ sup' = sup /\ kisTask' = kisTask
    BY <1>5 DEF WatchdogStartsMock
  <2>2. mockTask = "none"
    BY <1>0, <2>1
  <2>3. QED
    BY <2>1, <2>2
<1>6. CASE Stop \/ StopMock \/ StopNothing \/ StopRefresh \/ StopKis
  BY <1>6 DEF Stop, StopMock, StopNothing, StopRefresh, StopKis
<1>7. CASE CloseClient \/ UNCHANGED supVars
  BY <1>7 DEF CloseClient, supVars
<1>8. QED
  BY <1>1, <1>2, <1>3, <1>4, <1>5, <1>6, <1>7 DEF SupNext, SupTasks, Watchdog, StopStep

LEMMA RaiseInvStep == SupInv /\ LifeInv /\ RaiseInv /\ [Next]_vars => RaiseInv'
<1> SUFFICES ASSUME SupInv, LifeInv, RaiseInv, [Next]_vars PROVE RaiseInv'
  OBVIOUS
<1>1. /\ kisTask = "raised" => kisTask' = "raised"
      /\ mockTask = "raised" => mockTask' = "raised"
      /\ sup' = "raised" => kisTask' = "raised" \/ mockTask' = "raised"
  BY RaisedStays, LifespanStep DEF RaiseInv
<1>2. sibling \in [Index -> {"none", "running", "raised"}]
  BY DEF LifeInv, TypeOK
<1>3. ASSUME life' = life, life = "aborted" => sibling' = sibling PROVE RaiseInv'
  BY <1>1, <1>3 DEF RaiseInv, TaskRaised, Index
<1>4. CASE UNCHANGED lifeVars
  BY <1>3, <1>4 DEF lifeVars
<1>5. ASSUME NEW i \in Index, SiblingRaises(i) PROVE RaiseInv'
  <2>1. life' = life /\ sibling' = [sibling EXCEPT ![i] = "raised"]
    BY <1>5 DEF SiblingRaises
  <2>2. \E j \in Index : sibling'[j] = "raised"
    BY <1>2, <2>1
  <2>3. QED
    BY <1>1, <2>1, <2>2 DEF RaiseInv, TaskRaised, Index
<1>6. CASE StopSibling
  <2>1. /\ nextStop \in Index
        /\ life' = "aborted" => sibling' = sibling /\ sibling[nextStop] = "raised"
    BY <1>6 DEF StopSibling
  <2>2. QED
    BY <1>1, <2>1 DEF RaiseInv, TaskRaised, Index
<1>7. CASE SupervisorStops
  <2>1. (life' = "aborted" => sup = "raised") /\ UNCHANGED supVars
    BY <1>7 DEF SupervisorStops
  <2>2. UNCHANGED <<sup, kisTask, mockTask>>
    BY <2>1 DEF supVars
  <2>3. QED
    BY <1>1, <2>1, <2>2 DEF RaiseInv, TaskRaised
<1>8. CASE StartSiblings \/ Shutdown \/ StopSupervisor \/ StopWorker \/ CloseRedis \/ ClosePool
  <2>1. life' # "aborted"
    BY <1>8 DEF StartSiblings, Shutdown, StopSupervisor, StopWorker, CloseRedis, ClosePool
  <2>2. QED
    BY <1>1, <2>1 DEF RaiseInv
<1>9. CASE UNCHANGED vars
  BY <1>4, <1>9 DEF vars
<1>10. QED
  BY <1>4, <1>5, <1>6, <1>7, <1>8, <1>9 DEF Next, ShutdownStep

\* The finally block leaves the worker's buffer undrained, against main.py and
\* persistence_worker.py (see DrainedAtExit), only when a publisher's task had
\* died of an exception; every other shutdown drains it before it is down.
UndrainedOnlyIfRaised ==
  (life \in {"down", "aborted"} /\ worker # "drained") => life = "aborted" /\ TaskRaised

\* Only an exception re-raised by a publisher's stop() skips the drain.
THEOREM DrainSkippedByRaise == Spec => []UndrainedOnlyIfRaised
<1>1. Init => RaiseInv
  BY DEF Init, SupInit, RaiseInv
<1>2. LifeInv /\ RaiseInv => UndrainedOnlyIfRaised
  BY DEF LifeInv, RaiseInv, UndrainedOnlyIfRaised
<1>3. QED
  BY <1>1, <1>2, RaiseInvStep, SupInvariance, LifeInvariance, PTL DEF Spec
=============================================================================
