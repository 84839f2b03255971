------------------------ MODULE PublisherSupervisor ------------------------
(***************************************************************************)
(* src/infrastructure/publisher_supervisor.py with the tasks it owns: the  *)
(* KisPublisher task, its token refresh loop, the KisClient both share,    *)
(* the MockPublisher task, and the watchdog that fails over from the first *)
(* to the second.                                                          *)
(*                                                                         *)
(*   start()  idle --> authenticating --> connecting --> up (kis, watched) *)
(*              |            |                |                            *)
(*              +------------+----------------+--------> up (mock, or none)*)
(*   watchdog sleeping --> stoppingRefresh --> closingWs --> done (mock)   *)
(*   stop()   up --> awaitWatchdog --> stopRefresh --> closeWs --> stopped *)
(*                         |                |                              *)
(*                         +----------------+--> raised                    *)
(*                                                                         *)
(* An exception that ended a publisher's task stays in the task: the stop()*)
(* of that publisher awaits the task and re-raises it.                     *)
(***************************************************************************)
EXTENDS Naturals

VARIABLES
  development,  \* settings.app_env == "development"
  hasCreds,     \* settings has kis_app_key and kis_app_secret
  sup,          \* progress of start() and stop()
  active,       \* _active
  client,       \* _kis_client is not None
  kisState,     \* KisClient._state
  ws,           \* KisClient._ws
  token,        \* KisClient._token_expires_at, seen by the refresh loop
  kisTask,      \* KisPublisher._task
  refreshTask,  \* _TokenRefreshLoop._task
  mockTask,     \* MockPublisher._task
  watchdog,     \* _watchdog
  failovers     \* _failover_count

settings  == <<development, hasCreds>>
kisClient == <<kisState, ws, token>>
supVars   == <<settings, sup, active, client, kisClient, kisTask, refreshTask,
               mockTask, watchdog, failovers>>

KisLive  == {"starting", "subscribingTicks", "subscribingQuotes", "streaming"}
KisDead  == {"ended", "raised"}

SupInit ==
  /\ development \in BOOLEAN
  /\ hasCreds \in BOOLEAN
  /\ sup = "idle"
  /\ active = "none"
  /\ client = FALSE
  /\ kisState = "disconnected" /\ ws = "none" /\ token = "unknown"
  /\ kisTask = "none" /\ refreshTask = "none" /\ mockTask = "none"
  /\ watchdog = "none"
  /\ failovers = 0

-----------------------------------------------------------------------------
(* start().                                                                *)

\* No credentials, or no KIS: mock in development, nothing otherwise.
FallBack ==
  /\ sup' = "up"
  /\ active' = IF development THEN "mock" ELSE "none"
  /\ mockTask' = IF development THEN "running" ELSE "none"
  /\ UNCHANGED <<settings, client, ws, kisTask, refreshTask, watchdog, failovers>>

StartWithoutCreds ==
  /\ sup = "idle"
  /\ ~hasCreds
  /\ FallBack
  /\ UNCHANGED <<kisState, token>>

StartAuthenticating ==
  /\ sup = "idle"
  /\ hasCreds
  /\ sup' = "authenticating"
  /\ kisState' = "authenticating"
  /\ UNCHANGED <<settings, active, client, ws, token, kisTask, refreshTask, mockTask,
                 watchdog, failovers>>

\* A token came with an expiry in the future: connect() goes on.
Authenticated ==
  /\ sup = "authenticating"
  /\ sup' = "connecting"
  /\ kisState' = "connecting"
  /\ token' = "fresh"
  /\ UNCHANGED <<settings, active, client, ws, kisTask, refreshTask, mockTask, watchdog,
                 failovers>>

\* authenticate() or connect() raises a KisError (no token, a token without
\* expiry, no approval key, no socket): the client is closed and dropped.
BringUpFails ==
  /\ sup \in {"authenticating", "connecting"}
  /\ kisState' = "disconnected"
  /\ token' = "unknown"
  /\ FallBack

Connected ==
  /\ sup = "connecting"
  /\ sup' = "up"
  /\ kisState' = "connected" /\ ws' = "open"
  /\ client' = TRUE
  /\ active' = "kis"
  /\ kisTask' = "starting" /\ refreshTask' = "sleeping"
  /\ watchdog' = "sleeping"
  /\ UNCHANGED <<settings, token, mockTask, failovers>>

Start ==
  \/ StartWithoutCreds
  \/ StartAuthenticating
  \/ Authenticated
  \/ BringUpFails
  \/ Connected

-----------------------------------------------------------------------------
(* KisPublisher._run: subscribe twice, then stream.  Each of the three     *)
(* calls requires the state CONNECTED, which a token refresh overwrites.   *)

NextStage == [starting          |-> "subscribingTicks",
              subscribingTicks  |-> "subscribingQuotes",
              subscribingQuotes |-> "streaming"]

KisProceeds ==
  /\ kisTask \in KisLive \ {"streaming"}
  /\ kisTask' = IF kisState = "connected" THEN NextStage[kisTask] ELSE "raised"
  /\ UNCHANGED <<settings, sup, active, client, kisClient, refreshTask, mockTask,
                 watchdog, failovers>>

\* stream_ticks() returns when the socket is closed.
KisStreamEnds ==
  /\ kisTask = "streaming"
  /\ ws = "dropped"
  /\ kisTask' = "ended"
  /\ UNCHANGED <<settings, sup, active, client, kisClient, refreshTask, mockTask,
                 watchdog, failovers>>

\* publish() to Redis fails, a send fails on the dropped socket, ...
KisRaises ==
  /\ kisTask \in KisLive \ {"starting"}
  /\ kisTask' = "raised"
  /\ UNCHANGED <<settings, sup, active, client, kisClient, refreshTask, mockTask,
                 watchdog, failovers>>

SocketDrops ==
  /\ ws = "open"
  /\ ws' = "dropped"
  /\ UNCHANGED <<settings, sup, active, client, kisState, token, kisTask, refreshTask,
                 mockTask, watchdog, failovers>>

\* MockPublisher._run re-raises what publish() raises.
MockRaises ==
  /\ mockTask = "running"
  /\ mockTask' = "raised"
  /\ UNCHANGED <<settings, sup, active, client, kisClient, kisTask, refreshTask, watchdog,
                 failovers>>

-----------------------------------------------------------------------------
(* The token refresh loop: authenticate(force=True) near the expiry.       *)

TokenAges ==
  /\ token = "fresh"
  /\ token' = "near"
  /\ UNCHANGED <<settings, sup, active, client, kisState, ws, kisTask, refreshTask,
                 mockTask, watchdog, failovers>>

RefreshBegins ==
  /\ refreshTask = "sleeping"
  /\ token # "fresh"
  /\ refreshTask' = "requesting"
  /\ kisState' = "authenticating"
  /\ UNCHANGED <<settings, sup, active, client, ws, token, kisTask, mockTask, watchdog,
                 failovers>>

\* Success leaves the state AUTHENTICATED although the socket is open, failure
\* leaves it FAILED; the loop retries either way.
RefreshSucceeds ==
  /\ refreshTask = "requesting"
  /\ refreshTask' = "sleeping"
  /\ kisState' = "authenticated"
  /\ token' \in {"fresh", "unknown"}
  /\ UNCHANGED <<settings, sup, active, client, ws, kisTask, mockTask, watchdog, failovers>>

RefreshFails ==
  /\ refreshTask = "requesting"
  /\ refreshTask' = "sleeping"
  /\ kisState' = "failed"
  /\ UNCHANGED <<settings, sup, active, client, ws, token, kisTask, mockTask, watchdog,
                 failovers>>

-----------------------------------------------------------------------------
(* The watchdog.                                                           *)

\* Faulty variant: a dropped socket is taken for a dead task.
WatchdogPollsSocket ==
  /\ watchdog = "sleeping"
  /\ active = "kis"
  /\ ws = "dropped"
  /\ failovers' = failovers + 1
  /\ refreshTask' = "none"
  /\ watchdog' = "closingWs"
  /\ UNCHANGED <<settings, sup, active, client, kisClient, kisTask, mockTask>>

\* Faulty variant: a task that raised does not count as dead.
WatchdogPollsEndedOnly ==
  /\ watchdog = "sleeping"
  /\ active = "kis"
  /\ kisTask = "ended"
  /\ failovers' = failovers + 1
  /\ refreshTask' = "cancelled"
  /\ watchdog' = "stoppingRefresh"
  /\ UNCHANGED <<settings, sup, active, client, kisClient, kisTask, mockTask>>

\* Faulty variant: the refresh loop of the dead publisher is left running.
WatchdogPollsKeepRefresh ==
  /\ watchdog = "sleeping"
  /\ active = "kis"
  /\ kisTask \in KisDead
  /\ failovers' = failovers + 1
  /\ watchdog' = "closingWs"
  /\ UNCHANGED <<settings, sup, active, client, kisClient, kisTask, refreshTask, mockTask>>

\* Not is_running: KisPublisher.stop() begins with the refresh loop.
WatchdogPolls ==
  /\ watchdog = "sleeping"
  /\ active = "kis"
  /\ kisTask \in KisDead
  /\ failovers' = failovers + 1
  /\ refreshTask' = "cancelled"
  /\ watchdog' = "stoppingRefresh"
  /\ UNCHANGED <<settings, sup, active, client, kisClient, kisTask, mockTask>>

\* The refresh loop ended; awaiting the dead task re-raises its exception,
\* which is caught, and KisPublisher keeps the task.
WatchdogStopsKis ==
  /\ watchdog = "stoppingRefresh"
  /\ refreshTask' = "none"
  /\ kisTask' = IF kisTask = "raised" THEN "raised" ELSE "none"
  /\ watchdog' = "closingWs"
  /\ UNCHANGED <<settings, sup, active, client, kisClient, mockTask, failovers>>

\* Faulty variant: the new publisher is not kept in _active.
WatchdogStartsMockUnowned ==
  /\ watchdog = "closingWs"
  /\ kisState' = "disconnected" /\ ws' = "none"
  /\ client' = FALSE
  /\ mockTask' = "running"
  /\ watchdog' = "done"
  /\ UNCHANGED <<settings, sup, active, token, kisTask, refreshTask, failovers>>

\* Faulty variant: ... and the watchdog watches on.
WatchdogStartsMockAgain ==
  /\ watchdog = "closingWs"
  /\ kisState' = "disconnected" /\ ws' = "none"
  /\ client' = FALSE
  /\ mockTask' = "running"
  /\ watchdog' = "sleeping"
  /\ UNCHANGED <<settings, sup, active, token, kisTask, refreshTask, failovers>>

\* The socket is closed; the mock starts, in production too; the watchdog ends.
WatchdogStartsMock ==
  /\ watchdog = "closingWs"
  /\ kisState' = "disconnected" /\ ws' = "none"
  /\ client' = FALSE
  /\ active' = "mock"
  /\ mockTask' = "running"
  /\ watchdog' = "done"
  /\ UNCHANGED <<settings, sup, token, kisTask, refreshTask, failovers>>

Watchdog == WatchdogPolls \/ WatchdogStopsKis \/ WatchdogStartsMock

-----------------------------------------------------------------------------
(* stop().                                                                 *)

\* The watchdog is cancelled.  Asleep or closing the socket it ends at once.
\* While it awaits the cancelled refresh loop, the CancelledError is taken for
\* the loop's own and swallowed: the failover runs to its end.
Stop ==
  /\ sup = "up"
  /\ sup' = "awaitWatchdog"
  /\ watchdog' = IF watchdog \in {"sleeping", "closingWs"} THEN "done" ELSE watchdog
  /\ UNCHANGED <<settings, active, client, kisClient, kisTask, refreshTask, mockTask,
                 failovers>>

WatchdogAwaited == sup = "awaitWatchdog" /\ watchdog \in {"none", "done"}

\* _active.stop() of the mock.
StopMock ==
  /\ WatchdogAwaited
  /\ active = "mock"
  /\ IF mockTask = "raised"
     THEN sup' = "raised" /\ UNCHANGED <<mockTask, active>>
     ELSE sup' = "closeWs" /\ mockTask' = "none" /\ active' = "none"
  /\ UNCHANGED <<settings, client, kisClient, kisTask, refreshTask, watchdog, failovers>>

StopNothing ==
  /\ WatchdogAwaited
  /\ active = "none"
  /\ sup' = "closeWs"
  /\ UNCHANGED <<settings, active, client, kisClient, kisTask, refreshTask, mockTask,
                 watchdog, failovers>>

\* _active.stop() of KisPublisher: first the refresh loop, unless an
\* interrupted failover ended it already ...
StopRefresh ==
  /\ WatchdogAwaited
  /\ active = "kis"
  /\ sup' = "stopRefresh"
  /\ refreshTask' = IF refreshTask = "none" THEN "none" ELSE "cancelled"
  /\ UNCHANGED <<settings, active, client, kisClient, kisTask, mockTask, watchdog,
                 failovers>>

\* ... then the task, whose exception, if it raised one, leaves stop().
StopKis ==
  /\ sup = "stopRefresh"
  /\ refreshTask' = "none"
  /\ IF kisTask = "raised"
     THEN sup' = "raised" /\ UNCHANGED <<kisTask, active>>
     ELSE sup' = "closeWs" /\ kisTask' = "none" /\ active' = "none"
  /\ UNCHANGED <<settings, client, kisClient, mockTask, watchdog, failovers>>

CloseClient ==
  /\ sup = "closeWs"
  /\ sup' = "stopped"
  /\ client' = FALSE
  /\ ws' = IF client THEN "none" ELSE ws
  /\ kisState' = IF client THEN "disconnected" ELSE kisState
  /\ UNCHANGED <<settings, active, token, kisTask, refreshTask, mockTask, watchdog,
                 failovers>>

StopStep == StopMock \/ StopNothing \/ StopRefresh \/ StopKis \/ CloseClient

-----------------------------------------------------------------------------
SupTasks ==
  \/ KisProceeds
  \/ KisStreamEnds
  \/ KisRaises
  \/ SocketDrops
  \/ MockRaises
  \/ TokenAges
  \/ RefreshBegins
  \/ RefreshSucceeds
  \/ RefreshFails
  \/ Watchdog

SupNext == Start \/ SupTasks \/ Stop \/ StopStep

\* The watchdog's sleep ends, and what stop() and the failover await ends:
\* cancelled tasks and a closing handshake, which has a time-out of its own.
SupFairness == WF_supVars(Watchdog) /\ WF_supVars(StopStep)

SupSpec     == SupInit /\ [][SupNext]_supVars
FairSupSpec == SupSpec /\ SupFairness

-----------------------------------------------------------------------------
(* Properties.                                                             *)

SupTypeOK ==
  /\ development \in BOOLEAN /\ hasCreds \in BOOLEAN /\ client \in BOOLEAN
  /\ sup \in {"idle", "authenticating", "connecting", "up", "awaitWatchdog",
              "stopRefresh", "closeWs", "stopped", "raised"}
  /\ active \in {"none", "kis", "mock"}
  /\ kisState \in {"disconnected", "authenticating", "authenticated", "connecting",
                   "connected", "failed"}
  /\ ws \in {"none", "open", "dropped"}
  /\ token \in {"unknown", "fresh", "near"}
  /\ kisTask \in {"none"} \cup KisLive \cup KisDead
  /\ refreshTask \in {"none", "sleeping", "requesting", "cancelled"}
  /\ mockTask \in {"none", "running", "raised"}
  /\ watchdog \in {"none", "sleeping", "stoppingRefresh", "closingWs", "done"}
  /\ failovers \in {0, 1}

\* Real and synthetic ticks are never published by two live tasks at a time.
OneWriter == ~(kisTask \in KisLive /\ mockTask = "running")

\* When stop() returned -- also when it interrupted a failover -- no task it
\* owned is left, the socket is closed and the client given up.
CleanStop ==
  sup = "stopped" =>
    /\ kisTask \notin KisLive /\ mockTask = "none" /\ refreshTask = "none"
    /\ watchdog \in {"none", "done"}
    /\ active = "none" /\ ~client /\ ws = "none"

\* No token request is in flight over a client that is being torn down
\* (KisPublisher.stop: "stop the refresh loop FIRST").
RefreshBeforeTeardown ==
  (sup = "closeWs" \/ watchdog = "closingWs" \/ ~client) =>
    refreshTask \notin {"sleeping", "requesting"}

\* A dead KIS publisher is replaced, unless stop() comes first.
FailsOver ==
  (sup = "up" /\ active = "kis" /\ kisTask \in KisDead)
    ~> (mockTask = "running" \/ sup # "up")

\* publisher_supervisor.py: "as long as it is running, *something* is
\* publishing to nexus.market.tick (in dev mode) so the canvas never goes
\* silent".
NeverSilent ==
  (development /\ sup = "up")
    ~> (kisTask \in KisLive \/ mockTask = "running" \/ sup # "up")
=============================================================================
