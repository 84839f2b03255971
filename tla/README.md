# Verification project of nexus-backend

TLA+ models, TLC runs and TLAPS proofs for the backend in `src/`: a FastAPI
service (one asyncio event loop) that publishes market ticks to Redis, lets a
trading pipeline judge every tick, persists ticks and decisions to TimescaleDB
and serves both to a canvas.

## 1. Inventory

Everything runs in one event loop: a step is atomic up to its next `await`,
tasks interleave at awaits, and `Task.cancel()` raises `CancelledError` at the
await where the task is suspended. That is the granularity of every model here.

| Component | State | Operations | Interacts with |
|---|---|---|---|
| Trading pipeline (`domain/trading/pipeline.py`, `executor.py`, `portfolio.py`, `guardrails.py`) | counters, positions, last trade per symbol | `on_tick`, `_process`, `execute`, `record_fill` | called inline by every publisher task; calls agents, broker, audit channel |
| Coordinator, context, sizers, agents | per-symbol bounded price history, registered agents | `evaluate`, `record`, `size_for` | pipeline; language model and news over HTTP |
| Persistence worker (`persistence_worker.py`, `tick_repository.py`, `execution_repository.py`) | buffer, four counters, two tasks | `start`, `stop`, two consumer loops, `_flush_ticks` | Redis subscriptions in, database out |
| Publisher supervisor (`publisher_supervisor.py`) | active publisher, KIS client, watchdog task | `start`, `stop`, `_watch`, failover | owns KIS or mock publisher |
| KIS publisher and token refresh (`kis_publisher.py`) | two tasks | `start`, `stop`, `_run`, `_loop` | share one `KisClient` |
| KIS client (`kis_client.py`) | connection state, socket, token and its expiry | `authenticate`, `connect`, `subscribe`, `stream_ticks`, `close` | broker's REST and WebSocket |
| Mock publisher, Yahoo publishers (`us_publisher.py`, `universe_publisher.py`) | one task each; ticker list, cursor, last volumes | `start`, `stop`, `_run`, `_poll_one_batch`, `_fetch_one_tick` | Yahoo, database (the list), Redis, pipeline |
| Lifespan (`main.py`) | order of start and stop | startup, `finally` block | all of the above |
| News cache, token gate with its JWKS cache (`news_provider.py`, `core/security.py`) | entries with age, locks | lookup with refresh | HTTP |
| Market stream WebSocket (`api/websockets/stream.py`) | two tasks and a subscription per connection | connect, forward, detect, clean up | Redis, browsers |
| KIS order and balance clients (`kis_order_client.py`, `kis_balance_client.py`) | none; the token is the KIS client's | `place_order`, `fetch_balance` | KIS REST, `POST /v1/order`, `GET /v1/balance` |
| REST API (`api/v1/router.py`, `dto.py`) and its repositories | none; tables and alarm list | thirteen read endpoints | database, alarms, token gate |
| Alarms (`domain/alarms`, in-memory repository) | locked list | `list`, `count_active` (`add`, `replace_all` have no caller) | REST |
| Database pool, schema check, migrations, seeding (`database.py`, `db/migrate.py`, `db/seed_securities.py`, `railway.toml`) | schema version, master tables | `migrate`, `seed --apply`, `verify_schema`, `readyz` | containers of overlapping deployments |
| Settings, middleware, error rendering | request id | one problem per exception | REST |
| Universe builders, anomaly predicate, logging | none | offline or pure | - |

What is hard here, and what makes each part correct:

- **pipeline**: the guards judge a snapshot that is several awaits old when the
  fill is recorded, by then another publisher's task may have traded; an order
  may be accepted and its reply lost; the task may be cancelled anywhere; after
  a restart the portfolio is empty and the account is not.
  Correct: the position limit, spacing of trades, agreement with the broker,
  no tick uncounted, no order in shadow mode, every tick's handling ends.
- **worker**: the buffer is cleared before the insert is awaited; Redis drops
  what nobody is subscribed to; an error may come after the commit; `stop()`
  arrives at any await. Correct: every message is at one place, the buffer is
  bounded and does not hold ticks for ever, `stop()` ends and leaves nothing.
- **supervisor**: a failover has two awaits, and `stop()` may cancel it at
  either; the refresh loop changes the connection state under the publisher.
  Correct: never two writers, a dead KIS publisher is replaced, nothing is
  left after `stop()`, no token request over a client being closed.
- **decision**: price windows are shared by the publishers of a symbol and move
  on while an agent waits for the language model; an agent may raise; halves,
  window ends and thresholds. Correct: the breaker's verdict is about the newest
  prices, an order is backed by a vote, its size is what the sizer promises.
- **caches**: callers queue for a lock and act on what they find when they get
  it; the holder may fail or be cancelled. Correct: one refresh serves the
  queue, nothing expired is served, rotation is tolerated, every call returns.
- **feeds**: one task reads frames, publishes and awaits the pipeline; records are
  cut short or bad; lists are shorter than a batch; a day's volume falls back to
  zero. Correct: records reach Redis once and in order, heartbeats are answered,
  every symbol gets its turn, no volume is published twice.
- **orders**: KIS accepts and the reply is lost; the token runs out between check
  and use. Correct: the operator is never told what did not happen, the token
  is renewed in time.
- **connections**: two tasks end in any order, cleanup may fail. Correct: no task
  and no subscription outlives its handler, every dead connection is wound up.
- **deployment**: two migrators and two seeders on one database, each may die
  between two statements; the schema check looks at the highest version only.
  Correct: ready means migrated, and seeded where the start command came first;
  no reader sees part of a payload; a failed run stops no later one.
- **reads**: two queries of one answer with a commit between them; an outage is
  an empty result. Correct: lists show stored rows of what was asked for, pages,
  totals and counters fit together, a failed query is an empty answer.
- **lifespan**: the order of the stops, and what happens when one raises.
  Correct: no publisher lives when the worker drains, resources are closed
  last, the shutdown ends.

## 2. Modules

| Module | Models |
|---|---|
| `TradingLedger` | abstract: guards, clock and fill as one atomic step |
| `TradingPipeline` | the pipeline under asyncio; `LedgerSpec` is the ledger over its variables |
| `TradingPipelineProofs` | theorems about it |
| `PersistenceWorker`, `PersistenceWorkerProofs` | the worker, its two repositories, Redis and the table |
| `PublisherSupervisor` | supervisor, KIS publisher, refresh loop, KIS client, mock, watchdog |
| `Lifespan` | composes `PublisherSupervisor` with the sibling publishers, the worker, Redis and the pool |
| `LifespanProofs` | theorems about both |
| `DecisionCore` | price window, agents, coordinator, volatility breaker, sizers; `PipelineSpec` says it implements `TradingPipeline` |
| `DecisionCoreProofs` | theorems about it |
| `NewsPromise` | abstract: one request at a time per symbol, none while the entry is fresh, headlines never replaced by none |
| `NewsCache` | the caching news provider, its per-symbol locks, cancelled callers; implements `NewsPromise` |
| `JwksCache`, `JwksCacheProofs` | `get_current_user` and the signing keys' cache under concurrent requests and rotation |
| `YahooPublisher`, `YahooPublisherProofs` | ticker list, round robin and volume deltas of the polling publishers |
| `KisFeed` | frames of the KIS WebSocket on their way to Redis and `on_tick` |
| `MarketStream` | the browsers' connections |
| `OrderDesk` | `POST /v1/order`, `GET /v1/balance`, their KIS clients, the token and its refresh loop |
| `Deployment` | overlapping containers: migrator, seeder, server, readiness probe |
| `ReadApi` | the read endpoints and repositories under concurrent writers and outages |
| `Selection` | a list filtered in order and a table's rows in an order, as functions; used by `KisFeed`, `Deployment`, `ReadApi` |
| `Services` | composes the eight components around the trading core over one clock |
| `ReadApiProofs` | theorems about the read endpoints in `Services` |
| `ServicesProofs` | theorems about all of `Services`; EXTENDS `ReadApiProofs`, instantiates `JwksCacheProofs` and `YahooPublisherProofs` |
| `MCTradingPipeline`, `MCPersistenceWorker`, `MCLifespan`, `MCDecisionCore` | values of the constants for TLC |
| `MCServices` | the same for `Services`, and one initial state for the parts that rest |

### TradingPipeline

A driver `d` is a publisher task. `pc[d]` says at which await its `on_tick` is
suspended: `deciding` (coordinator), `ordering` (order not yet judged by the
broker), `replying` (broker accepted, reply under way), `auditing` (publish);
`job[d]` holds the locals of its `_process` frame. `OnTick` is the code up to
the coordinator's await, with the snapshot; `Decide` is guards and executor,
which do not suspend; `RecordFill` is the reply with the portfolio update and
the executed counter. Agents are represented by what they may answer: any side,
any quantity up to `MaxQty`, or `HOLD`. The volatility breaker depends on
prices only and is part of `Noop`; `DecisionCore` says what both do. `broker` and `lost` are the broker's side,
not the program's; `broker` starts with `Opening`, what the account holds when the
process starts, while the portfolio starts empty. Time is a counter of ticks of the clock; `ts` of a fill is
the time at which `execute()` was entered, as in the code.

The executor is modelled against the `OrderClient` protocol. The lifespan at
this commit wires `_NoopOrderClient`, which rejects every order: in that
deployment only `BrokerRejects` happens after `PlaceOrder`.

### PersistenceWorker

`tickPc` and `auditPc` are the awaits of the two loops, `inbox` what the
subscription received and the loop has not read. A tick is the index of its
publication and `KeyOf` gives its primary key. `InsertReturns(ok, committed)`
covers the outcomes of `insert_batch`: the code sees success or failure, the
database committed or not; success implies commit. `due` is the condition on
`last_flush`. `stop()` goes through `cancelTick`, `cancelAudit`, `draining`,
`stopped`. A session crash includes a message whose conversion raises outside
the caught exceptions.

### PublisherSupervisor and Lifespan

`sup` is the progress of `start()` and `stop()`, `watchdog` that of `_watch`
with `_failover_to_mock`. A task is `none`, alive (for KIS: in which of its
three calls), `ended` or `raised`; a raised task keeps its exception and gives
it to whoever awaits it. `kisState` is the client's `_state`, which both
`authenticate(force=True)` and the bring-up write, and which `subscribe` and
`stream_ticks` check. `Stop` shows what cancelling the watchdog does at each of
its awaits; in particular `_TokenRefreshLoop.stop` catches `CancelledError`, so
a failover cancelled there goes on.

`Lifespan` EXTENDS the supervisor: its actions leave the lifespan's variables
unchanged except `Stop`, which the finally block takes. `Siblings` is the
sequence of Yahoo publishers in the order of the finally block. The worker is
two states here (its inside is `PersistenceWorker`).

### DecisionCore

`history[s]` is `TickContext`'s deque, `job[d]` the frame of `_process` with the
breaker's snapshot `prices` and the agents' answers `votes`. `OnTick` records
the tick and takes the snapshot, in the code's order. `gather` starts the agents
as tasks in the order of their registration: the quant agent reads the window
when its task first runs, which may already hold another publisher's tick, and
does not suspend; the macro agent waits for the model and answers with any
action (`MacroVotes`), a hold (no model, a failure, an unparseable answer) or an
exception (`MacroRaises`), which the coordinator drops together with its weight.
When both answered, vote, breaker, sizer and executor run without suspending
(`Noop`, `Shadow`, `PlaceOrder`). The executor holds the placeholder client of
`main.py`, so nothing is filled and the guards that read the portfolio always
allow; cancellation, counters and a failing audit are left to `TradingPipeline`.

Scores, confidences and RSI are exact fractions where the code has floats: a
score that lies exactly on a threshold in the model may fall on either side of it in
the code by the last bit. The standard deviation of the breaker is compared
squared. `RoundHalfEven` is Python's `round()`, exact for the halves the code's
floats represent exactly.

### NewsCache and JwksCache

An `asyncio.Lock` is the queue of its waiters with the holder in front; a caller
between two awaits is `waiting` (in the queue) or at an HTTP call. `Enter` is
the second look after the lock is taken. In `NewsCache` the callers are
publisher tasks (through the macro agent) and `Cancel` may hit them anywhere:
`CancelledError` is no `Exception`, so the entry stays and the lock, or the
place in its queue, is given up. Headlines are abstracted to whether there are
any. What upstream is asked is the set `Asked`, which `NewsPromise` has as a
variable: a request is made (`Ask`), answered (`Store`) or lost with the caller
that made it (`GiveUp`). In `JwksCache` the provider publishes a set of key ids that `Rotate`
replaces; `body` is the answer on its way, so a rotation may overtake it.
`mode` is the configuration (Entra, development without it, neither).
`NoKeyAsked` is every way through `get_current_user` that asks for no key, and
`Status` what becomes of a token once its key is known or not: all checks that
follow (signature, audience, issuer, tenant, subject) are one bit, `good`,
because none of them awaits. `RefreshFails` distinguishes the failures
that are caught (a 401) from a body that is no JSON, which nothing catches (a
500). Handlers are not cancelled in `JwksCache`.

### YahooPublisher

`phase` is the await at which the task is suspended: its sleep, a quote's HTTP
request, the publish, `on_tick`. `Start` reads the list (`Loaded`: the rows
without the excluded tickers, in ticker order), and a failing database is an
empty list. `PollOneBatch` fixes batch and cursor before the first request, as
the code does. The exchange is external: `Trade` and `NewDay` move the day's
volume, and a quote may lack its volume, which the code reads as zero. `turns`
and `unseen` are history: how often each position was asked, and what was traded
since the first quote and has not been published. The loop catches no exception
of Redis, so `PublishRaises` ends the task.

### KisFeed

`stream` is where the publisher's task is. A frame is a heartbeat, ticks, a
quote or something else; a record is good, bad (turned away by the parser) or
has a price that is no number, which raises out of the parser. `count` is what
the frame announces, so a payload may be cut short. `Publish` and `Observe`
alternate for ticks: the next record waits for the pipeline. A heartbeat is
answered by the same task, hence `PingsAnswered`.

### MarketStream

`conn[c]` is a connection's handler with its two tasks. `WaitReturns` is
`asyncio.wait(FIRST_COMPLETED)`, `Reap` cancels and awaits the survivor,
`Unsubscribe` may fail and `ClosePubsub` ends the subscription in any case. With
token validation unwritten the handler rejects every upgrade unless the
development bypass is on; both are choices of `Connect`.

### OrderDesk

A request is posted with the token of that moment, KIS decides (external), and
the reply is parsed, lost or malformed. `KisDecides` refuses an expired token;
that an error status means that no order was placed is assumed of KIS.
"unauthorised" is, in HTTP, a 503 with another detail. The refresh loop sleeps
for `Interval`, asks when less than `Headroom` is left, and an attempt takes at
most one step of the clock (its HTTP timeout). `Failover` stops the loop while
the clients of `app.state` keep the KIS client.

### Deployment

A container runs `migrate`, `seed --apply` and the server (`railway.toml`) or the
server alone (the image's command). `Plan` reads the applied versions once;
`Apply` is one file in one transaction, idempotent against another migrator;
`SeedRow` writes a row of the payload in an open transaction, which locks it for
others (`Locked`), and `SeedCommits` makes all of them visible. Every release has
a payload of its own, `Rows[r]`, and an upsert deletes nothing, so `master` says of
every row whose payload it is from. The server's start is `PoolConnects` and
`ClientConnects`; either ends the container when its service is away. The probe is three
steps, `PingDb`, `PingRedis` and the schema check in `Answer`. Each container may
die at any statement, database and Redis go and come back, and the platform
restarts what failed. Migrations are version numbers; their DDL is not modelled.

### ReadApi

`Handlers` is the table of endpoints: which refusals they know and which
repository calls they await, in order; `Run` is what each call returns from the
tables. Between two calls of one answer the writers may commit: a seeder, the
worker's ticks, the audit consumer. `QueryFails` is the repositories' fault
tolerance (an empty result), `SnapshotFails` the two methods without it. `moved`
is history: the securities that a commit took from one sector to another. `Crash`
is the catch-all handler, which answers outside the request-id middleware.

### Services and MCServices

The eight components share no state but the clock of the two caches, so each
behaviour moves one of them (`part`) and the state spaces add instead of
multiplying. `Services` extends `NewsCache`; the other seven enter as instances,
and its fairness is the conjunction of theirs. Its invariants and properties are
theirs under the same names, and `ServicesProofs` and `ReadApiProofs` state the
theorems of this composition. `ServicesAssumption` collects what the constructors
and settings guarantee of the constants. `MCServices` restricts only the initial
states: a part that rests starts in one of its initial states instead of in each.

## 3. Runs

| Run | Shows | Bounds |
|---|---|---|
| `PipelineShared` | two publishers of one symbol: `PositionBound`, `TickAccounting`, `ShadowNeverTrades` | 2 drivers, 1 symbol, limit 2, quantity ≤ 2, cool-down 1, 4 ticks, clock ≤ 2 |
| `PipelineSole` | one publisher per symbol: the ledger is implemented (`LedgerSpec`), `BrokerAgrees`, `TickCompletes` | 2 drivers, 2 symbols, of which the account holds two shares and none at the start, 3 ticks, clock ≤ 2 |
| `Worker` | conservation on both channels, buffer bound, `stop()` | threshold 2, cap 3, 4 messages, 2 envelopes, any number of crashes; consecutive ticks share a key |
| `Lifespan` | supervisor and shutdown | 2 siblings, otherwise unbounded |
| `Decision` | tick to order of two interleaving publishers: `BreakerIsCurrent`, `OrderHasBacking`, `OrderOnTheLine`, `PipelineSpec` | 2 drivers, one symbol shared and one with one publisher, prices 94, 99, 100, windows of 4, RSI period 2, 4 ticks, model's confidence 60 % |
| `Services`, news | `PromiseSpec`, `ServicesEnd` | 3 callers, 2 symbols, 3 calls, TTL 2, clock ≤ 2 |
| `Services`, token gate | `RotationTolerated`, `NoStaleKey`, `ServicesEnd` | 2 requests, 2 keys, 1 rotation, TTL 2, clock ≤ 2 |
| `Services`, Yahoo | `PollsBalanced`, `VolumeNeverInflated` | 4 tickers of which 1 excluded, every subset as the table, batch 2, 2 polls per symbol, 2 moves of the exchange |
| `Services`, KIS feed | `RecordsInOrder`, `ServicesEnd` | 2 frames of up to 2 records |
| `Services`, connections | `NoOrphans`, `ServicesEnd` | 2 connections, 2 messages |
| `Services`, orders | `AnswersAreTrue`, `TokenKept` | 1 request, life 3, headroom 2, interval 1, clock ≤ 5 |
| `Services`, deployment | `ReadyMeansDeployed`, `ServicesEnd` | containers of releases 2 and 3 over migrations 1..3, payloads of 1 to 3 of 4 rows that share some, a database new, migrated or deployed, 2 faults |
| `Services`, reads | `ReadsAreHonest` | 1 request, 2 companies in one sector, in two or absent, 3 alarms, limit 1, 1 commit |
| `OrderSwitch` | finding: an operator's order passes the safety switch | 1 request, clock ≤ 3 |
| `PipelineCoolDown` | finding: two trades inside the cool-down | as `PipelineShared`, 3 ticks |
| `WorkerShutdown` | finding: a batch lost in a clean shutdown | as `Worker` |
| `WorkerSameSecond` | finding: refused rows counted as inserted | as `Worker` |
| `SupervisorSilent` | finding: up and silent for ever | none |
| `LifespanDrain` | finding: a stop that raises prevents the drain | as `Lifespan` |

Why the bounds are enough. Two drivers are what the snapshot hazard needs, and
the proofs cover any number. Four ticks of quantity up to two pass the limit of
two by the largest amount `PositionBound` allows. In `PipelineSole` three ticks
let one driver trade twice while the other interleaves, and with two forgotten
shares a sale exceeds what the portfolio knows of, so the clamp is taken. In `Worker` four
messages fill the threshold twice, so a flush is under way while the buffer
fills again, and the sessions of either loop crash as often as they like. The
supervisor has no counter: its state space is finite as it is. In `Decision`
three prices make a drop below and one above the breaker's 5 % and an RSI in
each of its three zones; four ticks fill the window (at four prices the breaker
wakes up, one past the RSI's first vote) and let a tick of the other publisher
fall between snapshot and order. `Services` checks
`ServicesTypeOK` of all eight parts. For the news three callers are a holder, a
waiter behind it and one that comes late; for the token gate two requests are a
holder and a waiter, the cached set may be stale or rotated away for either, and
`JwksCacheProofs` covers any number. With a TTL of two the clock lets an entry
expire while somebody waits, and one rotation makes a cached key set miss a key
that is published. Lists of nought to three tickers and a batch of two are
shorter than the batch, equal to it and no multiple of it; the round robin is
proved for every length and batch size. Two frames of two records have a good
record before or after a bad one, or where its successor is missing, and a
heartbeat behind a frame that is still being handled. A token of life 3 is renewed twice before the
clock stops. In a deployment two faults are a migrator that dies after its first
file and an outage while the other probes; releases 2 and 3 disagree about what
is up to date, share two rows and have one each of their own, over a row of
release 1 that both rewrite. One commit falls between the two queries of an answer.

`MaxClock`, `MaxNow`, `MaxTicks`, `MaxPublished`, `MaxEnvelopes`,
`MaxCalls`, `MaxRotations`, `MaxTurns`, `MaxMoves`, `MaxFrames`, `MaxRecords`,
`MaxMessages`, `MaxFaults` and `MaxWrites` only bound the runs. Deadlock is not
checked: all these systems really stop (ticks or calls used up, tasks stopped,
service down).

## 4. Fairness

- pipeline: weak fairness of each driver's steps after `OnTick`. The agents
  catch their own errors, HTTP calls have time-outs, a publish returns or
  raises: every await of a tick ends. Neither a tick nor a cancel is promised.
- worker: weak fairness of both loops, of `stop()`'s steps and of the flush
  interval. `get_message` has a time-out, statements return or raise. No
  fairness for messages, crashes or the call of `stop()`. Crashes are unbounded,
  so `BufferedIsFlushed` says that what is buffered is flushed unless the
  session crashes again and again.
- supervisor and lifespan: weak fairness of the watchdog (its sleep ends) and of
  the steps of a shutdown once begun (cancelled tasks end, the closing
  handshake has a time-out). No fairness for the KIS task, the refresh loop or
  the failures.
- decision core: none, its properties are safety.
- caches: weak fairness of each caller's steps after the first. HTTP requests
  answer, fail or time out, and a released lock wakes its first waiter. Neither
  calls nor the clock nor rotation nor cancellation are promised.
- KIS feed: weak fairness of the task's step (`Handles`): Redis answers or fails and
  `on_tick` ends, by the pipeline's own liveness. KIS need not send or close.
- connections: weak fairness of the handler, of `detect` and of `forward`, each for
  itself, as they are separate tasks. Neither messages nor departures are
  promised.
- deployment: weak fairness of a container's commands, its probes, its failure
  on an unreachable database and its restart; a service that went away comes
  back. Faults are not promised. The platform restarts a failed container three
  times (`railway.toml:19`); the model restarts it whenever it failed, so the
  liveness of `ServicesEnd` holds of deployments that have not used up their
  restarts.
- orders, reads and Yahoo publisher: none, their properties are safety.

## 5. Proofs

All theorems hold for every value of the constants under the named assumptions
of the modules. Every safety invariant of every passing run is a theorem, and so
are the action property `NoStaleKey` and the refinements `LedgerSpec`,
`PipelineSpec` and `PromiseSpec`.

### Pipeline, worker, lifespan

- `PositionBounded` (`Spec => []PositionBound`). `PositionBound` is not
  inductive: a fill in flight was judged against an older position. The
  strengthening counts, per symbol, the feeders that hold a BUY that may still
  be recorded, and bounds the position by the limit plus one order for every
  other feeder.
- `ShadowSafe`: with the switch off no driver is past `deciding` with an order.
- `ImplementsLedger`, `CoolDownSpaced`, `BrokerTracked`: under `SoleFeeder`, the
  snapshot in `job[d]` still equals the portfolio's entry for its symbol, since
  only `d` writes it; so the recorded fill satisfies the ledger's guard, and
  cool-down spacing is read off the ledger's step. A sale the broker accepted may
  exceed the tracked holding, by shares from before the start: then the clamp
  makes the portfolio 0, and the account has lost what it gained since and more,
  so both bounds of `BrokerAgrees` stay.
- `TicksAccounted`: the finite set of suspended or cancelled drivers gains or
  loses one element in every step that moves a counter.
- `PersistenceWorkerProofs`: conservation on both channels with type
  correctness; the buffer bound needs that a flush empties it and that only a
  loop that is not flushing appends; `StopSettled` needs that past `cancelTick`
  inbox, and past the drain buffer and batch, are empty.
- `LifespanProofs`: one inductive invariant of supervisor and lifespan (which
  tasks can live with which progress of `start`, `stop` and watchdog) gives the
  six safety properties, for any number of siblings.

### Where the findings end

Five of the findings of section 6 come with a theorem that says how far the
disagreement goes. `CoolDownSpaced` and `DistinctKeysAreStored` have a hypothesis
(one publisher per symbol, distinct keys) the code does not ensure: the run's
instance is outside it. The others hold of every behaviour.

- `CoolDownSpaced` (`PipelineCoolDown`): one publisher per symbol is enough.
- `ShutdownLosesOneBatch` (`WorkerShutdown`): the batch never exceeds the flush
  threshold, since it is what a buffer below it and one tick make, and only the
  step that cancels the task loses it (`LossBound`).
- `DistinctKeysAreStored` (`WorkerSameSecond`): ticks keep the order of their
  publication on their way through inbox, buffer and batch to the table
  (`Ordered`); so the ticks of a batch are pairwise distinct and newer than every
  row, and with a key of its own for each a commit adds as many rows as the
  counter counts. That failed and cancelled statements may have committed only adds
  rows.
- `SilenceIsTheMocks` (`SupervisorSilent`): while the supervisor is up, a KIS
  publisher is watched (`Attended`), so without a failover under way nobody
  publishes only if the mock's task raised.
- `DrainSkippedByRaise` (`LifespanDrain`): an exception stays in its task, and
  each way out of the finally block has one (`RaiseInv`).

### Decision core

- `BreakerCurrent`: with one publisher the snapshot in its frame still equals
  the last prices of the window at the order, since only that publisher records
  them; the strengthening says so in every phase of the tick.
- `VoteBacked`, `LinearSizeOnTheLine`: the vote and the linear sizer as
  arithmetic, for all weights, positive thresholds, ranges, floors and
  confidences: a weighted mean of signed confidences does not exceed the largest
  of its own sign, and rounding moves the line by at most half a share without
  leaving the range.
- `SignalIsVote`: the coordinator's score of any two votes is a fraction between
  -1 and 1, so its signal is again a vote.
- `RsiIsPercent`: for every window of positive prices, gains and
  losses add up to numbers that are not negative, so the RSI is a fraction
  between 0 and 100; that the confidence read off it is one between 0 and 1
  follows (`RsiVoteType`, `QuantVoteType`). The sums
  are recursive functions. The library's induction takes an operator as a
  parameter, which no prover here instantiates; these proofs use the least
  element of a *set* of numbers instead: of those at which the statement fails.
- `TypeCorrect`, `OrdersAreBacked`, `OrdersAreOnTheLine`: the frame of a driver
  holds, once both agents answered, the decision of its votes, and an order is
  on the wire only with that decision; `FrameInv` says so of every phase. That
  an order is backed assumes a positive threshold: at zero a score of zero would be
  a BUY nobody voted for.
- `ImplementsPipeline`: under that invariant every step is the corresponding
  step of `TradingPipeline` or a stutter (the pipeline's `audited` are the ticks
  counted less the finite set of drivers in flight). What is to be shown is that
  the order's quantity is in the range from which the pipeline chooses.

### Services

A step of `Services` is a step of one part and leaves the others alone, so what is
invariant of a part is invariant of the whole (the section `Parts`). The two
caches share the clock; for each of them the other's steps are stuttering or a
tick of that clock.

- `ImplementsPromise`, `NewsPromiseKept`: a caller that waits for upstream is
  first in its symbol's queue, so no other asks for that symbol, and the entry
  it read under the lock is still the cached one: asking, answering and being
  cancelled while asking are the steps `Ask`, `Store` and `GiveUp` of
  `NewsPromise`. That every waiting caller is in its queue is needed for
  cancellation to leave the holder in front.
- `RotationIsTolerated`: said of one request's frame at a time. A body fetched while
  the key was published all along has the key, so "unknown" is said only of a
  key that was not; who stands in the lock's queue does not matter.
- `NoKeyIsStale` (`=> NoStaleKey`): read off each step that admits; besides the
  frames it needs that the clock is a natural number and the TTL is positive,
  since a key set just fetched has age zero.
- `RoundIsFair`, `VolumeIsKept`, under `ConstantsOk` (a positive batch, finitely
  many tickers): the round stands at one place; those before it have been asked
  once more than the others, the batch goes on from it and the cursor is where
  the batch ends. What was traded and not published is at least what a quote
  taken now would add plus what is about to be published; a rollover only lowers
  that.
- `RecordsAreInOrder` (`FeedInv`): Redis' list and the records still to be published
  are each sorted, all of the former come before all of the latter, both hold
  only good records of frames read, and, unless the stream crashed, together all of
  them. That `Kept`, a recursive function, keeps exactly the good records in order is
  proved by the same least-element argument (`KeptOk`).
- `NothingIsOrphaned` (`StreamInv`): which of a connection's tasks and subscription can
  live at which stage of its handler.
- `AnswersTrue` (`AnswersInv`): a frame has no answer before its last step and no
  verdict before KIS decided, so the answer is computed from the verdict.
- `TokenIsKept` (`TimesInv`), under `TimesOk` (interval < headroom < life, the
  constructor's values): when the loop went to sleep more than the headroom was
  left, it wakes within the interval, and asks for one step.
- `ReadyIsDeployed` (`DeployInv`): the applied versions have no gap, because a
  migrator's plan is, in order, at least what is missing of its release's files,
  whatever other migrators applied meanwhile; so the highest version tells them
  all. A deploying container past its seed has all its rows in the master, in its
  release's form or in that of one that came later, because no upsert deletes. The
  visible master is made of whole payloads (`WholePayloads`), because a payload
  becomes visible at once: the upsert leaves every row of its payload to one
  release, and takes none of another's away. An answer once given stays right:
  versions and rows are never taken back.
- `ReadsStayHonest` (`ReadInv`): a finite set has a list in any total order of its
  elements (by induction on its size), so a page is the first `Limit` of all that
  match. A request remembers what its calls returned, and commits take nothing back:
  held securities, ticks and audit rows only grow, alarms stay. The invariant says
  how the result so far relates to the tables, by the calls that are left; each
  call, failure and commit keeps it. `RowsAreStored` follows, as each query picks from
  rows that stay, and so does `TotalCoversPage`: a page's rows that are not counted
  later are among those a commit moved to another sector. `FailureIsEmpty` is read off
  the calls that have a result of their own. `MetricsAddUp` rests on three disjoint sets of
  audit rows. The order of the calls matters: with the count first, a commit
  between the two would let a page exceed its total.
- `TypeCorrect`: the conjunction of all these invariants (`TypesInv`) gives
  `ServicesTypeOK`, including the agreement of lock queues and waiting callers.

### Only model-checked

The liveness properties (`TickCompletes`, `BufferedIsFlushed`, `StopEnds`, `FailsOver`,
`ShutdownEnds`, `ServicesEnd`), which need fairness and ENABLED, out of the
prover's reach; and the six findings, which are counterexamples.

## 6. Findings

Each is a violation run; PROJECT.json quotes the lines.

1. `PipelineCoolDown`: the cool-down guard judges a snapshot (`pipeline.py:121`)
   and lets two publishers of one symbol trade inside the window. It takes a
   broker behind `OrderClient`; today's wiring has none.
2. `WorkerShutdown`: a clean shutdown drops the batch being inserted
   (`persistence_worker.py:279`).
3. `WorkerSameSecond`: rows refused by `ON CONFLICT` are counted as inserted
   (`tick_repository.py:84`).
4. `SupervisorSilent`: the mock publisher can die of a Redis error, unwatched
   (`mock_publisher.py:189`, `publisher_supervisor.py:214`).
5. `LifespanDrain`: a stop that re-raises a publisher's exception leaves the
   finally block before the worker drains (`main.py:373`).
6. `OrderSwitch`: `POST /v1/order` reaches the broker while `allow_live_orders` is off
   (`router.py:1163`), although the setting is called a global hard switch
   (`config.py:139`) and the client trusts its callers to have looked at it
   (`kis_order_client.py:8-10`).

Disagreements met while modelling that the models contain but no run singles
out:

- The catch-all handler answers outside `RequestIdMiddleware`: no `X-Request-ID`
  header and "-" in the body, against `middleware.py:39-40` (`ReadApi`: `Crash`).
- An alarm `source` of more than 64 characters raises outside the handler's `try` and
  is a 500 (`SourceTooLong`).
- `list_entities` and `list_edges` let a database error through, against
  `securities_repo.py:15` (`SnapshotFails`).
- A price `NaN` in one KIS record raises out of `_record_to_tick` and ends the stream,
  against `kis_client.py:643-646`, "one malformed record must NOT break the rest of
  the batch" (`KisFeed`: `Raises`).
- Blocked decisions are counted as no-ops too (`MetricsAddUp`).
- A missing cumulative volume makes the next delta the whole day's volume
  (`VolumeNeverInflated` excepts those tickers).
- After a failover the order and balance clients keep a token that nobody
  renews (`TokenKept` excepts a stopped loop).
- The documented example for confidence 0.5 (`sizer.py:74`) says 51 shares;
  `round(50.5)` (`sizer.py:126`) is 50 (`OrderOnTheLine` accepts both).
- With the database down ticks do not pile up to `_TICK_BUFFER_MAX`, against
  `persistence_worker.py:23-26` and `64-67`: a flush empties the buffer at the threshold
  (or the interval) whether its insert succeeds or not, a failed batch is counted dropped
  (`persistence_worker.py:284-285`), and with the default sizes the cap is never reached
  (`BufferBelowThreshold`).
- `last_flush` starts anew with every consumer session (`persistence_worker.py:226`): while
  sessions crash faster than the interval, a Redis outage for instance, a buffered tick is held
  as long as that lasts, against `persistence_worker.py:60-62`, "a quiet symbol's last tick
  isn't held for minutes" (`BufferedIsFlushed` excepts it).
- When the caller that asks upstream is cancelled, nothing is stored and the next in the queue
  asks again, against `news_provider.py:231-233`, "exactly ONE upstream fetch"
  (`NewsPromise`: `GiveUp`).
- `GET /v1/securities` counts "under the same filters" (`router.py:432`) in a second query
  (452): a seed that moves a shown row to another sector between 449 and 452 makes the total
  smaller than the page (`TotalCoversPage` spares the moved rows). When only one of the two
  queries fails the answer is rows with the total 0, or a total without rows, not the "empty
  envelope" of 434-435 (`FailureIsEmpty`).
- A server started alone on a migrated and never seeded database is ready: `readyz` looks at no
  row of the master. After two releases with different payloads the master holds the newer
  one's rows and those only the older one names, since `upsert_seed` deletes none.
  `ReadyMeansDeployed` says as much as that.
- Universe and US publisher both feed the US symbols, since the universe excludes the KIS
  symbols only (`main.py:343`): two publishers per symbol is a case of production. For such a symbol an
  order may also rest on a breaker's verdict about prices that are no longer the newest
  (`BreakerIsCurrent` is about symbols with one publisher).

## 7. Not modelled, and what is assumed

Left out for good:

- `build_universe.py`, `fetch_real_universe.py` and `seed.py`: scripts run by hand,
  offline, that write the seed file; what they produce enters as `Rows`.
- Formatting: DTOs, logging, wording of problems, prompts, RSS parsing and
  aggregation over news sources (one upstream answer), the mock's random walk,
  the anomaly predicate (a pure comparison), DDL of the migrations.
- `/healthz` and the configuration endpoints (constants), `add` and `replace_all` of
  the alarm repository (no caller but the seed), `fetch_recent`'s row mapping.
- Filters of the read endpoints beyond one column each; the name search, whose
  docstring says prefix where the query matches a substring of a name; the
  second page of a balance, which the client does not ask for.
- Cancellation of a request handler: at server shutdown `market_stream` and the
  token gate may be cancelled, which would leave a connection's two tasks to the
  closing loop.

Assumed of the outside:

- KIS places no order that it answers with an error, and a broker sells no share
  the account does not hold. The account is otherwise free to hold anything when
  the process starts (`Opening`); while it runs nobody else trades on it. An
  operator's order (`POST /v1/order`) is modelled in `OrderDesk`, not on the
  pipeline's account.
- The in-memory portfolio forgets its positions at a restart (`portfolio.py:5-8`), so
  `PositionBound`, like the guard it is about, limits the shares bought since the
  start and not what the account holds.
- The asyncio lock is first come, first served.
- A statement that returned is committed; PostgreSQL's transactions are atomic and
  its row locks exclude. The payloads of two releases name the rows they share in
  the same order; where they do not, PostgreSQL ends one of two seeders that wait
  for each other, which is `Dies`.
- A `pubsub.close()` that fails, which `stream.py:147-150` logs, has dropped its
  connection first, as redis-py does, so the subscription is released.
- The platform's restarts are not used up (`railway.toml:19`, section 4).

What could be added: a composition of `KisFeed` with `PublisherSupervisor`, so that a
crashed stream is the death the watchdog sees; larger instances of `ReadApi` with
two requests.
