-------------------------- MODULE TradingPipeline --------------------------
(***************************************************************************)
(* The trading pipeline of src/domain/trading as it runs under asyncio.    *)
(*                                                                         *)
(* Each publisher task ("driver") awaits TradingPipeline.on_tick inline,   *)
(* so one driver handles one tick at a time while the drivers interleave   *)
(* at every await:                                                         *)
(*                                                                         *)
(*   idle --OnTick--> deciding --Decide--> ordering --broker--> replying   *)
(*          (guard snapshot)     |            |                    |       *)
(*                               +---------> auditing <------------+       *)
(*                                              |                          *)
(*                                            idle                         *)
(*                                                                         *)
(* The portfolio snapshot the guards judge is taken in OnTick, before the  *)
(* coordinator awaits its agents; the fill is recorded only after the      *)
(* broker's reply.  Everything between two awaits is one action.           *)
(***************************************************************************)
EXTENDS Integers, FiniteSets

CONSTANTS
  Drivers,      \* publisher tasks that call on_tick
  Symbols,      \* traded symbols
  Feeds,        \* Feeds[d] = symbols driver d publishes
  MaxShares,    \* MaxPositionSizeGuard.max_shares
  MaxQty,       \* largest quantity the sizer returns
  Cooldown,     \* CoolDownGuard.cooldown_seconds
  Opening,      \* what the broker account holds when the process starts
  MaxClock,     \* bound: how far the wall clock runs
  MaxTicks      \* bound: ticks handled in a behaviour

ASSUME DriversAssumption == IsFiniteSet(Drivers)
ASSUME FeedsAssumption   == Feeds \in [Drivers -> SUBSET Symbols]
ASSUME LimitsAssumption  == /\ MaxShares \in Nat
                            /\ MaxQty \in Nat \ {0}
                            /\ Cooldown \in Nat
ASSUME OpeningAssumption == Opening \in [Symbols -> Nat]
ASSUME BoundsAssumption  == MaxClock \in Nat /\ MaxTicks \in Nat

VARIABLES
  allowLive,          \* OrderExecutor._allow_live_orders, captured at construction
  clock,              \* wall clock, datetime.now(timezone.utc)
  pos,                \* Portfolio._positions
  lastTrade,          \* Portfolio._last_trade_at
  broker,             \* shares the broker account holds, per symbol (external)
  lost,               \* symbols for which an accepted order was never recorded
  pc,                 \* where each driver's task is suspended
  job,                \* locals of the driver's _process frame
  tickCount,          \* TradingPipeline._tick_count
  executedCount,      \* TradingPipeline._executed_count
  errorCount,         \* TradingPipeline._error_count
  auditFailureCount,  \* TradingPipeline._audit_failure_count
  audited             \* envelopes published on nexus.trading.audit

portfolio == <<pos, lastTrade>>
counters  == <<tickCount, executedCount, errorCount, auditFailureCount, audited>>
vars      == <<allowLive, clock, portfolio, broker, lost, pc, job, counters>>

Ledger == INSTANCE TradingLedger

Never     == Ledger!Never
Side      == {"BUY", "SELL"}
Phase     == {"idle", "deciding", "ordering", "replying", "auditing",
              "stopped", "cancelled"}
InFlight  == {"deciding", "ordering", "replying", "auditing"}

NoJob == [sym |-> "", held |-> 0, last |-> Never, now |-> 0,
          act |-> "HOLD", qty |-> 0, ts |-> 0]

Job == [sym : Symbols, held : Nat, last : Nat \cup {Never}, now : Nat,
        act : Side \cup {"HOLD"}, qty : 0..MaxQty, ts : Nat]

\* The portfolio is held in memory and starts empty; the account does not.
Init ==
  /\ allowLive \in BOOLEAN
  /\ clock = 0
  /\ pos = [s \in Symbols |-> 0]
  /\ lastTrade = [s \in Symbols |-> Never]
  /\ broker = Opening
  /\ lost = {}
  /\ pc = [d \in Drivers |-> "idle"]
  /\ job = [d \in Drivers |-> NoJob]
  /\ tickCount = 0
  /\ executedCount = 0
  /\ errorCount = 0
  /\ auditFailureCount = 0
  /\ audited = 0

TimePasses ==
  /\ clock < MaxClock
  /\ clock' = clock + 1
  /\ UNCHANGED <<allowLive, portfolio, broker, lost, pc, job, counters>>

\* Driver d leaves phase from for phase to, its frame's locals becoming j.
Transition(d, from, to, j) ==
  /\ pc[d] = from
  /\ pc' = [pc EXCEPT ![d] = to]
  /\ job' = [job EXCEPT ![d] = j]

-----------------------------------------------------------------------------
(* on_tick up to the coordinator's await: the guards' snapshot is taken.   *)

GuardSnapshot(s) ==
  [sym |-> s, held |-> pos[s], last |-> lastTrade[s], now |-> clock,
   act |-> "HOLD", qty |-> 0, ts |-> 0]

OnTick(d, s) ==
  /\ s \in Feeds[d]
  /\ tickCount < MaxTicks
  /\ Transition(d, "idle", "deciding", GuardSnapshot(s))
  /\ tickCount' = tickCount + 1
  /\ UNCHANGED <<allowLive, clock, portfolio, broker, lost, executedCount,
                 errorCount, auditFailureCount, audited>>

-----------------------------------------------------------------------------
(* The coordinator's signal arrives; the guards (none of which suspends)   *)
(* judge the snapshot and the executor acts.                               *)

\* Faulty variant: the comparison lets a full position buy once more.
MaxPositionAllowsWhenFull(j, action) == action = "BUY" => j.held <= MaxShares

\* MaxPositionSizeGuard: BUY is blocked when the holding reached the maximum.
MaxPositionAllows(j, action) == action = "BUY" => j.held < MaxShares

\* Faulty variant: the window is one second short.
CoolDownAllowsEarly(j) == j.last = Never \/ j.now - j.last >= Cooldown - 1

\* CoolDownGuard: both sides wait Cooldown after the last recorded trade.
CoolDownAllows(j) == j.last = Never \/ j.now - j.last >= Cooldown

GuardsAllow(j, action) == MaxPositionAllows(j, action) /\ CoolDownAllows(j)

\* HOLD, blocked by a guard (the volatility breaker may block any signal, its
\* verdict depends on prices only), or sized to 0: no order.
Noop(d) ==
  /\ Transition(d, "deciding", "auditing", NoJob)
  /\ UNCHANGED <<allowLive, clock, portfolio, broker, lost, counters>>

\* Safety switch off: the intent is logged, the order client is not called.
Shadow(d) ==
  /\ ~allowLive
  /\ \E action \in Side : GuardsAllow(job[d], action)
  /\ Transition(d, "deciding", "auditing", NoJob)
  /\ UNCHANGED <<allowLive, clock, portfolio, broker, lost, counters>>

\* Safety switch on: the order is sent; ts was read on entry to execute().
Ordered(j, action, qty) ==
  [sym |-> j.sym, held |-> j.held, last |-> j.last, now |-> j.now,
   act |-> action, qty |-> qty, ts |-> clock]

\* Faulty variant: the switch is not consulted.
PlaceOrderUnchecked(d, action, qty) ==
  /\ GuardsAllow(job[d], action)
  /\ Transition(d, "deciding", "ordering", Ordered(job[d], action, qty))
  /\ UNCHANGED <<allowLive, clock, portfolio, broker, lost, counters>>

PlaceOrder(d, action, qty) ==
  /\ allowLive
  /\ GuardsAllow(job[d], action)
  /\ Transition(d, "deciding", "ordering", Ordered(job[d], action, qty))
  /\ UNCHANGED <<allowLive, clock, portfolio, broker, lost, counters>>

\* Faulty variant: the exception is swallowed and not counted.
ProcessRaisesUncounted(d) ==
  /\ Transition(d, "deciding", "idle", NoJob)
  /\ UNCHANGED <<allowLive, clock, portfolio, broker, lost, counters>>

\* A bug in an agent's aggregation, a guard or the sizer: on_tick swallows it.
ProcessRaises(d) ==
  /\ Transition(d, "deciding", "idle", NoJob)
  /\ errorCount' = errorCount + 1
  /\ UNCHANGED <<allowLive, clock, portfolio, broker, lost, tickCount,
                 executedCount, auditFailureCount, audited>>

Decide(d) ==
  \/ Noop(d)
  \/ Shadow(d)
  \/ \E action \in Side, qty \in 1..MaxQty : PlaceOrder(d, action, qty)
  \/ ProcessRaises(d)

-----------------------------------------------------------------------------
(* The order on the wire.                                                  *)

\* The broker accepts; it never sells shares the account does not hold.  It
\* does sell shares the portfolio forgot: MaxPositionSizeGuard lets every SELL
\* through, and the fill is then clamped at 0.
BrokerAccepts(d) ==
  LET j == job[d] IN
  /\ j.act = "SELL" => broker[j.sym] >= j.qty
  /\ Transition(d, "ordering", "replying", j)
  /\ broker' = [broker EXCEPT ![j.sym] =
                  IF j.act = "BUY" THEN @ + j.qty ELSE @ - j.qty]
  /\ UNCHANGED <<allowLive, clock, portfolio, lost, counters>>

\* Faulty variant: a fill is recorded whatever the result says.
BrokerRejectsRecorded(d) ==
  LET j == job[d] IN
  /\ Transition(d, "ordering", "auditing", NoJob)
  /\ pos' = [pos EXCEPT ![j.sym] = Ledger!AfterFill(@, j.act, j.qty)]
  /\ lastTrade' = [lastTrade EXCEPT ![j.sym] = j.ts]
  /\ UNCHANGED <<allowLive, clock, broker, lost, counters>>

\* Faulty variant: a rejected order is decided again, without limit.
BrokerRejectsRetried(d) ==
  /\ Transition(d, "ordering", "deciding", job[d])
  /\ UNCHANGED <<allowLive, clock, portfolio, broker, lost, counters>>

\* success=False, or place_order raised before the broker saw the order.
BrokerRejects(d) ==
  /\ Transition(d, "ordering", "auditing", NoJob)
  /\ UNCHANGED <<allowLive, clock, portfolio, broker, lost, counters>>

\* The order was accepted but its reply never arrives (timeout, connection
\* lost, unreadable body): place_order raises and execute() reports
\* executed=False, so nothing is recorded.
ReplyLost(d) ==
  /\ Transition(d, "replying", "auditing", NoJob)
  /\ lost' = lost \cup {job[d].sym}
  /\ UNCHANGED <<allowLive, clock, portfolio, broker, counters>>

\* Portfolio.record_fill, then executed_count.
RecordFill(d) ==
  LET j == job[d] IN
  /\ Transition(d, "replying", "auditing", NoJob)
  /\ pos' = [pos EXCEPT ![j.sym] = Ledger!AfterFill(@, j.act, j.qty)]
  /\ lastTrade' = [lastTrade EXCEPT ![j.sym] = j.ts]
  /\ executedCount' = executedCount + 1
  /\ UNCHANGED <<allowLive, clock, broker, lost, tickCount, errorCount,
                 auditFailureCount, audited>>

OrderStep(d) ==
  \/ BrokerAccepts(d)
  \/ BrokerRejects(d)
  \/ ReplyLost(d)
  \/ RecordFill(d)

-----------------------------------------------------------------------------
(* The audit envelope.                                                     *)

AuditPublished(d) ==
  /\ Transition(d, "auditing", "idle", NoJob)
  /\ audited' = audited + 1
  /\ UNCHANGED <<allowLive, clock, portfolio, broker, lost, tickCount,
                 executedCount, errorCount, auditFailureCount>>

AuditFails(d) ==
  /\ Transition(d, "auditing", "idle", NoJob)
  /\ auditFailureCount' = auditFailureCount + 1
  /\ UNCHANGED <<allowLive, clock, portfolio, broker, lost, tickCount,
                 executedCount, errorCount, audited>>

AuditStep(d) == AuditPublished(d) \/ AuditFails(d)

-----------------------------------------------------------------------------
(* Publisher.stop() cancels the driver's task.  CancelledError passes      *)
(* through execute() and on_tick, whose handlers catch Exception only, so  *)
(* the tick in flight is dropped wherever it was suspended.                *)

Cancel(d) ==
  /\ pc[d] \notin {"stopped", "cancelled"}
  /\ pc' = [pc EXCEPT ![d] = IF @ = "idle" THEN "stopped" ELSE "cancelled"]
  /\ job' = [job EXCEPT ![d] = NoJob]
  /\ lost' = IF pc[d] = "replying" THEN lost \cup {job[d].sym} ELSE lost
  /\ UNCHANGED <<allowLive, clock, portfolio, broker, counters>>

Progress(d) == Decide(d) \/ OrderStep(d) \/ AuditStep(d)

Next ==
  \/ TimePasses
  \/ \E d \in Drivers :
       \/ \E s \in Symbols : OnTick(d, s)
       \/ Progress(d)
       \/ Cancel(d)

\* The event loop resumes every task whose await completed: agents, broker
\* call and publish all end (answer, error or timeout), time-outs included.
Fairness == \A d \in Drivers : WF_vars(Progress(d))

Spec     == Init /\ [][Next]_vars
FairSpec == Spec /\ Fairness

-----------------------------------------------------------------------------
(* Properties.                                                             *)

TypeOK ==
  /\ allowLive \in BOOLEAN
  /\ clock \in Nat
  /\ pos \in [Symbols -> Nat]
  /\ lastTrade \in [Symbols -> Nat \cup {Never}]
  /\ broker \in [Symbols -> Nat]
  /\ lost \subseteq Symbols
  /\ pc \in [Drivers -> Phase]
  /\ job \in [Drivers -> Job \cup {NoJob}]
  /\ tickCount \in Nat
  /\ executedCount \in Nat
  /\ errorCount \in Nat
  /\ auditFailureCount \in Nat
  /\ audited \in Nat

FeedersOf(s) == {d \in Drivers : s \in Feeds[d]}

\* The guard judges a snapshot, so publishers that feed the same symbol can
\* each add one order to a position the guard saw below its maximum -- but
\* no more than one each, however the awaits interleave.
PositionBound ==
  \A s \in Symbols :
    pos[s] > 0 => pos[s] <= MaxShares - 1 + Cardinality(FeedersOf(s)) * MaxQty

\* Every tick counted is accounted for once: its envelope was published, its
\* publish failed, it raised, it is still suspended, or its task was cancelled.
TickAccounting ==
  tickCount = audited + auditFailureCount + errorCount
              + Cardinality({d \in Drivers : pc[d] \in InFlight \cup {"cancelled"}})

\* With ALLOW_LIVE_ORDERS off nothing reaches the broker and the portfolio
\* the guards read stays empty.
ShadowNeverTrades ==
  ~allowLive => /\ \A d \in Drivers : pc[d] \notin {"ordering", "replying"}
                /\ broker = Opening
        /\ \A s \in Symbols : pos[s] = 0 /\ lastTrade[s] = Never

\* Each symbol has one publisher.
SoleFeeder ==
  \A d, e \in Drivers : \A s \in Symbols : s \in Feeds[d] /\ s \in Feeds[e] => d = e

\* A holding the portfolio may claim: no more than the account has, and no
\* less than the account gained since the process started.
Tracks(s, held) == broker[s] - Opening[s] <= held /\ held <= broker[s]

\* As long as no accepted order was lost, the portfolio tracks the account,
\* counting in the accepted order whose reply is awaited: exactly where the
\* account started empty, and otherwise short by at most the shares a restart
\* made the portfolio forget, whose sale Portfolio.record_fill clamps at 0.
BrokerAgrees ==
  \A s \in Symbols \ lost :
    \/ Tracks(s, pos[s]) /\ \A d \in FeedersOf(s) : pc[d] = "replying" => job[d].sym # s
    \/ \E d \in FeedersOf(s) :
         /\ pc[d] = "replying"
         /\ job[d].sym = s
         /\ Tracks(s, Ledger!AfterFill(pos[s], job[d].act, job[d].qty))

\* Two recorded trades of a symbol are at least Cooldown apart
\* (guardrails.py: "Blocks any execution within cooldown_seconds of the last
\* trade").
CoolDownSpacing ==
  [][\A s \in Symbols :
       (pos[s]' # pos[s] \/ lastTrade[s]' # lastTrade[s]) =>
         lastTrade[s] = Never \/ lastTrade[s]' - lastTrade[s] >= Cooldown]_vars

\* A fill is atomic with the guards' verdict, as TradingLedger describes.
LedgerSpec == Ledger!Spec

\* Whatever agents, broker and Redis do, a tick's handling ends.
TickCompletes ==
  \A d \in Drivers :
    pc[d] \in InFlight ~> pc[d] \in {"idle", "stopped", "cancelled"}
=============================================================================
