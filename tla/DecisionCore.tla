---------------------------- MODULE DecisionCore ----------------------------
(***************************************************************************)
(* How one tick becomes a decision: the price window (context.py), the RSI *)
(* agent, the macro agent, the coordinator's weighted vote, the volatility *)
(* breaker and the sizer -- what TradingPipeline leaves nondeterministic.  *)
(*                                                                         *)
(*   idle --OnTick--> gathering --Noop, Shadow--> auditing --> idle        *)
(*        (breaker's    | votes   \--PlaceOrder--> ordering --^            *)
(*         snapshot)    +--QuantVotes, Macro*                              *)
(*                                                                         *)
(* The executor holds the placeholder order client of main.py, which       *)
(* rejects every order, so the portfolio stays empty and the guards that   *)
(* read it always allow.  Cancellation, counters and the audit's failure   *)
(* are in TradingPipeline, which this module implements.                   *)
(* Scores and confidences are exact fractions [num, den]; thresholds are   *)
(* whole percents.                                                         *)
(***************************************************************************)
EXTENDS Integers, Sequences, FiniteSets, FiniteSetsExt

CONSTANTS
  Drivers,     \* publisher tasks that call on_tick
  Symbols,     \* traded symbols
  Feeds,       \* Feeds[d] = symbols driver d publishes
  Prices,      \* prices a tick may carry
  Window,      \* TickContext.max_window
  VolWindow,   \* TradingPipeline.volatility_window, the breaker's window_size
  Period,      \* QuantAgent.period
  Oversold, Overbought,           \* QuantAgent, percent
  Weight,      \* Weight[a] = agent a's registered weight
  Threshold,   \* TradingCoordinator.decision_threshold, percent
  Confidences, \* confidences the language model reports, percent
  MaxDrop, MaxCv,                 \* VolatilityCircuitBreaker, percent
  Linear,      \* settings.position_sizer = "linear"
  FixedQty,                       \* FixedSizer.quantity
  MinQty, MaxQty, MinConf,        \* ConfidenceLinearSizer, MinConf in percent
  MaxTicks     \* bound: ticks handled in a behaviour

Agents == {"quant", "macro"}
Action == {"BUY", "HOLD", "SELL"}

ASSUME SourcesAssumption == /\ IsFiniteSet(Drivers)
                            /\ Feeds \in [Drivers -> SUBSET Symbols]
                            /\ Prices \subseteq Nat \ {0}
ASSUME WindowsAssumption == /\ Window \in Nat /\ Window >= 2
                            /\ VolWindow \in Nat /\ VolWindow >= 2
                            /\ Period \in Nat /\ Period >= 2
ASSUME RsiAssumption     == /\ Oversold \in Nat /\ Overbought \in Nat
                            /\ 0 < Oversold /\ Oversold < Overbought /\ Overbought < 100
ASSUME VoteAssumption    == /\ Weight \in [Agents -> Nat]
                            /\ Threshold \in 0..100
                            /\ Confidences \subseteq 0..100
ASSUME BreakerAssumption == MaxDrop \in Nat \ {0} /\ MaxCv \in Nat \ {0}
ASSUME SizerAssumption   == /\ Linear \in BOOLEAN
                            /\ FixedQty \in Nat \ {0}
                            /\ MinQty \in Nat \ {0}
                            /\ MaxQty \in Nat /\ MaxQty >= MinQty
                            /\ MinConf \in 0..100
ASSUME BoundAssumption   == MaxTicks \in Nat

VARIABLES
  live,       \* OrderExecutor._allow_live_orders
  llm,        \* MacroAgent._llm is not None
  history,    \* TickContext._by_symbol, prices only
  pc,         \* where each driver's task is suspended
  job,        \* locals of the driver's _process frame
  tickCount   \* TradingPipeline._tick_count

settings == <<live, llm>>
vars     == <<settings, history, pc, job, tickCount>>

-----------------------------------------------------------------------------
(* TickContext                                                             *)

\* The last n entries of a window.
Recent(prices, n) ==
  IF n >= Len(prices) THEN prices ELSE SubSeq(prices, Len(prices) - n + 1, Len(prices))

\* deque(maxlen = Window).append
Record(prices, p) == Recent(Append(prices, p), Window)

-----------------------------------------------------------------------------
(* Votes                                                                   *)

Vote(act, num, den) == [act |-> act, num |-> num, den |-> den]
Hold    == Vote("HOLD", 0, 1)
Pending == Vote("pending", 0, 1)   \* the agent's coroutine has not finished
Raised  == Vote("raised", 0, 1)    \* gather returned its exception

Plus(x) == IF x > 0 THEN x ELSE 0

SumOf(f) == MapThenSumSet(LAMBDA i : f[i], DOMAIN f)

\* Sum of the upward moves in the last Period changes; of the downward ones.
Gains(w)  == SumOf([i \in 1..(Len(w) - 1) |-> Plus(w[i + 1] - w[i])])
Losses(w) == SumOf([i \in 1..(Len(w) - 1) |-> Plus(w[i] - w[i + 1])])

\* 100 g / (g + l): 100 without losses, 0 without gains, 50 when flat.
Rsi(prices) ==
  LET w == Recent(prices, Period + 1)
      g == Gains(w)
      l == Losses(w)
  IN IF g + l = 0 THEN [num |-> 50, den |-> 1] ELSE [num |-> 100 * g, den |-> g + l]

\* Faulty variant: the distance to the threshold is not put in proportion to it.
RsiVoteUnscaled(r) ==
  CASE r.num <= Oversold * r.den   -> Vote("BUY", Oversold * r.den - r.num, r.den)
    [] r.num >= Overbought * r.den -> Vote("SELL", r.num - Overbought * r.den, r.den)
    [] OTHER -> Hold

\* Confidence: how far the RSI is beyond the threshold, in [0, 1].
RsiVote(r) ==
  CASE r.num <= Oversold * r.den ->
         Vote("BUY", Oversold * r.den - r.num, Oversold * r.den)
    [] r.num >= Overbought * r.den ->
         Vote("SELL", r.num - Overbought * r.den, (100 - Overbought) * r.den)
    [] OTHER -> Hold

\* QuantAgent.evaluate
QuantVote(prices) == IF Len(prices) < Period + 1 THEN Hold ELSE RsiVote(Rsi(prices))

-----------------------------------------------------------------------------
(* TradingCoordinator._aggregate                                           *)

Sign(act) == CASE act = "BUY" -> 1 [] act = "SELL" -> -1 [] OTHER -> 0

\* An agent that raised is dropped together with its weight.
ActiveWeight(votes, a) == IF votes[a].act \in Action THEN Weight[a] ELSE 0

\* Faulty variant: the sum is not divided by the total weight.
ScoreUnnormalised(votes) ==
  LET q == votes["quant"]
      m == votes["macro"]
  IN [num |-> Sign(q.act) * ActiveWeight(votes, "quant") * q.num * m.den
            + Sign(m.act) * ActiveWeight(votes, "macro") * m.num * q.den,
      den |-> q.den * m.den]

\* Weighted mean of the signed confidences of the agents that answered.
Score(votes) ==
  LET q == votes["quant"]
      m == votes["macro"]
  IN [num |-> Sign(q.act) * ActiveWeight(votes, "quant") * q.num * m.den
            + Sign(m.act) * ActiveWeight(votes, "macro") * m.num * q.den,
      den |-> (ActiveWeight(votes, "quant") + ActiveWeight(votes, "macro")) * q.den * m.den]

\* The coordinator's signal: its action and its confidence |score|.
Aggregate(votes) ==
  LET s == Score(votes)
  IN IF s.den = 0 THEN Hold
     ELSE IF 100 * s.num >= Threshold * s.den THEN Vote("BUY", s.num, s.den)
     ELSE IF 100 * s.num <= -(Threshold * s.den) THEN Vote("SELL", -s.num, s.den)
     ELSE Vote("HOLD", IF s.num < 0 THEN -s.num ELSE s.num, s.den)

-----------------------------------------------------------------------------
(* VolatilityCircuitBreaker                                                *)

SquaresOf(w) == SumOf([i \in 1..Len(w) |-> w[i] * w[i]])

DropsSharply(w) ==
  100 * (w[Len(w) - 1] - w[Len(w)]) > MaxDrop * w[Len(w) - 1]

\* stdev / mean > MaxCv, squared; n * n * variance = n * sum(x^2) - sum(x)^2.
Choppy(w) ==
  10000 * (Len(w) * SquaresOf(w) - SumOf(w) * SumOf(w))
    > MaxCv * MaxCv * SumOf(w) * SumOf(w)

BreakerAllows(prices) ==
  LET w == Recent(prices, VolWindow)
  IN Len(prices) >= 4 => ~DropsSharply(w) /\ ~Choppy(w)

-----------------------------------------------------------------------------
(* PositionSizer                                                           *)

\* Python's round() of n / d: halves go to the even neighbour.
RoundHalfEven(n, d) ==
  LET q == n \div d
      r == n % d
  IN IF 2 * r < d \/ (2 * r = d /\ q % 2 = 0) THEN q ELSE q + 1

\* Faulty variant: int() truncates instead of rounding.
LinearSizeTruncated(c) ==
  IF 100 * c.num < MinConf * c.den THEN 0
  ELSE (MinQty * c.den + (MaxQty - MinQty) * c.num) \div c.den

\* ConfidenceLinearSizer.size_for; both clamps are idle for a confidence in [0, 1].
LinearSize(c) ==
  IF 100 * c.num < MinConf * c.den THEN 0
  ELSE RoundHalfEven(MinQty * c.den + (MaxQty - MinQty) * c.num, c.den)

Size(c) == IF Linear THEN LinearSize(c) ELSE FixedQty

-----------------------------------------------------------------------------
NoVotes == [a \in Agents |-> Pending]
NoJob   == [sym |-> "", prices |-> <<>>, votes |-> NoVotes, signal |-> Hold, qty |-> 0]

Init ==
  /\ live \in BOOLEAN /\ llm \in BOOLEAN
  /\ history = [s \in Symbols |-> <<>>]
  /\ pc = [d \in Drivers |-> "idle"]
  /\ job = [d \in Drivers |-> NoJob]
  /\ tickCount = 0

\* Driver d leaves phase from for phase to, its frame's locals becoming j.
Transition(d, from, to, j) ==
  /\ pc[d] = from
  /\ pc' = [pc EXCEPT ![d] = to]
  /\ job' = [job EXCEPT ![d] = j]

Gathering(s, prices) ==
  [sym |-> s, prices |-> prices, votes |-> NoVotes, signal |-> Hold, qty |-> 0]

\* Faulty variant: the breaker's prices are read before the tick is recorded.
OnTickSnapshotFirst(d, s, p) ==
  /\ s \in Feeds[d]
  /\ tickCount < MaxTicks
  /\ history' = [history EXCEPT ![s] = Record(@, p)]
  /\ Transition(d, "idle", "gathering", Gathering(s, Recent(history[s], VolWindow)))
  /\ tickCount' = tickCount + 1
  /\ UNCHANGED settings

\* on_tick up to the gather: record the tick, then take the breaker's snapshot.
OnTick(d, s, p) ==
  /\ s \in Feeds[d]
  /\ tickCount < MaxTicks
  /\ history' = [history EXCEPT ![s] = Record(@, p)]
  /\ Transition(d, "idle", "gathering", Gathering(s, Recent(history'[s], VolWindow)))
  /\ tickCount' = tickCount + 1
  /\ UNCHANGED settings

Answer(d, a, v) ==
  /\ job[d].votes[a] = Pending
  /\ Transition(d, "gathering", "gathering", [job[d] EXCEPT !.votes[a] = v])
  /\ UNCHANGED <<settings, history, tickCount>>

\* The agents' coroutines run as tasks of the gather, in the order of their
\* registration.  The quant agent reads the price window when its task first
\* runs, not the breaker's snapshot, and does not suspend.
QuantVotes(d) == Answer(d, "quant", QuantVote(history[job[d].sym]))

MacroAnswers(d, v) ==
  /\ job[d].votes["quant"] # Pending
  /\ Answer(d, "macro", v)

\* The answer parses: any action, confidence clamped into [0, 1].
MacroVotes(d, act, percent) ==
  /\ llm
  /\ MacroAnswers(d, Vote(act, percent, 100))

\* No model is configured.
MacroStub(d) == ~llm /\ MacroAnswers(d, Hold)

\* The client raises: timeout, network, HTTP status, shape of the response.
ModelFails(d) == llm /\ MacroAnswers(d, Hold)

\* The text is not one JSON object with a known action and a finite confidence.
AnswerUnparseable(d) == llm /\ MacroAnswers(d, Hold)

\* The prompt is built outside evaluate()'s try: gather returns the exception.
MacroRaises(d) == MacroAnswers(d, Raised)

VotesStep(d) ==
  \/ QuantVotes(d)
  \/ MacroStub(d)
  \/ ModelFails(d)
  \/ AnswerUnparseable(d)
  \/ MacroRaises(d)
  \/ \E act \in Action, percent \in Confidences : MacroVotes(d, act, percent)

\* gather returns when every agent answered; nothing suspends from here to
\* the order.
Signal(d) == Aggregate(job[d].votes)

Decided(d) == [job[d] EXCEPT !.signal = Signal(d), !.qty = Size(Signal(d))]

Gathered(d) ==
  /\ pc[d] = "gathering"
  /\ \A a \in Agents : job[d].votes[a] # Pending

Tradeable(d) ==
  /\ Gathered(d)
  /\ Signal(d).act # "HOLD"
  /\ BreakerAllows(job[d].prices)
  /\ Size(Signal(d)) > 0

Noop(d) ==
  /\ Gathered(d)
  /\ ~Tradeable(d)
  /\ Transition(d, "gathering", "auditing", NoJob)
  /\ UNCHANGED <<settings, history, tickCount>>

Shadow(d) ==
  /\ Tradeable(d)
  /\ ~live
  /\ Transition(d, "gathering", "auditing", Decided(d))
  /\ UNCHANGED <<settings, history, tickCount>>

\* Faulty variant: the switch is not consulted.
PlaceOrderUnchecked(d) ==
  /\ Tradeable(d)
  /\ Transition(d, "gathering", "ordering", Decided(d))
  /\ UNCHANGED <<settings, history, tickCount>>

PlaceOrder(d) ==
  /\ Tradeable(d)
  /\ live
  /\ Transition(d, "gathering", "ordering", Decided(d))
  /\ UNCHANGED <<settings, history, tickCount>>

Decide(d) == Noop(d) \/ Shadow(d) \/ PlaceOrder(d)

\* The placeholder client of main.py answers success=False.
OrderRejected(d) ==
  /\ Transition(d, "ordering", "auditing", job[d])
  /\ UNCHANGED <<settings, history, tickCount>>

\* The envelope is published, or its failure counted.
Audit(d) ==
  /\ Transition(d, "auditing", "idle", NoJob)
  /\ UNCHANGED <<settings, history, tickCount>>

Progress(d) ==
  \/ VotesStep(d)
  \/ Decide(d)
  \/ OrderRejected(d)
  \/ Audit(d)

Next ==
  \E d \in Drivers :
    \/ \E s \in Symbols, p \in Prices : OnTick(d, s, p)
    \/ Progress(d)

Spec == Init /\ [][Next]_vars

-----------------------------------------------------------------------------
(* Properties.                                                             *)

\* A confidence is between 0 and 1.
Votes == {v \in [act : Action \cup {"pending", "raised"}, num : Nat, den : Nat \ {0}] :
            v.num <= v.den}

Job == [sym : Symbols, prices : Seq(Prices), votes : [Agents -> Votes],
        signal : Votes, qty : Nat]

TypeOK ==
  /\ live \in BOOLEAN /\ llm \in BOOLEAN
  /\ history \in [Symbols -> Seq(Prices)]
  /\ \A s \in Symbols : Len(history[s]) <= Window
  /\ pc \in [Drivers -> {"idle", "gathering", "ordering", "auditing"}]
  /\ job \in [Drivers -> Job \cup {NoJob}]
  /\ tickCount \in Nat

\* Driver d decided on an order (sent, or logged in shadow mode).
Intends(d) == pc[d] \in {"ordering", "auditing"} /\ job[d].qty > 0

FeedersOf(s) == {d \in Drivers : s \in Feeds[d]}

\* An order of a symbol with one publisher was judged by the breaker on the
\* newest prices there are: no sharp drop slips in between check and order.
BreakerIsCurrent ==
  \A d \in Drivers :
    Intends(d) /\ FeedersOf(job[d].sym) = {d} =>
      BreakerAllows(Recent(history[job[d].sym], VolWindow))

\* No order is more confident than the most confident agent that voted for it.
OrderHasBacking ==
  \A d \in Drivers :
    Intends(d) => \E a \in Agents :
      LET v == job[d].votes[a]
          s == job[d].signal
      IN v.act = s.act /\ v.num * s.den >= s.num * v.den

\* A linear order's size lies within the configured range, at most half a
\* share off the straight line through the two ends, and never below the
\* confidence floor.
OrderOnTheLine ==
  \A d \in Drivers :
    Intends(d) /\ Linear =>
      LET c == job[d].signal
          qty == job[d].qty
          exact == MinQty * c.den + (MaxQty - MinQty) * c.num
      IN /\ qty \in MinQty..MaxQty
         /\ 100 * c.num >= MinConf * c.den
         /\ 2 * (qty * c.den - exact) <= c.den
         /\ 2 * (exact - qty * c.den) <= c.den

LargestOrder == IF FixedQty > MaxQty THEN FixedQty ELSE MaxQty

\* The frame as TradingPipeline keeps it: an empty portfolio's snapshot.
PipelineJob(d) ==
  [sym |-> job[d].sym, held |-> 0, last |-> -1, now |-> 0,
   act |-> IF pc[d] = "ordering" THEN job[d].signal.act ELSE "HOLD",
   qty |-> IF pc[d] = "ordering" THEN job[d].qty ELSE 0, ts |-> 0]

Pipeline ==
  INSTANCE TradingPipeline WITH
    MaxShares <- 1000, Cooldown <- 60, Opening <- [s \in Symbols |-> 0],
    MaxClock <- 0, MaxQty <- LargestOrder,
    allowLive <- live, clock <- 0, lost <- {}, executedCount <- 0, errorCount <- 0, auditFailureCount <- 0,
    audited <- tickCount - Cardinality({d \in Drivers : pc[d] # "idle"}),
    pos <- [s \in Symbols |-> 0], broker <- [s \in Symbols |-> 0],
    lastTrade <- [s \in Symbols |-> -1],
    pc <- [d \in Drivers |-> IF pc[d] = "gathering" THEN "deciding" ELSE pc[d]],
    job <- [d \in Drivers |->
              IF pc[d] \in {"gathering", "ordering"} THEN PipelineJob(d)
              ELSE [sym |-> "", held |-> 0, last |-> -1, now |-> 0,
                    act |-> "HOLD", qty |-> 0, ts |-> 0]]

\* What agents, breaker and sizer compute is one of the decisions
\* TradingPipeline allows; in particular every order's size is in its range.
PipelineSpec == Pipeline!Spec
=============================================================================
