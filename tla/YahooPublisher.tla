---------------------------- MODULE YahooPublisher ----------------------------
(***************************************************************************)
(* The polling publishers of infrastructure/us_publisher.py, with the      *)
(* ticker list read once from security_master, as universe_publisher.py    *)
(* does: round-robin batches over the list, one quote at a time, and the   *)
(* day's cumulative volume turned into deltas.                             *)
(*                                                                         *)
(*   new --> sleep --> fetch --quote--> publish --> observe --> fetch ...  *)
(*             ^-------/                 any --> ended                     *)
(***************************************************************************)
EXTENDS Integers, Sequences, FiniteSets

CONSTANTS
  Tickers,     \* ticker ids: numbers, as the table is read in ticker order
  Excluded,    \* exclude_tickers: subscribed elsewhere
  BatchSize,   \* _batch_size
  MaxTurns,    \* bound: polls of one symbol
  MaxMoves     \* bound: steps of the exchange, trades and rollovers

\* What the class is constructed with (main.py); the theorems assume it.
ConstantsOk == BatchSize \in Nat \ {0} /\ Tickers \subseteq Nat /\ IsFiniteSet(Tickers)

VARIABLES
  symbols,     \* _symbols
  cursor,      \* _cursor
  batch,       \* the positions of the running batch still to be asked
  phase,       \* where the task is
  tick,        \* the tick between its quote and the end of on_tick
  lastVolume,  \* _last_volume
  turns,       \* how often each position has been asked
  day,         \* the day's volume at the exchange, per ticker (external)
  moves,       \* how often the exchange moved
  unseen,      \* traded since the first quote and not published
  gap          \* tickers one of whose quotes lacked its volume

pollVars == <<symbols, cursor, batch, turns>>
exchangeVars == <<day, moves>>
vars == <<pollVars, exchangeVars, phase, tick, lastVolume, unseen, gap>>

NoTick == [symbol |-> 0, volume |-> 0]
Never == -1

Init ==
  /\ symbols = <<>> /\ cursor = 0 /\ batch = <<>> /\ turns = <<>>
  /\ phase = "new"
  /\ tick = NoTick
  /\ lastVolume = [t \in Tickers |-> Never]
  /\ day = [t \in Tickers |-> 0]
  /\ moves = 0
  /\ unseen = [t \in Tickers |-> 0]
  /\ gap = {}

\* Shares change hands.
Trade(t) ==
  /\ moves < MaxMoves
  /\ moves' = moves + 1
  /\ day' = [day EXCEPT ![t] = @ + 1]
  /\ unseen' = [unseen EXCEPT ![t] = IF lastVolume[t] = Never THEN @ ELSE @ + 1]
  /\ UNCHANGED <<pollVars, phase, tick, lastVolume, gap>>

\* A new trading day counts from zero.
NewDay ==
  /\ moves < MaxMoves
  /\ moves' = moves + 1
  /\ day' = [t \in Tickers |-> 0]
  /\ UNCHANGED <<pollVars, phase, tick, lastVolume, unseen, gap>>

\* The rows the query returned, in ticker order, without the excluded ones.
Loaded(rows) ==
  {s \in [1..Cardinality(rows \ Excluded) -> rows \ Excluded] :
     \A i, j \in DOMAIN s : i < j => s[i] < s[j]}

\* start(): no rows, or a failing database, is an empty universe and no task.
Start ==
  /\ phase = "new"
  /\ \E rows \in SUBSET Tickers :
       /\ symbols' \in Loaded(rows)
       /\ turns' = [p \in 0..Cardinality(rows \ Excluded) - 1 |-> 0]
       /\ phase' = IF rows \ Excluded = {} THEN "ended" ELSE "sleep"
  /\ UNCHANGED <<exchangeVars, cursor, batch, tick, lastVolume, unseen, gap>>

N == Len(symbols)

\* The positions of one poll, from the cursor round the list.
Batch ==
  [i \in 1..(IF BatchSize < N THEN BatchSize ELSE N) |-> (cursor + (i - 1)) % N]

\* _poll_one_batch: batch and cursor are fixed before the first request.
PollOneBatch ==
  /\ phase = "sleep"
  /\ \A p \in DOMAIN turns : turns[p] < MaxTurns
  /\ batch' = Batch
  /\ cursor' = (cursor + Len(Batch)) % N
  /\ phase' = "fetch"
  /\ UNCHANGED <<exchangeVars, symbols, turns, tick, lastVolume, unseen, gap>>

\* The head of the batch has been asked.
Asked ==
  /\ phase = "fetch" /\ batch # <<>>
  /\ turns' = [turns EXCEPT ![Head(batch)] = @ + 1]
  /\ batch' = Tail(batch)
  /\ UNCHANGED <<exchangeVars, symbols, cursor>>

\* Faulty variant: a failed quote ends the batch.
SkipEndsBatch ==
  /\ phase = "fetch" /\ batch # <<>>
  /\ turns' = [turns EXCEPT ![Head(batch)] = @ + 1]
  /\ batch' = <<>>
  /\ UNCHANGED <<exchangeVars, symbols, cursor, phase, tick, lastVolume, unseen, gap>>

\* The request failed, or its answer has no usable price: on to the next one.
Skip ==
  /\ Asked
  /\ UNCHANGED <<phase, tick, lastVolume, unseen, gap>>

\* Faulty variant: the volume of a new day is published whole.
DeltaOfNewDay(last, volume) ==
  IF last = Never THEN 0
  ELSE IF volume < last THEN volume + last ELSE volume - last

\* Nothing on the first quote and when the day's volume fell, else what was
\* added since the last quote.
Delta(last, volume) ==
  IF last = Never \/ volume < last THEN 0 ELSE volume - last

\* A quote with a price.  Its volume may be missing and counts as zero then.
Quote ==
  /\ Asked
  /\ \E missing \in BOOLEAN :
       LET t == symbols[Head(batch) + 1]
           volume == IF missing THEN 0 ELSE day[t]
       IN /\ tick' = [symbol |-> t, volume |-> Delta(lastVolume[t], volume)]
          /\ lastVolume' = [lastVolume EXCEPT ![t] = volume]
          /\ gap' = IF missing THEN gap \cup {t} ELSE gap
  /\ phase' = "publish"
  /\ UNCHANGED unseen

Publish ==
  /\ phase = "publish"
  /\ unseen' = [unseen EXCEPT ![tick.symbol] = @ - tick.volume]
  /\ phase' = "observe"
  /\ UNCHANGED <<pollVars, exchangeVars, tick, lastVolume, gap>>

\* Redis fails: the exception leaves the loop and nothing starts it again.
PublishRaises ==
  /\ phase = "publish"
  /\ phase' = "ended"
  /\ UNCHANGED <<pollVars, exchangeVars, tick, lastVolume, unseen, gap>>

\* on_tick returned, or raised and was logged.
Observe ==
  /\ phase = "observe"
  /\ phase' = "fetch"
  /\ tick' = NoTick
  /\ UNCHANGED <<pollVars, exchangeVars, lastVolume, unseen, gap>>

BatchDone ==
  /\ phase = "fetch" /\ batch = <<>>
  /\ phase' = "sleep"
  /\ UNCHANGED <<pollVars, exchangeVars, tick, lastVolume, unseen, gap>>

\* stop() cancels the task at whichever await it is.
Stop ==
  /\ phase \notin {"new", "ended"}
  /\ phase' = "ended"
  /\ UNCHANGED <<pollVars, exchangeVars, tick, lastVolume, unseen, gap>>

Next ==
  \/ Start \/ PollOneBatch \/ Skip \/ Quote \/ Publish \/ PublishRaises
  \/ Observe \/ BatchDone \/ Stop \/ NewDay
  \/ \E t \in Tickers : Trade(t)

Spec == Init /\ [][Next]_vars

-----------------------------------------------------------------------------
\* Types, and the phases that hold a batch or a tick.
TypeOK ==
  /\ symbols \in Seq(Tickers)
  /\ cursor \in 0..N /\ batch \in Seq(0..N-1)
  /\ phase \in {"new", "sleep", "fetch", "publish", "observe", "ended"}
  /\ phase \in {"new", "sleep"} => batch = <<>>
  /\ phase # "new" => turns \in [0..N-1 -> Nat]
  /\ phase \in {"publish", "observe"} => tick \in [symbol : Tickers, volume : Nat]
  /\ lastVolume \in [Tickers -> Nat \cup {Never}]
  /\ day \in [Tickers -> Nat] /\ moves \in Nat
  /\ unseen \in [Tickers -> Int] /\ gap \subseteq Tickers

\* Round robin is fair whatever the length of the list, the batch size and the
\* failures: at every moment two symbols' numbers of polls differ by one at most.
PollsBalanced ==
  \A p, q \in DOMAIN turns : turns[p] <= turns[q] + 1

\* The published volumes of a symbol never add up to more than was traded since
\* its first quote, over day rollovers, failed publishes and skipped quotes,
\* unless a quote came without a volume: that one re-baselines at zero.
VolumeNeverInflated ==
  \A t \in Tickers : unseen[t] < 0 => t \in gap
=============================================================================
