------------------------ MODULE YahooPublisherProofs ------------------------
(***************************************************************************)
(* The round robin is fair and no volume is published twice, for ticker    *)
(* lists of any length, any batch size and any number of polls.            *)
(*                                                                         *)
(* PollsBalanced is about all positions of the list.  It is inductive with *)
(* the place where the round stands: those before it have been asked once  *)
(* more than the others, the batch goes on from it, round the list, and    *)
(* the cursor is where the batch ends.                                     *)
(* VolumeNeverInflated is inductive with what a quote taken now would add, *)
(* and with the tick that is about to be published.                        *)
(***************************************************************************)
EXTENDS YahooPublisher, FiniteSetTheorems, SequenceTheorems, TLAPS

\* Position x of a list of n, at most once round.
Around(x, n) == IF x < n THEN x ELSE x - n

\* The round stands at c; m rounds are complete.
RoundAt(c, m, n) ==
  /\ turns = [p \in 0..n-1 |-> IF p < c THEN m + 1 ELSE m]
  /\ \A i \in 1..Len(batch) : batch[i] = Around(c + (i - 1), n)
  /\ cursor = Around(c + Len(batch), n)

Standing == \E c \in 0..N-1, m \in Nat : RoundAt(c, m, N)

RoundInv ==
  /\ batch \in Seq(Int)
  /\ phase \in {"new", "sleep"} => batch = <<>>
  /\ phase = "new" => DOMAIN turns = {} /\ cursor = 0
  /\ phase # "new" =>
       /\ N \in Nat
       /\ N = 0 => DOMAIN turns = {} /\ phase = "ended"
       /\ N > 0 => /\ Len(batch) <= N
                   /\ Standing

\* Traded at the exchange and not yet quoted.
Unquoted(t) == IF day[t] >= lastVolume[t] THEN day[t] - lastVolume[t] ELSE 0

\* Quoted and not yet published.
Quoted(t) == IF phase = "publish" /\ tick.symbol = t THEN tick.volume ELSE 0

VolumeType ==
  /\ lastVolume \in [Tickers -> Nat \cup {Never}]
  /\ day \in [Tickers -> Nat]
  /\ unseen \in [Tickers -> Int] /\ gap \subseteq Tickers
  /\ phase = "publish" => tick \in [symbol : Tickers, volume : Nat]

VolumeInv ==
  /\ VolumeType
  /\ \A t \in Tickers \ gap :
       IF lastVolume[t] = Never THEN unseen[t] = 0 /\ Quoted(t) = 0
       ELSE unseen[t] >= Unquoted(t) + Quoted(t)

-----------------------------------------------------------------------------
\* Going round the list is the remainder, for the numbers a batch needs.
LEMMA AroundIsMod ==
  ASSUME NEW n \in Nat \ {0}, NEW x \in Nat, x < 2 * n
  PROVE  x % n = Around(x, n)
<1>1. CASE x < n
  BY <1>1, SMT DEF Around
<1>2. CASE x >= n
  BY <1>2, SMT DEF Around
<1> QED BY <1>1, <1>2

LEMMA ListIsSeq ==
  ASSUME NEW S, NEW n \in Nat, NEW s \in [1..n -> S]
  PROVE  s \in Seq(S) /\ Len(s) = n
  BY SeqDef

\* A list that was loaded has as many symbols as rows were kept.
LEMMA LoadedLength ==
  ASSUME ConstantsOk, NEW rows \in SUBSET Tickers, NEW s \in Loaded(rows)
  PROVE  /\ Len(s) = Cardinality(rows \ Excluded) /\ Len(s) \in Nat
         /\ Len(s) = 0 <=> rows \ Excluded = {}
         /\ s \in Seq(Tickers)
<1>1. IsFiniteSet(rows \ Excluded)
  BY FS_Subset DEF ConstantsOk
<1>2. Cardinality(rows \ Excluded) \in Nat
  BY <1>1, FS_CardinalityType
<1>3. s \in [1..Cardinality(rows \ Excluded) -> Tickers]
  BY DEF Loaded
<1>4. Len(s) = Cardinality(rows \ Excluded) /\ s \in Seq(Tickers)
  BY <1>2, <1>3, ListIsSeq
<1> QED BY <1>1, <1>2, <1>4, FS_EmptySet

-----------------------------------------------------------------------------
\* The round.

LEMMA StandsAt ==
  ASSUME NEW c \in 0..N'-1, NEW m \in Nat,
         turns' = [p \in 0..N'-1 |-> IF p < c THEN m + 1 ELSE m],
         \A i \in 1..Len(batch') : batch'[i] = Around(c + (i - 1), N'),
         cursor' = Around(c + Len(batch'), N')
  PROVE  Standing'
  BY Zenon DEF Standing, RoundAt

\* What leaves list, batch, cursor and counts alone.
LEMMA RoundKept ==
  ASSUME RoundInv, UNCHANGED pollVars, phase # "new", phase' # "new",
         phase' = "sleep" => batch = <<>>, N = 0 => phase' = "ended"
  PROVE  RoundInv'
  BY DEF RoundInv, Standing, RoundAt, pollVars, N

LEMMA RoundUntouched == ASSUME RoundInv, UNCHANGED <<pollVars, phase>> PROVE RoundInv'
  BY DEF RoundInv, Standing, RoundAt, pollVars, N

LEMMA RoundStarts == ASSUME ConstantsOk, RoundInv, Start PROVE RoundInv'
<1>1. PICK rows \in SUBSET Tickers :
        /\ symbols' \in Loaded(rows)
        /\ turns' = [p \in 0..Cardinality(rows \ Excluded) - 1 |-> 0]
        /\ phase' = IF rows \ Excluded = {} THEN "ended" ELSE "sleep"
  BY DEF Start
<1>2. N' = Cardinality(rows \ Excluded) /\ N' \in Nat /\ (N' = 0 <=> rows \ Excluded = {})
  BY <1>1, LoadedLength DEF N
<1>3. phase = "new" /\ batch = <<>> /\ cursor = 0 /\ UNCHANGED <<batch, cursor>>
  BY DEF Start, RoundInv
<1>4. CASE N' = 0
  <2>1. DOMAIN turns' = {}
    BY <1>1, <1>2, <1>4
  <2>2. phase' = "ended"
    BY <1>1, <1>2, <1>4
  <2>3. batch' \in Seq(Int)
    BY <1>3, EmptySeq
  <2> QED BY <1>4, <2>1, <2>2, <2>3 DEF RoundInv
<1>5. CASE N' > 0
  <2>1. turns' = [p \in 0..N'-1 |-> IF p < 0 THEN 0 + 1 ELSE 0]
    BY <1>1, <1>2
  <2>2. batch' = <<>> /\ cursor' = 0 /\ cursor' = Around(0 + Len(batch'), N')
    BY <1>2, <1>3, <1>5 DEF Around
  <2>3. Standing'
    <3>1. 0 \in 0..N'-1 /\ 0 \in Nat
      BY <1>2, <1>5
    <3>2. \A i \in 1..Len(batch') : batch'[i] = Around(0 + (i - 1), N')
      BY <2>2
    <3> QED BY <2>1, <2>2, <3>1, <3>2, StandsAt, Zenon
  <2>4. phase' = "sleep" /\ N' # 0
    BY <1>1, <1>2, <1>5
  <2>5. Len(batch') <= N' /\ batch' \in Seq(Int)
    BY <1>2, <2>2, EmptySeq
  <2>6. N' \in Nat /\ phase' # "new" /\ batch' = <<>>
    BY <1>2, <2>2, <2>4
  <2> QED BY <2>3, <2>4, <2>5, <2>6, Zenon DEF RoundInv
<1> QED BY <1>2, <1>4, <1>5

LEMMA RoundPolls == ASSUME ConstantsOk, RoundInv, PollOneBatch PROVE RoundInv'
<1>1. N \in Nat \ {0} /\ phase = "sleep" /\ batch = <<>> /\ UNCHANGED <<symbols, turns>> /\ N' = N
  BY DEF PollOneBatch, RoundInv, N
<1>2. PICK c \in 0..N-1, m \in Nat : RoundAt(c, m, N)
  BY <1>1 DEF RoundInv, Standing
<1>3. cursor = c
  BY <1>1, <1>2 DEF RoundAt, Around
<1> DEFINE k == IF BatchSize < N THEN BatchSize ELSE N
<1>4. k \in 1..N
  BY <1>1 DEF ConstantsOk
<1>5. \A i \in 1..k : (c + (i - 1)) % N = Around(c + (i - 1), N) /\ Around(c + (i - 1), N) \in Int
  <2> SUFFICES ASSUME NEW i \in 1..k
               PROVE  (c + (i - 1)) % N = Around(c + (i - 1), N) /\ Around(c + (i - 1), N) \in Int
    OBVIOUS
  <2>1. c + (i - 1) \in Nat /\ c + (i - 1) < 2 * N
    BY <1>1, <1>2, <1>4
  <2>2. (c + (i - 1)) % N = Around(c + (i - 1), N)
    BY <1>1, <2>1, AroundIsMod
  <2> QED BY <1>1, <2>1, <2>2 DEF Around
<1>6. batch' = [i \in 1..k |-> Around(c + (i - 1), N)]
  BY <1>3, <1>5 DEF PollOneBatch, Batch
<1>7. Len(batch') = k /\ batch' \in Seq(Int)
  <2> HIDE DEF k
  <2>1. k \in Nat
    BY <1>1, <1>4
  <2>2. batch' \in [1..k -> Int]
    BY <1>5, <1>6, Zenon
  <2> QED BY <2>1, <2>2, ListIsSeq
<1>8. cursor' = Around(c + k, N)
  <2>1. c + k \in Nat /\ c + k < 2 * N
    BY <1>1, <1>2, <1>4
  <2>2. cursor' = (c + k) % N
    BY <1>3, <1>6, <1>7 DEF PollOneBatch
  <2> QED BY <1>1, <2>1, <2>2, AroundIsMod
<1>9. Standing'
  <2> HIDE DEF k
  <2>1. \A i \in 1..Len(batch') : batch'[i] = Around(c + (i - 1), N)
    BY <1>6, <1>7
  <2>2. turns' = [p \in 0..N-1 |-> IF p < c THEN m + 1 ELSE m]
    BY <1>1, <1>2 DEF RoundAt
  <2> QED BY <1>1, <1>2, <1>7, <1>8, <2>1, <2>2, StandsAt
<1>10. phase' = "fetch"
  BY DEF PollOneBatch
<1> HIDE DEF k
<1> QED BY <1>1, <1>4, <1>7, <1>9, <1>10 DEF RoundInv

LEMMA RoundAsks == ASSUME RoundInv, Asked, phase' \notin {"new", "sleep"} PROVE RoundInv'
<1>1. N \in Nat \ {0} /\ Len(batch) <= N /\ batch # <<>> /\ UNCHANGED <<symbols, cursor>> /\ N' = N
  BY DEF Asked, RoundInv, N
<1>2. PICK c \in 0..N-1, m \in Nat : RoundAt(c, m, N)
  BY <1>1 DEF RoundInv, Standing, Asked
<1>3. Len(batch) \in Nat \ {0} /\ batch' = Tail(batch) /\ Head(batch) = batch[1]
  BY <1>1 DEF Asked, RoundInv
<1>4. Head(batch) = c
  BY <1>1, <1>2, <1>3 DEF RoundAt, Around
<1>5. turns' = [turns EXCEPT ![c] = turns[c] + 1]
  BY <1>4 DEF Asked
<1>6. Len(batch') = Len(batch) - 1 /\ batch' \in Seq(Int)
      /\ \A i \in 1..Len(batch') : batch'[i] = batch[i + 1]
  BY <1>1, <1>3 DEF RoundInv
<1> DEFINE d == IF c + 1 < N THEN c + 1 ELSE 0
           k == IF c + 1 < N THEN m ELSE m + 1
<1>7. turns' = [p \in 0..N-1 |-> IF p < d THEN k + 1 ELSE k]
  <2>1. turns = [p \in 0..N-1 |-> IF p < c THEN m + 1 ELSE m]
    BY <1>2 DEF RoundAt
  <2>2. turns' = [p \in 0..N-1 |-> IF p = c THEN m + 1 ELSE IF p < c THEN m + 1 ELSE m]
    <3>1. turns[c] = m
      BY <1>1, <1>2, <2>1
    <3>2. turns' = [turns EXCEPT ![c] = m + 1]
      BY <1>5, <3>1, Zenon
    <3>3. DOMAIN turns = 0..N-1 /\ \A p \in 0..N-1 : turns[p] = IF p < c THEN m + 1 ELSE m
      BY <2>1, Zenon
    <3> QED BY <3>2, <3>3, Zenon
  <2>3. [p \in 0..N-1 |-> IF p = c THEN m + 1 ELSE IF p < c THEN m + 1 ELSE m]
          = [p \in 0..N-1 |-> IF p < d THEN k + 1 ELSE k]
    BY <1>1, <1>2
  <2> QED BY <2>2, <2>3, Zenon
<1>8. ASSUME NEW i \in 1..Len(batch')
      PROVE  batch'[i] = Around(d + (i - 1), N)
  <2>1. batch'[i] = Around(c + i, N)
    <3>1. i + 1 \in 1..Len(batch) /\ c + ((i + 1) - 1) = c + i
      BY <1>2, <1>3, <1>6
    <3> QED BY <1>2, <1>6, <3>1 DEF RoundAt
  <2> QED BY <1>1, <1>2, <1>3, <1>6, <2>1 DEF Around
<1>9. cursor' = Around(d + Len(batch'), N)
  BY <1>1, <1>2, <1>3, <1>6 DEF RoundAt, Around
<1>10. d \in 0..N-1 /\ k \in Nat
  BY <1>1, <1>2
<1> HIDE DEF d, k
<1>11. Standing'
  BY <1>1, <1>7, <1>8, <1>9, <1>10, StandsAt
<1>12. N' \in Nat /\ N' # 0 /\ Len(batch') <= N' /\ phase' # "new" /\ phase' # "sleep"
  BY <1>1, <1>3, <1>6
<1> QED BY <1>6, <1>11, <1>12, Zenon DEF RoundInv

LEMMA RoundStep == ASSUME ConstantsOk, RoundInv, [Next]_vars PROVE RoundInv'
<1>1. CASE UNCHANGED vars
  BY <1>1, RoundUntouched DEF vars
<1>2. CASE NewDay \/ \E t \in Tickers : Trade(t)
  <2>1. UNCHANGED <<pollVars, phase>>
    BY <1>2, Zenon DEF NewDay, Trade
  <2> QED BY <2>1, RoundUntouched
<1>3. CASE Start
  BY <1>3, RoundStarts
<1>4. CASE PollOneBatch
  BY <1>4, RoundPolls
<1>5. CASE Skip \/ Quote
  BY <1>5, RoundAsks DEF Skip, Quote, Asked
<1>6. CASE Publish \/ PublishRaises \/ Observe \/ BatchDone \/ Stop
  <2>1. N = 0 => phase = "ended" \/ phase = "new"
    BY DEF RoundInv
  <2> QED BY <1>6, <2>1, RoundKept DEF Publish, PublishRaises, Observe, BatchDone, Stop
<1> QED BY <1>1, <1>2, <1>3, <1>4, <1>5, <1>6 DEF Next

LEMMA RoundBalances == RoundInv => PollsBalanced
<1>1. CASE DOMAIN turns = {}
  BY <1>1 DEF PollsBalanced
<1>2. ASSUME RoundInv, DOMAIN turns # {} PROVE PollsBalanced
  <2>1. N \in Nat \ {0} /\ \E c \in 0..N-1, m \in Nat : RoundAt(c, m, N)
    BY <1>2 DEF RoundInv, Standing
  <2> QED BY <2>1 DEF RoundAt, PollsBalanced
<1> QED BY <1>1, <1>2

\* The round robin of _poll_one_batch is fair, whatever the length of the list, the batch
\* size and the number of polls.
THEOREM RoundIsFair == ASSUME ConstantsOk PROVE Spec => []PollsBalanced
<1>1. Init => RoundInv
  BY DEF Init, RoundInv
<1>2. RoundInv /\ [Next]_vars => RoundInv'
  BY RoundStep
<1> QED BY <1>1, <1>2, RoundBalances, PTL DEF Spec

-----------------------------------------------------------------------------
\* Volumes.

\* What leaves day, quotes and ledger alone; no tick is made ready to be published.
LEMMA VolumeKept ==
  ASSUME VolumeInv, UNCHANGED <<day, lastVolume, unseen, gap>>,
         phase' = "publish" => phase = "publish" /\ tick' = tick
  PROVE  VolumeInv'
<1>1. VolumeType'
  BY DEF VolumeInv, VolumeType
<1>2. ASSUME NEW t \in Tickers
      PROVE  Unquoted(t)' = Unquoted(t) /\ (Quoted(t)' = Quoted(t) \/ Quoted(t)' = 0)
  BY DEF Unquoted, Quoted
<1>3. \A t \in Tickers : Quoted(t) \in Nat
  BY DEF VolumeInv, VolumeType, Quoted
<1>4. ASSUME NEW t \in Tickers \ gap, lastVolume[t] # Never
      PROVE  unseen[t] >= Unquoted(t) + Quoted(t)'
  <2>1. unseen[t] >= Unquoted(t) + Quoted(t) /\ unseen[t] \in Int /\ Unquoted(t) \in Int
    BY <1>4 DEF VolumeInv, VolumeType, Unquoted
  <2> QED BY <1>2, <1>3, <2>1
<1> QED BY <1>1, <1>2, <1>4 DEF VolumeInv

LEMMA VolumeOfTrade == ASSUME VolumeInv, NEW u \in Tickers, Trade(u) PROVE VolumeInv'
<1>1. /\ day' = [day EXCEPT ![u] = day[u] + 1]
      /\ unseen' = [unseen EXCEPT ![u] = IF lastVolume[u] = Never THEN unseen[u] ELSE unseen[u] + 1]
      /\ UNCHANGED <<phase, tick, lastVolume, gap>>
  BY Zenon DEF Trade
<1>2. VolumeType'
  BY <1>1 DEF VolumeInv, VolumeType
<1>3. ASSUME NEW t \in Tickers \ gap
      PROVE  /\ Quoted(t)' = Quoted(t) /\ Quoted(t) \in Nat
             /\ lastVolume[t] # Never => lastVolume[t] \in Nat
             /\ day[t] \in Nat /\ unseen[t] \in Int
  BY <1>1 DEF Quoted, VolumeInv, VolumeType
<1>4. ASSUME NEW t \in Tickers \ gap, t = u
      PROVE  IF lastVolume'[t] = Never THEN unseen'[t] = 0 /\ Quoted(t)' = 0
             ELSE unseen'[t] >= Unquoted(t)' + Quoted(t)'
  <2>1. day'[t] = day[t] + 1 /\ lastVolume'[t] = lastVolume[t]
        /\ unseen'[t] = IF lastVolume[t] = Never THEN unseen[t] ELSE unseen[t] + 1
    BY <1>1, <1>4 DEF VolumeInv, VolumeType
  <2> QED BY <1>3, <2>1 DEF VolumeInv, Unquoted
<1>5. ASSUME NEW t \in Tickers \ gap, t # u
      PROVE  IF lastVolume'[t] = Never THEN unseen'[t] = 0 /\ Quoted(t)' = 0
             ELSE unseen'[t] >= Unquoted(t)' + Quoted(t)'
  <2>1. day'[t] = day[t] /\ lastVolume'[t] = lastVolume[t] /\ unseen'[t] = unseen[t]
    BY <1>1, <1>5 DEF VolumeInv, VolumeType
  <2> QED BY <1>3, <2>1 DEF VolumeInv, Unquoted
<1> QED BY <1>1, <1>2, <1>4, <1>5 DEF VolumeInv

LEMMA VolumeOfNewDay == ASSUME VolumeInv, NewDay PROVE VolumeInv'
<1>1. VolumeType'
  BY DEF NewDay, VolumeInv, VolumeType
<1>2. ASSUME NEW t \in Tickers
      PROVE  /\ Quoted(t)' = Quoted(t) /\ Quoted(t) \in Nat
             /\ lastVolume[t] # Never => lastVolume[t] \in Nat
             /\ day[t] \in Nat /\ unseen[t] \in Int
  BY DEF NewDay, Quoted, VolumeInv, VolumeType
<1>3. ASSUME NEW t \in Tickers \ gap
      PROVE  IF lastVolume'[t] = Never THEN unseen'[t] = 0 /\ Quoted(t)' = 0
             ELSE unseen'[t] >= Unquoted(t)' + Quoted(t)'
  <2>1. day'[t] = 0 /\ lastVolume'[t] = lastVolume[t] /\ unseen'[t] = unseen[t]
    BY DEF NewDay
  <2> QED BY <1>2, <2>1 DEF VolumeInv, Unquoted
<1> QED BY <1>1, <1>3 DEF VolumeInv, NewDay

LEMMA VolumeOfQuote ==
  ASSUME VolumeInv, phase = "fetch", NEW u \in Tickers, NEW missing \in BOOLEAN,
         tick' = [symbol |-> u, volume |-> Delta(lastVolume[u], IF missing THEN 0 ELSE day[u])],
         lastVolume' = [lastVolume EXCEPT ![u] = IF missing THEN 0 ELSE day[u]],
         gap' = IF missing THEN gap \cup {u} ELSE gap,
         phase' = "publish", UNCHANGED <<unseen, day>>
  PROVE  VolumeInv'
<1>1. Delta(lastVolume[u], IF missing THEN 0 ELSE day[u]) \in Nat
  BY DEF VolumeInv, VolumeType, Delta, Never
<1>2. VolumeType'
  BY <1>1 DEF VolumeInv, VolumeType
<1>3. ASSUME NEW t \in Tickers \ gap, t = u, ~missing
      PROVE  IF lastVolume'[t] = Never THEN unseen'[t] = 0 /\ Quoted(t)' = 0
             ELSE unseen'[t] >= Unquoted(t)' + Quoted(t)'
  <2>1. lastVolume'[t] = day[t] /\ day'[t] = day[t] /\ unseen'[t] = unseen[t]
        /\ Quoted(t)' = Delta(lastVolume[t], day[t]) /\ Quoted(t) = 0
    BY <1>3 DEF VolumeInv, VolumeType, Quoted
  <2>2. /\ lastVolume[t] # Never => lastVolume[t] \in Nat
        /\ day[t] \in Nat /\ unseen[t] \in Int
    BY DEF VolumeInv, VolumeType
  <2> QED BY <2>1, <2>2 DEF VolumeInv, Unquoted, Delta, Never
<1>4. ASSUME NEW t \in Tickers \ gap, t # u
      PROVE  IF lastVolume'[t] = Never THEN unseen'[t] = 0 /\ Quoted(t)' = 0
             ELSE unseen'[t] >= Unquoted(t)' + Quoted(t)'
  <2>1. lastVolume'[t] = lastVolume[t] /\ day'[t] = day[t] /\ unseen'[t] = unseen[t]
        /\ Quoted(t)' = 0 /\ Quoted(t) = 0
    BY <1>4 DEF VolumeInv, VolumeType, Quoted
  <2> QED BY <2>1 DEF VolumeInv, Unquoted
<1> QED BY <1>2, <1>3, <1>4 DEF VolumeInv

LEMMA VolumeOfPublish == ASSUME VolumeInv, Publish PROVE VolumeInv'
<1>1. /\ tick \in [symbol : Tickers, volume : Nat] /\ phase = "publish" /\ phase' = "observe"
      /\ unseen' = [unseen EXCEPT ![tick.symbol] = unseen[tick.symbol] - tick.volume]
      /\ UNCHANGED <<day, lastVolume, gap>>
  BY DEF VolumeInv, VolumeType, Publish, exchangeVars
<1>2. VolumeType'
  BY <1>1 DEF VolumeInv, VolumeType
<1>3. ASSUME NEW t \in Tickers \ gap
      PROVE  IF lastVolume'[t] = Never THEN unseen'[t] = 0 /\ Quoted(t)' = 0
             ELSE unseen'[t] >= Unquoted(t)' + Quoted(t)'
  <2>1. Quoted(t)' = 0 /\ Quoted(t) \in Nat /\ unseen[t] \in Int /\ Unquoted(t)' = Unquoted(t)
        /\ lastVolume'[t] = lastVolume[t]
    BY <1>1 DEF VolumeInv, VolumeType, Quoted, Unquoted
  <2>2. unseen'[t] = unseen[t] - Quoted(t)
    BY <1>1 DEF VolumeInv, VolumeType, Quoted
  <2>3. lastVolume[t] # Never => Unquoted(t) \in Int
    BY DEF VolumeInv, VolumeType, Unquoted
  <2> QED BY <2>1, <2>2, <2>3 DEF VolumeInv
<1> QED BY <1>1, <1>2, <1>3 DEF VolumeInv

\* Whoever is asked is in the list.
LEMMA AskedIsTicker == ASSUME RoundInv, symbols \in Seq(Tickers), Asked
                       PROVE  symbols[Head(batch) + 1] \in Tickers
<1>1. N \in Nat \ {0} /\ Len(batch) <= N /\ batch # <<>>
  BY DEF Asked, RoundInv, N
<1>2. PICK c \in 0..N-1, m \in Nat : RoundAt(c, m, N)
  BY <1>1 DEF RoundInv, Standing, Asked
<1>3. Len(batch) \in Nat \ {0} /\ Head(batch) = batch[1]
  BY <1>1 DEF Asked, RoundInv
<1>4. Head(batch) = c
  BY <1>1, <1>2, <1>3 DEF RoundAt, Around
<1>5. Head(batch) + 1 \in 1..Len(symbols)
  BY <1>1, <1>2, <1>4 DEF N
<1> QED BY <1>5, ElementOfSeq

SymbolsInv == symbols \in Seq(Tickers)

LEMMA SymbolsStep == ASSUME ConstantsOk, SymbolsInv, [Next]_vars PROVE SymbolsInv'
<1>1. CASE Start
  <2>1. PICK rows \in SUBSET Tickers : symbols' \in Loaded(rows)
    BY <1>1 DEF Start
  <2> QED BY <2>1, LoadedLength DEF SymbolsInv
<1>2. CASE ~Start
  <2>1. UNCHANGED symbols
    BY <1>2, Zenon DEF Next, vars, pollVars, PollOneBatch, Skip, Quote, Asked, Publish,
                       PublishRaises, Observe, BatchDone, Stop, NewDay, Trade
  <2> QED BY <2>1 DEF SymbolsInv
<1> QED BY <1>1, <1>2

LEMMA VolumeStep ==
  ASSUME VolumeInv, RoundInv, SymbolsInv, [Next]_vars PROVE VolumeInv'
<1>1. CASE NewDay
  BY <1>1, VolumeOfNewDay
<1>2. CASE \E t \in Tickers : Trade(t)
  BY <1>2, VolumeOfTrade
<1>3. CASE Publish
  BY <1>3, VolumeOfPublish
<1>4. CASE Quote
  <2>1. PICK missing \in BOOLEAN :
          LET t == symbols[Head(batch) + 1]
              volume == IF missing THEN 0 ELSE day[t]
          IN /\ tick' = [symbol |-> t, volume |-> Delta(lastVolume[t], volume)]
             /\ lastVolume' = [lastVolume EXCEPT ![t] = volume]
             /\ gap' = IF missing THEN gap \cup {t} ELSE gap
    BY <1>4 DEF Quote
  <2>2. symbols[Head(batch) + 1] \in Tickers
    BY <1>4, AskedIsTicker DEF Quote, SymbolsInv
  <2>3. phase = "fetch" /\ phase' = "publish" /\ UNCHANGED <<unseen, day>>
    BY <1>4 DEF Quote, Asked, exchangeVars
  <2> QED BY <2>1, <2>2, <2>3, VolumeOfQuote
<1>5. CASE Start \/ PollOneBatch \/ Skip
  <2>1. UNCHANGED <<day, lastVolume, unseen, gap>>
    BY <1>5 DEF Start, PollOneBatch, Skip, Asked, exchangeVars
  <2>2. phase' # "publish"
    BY <1>5 DEF Start, PollOneBatch, Skip, Asked
  <2> QED BY <2>1, <2>2, VolumeKept
<1>6. CASE PublishRaises \/ Observe \/ BatchDone \/ Stop
  <2>1. UNCHANGED <<day, lastVolume, unseen, gap>> /\ phase' # "publish"
    BY <1>6 DEF PublishRaises, Observe, BatchDone, Stop, exchangeVars
  <2> QED BY <2>1, VolumeKept
<1>7. CASE UNCHANGED vars
  BY <1>7, VolumeKept DEF vars, exchangeVars
<1> QED BY <1>1, <1>2, <1>3, <1>4, <1>5, <1>6, <1>7 DEF Next

LEMMA VolumeHolds == VolumeInv => VolumeNeverInflated
<1> SUFFICES ASSUME VolumeInv, NEW t \in Tickers, t \notin gap PROVE ~(unseen[t] < 0)
  BY DEF VolumeNeverInflated
<1>1. Quoted(t) \in Nat /\ unseen[t] \in Int /\ (lastVolume[t] # Never => Unquoted(t) \in Nat)
  BY DEF VolumeInv, VolumeType, Quoted, Unquoted
<1> QED BY <1>1 DEF VolumeInv

\* The published volumes of a symbol never add up to more than was traded, for any tickers,
\* any day's volumes and any order of trades, rollovers, polls and failures (_fetch_one_tick).
THEOREM VolumeIsKept == ASSUME ConstantsOk PROVE Spec => []VolumeNeverInflated
<1> DEFINE Inv == VolumeInv /\ RoundInv /\ SymbolsInv
<1>1. Init => Inv
  BY EmptySeq DEF Init, VolumeInv, VolumeType, Quoted, RoundInv, SymbolsInv
<1>2. Inv /\ [Next]_vars => Inv'
  BY RoundStep, SymbolsStep, VolumeStep
<1>3. Inv => VolumeNeverInflated
  BY VolumeHolds
<1> HIDE DEF Inv
<1> QED BY <1>1, <1>2, <1>3, PTL DEF Spec

-----------------------------------------------------------------------------
\* Types.

\* The phases, the tick that was published, and a publisher that has nothing to poll.
PhaseInv ==
  /\ moves \in Nat /\ phase \in {"new", "sleep", "fetch", "publish", "observe", "ended"}
  /\ phase = "observe" => tick \in [symbol : Tickers, volume : Nat]
  /\ phase = "new" => N = 0
  /\ N = 0 => batch = <<>> /\ cursor = 0 /\ (phase # "new" => turns \in [0..N-1 -> Nat])

LEMMA PhaseStep ==
  ASSUME ConstantsOk, RoundInv, VolumeInv, PhaseInv, [Next]_vars
  PROVE  PhaseInv'
<1>1. CASE Start
  <2>1. PICK rows \in SUBSET Tickers :
          /\ symbols' \in Loaded(rows)
          /\ turns' = [p \in 0..Cardinality(rows \ Excluded) - 1 |-> 0]
    BY <1>1 DEF Start
  <2>2. turns' \in [0..N'-1 -> Nat]
    BY <2>1, LoadedLength DEF N
  <2>3. phase' \in {"sleep", "ended"} /\ UNCHANGED <<cursor, batch, moves>> /\ phase = "new"
    BY <1>1 DEF Start, exchangeVars
  <2>4. batch = <<>> /\ cursor = 0
    BY <2>3 DEF PhaseInv
  <2> QED BY <2>2, <2>3, <2>4 DEF PhaseInv
<1>2. ASSUME PollOneBatch \/ Skip \/ Quote PROVE N # 0 /\ phase # "new"
  BY <1>2 DEF PollOneBatch, Skip, Quote, Asked, RoundInv
<1>3. CASE PollOneBatch
  BY <1>2, <1>3 DEF PollOneBatch, exchangeVars, PhaseInv, N
<1>4. CASE Skip \/ Quote
  BY <1>2, <1>4 DEF Skip, Quote, Asked, exchangeVars, PhaseInv, N
<1>5. ASSUME UNCHANGED pollVars, moves' \in Nat, phase' \in {"sleep", "fetch", "publish", "observe", "ended"},
             phase' = "observe" => tick' \in [symbol : Tickers, volume : Nat],
             phase # "new"
      PROVE  PhaseInv'
  BY <1>5 DEF PhaseInv, pollVars, N
<1>6. CASE Publish
  <2>1. UNCHANGED <<pollVars, moves, tick>> /\ phase' = "observe" /\ phase = "publish"
    BY <1>6 DEF Publish, exchangeVars
  <2>2. tick \in [symbol : Tickers, volume : Nat]
    BY <2>1 DEF VolumeInv, VolumeType
  <2> QED BY <1>5, <2>1, <2>2 DEF PhaseInv
<1>7. CASE PublishRaises \/ Observe \/ BatchDone \/ Stop
  <2>1. UNCHANGED <<pollVars, moves>> /\ phase' \in {"fetch", "sleep", "ended"} /\ phase # "new"
    BY <1>7 DEF PublishRaises, Observe, BatchDone, Stop, exchangeVars
  <2> QED BY <1>5, <2>1 DEF PhaseInv
<1>8. CASE NewDay \/ \E t \in Tickers : Trade(t)
  <2>1. UNCHANGED <<pollVars, phase, tick>> /\ moves' = moves + 1
    BY <1>8 DEF NewDay, Trade
  <2> QED BY <2>1 DEF PhaseInv, pollVars, N
<1>9. CASE UNCHANGED vars
  BY <1>9 DEF vars, pollVars, exchangeVars, PhaseInv, N
<1> QED BY <1>1, <1>3, <1>4, <1>6, <1>7, <1>8, <1>9 DEF Next

\* The batch holds positions of the list, and the cursor is one of them.
LEMMA PositionsOk ==
  ASSUME RoundInv, PhaseInv, symbols \in Seq(Tickers)
  PROVE  /\ cursor \in 0..N /\ batch \in Seq(0..N-1)
         /\ phase # "new" => turns \in [0..N-1 -> Nat]
<1>1. N \in Nat
  BY DEF N
<1>2. CASE N = 0
  BY <1>2, EmptySeq DEF PhaseInv
<1>3. CASE N # 0
  <2>1. phase # "new" /\ batch \in Seq(Int) /\ Len(batch) \in Nat /\ Len(batch) <= N /\ Standing
    BY <1>1, <1>3 DEF PhaseInv, RoundInv
  <2>2. PICK c \in 0..N-1, m \in Nat : RoundAt(c, m, N)
    BY <2>1 DEF Standing
  <2>3. \A x \in Nat : x < 2 * N => Around(x, N) \in 0..N-1
    BY <1>1, <1>3 DEF Around
  <2>4. turns \in [0..N-1 -> Nat]
    BY <2>2 DEF RoundAt
  <2>5. cursor \in 0..N
    <3>1. c + Len(batch) \in Nat /\ c + Len(batch) < 2 * N
      BY <1>1, <2>1, <2>2
    <3> QED BY <1>1, <2>2, <2>3, <3>1 DEF RoundAt
  <2>6. ASSUME NEW i \in 1..Len(batch) PROVE batch[i] \in 0..N-1
    <3>1. c + (i - 1) \in Nat /\ c + (i - 1) < 2 * N
      BY <1>1, <2>1, <2>2
    <3> QED BY <2>2, <2>3, <3>1 DEF RoundAt
  <2>7. batch \in Seq(0..N-1)
    <3>1. batch \in [1..Len(batch) -> Int]
      BY <2>1, LenProperties
    <3>2. batch \in [1..Len(batch) -> 0..N-1]
      BY <2>6, <3>1
    <3> QED BY <2>1, <3>2, ListIsSeq
  <2> QED BY <2>1, <2>4, <2>5, <2>7
<1> QED BY <1>2, <1>3

PublisherInv == VolumeInv /\ RoundInv /\ SymbolsInv /\ PhaseInv

LEMMA PublisherStart == ASSUME Init PROVE PublisherInv
  BY EmptySeq DEF Init, PublisherInv, VolumeInv, VolumeType, Quoted, RoundInv, SymbolsInv, PhaseInv, N

LEMMA PublisherStep == ASSUME ConstantsOk, PublisherInv, [Next]_vars PROVE PublisherInv'
  BY RoundStep, SymbolsStep, VolumeStep, PhaseStep DEF PublisherInv

LEMMA PublisherTypes == ASSUME PublisherInv PROVE TypeOK
<1>1. VolumeType /\ PhaseInv /\ symbols \in Seq(Tickers)
  BY DEF PublisherInv, VolumeInv, SymbolsInv
<1>2. phase \in {"new", "sleep"} => batch = <<>>
  BY DEF PublisherInv, RoundInv
<1> QED BY <1>1, <1>2, PositionsOk DEF TypeOK, VolumeType, PhaseInv, PublisherInv

\* Type correctness of the Yahoo publishers: a batch holds positions of the list only, so that
\* _poll_one_batch never indexes outside of _symbols, and every position has been counted.
THEOREM TypeCorrect == ASSUME ConstantsOk PROVE Spec => []TypeOK
<1>1. Init => PublisherInv
  BY PublisherStart
<1>2. PublisherInv /\ [Next]_vars => PublisherInv'
  BY PublisherStep
<1>3. PublisherInv => TypeOK
  BY PublisherTypes
<1> QED BY <1>1, <1>2, <1>3, PTL DEF Spec
=============================================================================
